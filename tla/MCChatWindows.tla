---------------------------- MODULE MCChatWindows ----------------------------
(* Instances of ChatWindows for TLC. *)
EXTENDS ChatWindows

CONSTANTS s1, s2, x1, h1, h2, r1, t1

MessageSymmetry == Permutations({h1, h2})
=============================================================================
