----------------------------- MODULE MCChatSummary ----------------------------
(* Instances of ChatSummary for TLC. *)
EXTENDS ChatSummary, TLC

CONSTANTS w1, w2

SummarySymmetry == Permutations({w1, w2})
=============================================================================
