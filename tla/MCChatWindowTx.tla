---------------------------- MODULE MCChatWindowTx ---------------------------
(* Instances of ChatWindowTx for TLC. *)
EXTENDS ChatWindowTx

CONSTANTS c1, c2, h1, r1, i1, i2, w1, w2

TxSymmetry == Permutations({i1, i2}) \cup Permutations({w1, w2})
=============================================================================
