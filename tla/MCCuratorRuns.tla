---------------------------- MODULE MCCuratorRuns ----------------------------
(* Instances of CuratorRuns for TLC. *)
EXTENDS CuratorRuns, TLC

CONSTANTS w1, w2, u1, u2, api1, c1, c2, p0, p1

OneChat == [r \in 1..NRuns |-> c1]
\* The oldest Run belongs to the Chat that may be fenced, the later ones do not.
OldestApart == [r \in 1..NRuns |-> IF r = 1 THEN c1 ELSE c2]

RunSymmetry == Permutations({u1, u2}) \cup Permutations({w1, w2})
=============================================================================
