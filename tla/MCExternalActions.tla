-------------------------- MODULE MCExternalActions --------------------------
(* Instances of ExternalActions for TLC. *)
EXTENDS ExternalActions, TLC

CONSTANTS pa, pb, x1, x2, k1, k2, m1, m2, t1, t2

\* Two keys for one identity, one key of two principals for two identities.
Contending == {
    [by |-> pa, key |-> k1, identity |-> x1, metadata |-> m1],
    [by |-> pa, key |-> k2, identity |-> x1, metadata |-> m2],
    [by |-> pb, key |-> k1, identity |-> x2, metadata |-> m1]}

ReportOf(by, key, event, expected) ==
    [by |-> by, key |-> <<event, key>>, action |-> 1, event |-> event, expected |-> expected]

\* The reports of one attempt, a second attempt, and what may overtake them.
Lifecycle ==
    {ReportOf(pa, k1, e, AnyState) : e \in {"previewed", "approved", "attempt_started",
        "accepted", "reconciliation_required", "reconciled_absent", "delivered", "failed"}}
    \cup {ReportOf(pa, k2, "attempt_started", "approved"),
          ReportOf(pa, k2, "previewed", AnyState),
          ReportOf(pa, k2, "reconciled_accepted", AnyState),
          ReportOf(pb, k1, "suppressed", AnyState)}

TxSymmetry == Permutations({t1, t2})
=============================================================================
