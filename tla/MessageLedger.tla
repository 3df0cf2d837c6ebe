---------------------------- MODULE MessageLedger ----------------------------
(***************************************************************************)
(* What capture promises of a Chat's messages, with no cursor, window or   *)
(* transaction in sight: each message is disposed of at most once, its     *)
(* disposition is final, and no message overtakes an earlier one.          *)
(***************************************************************************)
CONSTANTS Chats, Messages

VARIABLE disposition   \* of every message in every Chat

Disposed == {"queued", "skipped"}
Dispositions == {"absent", "waiting"} \cup Disposed

Init == disposition = [c \in Chats |-> [m \in Messages |-> "absent"]]

MayBecome(d) ==
    CASE d = "absent"  -> Dispositions
      [] d = "waiting" -> {"waiting"} \cup Disposed
      [] OTHER         -> {d}

\* A message stored in this step is disposed of only together with every
\* message that was already waiting in its Chat.
NoOvertaking(c) ==
    \A late, early \in Messages :
        /\ disposition[c][late] = "absent"
        /\ disposition'[c][late] \in Disposed
        /\ disposition[c][early] = "waiting"
        => disposition'[c][early] \in Disposed

Next ==
    /\ disposition' \in [Chats -> [Messages -> Dispositions]]
    /\ \A c \in Chats :
         /\ \A m \in Messages : disposition'[c][m] \in MayBecome(disposition[c][m])
         /\ NoOvertaking(c)

Spec == Init /\ [][Next]_disposition
=============================================================================
