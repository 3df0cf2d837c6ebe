---------------------------- MODULE TaskRoutines ----------------------------
(***************************************************************************)
(* Recurring execution of Tasks.  A human or agent approves one revision   *)
(* of a Task and its schedule; the dispatcher claims what is due, starts   *)
(* an execution outside and binds it; the bound thread reports, and a      *)
(* human completes what it left for review.  Any edit of the Task pauses   *)
(* its routine (the trigger of migration 0032).                            *)
(***************************************************************************)
EXTENDS RecordStore

CONSTANT Threads   \* executions the dispatcher may start outside

RoutineOf(t) == t \o ":routine"
Routines == OfTab("routine")
Occurrences == OfTab("occurrence")
OccurrencesOf(t) == {o \in Occurrences : row[o].task = t}
Active(o) == row[o].status \in {"pending", "running"}
Outcomes == {"review", "completed", "blocked", "skipped"}

Startable(t) == row[t].live /\ row[t].status \in {"todo", "review"}
\* What an edit or a report finds approved: this revision, and not paused.
Approved(t, rev) ==
    /\ RoutineOf(t) \in Routines /\ row[RoutineOf(t)].enabled
    /\ row[RoutineOf(t)].approves = rev /\ row[t].rev = rev

\* Fault: a paused routine stays due.
PausedButDue(t) ==
    IF RoutineOf(t) \in Routines THEN [row EXCEPT ![RoutineOf(t)].enabled = FALSE] ELSE row

\* pause_changed_task_routine
Paused(t) ==
    IF RoutineOf(t) \in Routines
    THEN [row EXCEPT ![RoutineOf(t)].enabled = FALSE, ![RoutineOf(t)].next = None] ELSE row

\* update_task, archive_object: any edit of the Task, by revision.
EditTask(q) ==
    /\ q.do = "edit task" /\ q.on \in Objects("task") /\ row[q.on].live
    /\ q.key \notin DOMAIN row
    /\ row' = Only(q.on, q.set ++ [row[q.on] EXCEPT !.rev = @ + 1]) ++ Paused(q.on) ++ Journal(q.key, q.on, {})
    /\ OneStep(q) /\ UNCHANGED answers

\* routine_configure: what it checks outside the transaction it checks of the
\* revision it was asked for, which the transaction compares.
Configure(q) ==
    /\ q.do = "configure" /\ q.on \in Objects("task") /\ row[q.on].live
    /\ q.enabled => Startable(q.on) /\ row[q.on].ready
    /\ row[q.on].rev = q.seen /\ q.key \notin DOMAIN row \cup {RoutineOf(q.on)}
    /\ RoutineOf(q.on) \in DOMAIN row => RoutineOf(q.on) \in Routines
    /\ LET rev == row[q.on].rev + 1
           routine == [tab |-> "routine", task |-> q.on, enabled |-> q.enabled, approves |-> rev,
                       next |-> IF q.enabled THEN now + 1 ELSE None, says |-> {}]
       IN row' = Only(q.on, [row[q.on] EXCEPT !.rev = rev]) ++ Only(RoutineOf(q.on), routine)
                 ++ row ++ Journal(q.key, q.on, {})
    /\ answers' = IF q.enabled THEN answers \cup {[asked |-> q, how |-> "approved", on |-> row[q.on].text]}
                  ELSE answers
    /\ OneStep(q)

(****************************** dispatching ********************************)
\* Fault: only the Tasks that are archived are looked for.
StaleWhenArchived(o) == row[o].status = "pending" /\ ~row[row[o].task].live

Stale(o) == row[o].status = "pending" /\ ~(Approved(row[o].task, row[o].rev) /\ row[row[o].task].live)
Due(t) == row[RoutineOf(t)].enabled /\ row[RoutineOf(t)].next <= now
          /\ Startable(t) /\ Approved(t, row[RoutineOf(t)].approves)
Occurrence(t, at) == t \o ":" \o ToString(at)

\* Fault: no index keeps a Task from having two active occurrences.
InsertsBeside(t, skipped) == Occurrence(t, row[RoutineOf(t)].next) \notin DOMAIN row

\* The two unique indexes: one occurrence per time, one active per Task; an
\* occurrence that conflicts is dropped.
Inserts(t, skipped) ==
    /\ Occurrence(t, row[RoutineOf(t)].next) \notin DOMAIN row
    /\ \A o \in OccurrencesOf(t) : Active(o) => o \in skipped

(* routine_claim_due: what is pending and no longer approved is skipped, what *)
(* is due becomes pending and is due next after now, and all that is active   *)
(* is answered.  The rows it decides on are locked or re-read by the locks: it *)
(* waits for a start that holds a row it would skip.                          *)
ClaimDue ==
    LET skipped == {o \in Occurrences : Stale(o)}
        due == {t \in {row[r].task : r \in Routines} : Due(t)}
        new == {t \in due : Inserts(t, skipped)}
        At(t) == row[RoutineOf(t)].next
        Claimed == [i \in {Occurrence(t, At(t)) : t \in new} |->
                       LET t == CHOOSE x \in new : Occurrence(x, At(x)) = i
                       IN [tab |-> "occurrence", task |-> t, at |-> At(t), rev |-> row[RoutineOf(t)].approves,
                           status |-> "pending", thread |-> None, says |-> {}]]
    IN /\ skipped \cup due # {} /\ skipped \cap DOMAIN starts = {}
       /\ row' = Claimed ++ [o \in skipped |-> [row[o] EXCEPT !.status = "skipped"]]
                 ++ [r \in {RoutineOf(t) : t \in due} |-> [row[r] EXCEPT !.next = now + 1]] ++ row
       /\ UNCHANGED <<now, horizon, starts, calls, todo, answers, reviewed, receipts>>

\* routine_run_update journals on the Task; the same change made again is not
\* told apart.
Updates(o, status, thread) ==
    LET key == o \o ":" \o status \o ":" \o ToString(thread) IN
    /\ row' = [row EXCEPT ![o].status = status, ![o].thread = thread]
              ++ (IF key \in DOMAIN row THEN << >> ELSE Journal(key, row[o].task, {o}))
    /\ UNCHANGED <<now, horizon, calls, answers, reviewed, receipts>>

\* routine_run_read: whether the definition is approved as it was claimed.
Eligible(o) == Approved(row[o].task, row[o].rev) /\ Startable(row[o].task)

Checks(o, thread) ==
    /\ o \notin DOMAIN starts /\ Active(o) /\ row[o].thread # thread
    /\ starts' = Only(o, thread) ++ starts
    /\ UNCHANGED <<row, now, horizon, calls, todo, answers, reviewed, receipts>>
\* Fault: a start is bound whatever has become of the routine.
ChecksNothing(o, thread) == Checks(o, thread)

\* routine_run_update for an execution the dispatcher has started: the transaction
\* locks the occurrence, and finds it eligible by rows it does not lock.
CheckStart(o, thread) == Eligible(o) /\ Checks(o, thread)

\* It binds the execution, in place of one bound before, whatever has become of the
\* Task since. (A transaction that fails instead has done nothing.)
Bind(o) ==
    /\ o \in DOMAIN starts /\ starts' = [p \in DOMAIN starts \ {o} |-> starts[p]]
    /\ Updates(o, "running", starts[o]) /\ UNCHANGED todo

\* Fault: any execution may report, of whatever it was.
ReportsAnyway(q) ==
    /\ q.do = "report" /\ q.on \in Occurrences /\ Sent(q)
    /\ q.who = "agent" => row[q.on].thread = q.thread
    /\ Updates(q.on, q.status, row[q.on].thread) /\ UNCHANGED starts

\* The dispatcher, a bound execution or a human reports an outcome; it waits for
\* a start that holds the row.
Report(q) ==
    /\ q.do = "report" /\ q.on \in Occurrences \ DOMAIN starts /\ Sent(q)
    /\ q.who = "agent" => row[q.on].thread # None /\ row[q.on].thread = q.thread
    /\ \/ Active(q.on)
       \/ row[q.on].status = "review" /\ q.who = "human" /\ q.status = "completed"
    /\ Updates(q.on, q.status, row[q.on].thread) /\ UNCHANGED starts
=============================================================================
