---------------------------- MODULE WorkflowRuns ----------------------------
(***************************************************************************)
(* Runs that a workflow outside keeps over HTTP, where a request may be    *)
(* sent again, arrive late or be lost: it starts one under an id of its    *)
(* own, appends to its trace, and finishes it with the intake Run that did *)
(* the writing.  Slack interactions are finished the same way, and Runs of *)
(* any kind are reviewed and charged with their model calls.               *)
(***************************************************************************)
EXTENDS SourceIntake

RunIs(id, kind) == id \in OfTab("run") /\ row[id].kind = kind
Answered(q, how) == Said(q, how, {q.run})
Rewrite(q, how, new) ==
    /\ ~Fenced(q.run, new)
    /\ row' = Only(q.run, new) ++ row
    /\ Answered(q, how) /\ OneStep(q)

\* start_workflow_run: inserted unless the id exists, then compared.
Start(q) ==
    LET new == NewRun("workflow", "running", [asked |-> q.input, chat |-> q.chat]) IN
    /\ q.do = "start" /\ ~Fenced(q.run, new)
    /\ q.run \notin DOMAIN row => q.chat \in Objects("chat") \cup {None}
    /\ row' = row ++ Only(q.run, new)
    /\ Answered(q, IF q.run \in DOMAIN row => RunIs(q.run, "workflow") /\ row[q.run].asked = q.input /\ row[q.run].chat = q.chat
                   THEN "started" ELSE "refused")
    /\ OneStep(q)

\* An entry of the trace, with how many there were before it.
Appended(r, entry, says) ==
    IF \E k \in 0..Cardinality(r.trace) : <<entry, k>> \in r.trace THEN r
    ELSE [r EXCEPT !.trace = @ \cup {<<entry, Cardinality(@)>>}, !.says = @ \cup says]

\* append_workflow_trace: in one statement, whatever the status of the Run.
Trace(q) ==
    /\ q.do = "trace" /\ RunIs(q.run, "workflow")
    /\ Rewrite(q, "appended", Appended(row[q.run], q.entry, q.says))

\* append_external_trace and record_usage: for Runs of any kind.
Charge(q) ==
    /\ q.do = "charge" /\ q.run \in OfTab("run")
    /\ Rewrite(q, "appended", Appended(row[q.run], q.entry, {}))

\* The intake Run of the workflow, that no other has.
ChildOf(run, child) ==
    /\ RunIs(child, "intake") /\ row[child].manifest.key = "workflow:" \o run
    /\ row[child].parent \in {None, run}

\* Fault: the status of the Run is not looked at.
FinishedAgain(q) ==
    /\ q.do = "finish" /\ RunIs(q.run, "workflow")
    /\ q.child # None => ChildOf(q.run, q.child)
    /\ row' = Only(q.run, [row[q.run] EXCEPT !.status = q.status]) ++ row
    /\ Answered(q, "finished") /\ OneStep(q)

\* finish_workflow_run locks the Run: the first outcome stands.
Finish(q) ==
    /\ q.do = "finish" /\ RunIs(q.run, "workflow")
    /\ IF row[q.run].status = "running"
       THEN /\ ~Fenced(q.run, row[q.run])
            /\ q.child # None => ChildOf(q.run, q.child)
            /\ q.primary \in OfTab("object") \cup {None}
            /\ LET done == [row[q.run] EXCEPT !.status = q.status, !.primary = q.primary,
                               !.says = @ \cup ({q.child, q.primary} \ {None})]
                   child == IF q.child = None THEN << >>
                            ELSE Only(q.child, [row[q.child] EXCEPT !.parent = q.run])
               IN row' = Only(q.run, done) ++ child ++ row
            /\ Answered(q, "finished")
       ELSE /\ Answered(q, IF row[q.run].status = q.status THEN "finished" ELSE "refused")
            /\ UNCHANGED row
    /\ OneStep(q)

\* link_object for what it affected and is live, then finish_slack_interaction,
\* which gives a status only to one that runs.
FinishInteraction(q) ==
    /\ q.do = "finish interaction" /\ RunIs(q.run, "slack_interaction")
    /\ LET r == row[q.run]
           affected == {o \in q.says : Live(o)}
           primary == IF r.primary = None /\ affected # {} THEN CHOOSE o \in affected : TRUE ELSE r.primary
           linked == [r EXCEPT !.says = @ \cup affected]
           done == IF r.status # "running" THEN linked ELSE [linked EXCEPT !.status = q.status, !.primary = primary]
       IN Rewrite(q, "finished", Appended(done, "interaction-finished", {}))

\* review: by the revision of the review.
Review(q) ==
    /\ q.do = "review" /\ q.run \in OfTab("run") /\ row[q.run].review = q.seen
    /\ Rewrite(q, "reviewed", [row[q.run] EXCEPT !.review = @ + 1, !.pinned = q.pinned])
=============================================================================
