--------------------------- MODULE MCMemoryWorkers ---------------------------
(* Small stores, each with the workers, calls and faults that meet in it.     *)
EXTENDS MemoryWorkers

Memory(cites) == NewObject("memory", "capture", cites)
Link(src, rel, dst) == NewLink(src, rel, dst, "capture")
Plain(kind) == NewObject(kind, "init", {})
Told_(cites) == NewObject("event", "owner", cites)

Act(what) == [do |-> what]
On(what, i) == [do |-> what, on |-> i]
Merge_(m, n) == [do |-> "merge", on |-> m, into |-> n]
Tie(m, rel, o) == [do |-> "connect", on |-> m, rel |-> rel, to |-> o]
LinkUp(src, rel, dst) == [do |-> "link", src |-> src, rel |-> rel, dst |-> dst]
Tell(cites) == [do |-> "event", cites |-> cites]

Scenario_(workers, preview, set, acts, plans, errors) ==
    [workers |-> workers, preview |-> preview, rows |-> set, todo |-> acts, plans |-> plans, errors |-> errors,
     facts |-> "x" :> 0, on |-> ("x" :> "h1" @@ "y" :> "h1" @@ "o1" :> "t1" @@ "o2" :> "t1"), what |-> << >>,
     cut |-> [done |-> FALSE, prints |-> << >>, acts |-> {}]]
Cutover == [done |-> TRUE, prints |-> << >>, acts |-> {}]

Twins == "m1" :> Memory({"x"}) @@ "m2" :> Memory({"x"}) @@ "h1" :> Plain("chat") @@ "t1" :> Plain("task")
         @@ "a1" :> Link("m1", "derived_from", "h1") @@ "a2" :> Link("m2", "derived_from", "h1")
         @@ "a3" :> Link("m1", "about", "t1")
One == "m1" :> Memory({"x"}) @@ "h1" :> Plain("chat") @@ "t1" :> Plain("task")
       @@ "a1" :> Link("m1", "derived_from", "h1") @@ "a3" :> Link("m1", "about", "t1")

\* Review: a plan meets the edits of people, an undo, a crash.
Edits ==
    Scenario_({"r1"}, {}, Twins, {On("edit", "m1"), Act("undo"), Act("crash")},
        {<<Merge_("m1", "m2")>>, <<On("retire", "m2"), On("rewrite", "m1")>>}, {"content"})
LinkEdits ==
    Scenario_({"r1"}, {}, Twins, {On("edit", "a3"), LinkUp("m2", "about", "t1")},
        {<<Merge_("m1", "m2")>>, <<On("disconnect", "a3")>>, <<Tie("m2", "about", "t1")>>}, {})
Protections ==
    Scenario_({"r1"}, {}, Twins, {On("protect", "m2"), On("unlink", "a3")},
        {<<Merge_("m1", "m2")>>, <<Tie("m2", "about", "t1"), On("disconnect", "a3")>>}, {"deferred", "config"})
\* One Memory cites evidence that is not there; calls of the model fail for a while.
Incomplete ==
    Scenario_({"r1"}, {}, [Twins EXCEPT !["m2"] = Memory({"y"})], {On("edit", "t1"), Act("crash")},
        {<<On("rewrite", "m1")>>}, {"transient"})
\* Previews and their approval; two Reviewers and a lease that breaks.
Approvals ==
    Scenario_({"r1"}, {"r1"}, Twins, {Act("approve"), Act("ack"), Act("undo"), On("edit", "m2")}, {<<Merge_("m1", "m2")>>}, {"transient"})
LateApprovals ==
    Scenario_({"r1"}, {"r1"}, One, {Act("approve"), Act("timeout"), On("edit", "t1"), Act("cutover")}, {<<On("retire", "m1")>>}, {})
Leases ==
    Scenario_({"r1", "r2"}, {}, One, {Act("lose"), On("edit", "m1")},
        {<<On("rewrite", "m1")>>, <<On("retire", "m1")>>}, {})

\* Capture, the cutover, extraction.
Recorded(s, what) == [s EXCEPT !.what = what]
Both_ == "o1" :> "created" @@ "o2" :> "deferred"
Cutovers ==
    Recorded(Scenario_({"c1"}, {}, One, {On("outcome", "o1"), On("outcome", "o2"), Act("cutover"), Act("crash")}, {}, {}), Both_)
Handover ==
    Recorded(Scenario_({"c1", "r1"}, {}, One, {On("outcome", "o1"), Act("cutover")}, {<<On("rewrite", "m1")>>}, {}), "o1" :> "created")
After(s) == [s EXCEPT !.cut = Cutover]
Work == "h1" :> Plain("chat") @@ "t1" :> Plain("task")
Extracting ==
    After(Recorded(Scenario_({"c1"}, {}, Work, {On("outcome", "o1"), On("outcome", "o2"), Act("ack"), Act("undo")}, {}, {"transient"}), Both_))
Interactive ==
    After(Recorded(Scenario_({"c1"}, {}, Work, {On("outcome", "o1"), Tell({"o1"}), Act("undo")}, {}, {"transient"}), "o1" :> "created"))
Overlapping ==
    After(Recorded(Scenario_({"c1", "c2"}, {}, Work, {On("outcome", "o1"), On("outcome", "o2"), Act("lose")}, {}, {}), Both_))
\* Synthesis by a worker that applies and one that saves previews.
Reviewable_ == "h1" :> Plain("chat") @@ "v1" :> Told_({"x"}) @@ "m1" :> Memory({"x"}) @@ "a1" :> Link("m1", "derived_from", "v1")
Synthesising_ ==
    After(Scenario_({"r1", "r2"}, {"r2"}, Reviewable_, {Act("approve"), Act("undo")}, {}, {}))
Corrected ==
    After(Scenario_({"r1"}, {}, Reviewable_, {On("correct", "x"), On("edit", "m1"), Act("undo")}, {}, {"deferred"}))
LostLeases ==
    After(Scenario_({"r1", "r2"}, {}, Reviewable_, {Act("lose")}, {}, {}))
MCScenarios == {Edits, LinkEdits, Incomplete, Protections, Approvals, LateApprovals, Leases, Cutovers, Handover, Extracting, Interactive,
                Overlapping, Synthesising_, Corrected, LostLeases}
MCIds == {"h1", "t1", "m1", "m2", "v1", "v2", "a1", "a2", "a3",
          "n1", "n2", "n3", "n4", "n5", "n6", "n7", "n8", "n9", "n10", "n11", "n12"}
=============================================================================
