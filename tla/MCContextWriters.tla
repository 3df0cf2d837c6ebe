-------------------------- MODULE MCContextWriters --------------------------
(* Nine small stores, each with two or three batches and calls that race. *)
EXTENDS ContextWriters, TLC

A(set) == set @@ NewObject([kind |-> "note"], "init")
User(ids) == A([kind |-> "user", holds |-> ids])
Chat(ids) == A([kind |-> "chat", holds |-> ids])
Task(owner) == A([kind |-> "task", owner |-> owner])
Source == A([kind |-> "source"])
Link(src, kind, dst) == NewConnection(src, kind, dst, "init")
Capture(id) == [of |-> id, pred |-> None, body |-> id, document |-> None]

Batch(who, key, ops) ==
    [who |-> who, key |-> key, ops |-> ops, maint |-> FALSE, dry |-> FALSE,
     chat |-> None, thread |-> "t1"]
Caller(who, key, op, on) ==
    [who |-> who, key |-> key, thread |-> "t1", op |-> op, on |-> on, rev |-> 1, links |-> {}]

Do(op, on, rev) == [op |-> op, on |-> on, rev |-> rev]
Set(on, rev, set) == [set |-> set] @@ Do("update_object", on, rev)
Make(on, fields) == [fields |-> fields, link |-> on \o "-about"] @@ Do("create_object", on, 0)
Tie(on, src, kind, dst) == [src |-> src, kind |-> kind, dst |-> dst] @@ Do("create_connection", on, 0)
Move(on, to, what) == [to |-> to, torev |-> 1, what |-> what] @@ Do("reassign", on, 1)

Scenario(rows, arts, batches, sent) == [rows |-> rows, arts |-> arts, batches |-> batches, calls |-> sent]

Identities_ ==
    Scenario("u1" :> User({"x"}) @@ "u2" :> User({}) @@ "u3" :> User({}) @@
             "h1" :> Chat({"y"}) @@ "h2" :> Chat({}), << >>,
        { Batch("ann", "k1", <<Move("u1", "u2", "x"), Move("h1", "h2", "y")>>),
          Batch("bot", "k2", <<Move("u1", "u3", "x")>>),
          Batch("ann", "k1", <<Do("create_category", "g2", 0)>>) },
        { [archive |-> FALSE] @@ Caller("ann", "k3", "update_object", "u2") })

Archives ==
    Scenario("n1" :> A([kind |-> "note"]) @@ "s1" :> Source @@ "h1" :> Chat({}) @@
             "c1" :> Link("n1", "about", "s1"), << >>,
        { Batch("bot", "k1", <<Do("archive_connection", "c1", 1), Do("archive_object", "s1", 1)>>),
          Batch("ann", "k2", <<Do("restore_object", "s1", 2), Do("restore_connection", "c1", 2)>>) },
        { Tie("c2", "h1", "about", "s1") @@ Caller("ann", "k3", "create_connection", "c2"),
          Tie("c3", "n1", "about", "s1") @@ Caller("bot", "k4", "create_connection", "c3"),
          Caller("ann", "k5", "archive_connection", "c1") })

Assertions ==
    Scenario("s1" :> Source @@ "h1" :> Chat({}), << >>,
        { Batch("cat", "k1", <<Tie("c1", "h1", "about", "s1"), Tie("c2", "h1", "about", "s1")>>),
          Batch("bot", "k2", <<Tie("c3", "h1", "about", "s1")>>) },
        { Tie("c4", "h1", "about", "s1") @@ Caller("ann", "k3", "create_connection", "c4") })

Tasks ==
    Scenario("u1" :> User({}) @@ "u2" :> User({}) @@ "w1" :> Task("u1") @@ "w2" :> Task("u2"), << >>,
        { Batch("ann", "k1", <<Set("w1", 1, [owner |-> "u2"]), Do("archive_object", "u1", 1)>>),
          Batch("bot", "k2", <<Set("w1", 1, [status |-> "doing"]), Set("w1", 2, [status |-> "done"])>>) },
        { [set |-> [status |-> "doing"]] @@ Caller("cat", "k3", "update_task", "w1"),
          [set |-> [owner |-> "u1"]] @@ Caller("cat", "k4", "update_task", "w2"),
          [rev |-> 2, set |-> [status |-> "todo"]] @@ Caller("ann", "k5", "update_task", "w1"),
          [rev |-> 2, set |-> [status |-> "done"]] @@ Caller("bot", "k6", "update_task", "w1") })

Evidence ==
    Scenario("s1" :> Source @@ "s2" :> Source @@ "n1" :> A([kind |-> "note"]),
             "a1" :> Capture("s1") @@ "a2" :> Capture("s2"),
        { Batch("ann", "k1", <<Set("n1", 1, [cites |-> "a1"]), Tie("c1", "n1", "derived_from", "s1")>>),
          Batch("bot", "k2", <<[art |-> "a3", pred |-> "a1", body |-> "new"] @@ Do("append_artifact", "s1", 1),
                               [art |-> "a3"] @@ Do("promote_source_artifact", "s1", 2),
                               [about |-> "a1"] @@ Do("correct_evidence", "s1", 3),
                               [about |-> "a1"] @@ Do("correct_evidence", "s1", 4)>>) },
        { Tie("c2", "n1", "derived_from", "s2") @@ Caller("cat", "k3", "create_connection", "c2"),
          [art |-> "v1", pred |-> None, body |-> None, document |-> "d"] @@ Caller("ann", "k4", "append_visual", "s1"),
          [art |-> "v2", pred |-> None, body |-> None, document |-> "d"] @@ Caller("bot", "k5", "append_visual", "s1") })

Visuals_ ==
    Scenario("s1" :> Source @@ "u1" :> User({}), "v0" :> [of |-> "s1", pred |-> None, body |-> None, document |-> "d"],
        { Batch("ann", "k1", <<Do("rebuild_derived", "s1", 2)>>) },
        { [art |-> "v1", pred |-> "v0", body |-> None, document |-> "d"] @@ Caller("ann", "k2", "append_visual", "s1"),
          [rev |-> 2, art |-> "v2", pred |-> "v0", body |-> None, document |-> "d"] @@ Caller("bot", "k3", "append_visual", "s1"),
          [rev |-> 2, art |-> "v3", pred |-> "v1", body |-> None, document |-> "d"] @@ Caller("bot", "k4", "append_visual", "s1"),
          [art |-> "a1", pred |-> None, body |-> "text", document |-> None] @@ Caller("cat", "k5", "append_artifact", "s1"),
          [fields |-> [kind |-> "task", owner |-> "u1"]] @@ Caller("cat", "k6", "create_task", "w1") })

Categories ==
    Scenario("g1" :> NewCategory("init") @@ "e1" :> A([kind |-> "entity", cats |-> {"g1"}]), << >>,
        { Batch("ann", "k1", <<Do("archive_object", "e1", 1), [to |-> "archived"] @@ Do("change_category", "g1", 1)>>),
          Batch("bot", "k2", <<Do("create_category", "g2", 0), Set("e1", 1, [cats |-> {"g1", "g2"}]),
                               [to |-> "same"] @@ Do("change_category", "g1", 1)>>),
          Batch("ann", "k3", <<[to |-> "archived"] @@ Do("change_category", "g1", 2)>>) },
        { [archive |-> TRUE] @@ Caller("cat", "k4", "update_object", "e1") })

Memories ==
    Scenario("m1" :> A([kind |-> "memory"]) @@ "h1" :> Chat({}) @@ "s1" :> Source, << >>,
        { [Batch("bot", "k1", <<Make("m2", [kind |-> "memory"]), Do("archive_object", "m1", 1)>>) EXCEPT !.chat = "h1"],
          [Batch("bot", "k2", <<Do("update_description", "s1", 1)>>) EXCEPT !.maint = TRUE, !.thread = "t2"],
          [Batch("bot", "k3", <<Make("v1", [kind |-> "event", evidence |-> {"e"}]), Tie("c2", "v1", "about", "h1"),
                                [kind |-> "related_to"] @@ Do("update_connection", "c2", 1)>>)
                 EXCEPT !.dry = TRUE, !.thread = "t2"] },
        { [fields |-> [kind |-> "event", evidence |-> {"e"}]] @@ Caller("ann", "k4", "create_object", "v2") })

NoteLinks ==
    {Tie("c1", "h1", "about", "n1"), Tie("c2", "n1", "derived_from", "s1")}

Linked ==
    Scenario("h1" :> Chat({}) @@ "s1" :> Source, "a1" :> Capture("s1"),
        { Batch("ann", "k2", <<Do("archive_connection", "c1", 1)>>) },
        { [fields |-> [kind |-> "note", cites |-> "a1"], links |-> NoteLinks] @@ Caller("ann", "k1", "create_note", "n1"),
          [fields |-> [kind |-> "note", cites |-> "-"], links |-> {Tie("c3", "h1", "about", "n1")}] @@ Caller("ann", "k1", "create_note", "n1"),
          Caller("cat", "k4", "update_note", "n1"),
          [kind |-> "related_to"] @@ Caller("bot", "k3", "update_connection", "c2") })

MCScenarios == {Identities_, Archives, Assertions, Tasks, Evidence, Visuals_, Categories, Memories, Linked}
MCIds == {"u1", "u2", "u3", "h1", "h2", "n1", "s1", "s2", "w1", "w2", "e1", "m1", "m2", "v1", "v2",
          "g1", "g2", "c1", "c2", "c3", "c4", "m2-about", "v1-about"}
MCArtifacts == {"a1", "a2", "a3", "v0", "v1", "v2", "v3"}
=============================================================================
