--------------------------- MODULE MCRecordWriters --------------------------
(* Eleven small stores, each with the requests and edits that race in it. *)
EXTENDS RecordWriters

Has(uri, art) == [SourceObject(uri, TRUE, "curator") EXCEPT !.current = art]
Copy(object, body) == [tab |-> "artifact", object |-> object, body |-> body, pred |-> None, says |-> {}, age |-> 1]
TaskObject == Object("task", [status |-> "todo", ready |-> TRUE, text |-> "a"])
Vector(o, model, status, of) ==
    [tab |-> "embedding", object |-> o, artifact |-> None, model |-> model, status |-> status, of |-> of, says |-> {}]
Ongoing(kind, more) == NewRun(kind, "running", more)

Sends(n, q) == {[n |-> i] @@ q : i \in 1..n}
Capture(key, uri, body, edges, chat) ==
    [do |-> "capture", key |-> key, uri |-> uri, body |-> body, edges |-> edges, chat |-> chat]
To(kind, dst) == [kind |-> kind, dst |-> dst]
EditOf(key, on, set) == [do |-> "edit source", key |-> key, on |-> on, set |-> set]
Unlink(on) == [do |-> "unlink", key |-> "x:" \o on, on |-> on]
Fix(on) == [do |-> "correct", key |-> "f:" \o on, id |-> "c:" \o on, on |-> on]
Removes(key, select) ==
    [do |-> "purge", key |-> key, select |-> select, detach |-> {}, retire |-> {}, cancel |-> {}]
Begins(run, chat) == [do |-> "start", run |-> run, chat |-> chat, input |-> "i"]
Says(run, entry, says) == [do |-> "trace", run |-> run, entry |-> entry, says |-> says]
Finishes(run, status, child, primary) ==
    [do |-> "finish", run |-> run, status |-> status, child |-> child, primary |-> primary]
EndsInteraction(run, status, says) == [do |-> "finish interaction", run |-> run, status |-> status, says |-> says]
Asks(key, seen, enabled) == [do |-> "configure", key |-> key, on |-> "t", seen |-> seen, enabled |-> enabled]
Changes(key, set) == [do |-> "edit task", key |-> key, on |-> "t", set |-> set]
Reports(who, thread, on, status) ==
    [do |-> "report", who |-> who, thread |-> thread, on |-> on, status |-> status]

Theme == "th" :> Object("theme", << >>)
Held == ("s" :> Has("u", "a")) @@ ("a" :> Copy("s", "b")) @@ Theme

\* A Source is captured again, by two workflows and a retry of one.
Recaptures ==
    [rows |-> Held, horizon |-> 0,
     todo |-> Sends(2, Capture("k", "u", "c", {To("themed", "th")}, None))
              \cup Sends(1, Capture("j", "u", "c", {To("themed", "th")}, None))
              \cup {Unlink("k:themed-th"), Removes("p", {"s"}), EditOf("e", "s", [uri |-> "w"])}]
\* A placeholder of the curator is captured twice, while its owner edits it.
Placeholders ==
    [rows |-> "s" :> SourceObject("u", FALSE, "curator"), horizon |-> 0,
     todo |-> Sends(2, Capture("k", "u", "c", {}, None)) \cup Sends(2, Capture("j", "u", "d", {}, None))
              \cup {EditOf("e", "s", [guarded |-> TRUE]), Removes("p", {"s"})}]
\* Nothing is known of a URI yet, or its Source has been archived.
FirstCaptures ==
    [rows |-> Theme, horizon |-> 0,
     todo |-> Sends(2, Capture("k", "u", "c", {}, None)) \cup Sends(1, Capture("j", "u", "c", {To("themed", "th")}, None))
              \cup Sends(1, Capture("i", "u", "d", {}, None))
              \cup {EditOf("e", "k:source", [live |-> FALSE]), Removes("p", {"k:source", "k:run"})}]
\* Known content is given new Connections; the Source is archived meanwhile.
MoreLinks ==
    [rows |-> Held, horizon |-> 0,
     todo |-> Sends(2, Capture("k", "u", "b", {To("themed", "th"), To("cites", "th")}, None))
              \cup Sends(1, Capture("j", "u", "b", {To("themed", "th")}, None))
              \cup {EditOf("e", "s", [live |-> FALSE])}]
\* A batch of two Notes, one of which is purged, corrected or sent again.
Pair ==
    [key |-> "k", objects |-> {[name |-> n, kind |-> "note", uri |-> None] : n \in {"m", "n"}},
     contents |-> {[name |-> "f", of |-> "m", body |-> "b", whole |-> FALSE]},
     edges |-> {[name |-> "e", src |-> "m", kind |-> "themed", dst |-> "th"]}]
Notes ==
    [rows |-> Theme, horizon |-> 0,
     todo |-> Sends(2, [do |-> "batch", batch |-> Pair]) \cup {Removes("p", {"k:m"}), Removes("q", {"k:n", "k:run"}), Fix("k:f")}]
\* A workflow captures a Source for a Chat, and both are purged.
Workflow ==
    [rows |-> "ch" :> Object("chat", [cursor |-> "m"])
              @@ "m" :> [tab |-> "message", chat |-> "ch", says |-> {}], horizon |-> 0,
     todo |-> Sends(1, Capture("workflow:w", "u", "c", {}, "ch"))
              \cup Sends(2, Begins("w", "ch")) \cup Sends(1, Finishes("w", "completed", "workflow:w:run", "workflow:w:source"))
              \cup Sends(1, Finishes("w", "failed", None, None))
              \cup {[Removes("p", {"ch"}) EXCEPT !.detach = {[run |-> "w", chat |-> "ch"]}],
                    Removes("q", {"workflow:w:source", "workflow:w:run"})}]
\* Entries of a trace are delivered twice or late; the Run is reviewed; what it
\* mentions is purged.
Traces ==
    [rows |-> ("w" :> Ongoing("workflow", [asked |-> "i"])) @@ Held, horizon |-> 0,
     todo |-> Sends(2, Says("w", "x", {"th"})) \cup Sends(2, [do |-> "charge", run |-> "w", entry |-> "y"])
              \cup {Finishes("w", "completed", None, None), Removes("p", {"th"}), Removes("q", {"s"}),
                    [do |-> "review", run |-> "w", seen |-> 0, pinned |-> TRUE]}]
\* Slack interactions of a Chat are cancelled, finished, and purged with it.
Interactions ==
    [rows |-> "ch" :> Object("chat", [cursor |-> None])
              @@ "r" :> Ongoing("slack_interaction", [chat |-> "ch"])
              @@ "v" :> Ongoing("slack_interaction", [chat |-> "ch", parent |-> "r"]) @@ Theme, horizon |-> 0,
     todo |-> {[Removes("p", {}) EXCEPT !.cancel = {"r"}], [Removes("q", {}) EXCEPT !.cancel = {"r", "v"}],
               Removes("z", {"ch", "r", "v"})}
              \cup Sends(1, EndsInteraction("r", "completed", {"th"})) \cup Sends(2, EndsInteraction("v", "failed", {}))]
\* A job that waits for a provider is retired for a vector, while its Object is edited.
Indexes ==
    [rows |-> "p" :> Vector("s", "unconfigured", "pending", 0) @@ "v" :> Vector("s", "configured", "completed", 1) @@ Held,
     horizon |-> 0,
     todo |-> {[Removes("p", {}) EXCEPT !.retire = {[old |-> "p", new |-> "v"]}],
               [Removes("p", {"th"}) EXCEPT !.retire = {[old |-> "p", new |-> "v"]}],
               Removes("q", {"s"}), EditOf("e", "s", [uri |-> "w"]), Fix("a")}]
\* A Task runs every hour, is edited and approved again, and is purged.
Recurring ==
    [rows |-> "t" :> TaskObject, horizon |-> 3,
     todo |-> {Asks("y", 1, TRUE), Asks("z", 3, TRUE), Changes("e", [text |-> "b"])}
              \cup {Reports("agent", 1, "t:1", "review"), Reports("human", 0, "t:1", "completed"),
                    Reports("agent", 2, "t:1", "blocked"), Reports("agent", 1, "t:2", "completed")}]
PurgedTask ==
    [rows |-> "t" :> TaskObject, horizon |-> 2,
     todo |-> {Asks("y", 1, TRUE), Asks("z", 2, FALSE), Reports("dispatcher", 0, "t:1", "blocked"), Removes("p", {"t"})}]

MCScenarios == {Recaptures, Placeholders, FirstCaptures, MoreLinks, Notes, Workflow, Traces, Interactions,
                Indexes, Recurring, PurgedTask}
MCThreads == 1..2
MCTasks == {"t"}
=============================================================================
