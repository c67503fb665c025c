----------------------------- MODULE ContextGraph -----------------------------
(***************************************************************************)
(* The context graph (crates/combe-state/src/context_graph.rs): a           *)
(* projection of the durable records that is kept as a record itself, the   *)
(* writers that refresh it after their write, and the traversal that the    *)
(* context of a provider is chosen by.                                      *)
(*                                                                          *)
(* A record stands for its nodes and edges.  Works share one worktree and   *)
(* one path in it; a node or an edge counts as one byte.                    *)
(***************************************************************************)
EXTENDS Naturals, Sequences, FiniteSets, FiniteSetsExt, SequencesExt

CONSTANTS
    Works, Conversations,  \* Conversations: conversations with providers
    Writers,               \* threads and processes that write
    MaxRecords, MaxWatched, \* bounds: records; records while a graph is kept
    None

VARIABLES
    order,    \* list_works: the latest updated first
    records,  \* the other durable records
    present,  \* the worktree's directory exists
    stored,   \* combe/context-graph:v1
    writer,   \* what each writer is in
    raced,    \* the graph was stored over records written after it was built
    silent    \* records were written without a refresh since a graph was stored

vars == <<order, records, present, stored, writer, raced, silent>>

Artifact(kind, w) == [kind |-> kind, work |-> w]   \* "file", "commit" or "decision"
Change(w)    == [kind |-> "change", work |-> w]     \* a ChangeObservation
Linked(c, w) == [kind |-> "linked", conv |-> c, work |-> w]   \* WorkLinked
Kept(c, w)   == [kind |-> "kept", conv |-> c, work |-> w]     \* a WorkConversation
Message(c)   == [kind |-> "message", conv |-> c]
Exchange(c, w) == [kind |-> "exchange", conv |-> c, work |-> w]

\* The writes that refresh the graph, and those that do not: finish_execution,
\* accept_contribution and import_contribution.
Refreshed ==
    {Artifact(k, w) : k \in {"file", "commit", "decision"}, w \in Works}
    \cup {Change(w) : w \in Works \cup {None}}
    \cup {Linked(c, w) : c \in Conversations, w \in Works}
    \cup {Kept(c, w) : c \in Conversations, w \in Works}
    \cup {Message(c) : c \in Conversations}
    \cup {Exchange(c, w) : c \in Conversations, w \in Works \cup {None}}
Unrefreshed ==
    {Artifact(k, w) : k \in {"file", "decision"}, w \in Works}
    \cup {Kept(c, w) : c \in Conversations, w \in Works}

-----------------------------------------------------------------------------
(* ContextGraphProjector::build *)

WorkNode(w) == <<"work", w>>
Conv(c)     == <<"conversation", c>>
Worktree    == <<"worktree", "dir">>
PathFile    == <<"file", "path">>     \* worktree and path of a File artifact
PathCommit  == <<"commit", "text">>   \* the description of a Commit artifact
GitCommit   == <<"commit", "git">>    \* repository and commit of an observation
GitFile     == <<"file", "git">>
Record(r)   == <<IF r.kind \in {"file", "commit"} THEN "artifact" ELSE r.kind, r>>

\* The edges of each record.
Edge(from, rel, to, conf, by) == [from |-> from, rel |-> rel, to |-> to, conf |-> conf, by |-> by]
EdgesOf(r) ==
    CASE r.kind = "decision" -> {Edge(WorkNode(r.work), "produced", Record(r), 0, r)}
      [] r.kind = "file" ->
            {Edge(Record(r), "produced_by", WorkNode(r.work), 0, r),
             Edge(WorkNode(r.work), "associated_with", PathFile, 0, r),
             Edge(Record(r), "references", PathFile, 0, r)}
      [] r.kind = "commit" ->
            {Edge(Record(r), "produced_by", WorkNode(r.work), 0, r),
             Edge(PathCommit, "implemented_by", WorkNode(r.work), 1, r),
             Edge(Record(r), "references", PathCommit, 0, r)}
      [] r.kind = "change" ->
            {Edge(GitCommit, "observed_in", Worktree, 2, r), Edge(GitCommit, "changed", GitFile, 2, r)}
            \cup (IF r.work = None THEN {}
                  ELSE {Edge(GitCommit, "implemented_by", WorkNode(r.work), 2, r),
                        Edge(WorkNode(r.work), "associated_with", GitFile, 2, r)})
      [] r.kind \in {"linked", "kept"} -> {Edge(Conv(r.conv), "belongs_to", WorkNode(r.work), 0, r)}
      [] r.kind = "message" -> {Edge(Conv(r.conv), "contains", Record(r), 0, r)}
      [] OTHER ->
            {Edge(Record(r), "generated_from", Conv(r.conv), 0, r),
             Edge(Record(r), "generated_from", <<"snapshot", "same">>, 0, r)}
            \cup (IF r.work = None THEN {}
                  ELSE {Edge(Record(r), "associated_with", WorkNode(r.work), 0, r)})

\* The nodes a record gives the property work_id.
Marked(r) ==
    CASE r.kind = "decision" -> {Record(r)}
      [] r.kind = "file"     -> {Record(r), PathFile}
      [] r.kind = "commit"   -> {Record(r), PathCommit}
      [] r.kind = "kept"     -> {Conv(r.conv)}
      [] OTHER -> {}

\* That property: of the Works that mark a node the last in list_works overwrites
\* it.
OwnerOf(node, listed, facts) ==
    LET claims == {i \in DOMAIN listed : node = WorkNode(listed[i])
                    \/ \E r \in facts : node \in Marked(r) /\ r.work = listed[i]}
    IN IF claims = {} THEN None ELSE listed[Max(claims)]

Ends(edges) == {e.from : e \in edges} \cup {e.to : e \in edges}

Graph(listed, facts, exists) ==
    LET edges == (UNION {EdgesOf(r) : r \in facts})
                 \cup {Edge(WorkNode(w), "executed_in", Worktree, 0, w) : w \in Works}
    IN [edges |-> edges, available |-> exists,
        owner |-> [n \in Ends(edges) |-> OwnerOf(n, listed, facts)]]

Current == Graph(order, records, present)
-----------------------------------------------------------------------------
(* traverse *)

KindRank == [work |-> 0, decision |-> 1, file |-> 2, commit |-> 3, conversation |-> 4, artifact |-> 5,
             exchange |-> 6, snapshot |-> 7, message |-> 8, worktree |-> 9]

Other(e, node) == IF e.from = node THEN e.to ELSE e.from
Adjacent(graph, node) == {e \in graph.edges : node \in {e.from, e.to}}

\* The order of a node's edges; those of one rank are in the arbitrary order of
\* their digests.
Rank(e, node) == 10 * e.conf + KindRank[Other(e, node)[1]]

\* MUTANT of Allowed: the scope keeps out other Works only, not their records.
AllowedWorks(graph, node, scope) == node[1] # "work" \/ scope \in {None, node[2]}

Allowed(graph, node, scope) == scope = None \/ graph.owner[node] \in {None, scope}

\* An edge of the node taken from the queue at depth.
Follow(graph, o, node, depth, s, e) ==
    LET next == Other(e, node) IN
    IF s.cut \/ e \in s.edges \/ ~Allowed(graph, next, o.scope) THEN s
    ELSE IF Cardinality(s.edges) >= o.edges \/ Cardinality(s.edges) + Cardinality(s.nodes) >= o.bytes
    THEN [s EXCEPT !.cut = TRUE, !.truncated = TRUE]
    ELSE [s EXCEPT !.edges = @ \cup {e}, !.queue = Append(@, <<next, depth + 1>>)]

FollowAll(graph, o, node, depth, s) ==
    LET followed[edges \in SUBSET Adjacent(graph, node)] ==
            IF edges = {} THEN s
            ELSE LET last == CHOOSE e \in edges : \A d \in edges : Rank(d, node) <= Rank(e, node)
                 IN Follow(graph, o, node, depth, followed[edges \ {last}], last)
    IN followed[Adjacent(graph, node)]

Visit(graph, o, root, s) ==
    LET node  == Head(s.queue)[1]
        depth == Head(s.queue)[2]
        rest  == [s EXCEPT !.queue = Tail(@), !.visited = @ \cup {node}, !.cut = FALSE]
        taken == [rest EXCEPT !.nodes = @ \cup {node}]
    IN IF node \in s.visited \/ (node # root /\ ~Allowed(graph, node, o.scope)) THEN rest
       ELSE IF node[1] = "message" /\ Cardinality({n \in s.nodes : n[1] = "message"}) >= o.messages
       THEN [rest EXCEPT !.truncated = TRUE]
       ELSE IF Cardinality(s.nodes) >= o.nodes \/ Cardinality(s.edges) + Cardinality(s.nodes) >= o.bytes
       THEN [rest EXCEPT !.truncated = TRUE, !.full = TRUE]
       ELSE IF depth >= o.depth THEN taken
       ELSE FollowAll(graph, o, node, depth, taken)

Traverse(graph, root, o) ==
    LET start == [queue |-> <<<<root, 0>>>>, visited |-> {}, nodes |-> {}, edges |-> {},
                  truncated |-> FALSE, cut |-> FALSE, full |-> FALSE]
        \* Every edge puts one node in the queue.
        after[n \in 0..Cardinality(graph.edges) + 1] ==
            IF n = 0 THEN start
            ELSE LET s == after[n - 1]
                 IN IF s.queue = <<>> \/ s.full THEN s ELSE Visit(graph, o, root, s)
        end == after[Cardinality(graph.edges) + 1]
    IN [nodes |-> end.nodes, truncated |-> end.truncated,
        edges |-> {e \in end.edges : {e.from, e.to} \subseteq end.nodes}]

-----------------------------------------------------------------------------
Idle == [step |-> "idle", built |-> None, clean |-> TRUE]

\* Conversations that say the same to a provider, each about a Work of its own.
Topic == CHOOSE k \in [Conversations -> Works] : IsInjective(k)
Said(c) == {Linked(c, Topic[c]), Message(c), Exchange(c, Topic[c])}
Busy == (UNION {Said(c) : c \in Conversations}) \cup {Artifact("file", w) : w \in Works}
        \cup {Change(CHOOSE w \in Works : TRUE)}

Init ==
    /\ order \in SetToSeqs(Works)
    /\ records \in {{}, Busy}
    /\ present = TRUE
    /\ stored = None
    /\ writer = [p \in Writers |-> Idle]
    /\ raced = FALSE /\ silent = FALSE

\* A write makes the graphs that were built before it old.
Written(p, next) ==
    writer' = [q \in Writers |-> IF q = p THEN next ELSE [writer[q] EXCEPT !.clean = FALSE]]

Alone == stored = None /\ \A p \in Writers : writer[p].step = "idle"
Room  == Cardinality(records) < IF ~Alone THEN MaxWatched
                                 ELSE IF Busy \subseteq records THEN Cardinality(Busy) + 1
                                 ELSE MaxRecords

\* MUTANT of Refresh: a graph is built when there is none, and kept.
RefreshNone == [Idle EXCEPT !.step = IF stored = None THEN "build" ELSE "idle"]

\* refresh_context_graph: only a graph that is there is built again.
Refresh == [Idle EXCEPT !.step = IF stored # None THEN "build" ELSE "idle"]

\* add_artifact, record_decision, review_proposal, link_conversation,
\* append_ai_event, record_ai_exchange, record_change_observation.
Write(p, r) ==
    /\ writer[p].step = "idle" /\ r \notin records /\ Room
    /\ records' = records \cup {r}
    /\ Written(p, Refresh)
    /\ UNCHANGED <<order, present, stored, raced, silent>>

\* set_work_status: the Work, the i-th before, comes first now.
Touch(p, i) ==
    /\ writer[p].step = "idle"
    /\ order' = <<order[i]>> \o RemoveAt(order, i)
    /\ Written(p, Refresh)
    /\ UNCHANGED <<records, present, stored, raced, silent>>

\* combe graph rebuild.
Rebuild(p) ==
    /\ writer[p].step = "idle" /\ Cardinality(records) <= MaxWatched
    /\ writer' = [writer EXCEPT ![p] = [Idle EXCEPT !.step = "build"]]
    /\ UNCHANGED <<order, records, present, stored, raced, silent>>

Build(p) ==
    /\ writer[p].step = "build"
    /\ writer' = [writer EXCEPT ![p] = [step |-> "save", built |-> Current, clean |-> TRUE]]
    /\ UNCHANGED <<order, records, present, stored, raced, silent>>

\* save_context_graph, without a precondition.
Save(p) ==
    /\ writer[p].step = "save"
    /\ stored' = writer[p].built
    /\ raced' = ~writer[p].clean
    /\ silent' = FALSE
    /\ writer' = [writer EXCEPT ![p] = Idle]
    /\ UNCHANGED <<order, records, present>>

\* The writer ends, or the refresh fails; its error is dropped.
Fail(p) ==
    /\ writer[p].step # "idle"
    /\ writer' = [writer EXCEPT ![p] = Idle]
    /\ silent' = (stored # None)
    /\ UNCHANGED <<order, records, present, stored, raced>>

WriteSilently(r) ==
    /\ r \notin records /\ Room
    /\ records' = records \cup {r}
    /\ Written(None, Idle)
    /\ silent' = (stored # None)
    /\ UNCHANGED <<order, present, stored, raced>>

\* The directory goes, or comes back.
ChangeDisk ==
    /\ present' = ~present
    /\ Written(None, Idle)
    /\ silent' = (stored # None)
    /\ UNCHANGED <<order, records, stored, raced>>

Next ==
    \/ \E p \in Writers :
        \/ \E r \in Refreshed : Write(p, r)
        \/ \E i \in 2..Len(order) : Touch(p, i)
        \/ Rebuild(p) \/ Build(p) \/ Save(p) \/ Fail(p)
    \/ \E r \in Unrefreshed : WriteSilently(r)
    \/ ChangeDisk

Spec == Init /\ [][Next]_vars

-----------------------------------------------------------------------------
(* Properties *)

\* The graph as the records have it does not depend on what is stored.
Graphs == IF Alone /\ present THEN {Current} ELSE {}

Settled == stored # None /\ ~silent /\ \A p \in Writers : writer[p].step = "idle"

\* Every variable has its type; no graph has an edge to a node it has not.
TypeOK ==
    /\ order \in SetToSeqs(Works) /\ records \subseteq Refreshed
    /\ {present, raced, silent} \subseteq BOOLEAN
    /\ \A p \in Writers : writer[p].step \in {"idle", "build", "save"}
    /\ stored # None => Ends(stored.edges) = DOMAIN stored.owner

\* Once every writer is done the graph is the one of the records, unless one
\* stored it that built it before another's write.
HealthyUnlessRaced == Settled /\ ~raced => stored = Current

\* What is at most d edges from root, over nodes in the scope.
Within(graph, root, scope, d) ==
    LET near[n \in 0..d] ==
            IF n = 0 THEN {root}
            ELSE near[n - 1] \cup {m \in DOMAIN graph.owner : /\ Allowed(graph, m, scope)
                                    /\ \E e \in Adjacent(graph, m) : Other(e, m) \in near[n - 1]}
    IN near[d]

\* Traversal is "breadth-first, deterministic, and bounded by depth, node count,
\* edge count, and serialized bytes" (docs/CONTEXT_GRAPH.md:11): it ends with all
\* that is near enough, or says that it does not; every node it has is joined to
\* the root by edges it has, and no bound is passed.
TraversalIsExact(Options) ==
    \A graph \in Graphs : \A w \in Works : \A o \in {[p EXCEPT !.scope = s] : p \in Options, s \in {None, w}} :
        LET root == WorkNode(w)
        IN \A seen \in {Traverse(graph, root, o)} : \A near \in {Within(graph, root, o.scope, o.depth)} :
           /\ seen.nodes \subseteq near
           /\ seen.truncated \/ seen.nodes = near
           /\ seen.nodes = Within([edges |-> seen.edges, owner |-> [n \in seen.nodes |-> None]],
                                  root, None, o.depth)
           /\ Cardinality(seen.nodes) <= o.nodes /\ Cardinality(seen.edges) <= o.edges
           /\ Cardinality(seen.nodes) + Cardinality(seen.edges) <= o.bytes

About(w) ==
    {c \in Conversations : \E r \in records :
        r.kind \in {"linked", "kept", "exchange"} /\ r.conv = c /\ r.work = w}

\* "Unrelated Work do not enter provider requests" (docs/DESIGN.md:135): with the
\* depth of the default a Work's context has no other Work, no record of one and
\* no message of a conversation the Work has nothing to do with.
UnrelatedStaysOut(Default) ==
    \A graph \in Graphs : \A w \in Works :
        \A n \in Traverse(graph, WorkNode(w), [Default EXCEPT !.scope = w]).nodes :
            /\ n[1] \in {"decision", "artifact"} => n[2].work = w
            /\ n[1] = "message" => n[2].conv \in About(w)
            /\ n[1] = "work" => n[2] = w

\* A file a Work attached is in its context, unless another Work attached the same
\* path: then only the one that list_works has last still finds it.
OwnFilesAreFound(Default) ==
    \A graph \in Graphs : \A r \in {s \in records : s.kind = "file"} :
        \/ PathFile \in Traverse(graph, WorkNode(r.work), [Default EXCEPT !.scope = r.work]).nodes
        \/ \E w \in Works \ {r.work} : Artifact("file", w) \in records
=====
