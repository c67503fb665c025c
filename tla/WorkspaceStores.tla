--------------------------- MODULE WorkspaceStores ---------------------------
(***************************************************************************)
(* The stores of the workspace arrangement (crates/combe-state): a tree of  *)
(* workspaces, their tabs and the tabs' panes, kept in a JSON file          *)
(* (filestore.rs, under crates/combe/src/session.rs) or in FeltDB records   *)
(* (feltdb.rs), and the migration of the legacy list of repositories into a *)
(* store (migration.rs).                                                    *)
(*                                                                          *)
(* The file store reads the whole file, changes its copy and replaces the   *)
(* file.  FeltDB takes one record at a time: a deletion there is a step for *)
(* each record and each list.  A client is a SessionManager, which makes    *)
(* one call at a time, or a thread that shares the store.                   *)
(***************************************************************************)
EXTENDS Naturals

CONSTANTS
    Clients,
    Workspaces, Tabs, Panes,   \* bound: identifiers
    Repos,                     \* the paths in the legacy file
    Folder,                    \* the path of a workspace the user adds
    MaxCalls,                  \* bound: calls of the clients
    None

VARIABLES
    store,     \* "file" or "feltdb"
    tree,      \* what is stored
    call,      \* what each client is doing
    legacy,    \* repositories in the legacy file; None: there is no such file
    left,      \* what a client's migration has still to store; None: none runs
    calls,     \* calls so far
    promised,  \* history: the tree as the calls that returned made it
    removed,   \* history: paths whose workspace a client deleted
    raced,     \* history: two calls overlapped
    torn       \* history: a deletion or a migration stopped half way

vars == <<store, tree, call, legacy, left, calls, promised, removed, raced, torn>>

Places == Repos \cup {Folder}
Trees == [ws : [Workspaces -> Places \cup {None}], tabs : [Tabs -> Workspaces \cup {None}],
          panes : [Panes -> Tabs \cup {None}], selected : Workspaces \cup {None}]
Empty == [ws |-> [w \in Workspaces |-> None], tabs |-> [t \in Tabs |-> None],
          panes |-> [p \in Panes |-> None], selected |-> None]

Idle == [op |-> "idle"]

Init ==
    /\ store \in {"file", "feltdb"}
    /\ tree = Empty /\ promised = Empty
    /\ call = [c \in Clients |-> Idle]
    /\ legacy \in {None, {}, Repos}
    /\ left = [c \in Clients |-> None]
    /\ calls = 0 /\ removed = {} /\ raced = FALSE /\ torn = FALSE

TabsOf(T, w)  == {t \in Tabs : T.tabs[t] = w}
PanesOf(T, t) == {p \in Panes : T.panes[p] = t}
PathsOf(T)    == {T.ws[w] : w \in Workspaces} \ {None}

\* A deletion in the file store takes the tabs and their panes.
WithoutTabs(T, S) ==
    [T EXCEPT !.tabs = [t \in Tabs |-> IF t \in S THEN None ELSE T.tabs[t]],
              !.panes = [p \in Panes |-> IF T.panes[p] \in S THEN None ELSE T.panes[p]]]

\* The tree after a change.  A deletion leaves the selection as it is.
Applied(T, e) ==
    CASE e.op = "workspace"        -> [T EXCEPT !.ws[e.id] = e.of]
      [] e.op = "tab"              -> [T EXCEPT !.tabs[e.id] = e.of]
      [] e.op = "pane"             -> [T EXCEPT !.panes[e.id] = e.of]
      [] e.op = "select"           -> [T EXCEPT !.selected = e.of]
      [] e.op = "delete workspace" -> [WithoutTabs(T, TabsOf(T, e.id)) EXCEPT !.ws[e.id] = None]
      [] e.op = "delete tab"       -> WithoutTabs(T, {e.id})
      [] e.op = "delete pane"      -> [T EXCEPT !.panes[e.id] = None]

\* Saves name a parent that is there; a deletion names what is there.
Fits(e) ==
    CASE e.op = "workspace" -> e.of = IF tree.ws[e.id] = None THEN Folder ELSE tree.ws[e.id]
      [] e.op = "tab"              -> tree.ws[e.of] # None
      [] e.op = "pane"             -> tree.tabs[e.of] # None
      [] e.op = "select"           -> e.of # None => tree.ws[e.of] # None
      [] e.op = "delete workspace" -> tree.ws[e.id] # None
      [] e.op = "delete tab"       -> tree.tabs[e.id] # None
      [] e.op = "delete pane"      -> tree.panes[e.id] # None

Edits ==
    [op : {"workspace"}, id : Workspaces, of : Places] \cup [op : {"tab"}, id : Tabs, of : Workspaces]
    \cup [op : {"pane"}, id : Panes, of : Tabs]
    \cup [op : {"select"}, id : {None}, of : Workspaces \cup {None}]
    \cup [op : {"delete workspace"}, id : Workspaces, of : {None}]
    \cup [op : {"delete tab"}, id : Tabs, of : {None}]
    \cup [op : {"delete pane"}, id : Panes, of : {None}]

Deletes(e) == e.op \in {"delete workspace", "delete tab"}
Others(c) == \E d \in Clients \ {c} : call[d] # Idle \/ left[d] # None

\* The call of c returned: its change holds.
Returned(c, e) ==
    /\ call' = [call EXCEPT ![c] = Idle]
    /\ promised' = Applied(promised, e)
    /\ removed' = IF e.op = "delete workspace" THEN removed \cup ({tree.ws[e.id]} \ {None}) ELSE removed
    /\ left' = IF left[c] = None THEN left ELSE [left EXCEPT ![c] = @ \ {e.of}]

-----------------------------------------------------------------------------
(* A call. *)

\* load_file: an error ends the call, only a missing file is an empty tree.
Loaded == tree

\* The file store has loaded the file.
Loads(c, e) ==
    /\ store = "file"
    /\ call' = [call EXCEPT ![c] = [op |-> "write", edit |-> e, next |-> Applied(Loaded, e)]]
    /\ UNCHANGED <<tree, left, promised, removed>>

\* FeltDB: one record, or the first list of a deletion.
Puts(c, e) ==
    /\ store = "feltdb" /\ ~Deletes(e)
    /\ tree' = Applied(tree, e)
    /\ Returned(c, e)
Lists(c, e) ==
    /\ store = "feltdb" /\ Deletes(e)
    /\ LET tabs == IF e.op = "delete tab" THEN {e.id} ELSE TabsOf(tree, e.id) IN
       call' = [call EXCEPT ![c] = [op |-> "delete", edit |-> e, unseen |-> tabs, tabs |-> tabs,
                                    panes |-> {}]]
    /\ UNCHANGED <<tree, left, promised, removed>>

Begins(c, e) ==
    /\ call[c] = Idle
    /\ Loads(c, e) \/ Puts(c, e) \/ Lists(c, e)
    /\ raced' = (raced \/ Others(c))
    /\ UNCHANGED <<store, legacy, torn>>

Call(c, e) ==
    /\ left[c] = None /\ calls < MaxCalls /\ Fits(e)
    /\ calls' = calls + 1
    /\ Begins(c, e)

\* The file store replaces the file, whatever it holds by now.
Write(c) ==
    /\ call[c].op = "write"
    /\ tree' = call[c].next
    /\ Returned(c, call[c].edit)
    /\ UNCHANGED <<store, legacy, calls, raced, torn>>

\* It could not be written; a migration gives up.
WriteFails(c) ==
    /\ call[c].op = "write"
    /\ call' = [call EXCEPT ![c] = Idle]
    /\ left' = [left EXCEPT ![c] = None]
    /\ torn' = (torn \/ left[c] # None)
    /\ UNCHANGED <<store, tree, legacy, calls, promised, removed, raced>>

-----------------------------------------------------------------------------
(* A deletion in FeltDB: the panes of each tab, the tabs, the workspace. *)

Step(c, next) ==
    /\ call' = [call EXCEPT ![c] = next]
    /\ UNCHANGED <<store, legacy, left, calls, promised, removed, raced, torn>>

ListPanes(c, t) ==
    LET d == call[c] IN
    /\ d.op = "delete" /\ d.panes = {} /\ t \in d.unseen
    /\ Step(c, [d EXCEPT !.unseen = @ \ {t}, !.panes = PanesOf(tree, t)])
    /\ UNCHANGED tree

DeletePane(c, p) ==
    LET d == call[c] IN
    /\ d.op = "delete" /\ p \in d.panes
    /\ tree' = [tree EXCEPT !.panes[p] = None]
    /\ Step(c, [d EXCEPT !.panes = @ \ {p}])

\* MUTANT of PanesAreGone: the tabs go first.
NoMatter(d) == TRUE

PanesAreGone(d) == d.panes = {} /\ d.unseen = {}

DeleteTab(c, t) ==
    LET d == call[c] IN
    /\ d.op = "delete" /\ PanesAreGone(d) /\ t \in d.tabs
    /\ tree' = [tree EXCEPT !.tabs[t] = None]
    /\ Step(c, [d EXCEPT !.tabs = @ \ {t}])

DeleteEnds(c) ==
    LET d == call[c] IN
    /\ d.op = "delete" /\ d.panes = {} /\ d.unseen = {} /\ d.tabs = {}
    /\ tree' = IF d.edit.op = "delete workspace" THEN [tree EXCEPT !.ws[d.edit.id] = None] ELSE tree
    /\ Returned(c, d.edit)
    /\ UNCHANGED <<store, legacy, calls, raced, torn>>

-----------------------------------------------------------------------------
(* migrate_from_json *)

\* An empty list leaves the file where it is.
Migrate(c) ==
    /\ call[c] = Idle /\ left[c] = None /\ calls < MaxCalls
    /\ legacy \notin {None, {}}
    /\ left' = [left EXCEPT ![c] = legacy]
    /\ calls' = calls + 1
    /\ raced' = (raced \/ Others(c))
    /\ UNCHANGED <<store, tree, call, legacy, promised, removed, torn>>

Ids(T) == {w \in Workspaces : T.ws[w] # None}

\* Each repository becomes a workspace with an identifier of its own.
Fresh(w) ==
    /\ w \notin Ids(tree) \cup Ids(promised)
    /\ \A d \in Clients : call[d].op = "write" => call[d].edit.id # w

MigrateNext(c, w) ==
    /\ left[c] # None /\ Fresh(w)
    /\ \E r \in left[c] : Begins(c, [op |-> "workspace", id |-> w, of |-> r])
    /\ UNCHANGED calls

\* MUTANT of Stored: the file is renamed first.
AtFirst(c) == left[c] = legacy

Stored(c) == left[c] = {}

BackedUp == None

\* The file is renamed; when another did it before, this one fails.
Rename(c) ==
    /\ call[c] = Idle /\ left[c] # None /\ Stored(c)
    /\ legacy' = BackedUp
    /\ left' = [left EXCEPT ![c] = None]
    /\ UNCHANGED <<store, tree, call, calls, promised, removed, raced, torn>>

\* The process of c stops, or an error ends its call: of the database, or in the renaming.
Crash(c) ==
    /\ call[c] # Idle \/ left[c] # None
    /\ call' = [call EXCEPT ![c] = Idle]
    /\ left' = [left EXCEPT ![c] = None]
    /\ torn' = (torn \/ call[c].op = "delete" \/ left[c] # None)
    /\ UNCHANGED <<store, tree, legacy, calls, promised, removed, raced>>

Next ==
    \E c \in Clients :
        \/ \E e \in Edits : Call(c, e)
        \/ Write(c) \/ WriteFails(c)
        \/ \E t \in Tabs : ListPanes(c, t) \/ DeleteTab(c, t)
        \/ \E p \in Panes : DeletePane(c, p)
        \/ DeleteEnds(c)
        \/ Migrate(c) \/ Rename(c) \/ \E w \in Workspaces : MigrateNext(c, w)
        \/ Crash(c)

Spec == Init /\ [][Next]_vars

-----------------------------------------------------------------------------
(* Properties *)

\* Every variable has its type.
TypeOK ==
    /\ store \in {"file", "feltdb"}
    /\ tree \in Trees /\ promised \in Trees
    /\ \A c \in Clients : call[c].op \in {"idle", "write", "delete"}
    /\ legacy \in {None, {}, Repos}
    /\ calls \in 0..MaxCalls /\ removed \in SUBSET Places
    /\ raced \in BOOLEAN /\ torn \in BOOLEAN

\* A tab has its workspace and a pane its tab: also while a deletion is under way, and
\* when it stopped half way.  Calls that ran beside each other are excepted: FeltDB may
\* save a tab after its workspace's tabs were listed.
ParentsExist ==
    ~raced =>
        /\ \A t \in Tabs : tree.tabs[t] # None => tree.ws[tree.tabs[t]] # None
        /\ \A p \in Panes : tree.panes[p] # None => tree.tabs[tree.panes[p]] # None

\* What returned is what is stored: of calls one after the other, none undoes or misses
\* a part of another.  The file store's calls that overlap lose what one of them wrote.
CallsHold ==
    ~raced /\ ~torn /\ (\A c \in Clients : call[c] = Idle) => tree = promised

\* The legacy file goes when all it named is stored, and not before.
NoRepoIsLost == [][legacy' # legacy /\ ~raced => legacy \subseteq PathsOf(tree) \cup removed]_vars

\* Migration makes one workspace for each repository, unless it was stopped: run again,
\* it stores under new identifiers what it had stored.
MigratedOnce ==
    ~raced /\ ~torn =>
        \A v, w \in Ids(tree) : tree.ws[v] = tree.ws[w] /\ tree.ws[v] # Folder => v = w
=============================================================================
