----------------------------- MODULE SidebarScan -----------------------------
(***************************************************************************)
(* How the sidebar follows the repositories (refresh_sidebar in             *)
(* crates/combe/src/window.rs, repos in sidebar.rs, combe-catalog).         *)
(*                                                                          *)
(* A refresh starts one thread that reads the registered repositories and   *)
(* asks git for the worktrees of each, one after the other, while both may  *)
(* change.  It leaves the rows for the main thread and queues a block that  *)
(* shows them.  A refresh asked for meanwhile is remembered, not started.   *)
(***************************************************************************)
CONSTANTS Repos, Home, None

VARIABLES
    registered,  \* the repositories in state.json
    disk,        \* what git would say of each now
    scanning, dirty, \* SIDEBAR_SCANNING, SIDEBAR_DIRTY
    thread,      \* the scan: what it has left, what it found
    incoming,    \* SIDEBAR_INCOMING; a block is queued to show it
    shown,       \* the rows of the sidebar
    asked        \* a refresh was asked for since the last change

vars == <<registered, disk, scanning, dirty, thread, incoming, shown, asked>>
main == <<scanning, dirty, thread, incoming, shown, asked>>

\* A path that is gone; a folder or repository with that many rows; one that git
\* fails on.
Answers == {"gone", "one", "two", "fails"}
Trees == [gone |-> {}, one |-> {1}, two |-> {1, 2}, fails |-> {}]
Row(r, n) == [repo |-> r, tree |-> n]
HomeRow == Row(Home, 1)

\* The rows of r, as scan_repo finds them; a linked worktree whose directory is
\* gone has none.
RowsOf(r) == {Row(r, n) : n \in Trees[disk[r]]}

\* with_home: the home directory has a row, its own or one put in.
WithHome(rows) == rows \cup {HomeRow}

\* catalog, repos: a repository that is gone is left out, one that git fails on
\* takes all others with it.
AfterFailure(rows) == WithHome({})

Listing ==
    IF \E r \in registered : disk[r] = "fails" THEN WithHome({})
    ELSE WithHome(UNION {RowsOf(r) : r \in registered})

Idle == [todo |-> {}, found |-> {}, step |-> "none"]

\* The rows at the start are read on the main thread.
Init ==
    /\ registered \in SUBSET Repos
    /\ disk \in [Repos -> Answers]
    /\ scanning = FALSE /\ dirty = FALSE
    /\ thread = Idle
    /\ incoming = None
    /\ shown = Listing
    /\ asked = FALSE

\* MUTANT of Refresh: a refresh during a scan is left out.
RefreshOnce ==
    IF scanning THEN UNCHANGED <<scanning, dirty, thread>> /\ asked' = TRUE
    ELSE /\ scanning' = TRUE /\ asked' = TRUE /\ UNCHANGED dirty
         /\ thread' = [Idle EXCEPT !.step = "load"]

\* refresh_sidebar; without a thread the request is lost.
Refresh ==
    IF scanning THEN dirty' = TRUE /\ asked' = TRUE /\ UNCHANGED <<scanning, thread>>
    ELSE /\ UNCHANGED dirty
         /\ \/ /\ scanning' = TRUE /\ asked' = TRUE
               /\ thread' = [Idle EXCEPT !.step = "load"]
            \/ scanning' = FALSE /\ asked' = FALSE /\ UNCHANGED thread

\* The application becomes active, a tab opens, a click on the empty sidebar.
AskRefresh ==
    /\ Refresh
    /\ UNCHANGED <<registered, disk, incoming, shown>>

\* add_repo of the window: registers paths and refreshes.
AddRepos(paths) ==
    /\ registered' = registered \cup paths
    /\ Refresh
    /\ UNCHANGED <<disk, incoming, shown>>

\* combe add, remove and clean in another process.
EditElsewhere(r) ==
    /\ registered' = IF r \in registered THEN registered \ {r} ELSE registered \cup {r}
    /\ asked' = FALSE
    /\ UNCHANGED <<disk, scanning, dirty, thread, incoming, shown>>

\* Worktrees, directories and git itself change.
ChangeDisk(r, answer) ==
    /\ disk[r] # answer
    /\ disk' = [disk EXCEPT ![r] = answer]
    /\ asked' = FALSE
    /\ UNCHANGED <<registered, scanning, dirty, thread, incoming, shown>>

LoadState ==
    /\ thread.step = "load"
    /\ thread' = [thread EXCEPT !.todo = registered, !.step = "scan"]
    /\ UNCHANGED <<registered, disk, scanning, dirty, incoming, shown, asked>>

ScanRepo(r) ==
    /\ thread.step = "scan" /\ r \in thread.todo
    /\ thread' = IF disk[r] = "fails"
                 THEN [todo |-> {}, found |-> AfterFailure(thread.found), step |-> "post"]
                 ELSE [thread EXCEPT !.todo = @ \ {r}, !.found = @ \cup RowsOf(r)]
    /\ UNCHANGED <<registered, disk, scanning, dirty, incoming, shown, asked>>

\* The thread leaves its rows and ends.
Post ==
    /\ thread.step \in {"scan", "post"} /\ thread.todo = {}
    /\ incoming' = IF thread.step = "post" THEN thread.found ELSE WithHome(thread.found)
    /\ thread' = Idle
    /\ UNCHANGED <<registered, disk, scanning, dirty, shown, asked>>

\* apply_sidebar_on_main.
Apply ==
    /\ incoming # None
    /\ shown' = incoming
    /\ incoming' = None
    /\ dirty' = FALSE
    /\ IF ~dirty THEN scanning' = FALSE /\ UNCHANGED <<thread, asked>>
       ELSE \/ /\ scanning' = TRUE
               /\ thread' = [Idle EXCEPT !.step = "load"]
               /\ UNCHANGED asked
            \/ scanning' = FALSE /\ asked' = FALSE /\ UNCHANGED thread
    /\ UNCHANGED <<registered, disk>>

Worker == LoadState \/ Post \/ \E r \in Repos : ScanRepo(r)

Next ==
    \/ AskRefresh \/ \E paths \in (SUBSET Repos) \ {{}} : AddRepos(paths)
    \/ \E r \in Repos : EditElsewhere(r) \/ \E a \in Answers : ChangeDisk(r, a)
    \/ Worker \/ Apply

Spec == Init /\ [][Next]_vars

\* Threads run and queued blocks are executed.
Fairness == WF_main(Worker \/ Apply)
FairSpec == Spec /\ Fairness

-----------------------------------------------------------------------------
(* Properties *)

Rows == {Row(r, n) : r \in Repos, n \in {1, 2}} \cup {HomeRow}

\* Every variable has its type; one scan is under way exactly while the flag says
\* so, and home is always there.
TypeOK ==
    /\ registered \subseteq Repos /\ disk \in [Repos -> Answers]
    /\ {scanning, dirty, asked} \subseteq BOOLEAN
    /\ thread \in [todo: SUBSET Repos, found: SUBSET Rows, step: {"none", "load", "scan", "post"}]
    /\ incoming \in (SUBSET Rows) \cup {None}
    /\ shown \subseteq Rows /\ HomeRow \in shown
    /\ scanning <=> (thread.step # "none" \/ incoming # None)
    /\ thread.step = "none" \/ incoming = None

\* "A refresh requested during a scan runs once more after it" (docs/DESIGN.md,
\* Workspace Model): after a change and a refresh, whenever it was asked for, the
\* sidebar comes to show the repositories as they are, unless they change again or
\* no thread can be started.
RequestIsServed == asked ~> (shown = Listing \/ ~asked)
=============================================================================
