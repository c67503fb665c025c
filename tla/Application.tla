----------------------------- MODULE Application -----------------------------
(***************************************************************************)
(* What the application and the command line keep beside the Works' log:    *)
(* the panel a Work is shown in (WorkPanel), and the files of the catalog   *)
(* (CatalogFile), of the quotas (QuotaReader) and of the workspaces         *)
(* (WorkspaceStores).  They share no state: a behaviour here is one of a    *)
(* single part, chosen at the start, and the others rest.                   *)
(***************************************************************************)
EXTENDS WorkPanel

CONSTANTS
    Paths, Commands, Window,                                            \* CatalogFile
    Logs, Claude, Candidates, Budget, MaxTime, MaxWrites,               \* QuotaReader
    Clients, Rooms, Tabs, Panes, Repos, Folder, MaxCalls                \* WorkspaceStores

VARIABLES
    part,    \* the part that runs
    file, dirs, edit,                                                   \* CatalogFile
    disk, clock, cache, thread, shown, calm,                            \* QuotaReader
    kind, tree, call, legacy, left, calls, promised, removed, raced, torn \* WorkspaceStores

catalogVars == <<file, dirs, edit>>
quotaVars   == <<disk, clock, cache, thread, shown, calm>>
storeVars   == <<kind, tree, call, legacy, left, calls, promised, removed, raced, torn>>
application == <<part, vars, catalogVars, quotaVars, storeVars>>

Catalog == INSTANCE CatalogFile
Quota   == INSTANCE QuotaReader
Stores  == INSTANCE WorkspaceStores WITH Workspaces <- Rooms, store <- kind

\* Rust's None is none of the values it stands beside.
ASSUME NoneIsNoValue ==
    /\ None \notin Catalog!EditRec
    /\ None \notin Rooms \cup Tabs \cup Panes \cup Repos \cup {Folder}
    /\ \A repos \in SUBSET Repos : repos # None
    /\ None \notin Quota!File \cup Quota!Handle \cup Quota!Refresh
    /\ \A logs \in SUBSET Logs : logs # None

ASSUME QuotaAssumption ==
    /\ IsFiniteSet(Logs) /\ Claude \notin Logs
    /\ Candidates \in Nat /\ Budget \in Nat \ {0} /\ MaxTime \in Nat \ {0}

ASSUME CallBound == MaxCalls \in Nat

\* A part that rests is in one of its initial states.
Start ==
    /\ part \in {"panel", "catalog", "quota", "stores"}
    /\ Init         /\ (part # "panel" => rev = 0 /\ active = <<CHOOSE w \in Workspaces : TRUE, 1>>)
    /\ Catalog!Init /\ (part # "catalog" => dirs = {})
    /\ Quota!Init
    /\ Stores!Init  /\ (part # "stores" => kind = "file" /\ legacy = None)

Step ==
    /\ UNCHANGED part
    /\ \/ part = "panel" /\ Next /\ UNCHANGED <<catalogVars, quotaVars, storeVars>>
       \/ part = "catalog" /\ Catalog!Next /\ UNCHANGED <<vars, quotaVars, storeVars>>
       \/ part = "quota" /\ Quota!Next /\ UNCHANGED <<vars, catalogVars, storeVars>>
       \/ part = "stores" /\ Stores!Next /\ UNCHANGED <<vars, catalogVars, quotaVars>>

ApplicationSpec == Start /\ [][Step]_application

-----------------------------------------------------------------------------
(* The properties of the parts that WorkPanel does not have. *)

\* QuotaReader: what is kept of a file is what reading it would give, and the newest
\* quota of the recent logs is shown.
QuotasAreCurrent ==
    part = "quota" => Quota!TypeOK /\ Quota!CacheIsSound /\ Quota!ShownIsNewest

\* WorkspaceStores: a tab has its workspace and a pane its tab, what returned is what is
\* stored, and a repository becomes one workspace, unless calls raced or one stopped.
StoresKeep ==
    part = "stores" =>
        Stores!TypeOK /\ Stores!ParentsExist /\ Stores!CallsHold /\ Stores!MigratedOnce

\* WorkspaceStores: the legacy file goes after its repositories are stored.
NoRepoIsLost == Stores!NoRepoIsLost

\* CatalogFile: an edit changes only what it was asked to, unless it was overtaken.
EditsAreExact == [](part = "catalog" => Catalog!TypeOK) /\ Catalog!EditsAreExact
=============================================================================
