------------------------------- MODULE Desktop -------------------------------
(***************************************************************************)
(* The window: its tabs (Tabs), its panels (Chrome) and what fills them,    *)
(* the scan behind the sidebar (SidebarScan) and the polling of the quotas  *)
(* (QuotaPoll).  They run on one main thread and share none of their state, *)
(* so that what one does is no matter to another: a behaviour here is one   *)
(* of a single part, chosen at the start, and the others rest.              *)
(***************************************************************************)
EXTENDS Tabs

CONSTANTS Repos, Home, MaxPolls

VARIABLES
    part,                                                    \* the part that runs
    panels, kept,                                            \* Chrome
    registered, disk, scanning, dirty, thread, incoming, shown, asked,  \* SidebarScan
    fetching, posted, waiting, polls, fresh, live, starved   \* QuotaPoll

panelVars == <<panels, kept>>
scanVars  == <<registered, disk, scanning, dirty, thread, incoming, shown, asked>>
pollVars  == <<fetching, posted, waiting, polls, fresh, live, starved>>
desktop == <<part, vars, panelVars, scanVars, pollVars>>

Panel == INSTANCE Chrome WITH ui <- panels
Scan  == INSTANCE SidebarScan
Quota == INSTANCE QuotaPoll

ASSUME PollBound == MaxPolls \in Nat

\* Rust's None is none of the values it stands beside: an intent of a panel, whether
\* the pointer is inside, the rows a scan found.
ASSUME NoneIsNoValue ==
    /\ None \notin {"open", "close", "fold"} /\ None \notin BOOLEAN
    /\ \A rows \in SUBSET Scan!Rows : rows # None

\* A part that rests is in one of its initial states.
Start ==
    /\ part \in {"tabs", "panels", "scan", "poll"}
    /\ Init
    /\ Panel!Init /\ (part # "panels" => panels.mode = "Pinned")
    /\ Scan!Init  /\ (part # "scan" => registered = {} /\ disk = [r \in Repos |-> "one"])
    /\ Quota!Init /\ (part # "poll" => live)

Step ==
    /\ UNCHANGED part
    /\ \/ part = "tabs" /\ Next /\ UNCHANGED <<panelVars, scanVars, pollVars>>
       \/ part = "panels" /\ Panel!Next /\ UNCHANGED <<vars, scanVars, pollVars>>
       \/ part = "scan" /\ Scan!Next /\ UNCHANGED <<vars, panelVars, pollVars>>
       \/ part = "poll" /\ Quota!Next /\ UNCHANGED <<vars, panelVars, scanVars>>

\* Each part has its own fairness while it runs; only QuotaPoll has something to do
\* when it rests.
AllFair ==
    /\ Fairness /\ Panel!Fairness /\ Scan!Fairness
    /\ WF_pollVars(part = "poll" /\ Quota!Works)
    /\ WF_pollVars(part = "poll" /\ Quota!Age)

AllSpec == Start /\ [][Step]_desktop /\ AllFair

-----------------------------------------------------------------------------
(* The properties of the parts that Tabs does not have. *)

\* Chrome, SidebarScan, QuotaPoll: an intent of a panel that waits is still wanted, one
\* scan is under way while the flag says so, and something always leads to the next
\* reading of the quotas.
PanelsAgree ==
    /\ part = "panels" => Panel!TypeOK /\ Panel!IntentIsDue
    /\ part = "scan" => Scan!TypeOK
    /\ part = "poll" => Quota!TypeOK /\ Quota!PollingGoesOn

\* Chrome: only the pin button, its command and the divider unpin the sidebar; one that
\* closes gives the keyboard back; a panel that opened by itself goes after the pointer
\* left it.
PanelsComeAndGo == Panel!PinnedStays /\ Panel!ClosingReturnsFocus /\ Panel!LeftPanelsClose

\* SidebarScan: a refresh asked for after a change is served.
RequestIsServed == Scan!RequestIsServed

\* QuotaPoll: a window in use comes to read the quotas.
CheckedWhileLive == part = "poll" => Quota!CheckedWhileLive
=============================================================================
