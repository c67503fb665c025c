------------------------------ MODULE WorkPanel ------------------------------
(***************************************************************************)
(* The right side of the window (crates/combe/src/window.rs,                *)
(* work_overview.rs): the overview of a Work and the inspector of a         *)
(* worktree, the dialogs their buttons open and the writes these make, while*)
(* other processes write to the same store.                                 *)
(*                                                                          *)
(* A Work is named by its workspace here, one to each, and has one proposal *)
(* at a time.  The window's own thread is in one thing at a time: a dialog, *)
(* a request to a provider, or the reading of a Work.  Meanwhile other      *)
(* processes write, and a shell that exits closes its tab.                  *)
(***************************************************************************)
EXTENDS Naturals, FiniteSets

CONSTANTS
    Workspaces,
    Works,         \* the workspaces that have a Work, or may get one
    MaxTabs,       \* bound: tabs the user opens
    MaxRevision,   \* bound: writes to the store
    MaxOrphans,    \* bound: overviews left behind
    None

ASSUME PanelBounds ==
    Works \subseteq Workspaces /\ MaxTabs \in Nat \ {0} /\ MaxRevision \in Nat \ {0}

VARIABLES
    rev,        \* FeltDb::revision
    version,    \* the revision of each Work's last write; 0: there is none yet
    stage,      \* how far the proposal of each Work is
    open,       \* the tabs
    active,     \* the tab in front
    width,      \* the width of each tab's root view
    overview,   \* the overview the window holds, or None
    orphans,    \* overviews that are in the window and that it no longer holds
    inspector,  \* what the inspector is about, or None
    selected,   \* selected_work
    busy,       \* what the window's thread is in
    own,        \* the revision of the window's last write to each Work
    missed,     \* Works to which a send wrote before it failed
    moved       \* another tab came to the front while a panel was open

store == <<rev, version, stage>>
tabs  == <<open, active, width, moved>>
panel == <<overview, orphans, inspector, selected>>
past  == <<own, missed>>
vars  == <<store, tabs, panel, busy, past>>

AllTabs == Workspaces \X (1..MaxTabs)
Home(t) == t[1]
TabsOf(w) == {t \in open : Home(t) = w}
Stages == {"none", "proposed", "approved", "assigned", "rejected"}
Exists(w) == version[w] > 0
Panels == orphans \cup ({overview} \ {None})
Panelled == overview # None \/ inspector # None

Init ==
    /\ \E made \in SUBSET Works :
        /\ version = [w \in Works |-> IF w \in made THEN 1 ELSE 0]
        /\ stage = [w \in Works |-> IF w \in made THEN "proposed" ELSE "none"]
        /\ rev = IF made = {} THEN 0 ELSE 1
    /\ \E w \in Workspaces : open = {<<w, 1>>} /\ active = <<w, 1>>
    /\ width = [t \in AllTabs |-> "full"] /\ moved = FALSE
    /\ overview = None /\ orphans = {} /\ inspector = None /\ selected = None
    /\ busy = None
    /\ own = [w \in Works |-> 0] /\ missed = {}

-----------------------------------------------------------------------------
(* The store. *)

\* A write to the Work w that takes its proposal to the stage s.
WriteTo(w, s) ==
    /\ rev < MaxRevision
    /\ rev' = rev + 1
    /\ version' = [version EXCEPT ![w] = rev + 1]
    /\ stage' = [stage EXCEPT ![w] = s]

OwnWrite(w, s) == WriteTo(w, s) /\ own' = [own EXCEPT ![w] = rev + 1]

\* What other processes do to a proposal; a message, a turn or a heartbeat leaves it.
After(s) ==
    {s} \cup CASE s = "none" -> {"proposed"}
               [] s = "proposed" -> {"approved", "rejected"}
               [] s = "approved" -> {"assigned"}
               [] OTHER -> {"proposed"}

\* A write to something else.
OtherRecord ==
    /\ rev < MaxRevision /\ rev' = rev + 1
    /\ UNCHANGED <<version, stage, tabs, panel, busy, past>>

OtherWrites(w) ==
    /\ Exists(w)
    /\ \E s \in After(stage[w]) : WriteTo(w, s)
    /\ UNCHANGED <<tabs, panel, busy, past>>

-----------------------------------------------------------------------------
(* The panels and the tab beside them. *)

\* layout_work_overview, layout_worktree_inspector
Beside(t) == width' = [width EXCEPT ![t] = "narrow"]

Deselected == None

\* dismiss_work_overview
CloseOverview ==
    /\ overview' = None /\ selected' = Deselected
    /\ UNCHANGED orphans

\* dismiss_work_overview, dismiss_worktree_inspector
CloseBoth == CloseOverview /\ inspector' = None

Full == [width EXCEPT ![active] = "full"]

Busy(at, op, w) ==
    [at |-> at, op |-> op, work |-> w, rev |-> 0, shown |-> 0, stage |-> "none",
     torn |-> FALSE, checked |-> 0]

\* A dialog of the panel v.
Dialog(op, v) ==
    [Busy("dialog", op, v.work) EXCEPT !.rev = v.rev, !.shown = v.version, !.torn = v.torn]

Idle == busy = None

Uninspected == None

\* open_work_overview: reads the Work's records ...
ReadWork ==
    /\ ~Idle /\ busy.at = "open" /\ Exists(busy.work)
    /\ inspector' = Uninspected
    /\ width' = IF inspector # None /\ overview = None THEN Full ELSE width
    /\ busy' = [busy EXCEPT !.at = "revision", !.shown = version[busy.work],
                            !.stage = stage[busy.work]]
    /\ UNCHANGED <<store, open, active, moved, overview, orphans, selected, past>>

\* ... then the revision, and puts up a view of them, beside the worktree's terminal.
ShowWork ==
    /\ ~Idle /\ busy.at = "revision"
    /\ overview # None => Cardinality(orphans) < MaxOrphans
    /\ LET w == busy.work
           there == IF Home(active) = w THEN {active}
                    ELSE IF TabsOf(w) # {} THEN TabsOf(w) ELSE {<<w, 1>>}
       IN \E t \in there :
            /\ open' = open \cup {t} /\ active' = t
            /\ Beside(t)
            /\ moved' = (moved \/ (t # active /\ overview # None))
            /\ overview' = [work |-> w, version |-> busy.shown, stage |-> busy.stage,
                            rev |-> rev, torn |-> version[w] # busy.shown]
            /\ orphans' = orphans \cup ({overview} \ {None})
            /\ selected' = w
            /\ missed' = missed \ {w}
    /\ busy' = None
    /\ UNCHANGED <<store, inspector, own>>

\* The store cannot be opened or read; the inspector is gone by then.
ReadFails ==
    /\ ~Idle /\ busy.at = "open"
    /\ inspector' = Uninspected
    /\ width' = IF inspector # None /\ overview = None THEN Full ELSE width
    /\ busy' = None
    /\ UNCHANGED <<store, open, active, moved, overview, orphans, selected, past>>

\* layout_chrome
Layout ==
    /\ Panelled /\ Beside(active)
    /\ UNCHANGED <<store, open, active, moved, panel, busy, past>>

-----------------------------------------------------------------------------
(* Clicks in the sidebar and the tab bar, and the keyboard. *)

\* dispatch: every click closes both panels first.
Clicked(next) ==
    /\ Idle /\ CloseBoth /\ busy' = next
    /\ UNCHANGED <<store, moved, past>>

ClickNothing == Clicked(None) /\ width' = Full /\ UNCHANGED <<open, active>>

ClickTab(t) ==
    /\ t \in TabsOf(Home(active))
    /\ Clicked(None) /\ width' = Full /\ active' = t
    /\ UNCHANGED open

NewTab(i) ==
    /\ <<Home(active), i>> \notin open /\ Cardinality(open) < MaxTabs
    /\ Clicked(None) /\ width' = Full
    /\ open' = open \cup {<<Home(active), i>>} /\ active' = <<Home(active), i>>

\* Open: the workspace's tab, and the inspector.
ClickWorkspace(w) ==
    /\ Idle /\ CloseOverview /\ busy' = None
    /\ \E t \in IF TabsOf(w) # {} THEN TabsOf(w) ELSE {<<w, 1>>} :
        /\ Cardinality(open \cup {t}) <= MaxTabs
        /\ open' = open \cup {t} /\ active' = t
        /\ width' = [Full EXCEPT ![t] = "narrow"]
    /\ inspector' = [root |-> w, file |-> FALSE]
    /\ UNCHANGED <<store, moved, past>>

ClickWork(w) ==
    /\ Exists(w)
    /\ Clicked(Busy("open", "open", w)) /\ width' = Full
    /\ UNCHANGED <<open, active>>

\* show_work: the selected Work, else another; what is open stays.
MenuShowWork(w) ==
    /\ Idle /\ Exists(w) /\ (selected # None => w = selected)
    /\ busy' = Busy("open", "open", w)
    /\ UNCHANGED <<store, tabs, panel, past>>

\* create_work, from the sidebar or from the menu.
CreateWork(fromMenu) ==
    /\ Idle /\ Home(active) \in Works /\ ~Exists(Home(active))
    /\ busy' = Busy("dialog", "create", Home(active))
    /\ IF fromMenu THEN UNCHANGED <<panel, width>> ELSE CloseBoth /\ width' = Full
    /\ UNCHANGED <<store, open, active, moved, past>>

\* goto_tab: activate_tab lays the window out again.
GotoTab(t) ==
    /\ Idle /\ t \in TabsOf(Home(active)) \ {active}
    /\ active' = t
    /\ IF Panelled THEN Beside(t) ELSE UNCHANGED width
    /\ moved' = (moved \/ Panelled)
    /\ UNCHANGED <<store, open, panel, busy, past>>

\* close_focused, or the exit of the last shell of a tab, which a dialog does not
\* keep off; only a change of workspace lays the window out.
CloseTab(t) ==
    /\ (~Idle => busy.at = "dialog") /\ t \in open /\ Cardinality(open) > 1
    /\ open' = open \ {t}
    /\ LET left == TabsOf(Home(t)) \ {t}
       IN IF t # active THEN UNCHANGED <<active, width, moved>>
          ELSE /\ \E n \in IF left # {} THEN left ELSE open' :
                    /\ active' = n
                    /\ width' = [t2 \in AllTabs |->
                                    IF t2 = t THEN "full"
                                    ELSE IF t2 = n /\ left = {} /\ Panelled THEN "narrow"
                                    ELSE width[t2]]
               /\ moved' = (moved \/ Panelled)
    /\ UNCHANGED <<store, panel, busy, past>>

-----------------------------------------------------------------------------
(* The overview's buttons. *)

\* What the overview was rendered with decides on its buttons; a proposal from the last
\* response can be made at any time.
Buttons(v) ==
    {"propose"} \cup CASE v.stage = "proposed" -> {"review"}
                       [] v.stage = "approved" -> {"assign"}
                       [] OTHER -> {}

\* proposal_action, assign_proposal, new_work_proposal: a proposal is picked from those
\* stored now that have the status.
Offers(v, op) ==
    CASE op = "review" -> stage[v.work] = "proposed"
      [] op = "assign" -> stage[v.work] \in {"approved", "assigned"}
      [] OTHER -> TRUE

Press(v, op) ==
    /\ Idle /\ op \in Buttons(v) /\ Offers(v, op)
    /\ busy' = Dialog(op, v)
    /\ UNCHANGED <<store, tabs, panel, past>>

\* preview_routed_context, and Open File in it.
Preview(v) ==
    /\ Idle
    /\ CloseOverview
    /\ inspector' = [root |-> v.work, file |-> TRUE]
    /\ Beside(active)
    /\ UNCHANGED <<store, open, active, moved, busy, past>>

Cancel ==
    /\ ~Idle /\ busy.at = "dialog"
    /\ busy' = None
    /\ UNCHANGED <<store, tabs, panel, past>>

\* MUTANT of IsCurrent: the overview may be of any revision.
IsAny == TRUE

IsCurrent == rev = busy.rev

\* The button of the dialog.  Approving, rejecting and assigning take the revision
\* that was rendered for the one that is.
Confirm ==
    /\ ~Idle /\ busy.at = "dialog" /\ busy.op \in {"create", "propose", "review", "assign"}
    /\ busy.op \in {"review", "assign"} => IsCurrent
    /\ busy' = [busy EXCEPT !.at = "commit", !.checked = version[busy.work]]
    /\ UNCHANGED <<store, tabs, panel, past>>

\* MUTANT of Reloads: the overview stays as it is.
KeepsIt == busy' = None /\ UNCHANGED <<panel, width>>

\* refresh_work_after: closes the overview and opens it again.
Reloads ==
    /\ busy' = Busy("open", "open", busy.work)
    /\ CloseOverview /\ width' = Full
    /\ UNCHANGED inspector

\* StaleContext, or a call of the store that fails.
ConfirmFails ==
    /\ ~Idle /\ busy.op \in {"propose", "review", "assign"}
    /\ \/ busy.at = "dialog" /\ busy.op # "propose" /\ rev # busy.rev
       \/ busy.at = "commit"
    /\ Reloads
    /\ UNCHANGED <<store, open, active, moved, past>>

CreateFails ==
    /\ ~Idle /\ busy.op = "create" /\ busy.at = "commit"
    /\ busy' = None
    /\ UNCHANGED <<store, tabs, panel, past>>

\* review_proposal, add_assignment, create_proposal, create_work
Commit ==
    /\ ~Idle /\ busy.at = "commit"
    /\ \/ /\ busy.op = "review" /\ stage[busy.work] = "proposed"
          /\ \E s \in {"approved", "rejected", "proposed"} : OwnWrite(busy.work, s)
          /\ Reloads
       \/ /\ busy.op = "assign" /\ stage[busy.work] \in {"approved", "assigned"}
          /\ OwnWrite(busy.work, "assigned")
          /\ Reloads
       \/ /\ busy.op = "propose"
          /\ OwnWrite(busy.work, "proposed")
          /\ Reloads
       \/ /\ busy.op = "create"
          /\ OwnWrite(busy.work, "none")
          /\ busy' = Busy("open", "open", busy.work)
          /\ UNCHANGED <<panel, width>>
    /\ UNCHANGED <<open, active, moved, missed>>

\* refresh_open_work, attach_chatgpt_history
Refresh ==
    /\ Idle /\ selected # None
    /\ busy' = Busy("open", "open", selected)
    /\ CloseOverview /\ width' = Full
    /\ UNCHANGED <<store, open, active, moved, inspector, past>>

-----------------------------------------------------------------------------
(* send_routed_message *)

\* The message is stored.
Send(v) ==
    /\ Idle
    /\ OwnWrite(v.work, stage[v.work])
    /\ busy' = Busy("sending", "send", v.work)
    /\ UNCHANGED <<tabs, panel, missed>>

\* The answer is stored.
SendEnds ==
    /\ ~Idle /\ busy.at = "sending"
    /\ OwnWrite(busy.work, stage[busy.work])
    /\ Reloads
    /\ UNCHANGED <<open, active, moved, missed>>

\* An error is shown; the overview stays.
SendFails ==
    /\ ~Idle /\ busy.at = "sending"
    /\ missed' = missed \cup {busy.work}
    /\ busy' = None
    /\ UNCHANGED <<store, tabs, panel, own>>

-----------------------------------------------------------------------------
(* The inspector's rows and buttons. *)

SelectFile ==
    /\ Idle /\ inspector # None
    /\ inspector' = [inspector EXCEPT !.file = TRUE]
    /\ Beside(active)
    /\ UNCHANGED <<store, open, active, moved, overview, orphans, selected, busy, past>>

\* set_file_context_hint
SetHint ==
    /\ Idle /\ inspector # None /\ inspector.file
    /\ inspector.root \in Works /\ Exists(inspector.root)
    /\ OwnWrite(inspector.root, stage[inspector.root])
    /\ Beside(active)
    /\ UNCHANGED <<open, active, moved, panel, busy, missed>>

-----------------------------------------------------------------------------
Next ==
    \/ \E w \in Works :
        \/ OtherWrites(w) \/ ClickWork(w) \/ MenuShowWork(w)
    \/ \E w \in Workspaces : ClickWorkspace(w)
    \/ \E t \in AllTabs : ClickTab(t) \/ GotoTab(t) \/ CloseTab(t)
    \/ \E i \in 1..MaxTabs : NewTab(i)
    \/ \E fromMenu \in BOOLEAN : CreateWork(fromMenu)
    \/ \E v \in Panels :
        \/ \E op \in Buttons(v) : Press(v, op)
        \/ Preview(v) \/ Send(v)
    \/ OtherRecord \/ ClickNothing \/ ReadWork \/ ShowWork \/ ReadFails \/ Layout
    \/ Cancel \/ Confirm \/ ConfirmFails \/ CreateFails \/ Commit \/ Refresh
    \/ SendEnds \/ SendFails \/ SelectFile \/ SetHint

Spec == Init /\ [][Next]_vars

-----------------------------------------------------------------------------
(* Properties *)

Overviews == [work: Works, version: 0..MaxRevision, rev: 0..MaxRevision,
              stage: Stages, torn: BOOLEAN]
Inspectors == [root: Workspaces, file: BOOLEAN]
Jobs == [at: {"open", "revision", "dialog", "commit", "sending"},
         op: {"open", "create", "propose", "review", "assign", "send"}, work: Works,
         rev: 0..MaxRevision, shown: 0..MaxRevision, stage: Stages, torn: BOOLEAN,
         checked: 0..MaxRevision]

ASSUME NoneIsNothing == None \notin Works \cup Overviews \cup Inspectors \cup Jobs

\* Every variable has its type.
TypeOK ==
    /\ rev \in 0..MaxRevision /\ version \in [Works -> 0..MaxRevision]
    /\ stage \in [Works -> Stages]
    /\ open \subseteq AllTabs /\ active \in open
    /\ width \in [AllTabs -> {"full", "narrow"}] /\ moved \in BOOLEAN
    /\ overview \in Overviews \cup {None} /\ orphans \subseteq Overviews
    /\ inspector \in Inspectors \cup {None}
    /\ selected \in Works \cup {None} /\ busy \in Jobs \cup {None}
    /\ own \in [Works -> 0..MaxRevision] /\ missed \subseteq Works

\* The sidebar marks the Work whose overview is open, and no other; the calls that open
\* "the selected Work" again open none that was closed.  The inspector and an overview
\* do not lie over each other.
SelectedIsShown ==
    /\ selected = IF overview = None THEN None ELSE overview.work
    /\ overview # None => inspector = None

\* A proposal is reviewed or assigned on what the overview showed: nothing was written
\* to the Work since, by the application or by another process, unless it came between
\* the reading of the records and of the revision (torn), or after the check.
DecidesOnWhatIsShown ==
    [][busy # None /\ busy.at = "commit" /\ busy.op \in {"review", "assign"} /\ own' # own =>
        \/ version[busy.work] = busy.shown
        \/ busy.torn
        \/ version[busy.work] # busy.checked]_vars

\* "Mutations call existing store operations and reload the projection"
\* (docs/DESIGN.md:75): between two uses, the overview has what the window wrote to its
\* Work, except what a send wrote that failed afterwards.
WritesAreShown ==
    Idle /\ overview # None =>
        overview.rev >= own[overview.work] \/ overview.work \in missed

\* Without a panel every terminal has the whole width, unless a tab came to the front
\* while a panel was open: closing the panel widens the tab in front only.
FullWhenClosed == ~Panelled => moved \/ \A t \in open : width[t] = "full"

\* The panel, the sidebar and the terminals agree.
PanelAgrees == TypeOK /\ SelectedIsShown /\ WritesAreShown /\ FullWhenClosed

\* "Selecting a Work keeps its resolved worktree terminal available and shows a native
\* overview beside it" (docs/DESIGN.md:45): one, which the next click closes.
OneOverview == orphans = {}
=============================================================================
