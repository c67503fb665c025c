-------------------------------- MODULE Tabs --------------------------------
(***************************************************************************)
(* The window's sessions: a worktree owns tabs, a tab owns split panes, a   *)
(* pane runs a shell (crates/combe/src/tabs.rs, split.rs, overview.rs and   *)
(* the handlers of window.rs that use them).                                *)
(*                                                                          *)
(* Everything happens on the main thread.  What makes it hard is that an    *)
(* alert runs the event loop again: while a question is open the user can   *)
(* do nothing else, but blocks queued for the main thread still run, and a  *)
(* shell that ends queues one (queue_close).  A handler that asked goes on  *)
(* with what it had read before.  While such a block itself waits for an    *)
(* answer no further block runs.                                            *)
(*                                                                          *)
(* Tabs are kept in the order of their identifiers: the vector of the code  *)
(* only ever grows at its end.  Of a split tree only the set of its panes   *)
(* is kept, and of the keyboard focus that it is in a pane that is shown;   *)
(* AppKit takes it from views that are hidden or removed.                   *)
(***************************************************************************)
EXTENDS Naturals, Sequences, FiniteSets

CONSTANTS
    Workspaces,
    MaxTabs,     \* bound: tabs opened in a run
    MaxPanes,    \* bound: panes opened in a run
    None

ASSUME TabBounds == MaxTabs \in Nat /\ MaxPanes \in Nat /\ None \notin Workspaces

VARIABLES
    ui,        \* tabs, their panes, the current worktree, the overview
    window,    \* "open", "closed" (hidden, not freed) or "quit"
    busy,      \* panes with a running foreground process
    pending,   \* panes whose shell ended, not yet closed
    asks,      \* open questions, the innermost first
    raced      \* a pane was closed behind an open question

vars == <<ui, window, busy, pending, asks, raced>>

Ids == 1..MaxTabs
Panes == 1..MaxPanes

First(S) == CHOOSE n \in S : \A m \in S : n <= m
Last(S) == CHOOSE n \in S : \A m \in S : m <= n

Init ==
    /\ ui = [items |-> {}, ws |-> [i \in Ids |-> None], panes |-> [i \in Ids |-> {}],
             zoom |-> [i \in Ids |-> 0], active |-> [w \in Workspaces |-> 0],
             current |-> None, overview |-> 0, tabs |-> 0, made |-> 0]
    /\ window = "open"
    /\ busy = {} /\ pending = {}
    /\ asks = <<>>
    /\ raced = FALSE

-----------------------------------------------------------------------------
(* tabs.rs; 0 is no tab *)

Of(u, w) == {i \in u.items : u.ws[i] = w}
Siblings(u, i) == Of(u, u.ws[i])
Visible(u) == IF u.current = None THEN {} ELSE Of(u, u.current)
ActiveId(u) == IF u.current = None THEN 0 ELSE u.active[u.current]

\* The tab another worktree was left on.
Other(u, w) ==
    LET rest == u.items \ Of(u, w)
        v == u.ws[First(rest)]
    IN IF rest = {} THEN 0
       ELSE IF u.active[v] \in u.items THEN u.active[v] ELSE First(rest)

Enter(u, w) ==
    LET i == IF u.active[w] \in u.items THEN u.active[w]
             ELSE IF Of(u, w) # {} THEN First(Of(u, w)) ELSE 0
    IN [u EXCEPT !.current = w, !.active[w] = IF i # 0 THEN i ELSE @]

Push(u, w) ==
    LET i == u.tabs + 1  p == u.made + 1
    IN [u EXCEPT !.items = @ \cup {i}, !.ws[i] = w, !.panes[i] = {p}, !.active[w] = i,
                 !.current = w, !.tabs = i, !.made = p]

SetActive(u, i) ==
    IF i \in u.items THEN [u EXCEPT !.active[u.ws[i]] = i, !.current = u.ws[i]] ELSE u

\* The tab to the right of i in its worktree, else the one to its left.
NextTab(u, i) ==
    LET right == {j \in Siblings(u, i) : j > i}
        left == {j \in Siblings(u, i) : j < i}
    IN IF right # {} THEN First(right) ELSE IF left # {} THEN Last(left) ELSE 0

Remove(u, i) ==
    LET w == u.ws[i]
        v == [u EXCEPT !.items = @ \ {i}, !.ws[i] = None, !.panes[i] = {}, !.zoom[i] = 0]
        next == NextTab(u, i)
    IN IF i \notin u.items THEN u
       ELSE IF u.active[w] # i THEN v
       ELSE [v EXCEPT !.active[w] = next,
                      !.current = IF next = 0 /\ @ = w THEN None ELSE @]

-----------------------------------------------------------------------------
(* Panes *)

TabOf(u, p) == {i \in u.items : p \in u.panes[i]}
LivePanes(u) == UNION {u.panes[i] : i \in u.items}

\* Panes that a command of the user may go to: the focused one, which is the
\* zoomed one if there is one.
Focusable(u) ==
    LET i == ActiveId(u)
    IN IF i = 0 THEN {} ELSE IF u.zoom[i] # 0 THEN {u.zoom[i]} ELSE u.panes[i]

\* The tab of p gets its tree back.
RestoreZoom(u, p) == [u EXCEPT !.zoom = [i \in Ids |-> IF i \in TabOf(u, p) THEN 0 ELSE @[i]]]

ClosePane(u, p) ==
    [u EXCEPT !.panes = [i \in Ids |-> @[i] \ {p}]]

DismissOverview(u) == [u EXCEPT !.overview = 0]

\* activate_tab
ActivateTab(u, i) == SetActive(DismissOverview(u), i)

\* open_worktree
OpenWorktree(u, w) ==
    LET v == Enter(u, w)
    IN IF Of(u, w) # {} THEN ActivateTab(v, v.active[w]) ELSE Push(v, w)

-----------------------------------------------------------------------------
(* Questions *)

Question(why, i, p, other, queued) ==
    [why |-> why, tab |-> i, pane |-> p, other |-> other, queued |-> queued]

\* Handlers end by storing u or by asking first.
Done(u) ==
    /\ ui' = u
    /\ busy' = busy \cap LivePanes(u)
    /\ UNCHANGED <<window, asks>>

Ask(u, q) ==
    /\ ui' = u
    /\ asks' = <<q>> \o asks
    /\ UNCHANGED <<window, busy>>

\* performClose, windowShouldClose: asks if any terminal is busy.
CloseWindow(u, why, queued) ==
    IF busy # {} THEN Ask(u, Question(why, 0, 0, 0, queued))
    ELSE /\ ui' = u
         /\ window' = IF why = "quit" THEN "quit" ELSE "closed"
         /\ UNCHANGED <<busy, asks>>

\* The end of request_close_tab.
AfterClose(u, i, other) ==
    LET v == Remove(u, i) IN IF other # 0 THEN ActivateTab(v, other) ELSE v

\* MUTANT of Running: only the pane that is shown.
RunningInFront(u, i) == IF u.zoom[i] # 0 THEN busy \cap {u.zoom[i]}
                                       ELSE busy \cap {First(u.panes[i] \cup {MaxPanes})}
Running(u, i) == busy \cap u.panes[i]

\* MUTANT of Successor: the window stays where it was.
NoSuccessor(u, i) == 0

\* Another worktree's tab, wanted when i is the last one of the current.
Successor(u, i) ==
    IF Siblings(u, i) = {i} /\ u.current = u.ws[i] THEN Other(u, u.ws[i]) ELSE 0

RequestCloseTab(u0, i, queued) ==
    LET u == DismissOverview(u0)
        other == Successor(u, i)
    IN IF i \notin u.items THEN Done(u)
       ELSE IF Siblings(u, i) = {i} /\ u.current = u.ws[i] /\ Other(u, u.ws[i]) = 0
            THEN CloseWindow(u, "window", queued)
       ELSE IF Running(u, i) # {} THEN Ask(u, Question("tab", i, 0, other, queued))
       ELSE Done(AfterClose(u, i, other))

-----------------------------------------------------------------------------
(* What the user does; nothing while a question is open *)

Free == asks = <<>> /\ window # "quit"
AtWindow == Free /\ window = "open"
MayOpen == ui.tabs < MaxTabs /\ ui.made < MaxPanes
Quiet == UNCHANGED <<pending, raced>>

\* A row of the sidebar, an item of Work in it or in the menu, the first row
\* when the window opens.
OpenRow(w) ==
    /\ Free
    /\ Of(ui, w) = {} => MayOpen
    /\ Done(OpenWorktree(DismissOverview(ui), w))
    /\ Quiet

\* In the current worktree, or else in the first row of the sidebar.
NewTab ==
    /\ Free /\ MayOpen
    /\ \E w \in Workspaces :
          /\ ui.current \in {w, None}
          /\ Done(Push(DismissOverview(ui), w))
    /\ Quiet

SelectTab(i) == AtWindow /\ Done(ActivateTab(ui, i)) /\ Quiet

CloseTabClicked(i) == AtWindow /\ RequestCloseTab(ui, i, FALSE) /\ Quiet

\* Previous and next tab, and a tab by its number.
GotoTab ==
    /\ Free
    /\ \E i \in Visible(ui) : Done(ActivateTab(ui, i))
    /\ Quiet

\* Cmd-W.
CloseFocused(p) ==
    LET u == DismissOverview(ui)  i == ActiveId(u) IN
    /\ Free /\ p \in Focusable(ui)
    /\ IF Cardinality(u.panes[i]) <= 1 THEN RequestCloseTab(u, i, FALSE)
       ELSE IF p \in busy THEN Ask(u, Question("pane", i, p, 0, FALSE))
       ELSE Done(ClosePane(RestoreZoom(u, p), p))
    /\ Quiet

Divide(p) ==
    LET u == RestoreZoom(DismissOverview(ui), p)  fresh == u.made + 1 IN
    /\ Free /\ p \in Focusable(ui) /\ u.made < MaxPanes
    /\ Done([u EXCEPT !.panes[ActiveId(u)] = @ \cup {fresh}, !.made = fresh])
    /\ Quiet

\* A pane that is alone has no split to be zoomed in.
ToggleZoom(p) ==
    LET u == DismissOverview(ui)  i == ActiveId(u) IN
    /\ Free /\ p \in Focusable(ui)
    /\ Done([u EXCEPT !.zoom[i] = IF @ # 0 \/ u.panes[i] = {p} THEN 0 ELSE p])
    /\ Quiet

\* Moving the focus between panes undoes the zoom.
GotoSplit(p) == Free /\ p \in Focusable(ui) /\ Done(RestoreZoom(DismissOverview(ui), p)) /\ Quiet

ToggleOverview ==
    /\ Free
    /\ Done([ui EXCEPT !.overview = IF @ # 0 THEN 0 ELSE ActiveId(ui)])
    /\ Quiet

\* Escape, or Return, or a card.
LeaveOverview ==
    /\ AtWindow /\ ui.overview # 0
    /\ \/ Done(DismissOverview(ui))
       \/ \E i \in Visible(ui) \cup {ui.overview} : Done(ActivateTab(ui, i))
    /\ Quiet

\* The close button, Opt-Cmd-W; Cmd-Q.
CloseWindowClicked == AtWindow /\ CloseWindow(ui, "window", FALSE) /\ Quiet
Quit ==
    /\ Free
    /\ IF window = "open" THEN CloseWindow(DismissOverview(ui), "quit", FALSE)
       ELSE window' = "quit" /\ UNCHANGED <<ui, busy, asks>>
    /\ Quiet

\* The Dock shows the window again.
Reveal ==
    /\ Free /\ window = "closed"
    /\ window' = "open"
    /\ UNCHANGED <<ui, busy, asks>>
    /\ Quiet

\* The innermost alert ends; its handler goes on.
Answer(yes) ==
    LET q == Head(asks) IN
    /\ asks # <<>>
    /\ asks' = Tail(asks)
    /\ IF ~yes THEN UNCHANGED <<ui, window, busy>>
       ELSE CASE q.why = "tab" ->
                   /\ ui' = AfterClose(ui, q.tab, q.other)
                   /\ busy' = busy \cap LivePanes(ui')
                   /\ UNCHANGED window
              [] q.why = "pane" ->
                   /\ ui' = ClosePane(RestoreZoom(ui, q.pane), q.pane)
                   /\ busy' = busy \cap LivePanes(ui')
                   /\ UNCHANGED window
              [] q.why \in {"window", "quit"} ->
                   /\ window' = IF q.why = "quit" THEN "quit" ELSE "closed"
                   /\ UNCHANGED <<ui, busy>>
    /\ Quiet

-----------------------------------------------------------------------------
(* What happens by itself *)

\* A program starts or ends in a pane.
Program(p) ==
    /\ window # "quit" /\ p \in LivePanes(ui) \ pending
    /\ busy' = IF p \in busy THEN busy \ {p} ELSE busy \cup {p}
    /\ UNCHANGED <<ui, window, pending, asks, raced>>

\* Its shell ends: close_surface, queue_close.
ShellEnds(p) ==
    /\ window # "quit" /\ p \in LivePanes(ui) \ pending
    /\ busy' = busy \ {p}
    /\ pending' = pending \cup {p}
    /\ UNCHANGED <<ui, window, asks, raced>>

\* MUTANT of CloseLeaf: the last pane of a tab stays.
KeepLastLeaf(p) ==
    LET u == RestoreZoom(DismissOverview(ui), p)  own == TabOf(u, p) IN
    IF own = {} \/ Cardinality(u.panes[First(own)]) <= 1 THEN Done(u)
                                                        ELSE Done(ClosePane(u, p))

CloseLeaf(p) ==
    LET u == RestoreZoom(DismissOverview(ui), p)  own == TabOf(u, p) IN
    IF own = {} THEN Done(u)
    ELSE LET i == First(own) IN
         IF Cardinality(u.panes[i]) <= 1 THEN RequestCloseTab(u, i, TRUE)
                                         ELSE Done(ClosePane(u, p))

\* The main thread runs the next queued block.
Dequeue(p) ==
    /\ window # "quit" /\ p \in pending
    /\ \A k \in 1..Len(asks) : ~asks[k].queued
    /\ pending' = pending \ {p}

\* drain_pending.
Drain(p) ==
    /\ Dequeue(p)
    /\ CloseLeaf(p)
    /\ raced' = (raced \/ asks # <<>>)

Next ==
    \/ \E w \in Workspaces : OpenRow(w)
    \/ NewTab \/ GotoTab \/ ToggleOverview \/ LeaveOverview
    \/ \E i \in ui.items : SelectTab(i) \/ CloseTabClicked(i)
    \/ \E p \in Panes : \/ CloseFocused(p) \/ Divide(p) \/ ToggleZoom(p) \/ GotoSplit(p)
                        \/ Program(p) \/ ShellEnds(p) \/ Drain(p)
    \/ CloseWindowClicked \/ Quit \/ Reveal
    \/ \E yes \in BOOLEAN : Answer(yes)

Spec == Init /\ [][Next]_vars

\* Queued blocks run; users answer or not.  Nothing but Drain dequeues, and
\* close_leaf never waits before it has dequeued.
Fairness == WF_pending(\E p \in Panes : Dequeue(p))
FairSpec == Spec /\ Fairness

-----------------------------------------------------------------------------
(* Properties *)

UiRec == [items: SUBSET Ids, ws: [Ids -> Workspaces \cup {None}], panes: [Ids -> SUBSET Panes],
          zoom: [Ids -> 0..MaxPanes], active: [Workspaces -> 0..MaxTabs],
          current: Workspaces \cup {None}, overview: 0..MaxTabs, tabs: 0..MaxTabs,
          made: 0..MaxPanes]
QuestionRec == [why: {"tab", "pane", "window", "quit"}, tab: 0..MaxTabs, pane: 0..MaxPanes,
                other: 0..MaxTabs, queued: BOOLEAN]

\* Every variable has its type; a pane is in one tab only.
TypeOK ==
    /\ ui \in UiRec
    /\ window \in {"open", "closed", "quit"}
    /\ busy \subseteq LivePanes(ui)
    /\ pending \subseteq Panes
    /\ asks \in Seq(QuestionRec)
    /\ raced \in BOOLEAN
    /\ \A i, j \in ui.items : i # j => ui.panes[i] \cap ui.panes[j] = {}

\* A worktree that has tabs remembers one of them as active, and one that has
\* none remembers none; the current worktree has tabs.  This holds through every
\* close, also one that happens behind a question.
ActiveIsTheirs ==
    /\ \A w \in Workspaces :
          IF Of(ui, w) = {} THEN ui.active[w] = 0 ELSE ui.active[w] \in Of(ui, w)
    /\ ui.current # None => Of(ui, ui.current) # {}

\* A zoomed pane is one of several of its tab: the tree is restored before it
\* changes (docs/DESIGN.md, Tab Overview: "closing a pane or adding a split
\* restores the tree first").
ZoomIsSplit ==
    \A i \in ui.items : ui.zoom[i] # 0 =>
        ui.zoom[i] \in ui.panes[i] /\ Cardinality(ui.panes[i]) > 1

\* An open overview shows the current worktree and was opened from its active
\* tab: whatever changes the tabs behind it dismisses it first.
OverviewIsCurrent == ui.overview # 0 => ui.overview = ActiveId(ui)

\* "Closing the last tab of a workspace ends that session.  If another workspace
\* still has tabs, the window switches to it; if none remain, the window closes"
\* (docs/DESIGN.md:35): once a tab was opened, an open window always shows one,
\* and a tab always has a pane.
SessionShown ==
    /\ ui.tabs > 0 /\ window = "open" => ActiveId(ui) # 0
    /\ \A i \in ui.items : ui.panes[i] # {}

\* That holds unless a pane was closed behind an open question.
SessionShownUnlessRaced == raced \/ SessionShown

\* The window and its tabs agree: what is current, active, zoomed or shown in the
\* overview is there, after every close, also one behind a question.
TabsAgree == TypeOK /\ ActiveIsTheirs /\ ZoomIsSplit /\ OverviewIsCurrent /\ SessionShownUnlessRaced

\* A pane whose foreground process runs is closed only by an answer that was
\* about it.
NoSilentKill ==
    [][\A p \in busy : p \notin LivePanes(ui') =>
         /\ asks # <<>> /\ asks' = Tail(asks)
         /\ p = Head(asks).pane \/ p \in ui.panes[Head(asks).tab]]_vars

\* A pane whose shell ended goes, or the window does, also behind a question; not
\* while one is open that such a close has asked itself.
EndedPanesGo ==
    \A p \in Panes :
        p \in pending ~> \/ p \notin LivePanes(ui) \/ window # "open"
                       \/ \E k \in 1..Len(asks) : asks[k].queued
=============================================================================
