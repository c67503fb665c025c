------------------------- MODULE ApplicationProofs -------------------------
(***************************************************************************)
(* Proofs about the parts of Application, for every number of workspaces,   *)
(* tabs and writes, of repositories, commands and clients.                  *)
(*                                                                          *)
(* WorkPanel.  A decision that was checked may have been overtaken; that    *)
(* one which was not is about what was shown rests on revisions that only   *)
(* grow: while the revision is the one a panel was rendered with, nothing   *)
(* was written since (Fresh).  That every terminal has its width back after *)
(* a panel needs to know that only the one in front gave it away (Narrow).  *)
(*                                                                          *)
(* CatalogFile.  The copy of a writer that nobody overtook is the file      *)
(* (InDate).                                                                *)
(*                                                                          *)
(* WorkspaceStores.  While no two calls overlapped, a copy that is about to *)
(* be written was made of what is stored (WriteFits), a deletion knows of   *)
(* every pane it has to take (DeleteFits), a migration has stored what it   *)
(* no longer lists (MigrationFits), and what a deletion will leave is what  *)
(* it promises (KeepsPromise).                                              *)
(*                                                                          *)
(* QuotaReader.  Under the stamp of a file there was never another content: *)
(* a log only grows, Claude's file is replaced by another (Before), so that *)
(* what is kept under the present stamp was made of the present file        *)
(* (CacheIsOf, OpenIsOf).  While nothing is written a refresh has the quota *)
(* of every file it is done with (HasRead).                                 *)
(***************************************************************************)
EXTENDS Application, FiniteSetTheorems, SequenceTheorems, WellFoundedInduction, TLAPS

-----------------------------------------------------------------------------
(* The panel of a Work *)

\* What the window's thread is in, and how far.
BusyIs ==
    busy # None =>
        /\ busy.op = "open" <=> busy.at \in {"open", "revision"}
        /\ busy.op = "send" <=> busy.at = "sending"
        /\ busy.at = "revision" => inspector = None

\* Revisions are not in the future.
Dated == \A w \in Works : version[w] <= rev /\ own[w] <= rev

\* A Work that is shown is stored; one that is being created is not.
Known ==
    /\ \A v \in Panels : version[v.work] > 0
    /\ busy # None => /\ busy.at = "revision" => version[busy.work] > 0
                      /\ busy.op = "create" => version[busy.work] = 0

\* The overview has what the window wrote, but for the message being sent.
Loaded ==
    overview # None =>
        \/ overview.rev >= own[overview.work]
        \/ overview.work \in missed
        \/ busy # None /\ busy.at = "sending" /\ busy.work = overview.work

\* Only the tab in front is beside a panel.
Narrow == moved \/ \A t \in AllTabs : t # active \/ ~Panelled => width[t] = "full"

Unchanged(w, seen, mixed) == version[w] = seen \/ mixed

\* While the revision is the one that was rendered, the Work is as it was shown; after
\* the check, while the Work is as it was checked.
Fresh ==
    /\ \A v \in Panels : v.rev <= rev /\ (v.rev = rev => Unchanged(v.work, v.version, v.torn))
    /\ busy # None /\ busy.op \in {"review", "assign"} =>
          /\ busy.at = "dialog" =>
                /\ busy.rev <= rev
                /\ busy.rev = rev => Unchanged(busy.work, busy.shown, busy.torn)
          /\ busy.at = "commit" =>
                /\ busy.checked <= rev
                /\ version[busy.work] = busy.checked => Unchanged(busy.work, busy.shown, busy.torn)

IInv == TypeOK /\ BusyIs /\ Dated /\ SelectedIsShown /\ Known /\ Loaded /\ Narrow /\ Fresh

-----------------------------------------------------------------------------
\* A dialog is about what the panel showed.
LEMMA DialogIs ==
  ASSUME NEW op \in {"propose", "review", "assign"}, NEW v \in Overviews
  PROVE  LET d == Dialog(op, v)
         IN /\ d \in Jobs /\ d.at = "dialog" /\ d.op = op /\ d.work = v.work
            /\ d.rev = v.rev /\ d.shown = v.version /\ d.torn = v.torn
  <1> DEFINE b == Busy("dialog", op, v.work)
  <1>1. b \in Jobs /\ b.at = "dialog" /\ b.op = op /\ b.work = v.work
    BY PanelBounds DEF Busy, Jobs, Overviews, Stages
  <1> HIDE DEF b
  <1>2. Dialog(op, v) = [b EXCEPT !.rev = v.rev, !.shown = v.version, !.torn = v.torn]
    BY DEF Dialog, b
  <1>3. v.rev \in 0..MaxRevision /\ v.version \in 0..MaxRevision /\ v.torn \in BOOLEAN
    BY DEF Overviews
  <1> QED
    BY <1>1, <1>2, <1>3 DEF Jobs

\* Every step keeps the types.
LEMMA TypeStep ==
  ASSUME IInv, [Next]_vars
  PROVE  TypeOK'
  <1>1. ASSUME NEW w \in Works, OtherWrites(w) PROVE TypeOK'
    BY <1>1, PanelBounds, NoneIsNothing
       DEF IInv, TypeOK, Overviews, Inspectors, Jobs, Stages, Panels, Home, AllTabs,
           OtherWrites, WriteTo, Exists, After, store, tabs, panel, past
  <1>2. ASSUME NEW w \in Works, ClickWork(w) PROVE TypeOK'
    BY <1>2, PanelBounds, NoneIsNothing
       DEF IInv, TypeOK, Overviews, Inspectors, Jobs, Stages, Panels, Home, AllTabs,
           ClickWork, Clicked, Idle, CloseBoth, CloseOverview, Deselected, Full, Busy,
           Exists, store, tabs, panel, past
  <1>3. ASSUME NEW w \in Works, MenuShowWork(w) PROVE TypeOK'
    BY <1>3, PanelBounds, NoneIsNothing
       DEF IInv, TypeOK, Overviews, Inspectors, Jobs, Stages, Panels, Home, AllTabs,
           MenuShowWork, Idle, Busy, Exists, store, tabs, panel, past
  <1>4. ASSUME NEW w \in Workspaces, ClickWorkspace(w) PROVE TypeOK'
    BY <1>4, PanelBounds, NoneIsNothing
       DEF IInv, TypeOK, Overviews, Inspectors, Jobs, Stages, Panels, Home, AllTabs,
           ClickWorkspace, Idle, CloseOverview, Deselected, Full, TabsOf, store, tabs,
           panel, past
  <1>5. ASSUME NEW t \in AllTabs, ClickTab(t) PROVE TypeOK'
    BY <1>5, PanelBounds, NoneIsNothing
       DEF IInv, TypeOK, Overviews, Inspectors, Jobs, Stages, Panels, Home, AllTabs,
           ClickTab, TabsOf, Clicked, Idle, CloseBoth, CloseOverview, Deselected, Full,
           store, tabs, panel, past
  <1>6. ASSUME NEW t \in AllTabs, GotoTab(t) PROVE TypeOK'
    BY <1>6, PanelBounds, NoneIsNothing
       DEF IInv, TypeOK, Overviews, Inspectors, Jobs, Stages, Panels, Home, AllTabs,
           GotoTab, TabsOf, Idle, Beside, store, tabs, panel, past
  <1>7. ASSUME NEW t \in AllTabs, CloseTab(t) PROVE TypeOK'
    <2>1. CASE t # active
      BY <1>7, <2>1 DEF IInv, TypeOK, Overviews, Inspectors, Jobs, Stages, Panels, Home,
         AllTabs, CloseTab, store, panel, past
    <2>2. CASE t = active
      <3>1. PICK n \in open \ {t} : active' = n
        <4>1. open # {} /\ open # {t}
          <5>1. Cardinality({}) = 0
            BY FS_EmptySet
          <5>2. Cardinality({t}) = 1
            BY FS_Singleton, Zenon
          <5>3. Cardinality(open) > 1
            BY <1>7 DEF CloseTab
          <5> QED
            BY <5>1, <5>2, <5>3
        <4>2. open \ {t} # {}
          BY <4>1
        <4> QED
          BY <1>7, <2>2, <4>2 DEF CloseTab, TabsOf
      <3>2. width' \in [AllTabs -> {"full", "narrow"}]
        BY <1>7, <2>2 DEF CloseTab, IInv, TypeOK
      <3>3. moved' \in BOOLEAN
        BY <1>7, <2>2 DEF CloseTab, IInv, TypeOK
      <3> QED
        BY <1>7, <3>1, <3>2, <3>3 DEF IInv, TypeOK, Overviews, Inspectors, Jobs, Stages,
           Panels, Home, AllTabs, CloseTab, store, panel, past
    <2> QED
      BY <2>1, <2>2
  <1>8. ASSUME NEW i \in 1..MaxTabs, NewTab(i) PROVE TypeOK'
    BY <1>8, PanelBounds, NoneIsNothing
       DEF IInv, TypeOK, Overviews, Inspectors, Jobs, Stages, Panels, Home, AllTabs,
           NewTab, Clicked, Idle, CloseBoth, CloseOverview, Deselected, Full, store,
           tabs, panel, past
  <1>9. ASSUME NEW fromMenu \in BOOLEAN, CreateWork(fromMenu) PROVE TypeOK'
    BY <1>9, PanelBounds, NoneIsNothing
       DEF IInv, TypeOK, Overviews, Inspectors, Jobs, Stages, Panels, Home, AllTabs,
           CreateWork, Idle, Exists, Busy, CloseBoth, CloseOverview, Deselected, Full,
           store, tabs, panel, past
  <1>10. ASSUME NEW v \in Panels, NEW op \in Buttons(v), Press(v, op) PROVE TypeOK'
    <2> DEFINE d == Dialog(op, v)
    <2>1. op \in {"propose", "review", "assign"}
      BY DEF Buttons
    <2>2. v \in Overviews
      BY DEF Panels, IInv, TypeOK
    <2>3. /\ d \in Jobs /\ d.at = "dialog" /\ d.op = op /\ d.work = v.work
          /\ d.rev = v.rev /\ d.shown = v.version /\ d.torn = v.torn
      BY <2>1, <2>2, DialogIs
    <2>4. busy' = d /\ UNCHANGED <<store, tabs, panel, past>>
      BY <1>10 DEF Press
    <2> HIDE DEF d
    <2> QED
      BY <2>1, <2>2, <2>3, <2>4, PanelBounds, NoneIsNothing
         DEF IInv, TypeOK, Overviews, Inspectors, Jobs, Stages, Panels, Home, AllTabs,
             store, tabs, panel, past
  <1>11. ASSUME NEW v \in Panels, Preview(v) PROVE TypeOK'
    BY <1>11, PanelBounds, NoneIsNothing
       DEF IInv, TypeOK, Overviews, Inspectors, Jobs, Stages, Panels, Home, AllTabs,
           Preview, Idle, CloseOverview, Deselected, Beside, store, tabs, panel, past
  <1>12. ASSUME NEW v \in Panels, Send(v) PROVE TypeOK'
    BY <1>12, PanelBounds, NoneIsNothing
       DEF IInv, TypeOK, Overviews, Inspectors, Jobs, Stages, Panels, Home, AllTabs,
           Send, Idle, OwnWrite, WriteTo, Busy, store, tabs, panel, past
  <1>13. ASSUME OtherRecord PROVE TypeOK'
    BY <1>13, PanelBounds, NoneIsNothing
       DEF IInv, TypeOK, Overviews, Inspectors, Jobs, Stages, Panels, Home, AllTabs,
           OtherRecord, store, tabs, panel, past
  <1>14. ASSUME ClickNothing PROVE TypeOK'
    BY <1>14, PanelBounds, NoneIsNothing
       DEF IInv, TypeOK, Overviews, Inspectors, Jobs, Stages, Panels, Home, AllTabs,
           ClickNothing, Clicked, Idle, CloseBoth, CloseOverview, Deselected, Full,
           store, tabs, panel, past
  <1>15. ASSUME ReadWork PROVE TypeOK'
    BY <1>15, PanelBounds, NoneIsNothing
       DEF IInv, TypeOK, Overviews, Inspectors, Jobs, Stages, Panels, Home, AllTabs,
           ReadWork, Idle, Exists, Uninspected, Full, store, tabs, panel, past
  <1>16. ASSUME ShowWork PROVE TypeOK'
    BY <1>16, PanelBounds, NoneIsNothing
       DEF IInv, TypeOK, Overviews, Inspectors, Jobs, Stages, Panels, Home, AllTabs,
           ShowWork, Idle, TabsOf, Beside, store, tabs, panel, past
  <1>17. ASSUME ReadFails PROVE TypeOK'
    BY <1>17, PanelBounds, NoneIsNothing
       DEF IInv, TypeOK, Overviews, Inspectors, Jobs, Stages, Panels, Home, AllTabs,
           ReadFails, Idle, Uninspected, Full, store, tabs, panel, past
  <1>18. ASSUME Layout PROVE TypeOK'
    BY <1>18, PanelBounds, NoneIsNothing
       DEF IInv, TypeOK, Overviews, Inspectors, Jobs, Stages, Panels, Home, AllTabs,
           Layout, Beside, store, tabs, panel, past
  <1>19. ASSUME Cancel PROVE TypeOK'
    BY <1>19, PanelBounds, NoneIsNothing
       DEF IInv, TypeOK, Overviews, Inspectors, Jobs, Stages, Panels, Home, AllTabs,
           Cancel, Idle, store, tabs, panel, past
  <1>20. ASSUME Confirm PROVE TypeOK'
    BY <1>20, PanelBounds, NoneIsNothing
       DEF IInv, TypeOK, Overviews, Inspectors, Jobs, Stages, Panels, Home, AllTabs,
           Confirm, Idle, IsCurrent, store, tabs, panel, past
  <1>21. ASSUME ConfirmFails PROVE TypeOK'
    BY <1>21, PanelBounds, NoneIsNothing
       DEF IInv, TypeOK, Overviews, Inspectors, Jobs, Stages, Panels, Home, AllTabs,
           ConfirmFails, Idle, Reloads, CloseOverview, Deselected, Full, Busy, store,
           tabs, panel, past
  <1>22. ASSUME CreateFails PROVE TypeOK'
    BY <1>22, PanelBounds, NoneIsNothing
       DEF IInv, TypeOK, Overviews, Inspectors, Jobs, Stages, Panels, Home, AllTabs,
           CreateFails, Idle, store, tabs, panel, past
  <1>23. ASSUME Commit PROVE TypeOK'
    <2>1. busy \in Jobs /\ busy.work \in Works /\ busy # None
      BY <1>23 DEF Commit, Idle, IInv, TypeOK, Jobs
    <2>2. PICK s \in Stages : OwnWrite(busy.work, s)
      BY <1>23 DEF Commit, Stages
    <2>3. /\ rev' \in 0..MaxRevision /\ version' \in [Works -> 0..MaxRevision]
          /\ stage' \in [Works -> Stages] /\ own' \in [Works -> 0..MaxRevision]
      BY <2>1, <2>2, PanelBounds DEF OwnWrite, WriteTo, IInv, TypeOK
    <2>4. busy' \in Jobs
      <3>1. busy' = Busy("open", "open", busy.work)
        BY <1>23 DEF Commit, Reloads
      <3> QED
        BY <2>1, <3>1, PanelBounds DEF Busy, Jobs, Stages
    <2>5. \/ CloseOverview /\ width' = Full /\ UNCHANGED inspector
          \/ UNCHANGED <<panel, width>>
      BY <1>23 DEF Commit, Reloads
    <2> QED
      BY <1>23, <2>3, <2>4, <2>5
         DEF IInv, TypeOK, Commit, CloseOverview, Deselected, Full, panel
  <1>24. ASSUME Refresh PROVE TypeOK'
    BY <1>24, PanelBounds, NoneIsNothing
       DEF IInv, TypeOK, Overviews, Inspectors, Jobs, Stages, Panels, Home, AllTabs,
           Refresh, Idle, CloseOverview, Deselected, Full, Busy, store, tabs, panel, past
  <1>25. ASSUME SendEnds PROVE TypeOK'
    BY <1>25, PanelBounds, NoneIsNothing
       DEF IInv, TypeOK, Overviews, Inspectors, Jobs, Stages, Panels, Home, AllTabs,
           SendEnds, Idle, OwnWrite, WriteTo, Reloads, CloseOverview, Deselected, Full,
           Busy, store, tabs, panel, past
  <1>26. ASSUME SendFails PROVE TypeOK'
    BY <1>26, PanelBounds, NoneIsNothing
       DEF IInv, TypeOK, Overviews, Inspectors, Jobs, Stages, Panels, Home, AllTabs,
           SendFails, Idle, store, tabs, panel, past
  <1>27. ASSUME SelectFile PROVE TypeOK'
    BY <1>27, PanelBounds, NoneIsNothing
       DEF IInv, TypeOK, Overviews, Inspectors, Jobs, Stages, Panels, Home, AllTabs,
           SelectFile, Idle, Beside, store, tabs, panel, past
  <1>28. ASSUME SetHint PROVE TypeOK'
    BY <1>28, PanelBounds, NoneIsNothing
       DEF IInv, TypeOK, Overviews, Inspectors, Jobs, Stages, Panels, Home, AllTabs,
           SetHint, Idle, Exists, OwnWrite, WriteTo, Beside, store, tabs, panel, past
  <1>29. CASE UNCHANGED vars
    BY <1>29 DEF IInv, TypeOK, Overviews, Inspectors, Jobs, Stages, Panels, Home,
       AllTabs, vars, store, tabs, panel, past
  <1> QED
    BY <1>1, <1>2, <1>3, <1>4, <1>5, <1>6, <1>7, <1>8, <1>9, <1>10, <1>11, <1>12, <1>13,
       <1>14, <1>15, <1>16, <1>17, <1>18, <1>19, <1>20, <1>21, <1>22, <1>23, <1>24,
       <1>25, <1>26, <1>27, <1>28, <1>29 DEF Next

\* What the window's thread is in stays in order.
LEMMA BusyStep ==
  ASSUME IInv, [Next]_vars
  PROVE  BusyIs'
  <1>1. ASSUME NEW w \in Works, OtherWrites(w) PROVE BusyIs'
    BY <1>1, PanelBounds, NoneIsNothing
       DEF IInv, BusyIs, TypeOK, Jobs, Overviews, Panels,
           OtherWrites, WriteTo, Exists, After, store, tabs, panel, past
  <1>2. ASSUME NEW w \in Works, ClickWork(w) PROVE BusyIs'
    BY <1>2, PanelBounds, NoneIsNothing
       DEF IInv, BusyIs, TypeOK, Jobs, Overviews, Panels,
           ClickWork, Clicked, Idle, CloseBoth, CloseOverview, Deselected, Full, Busy,
           Exists, store, tabs, panel, past
  <1>3. ASSUME NEW w \in Works, MenuShowWork(w) PROVE BusyIs'
    BY <1>3, PanelBounds, NoneIsNothing
       DEF IInv, BusyIs, TypeOK, Jobs, Overviews, Panels,
           MenuShowWork, Idle, Busy, Exists, store, tabs, panel, past
  <1>4. ASSUME NEW w \in Workspaces, ClickWorkspace(w) PROVE BusyIs'
    BY <1>4, PanelBounds, NoneIsNothing
       DEF IInv, BusyIs, TypeOK, Jobs, Overviews, Panels,
           ClickWorkspace, Idle, CloseOverview, Deselected, Full, TabsOf, store, tabs,
           panel, past
  <1>5. ASSUME NEW t \in AllTabs, ClickTab(t) PROVE BusyIs'
    BY <1>5, PanelBounds, NoneIsNothing
       DEF IInv, BusyIs, TypeOK, Jobs, Overviews, Panels,
           ClickTab, TabsOf, Clicked, Idle, CloseBoth, CloseOverview, Deselected, Full,
           store, tabs, panel, past
  <1>6. ASSUME NEW t \in AllTabs, GotoTab(t) PROVE BusyIs'
    BY <1>6, PanelBounds, NoneIsNothing
       DEF IInv, BusyIs, TypeOK, Jobs, Overviews, Panels,
           GotoTab, TabsOf, Idle, Beside, store, tabs, panel, past
  <1>7. ASSUME NEW t \in AllTabs, CloseTab(t) PROVE BusyIs'
    BY <1>7, PanelBounds, NoneIsNothing
       DEF IInv, BusyIs, TypeOK, Jobs, Overviews, Panels,
           CloseTab, TabsOf, store, tabs, panel, past
  <1>8. ASSUME NEW i \in 1..MaxTabs, NewTab(i) PROVE BusyIs'
    BY <1>8, PanelBounds, NoneIsNothing
       DEF IInv, BusyIs, TypeOK, Jobs, Overviews, Panels,
           NewTab, Clicked, Idle, CloseBoth, CloseOverview, Deselected, Full, store,
           tabs, panel, past
  <1>9. ASSUME NEW fromMenu \in BOOLEAN, CreateWork(fromMenu) PROVE BusyIs'
    BY <1>9, PanelBounds, NoneIsNothing
       DEF IInv, BusyIs, TypeOK, Jobs, Overviews, Panels,
           CreateWork, Idle, Exists, Busy, CloseBoth, CloseOverview, Deselected, Full,
           store, tabs, panel, past
  <1>10. ASSUME NEW v \in Panels, NEW op \in Buttons(v), Press(v, op) PROVE BusyIs'
    <2> DEFINE d == Dialog(op, v)
    <2>1. op \in {"propose", "review", "assign"}
      BY DEF Buttons
    <2>2. v \in Overviews
      BY DEF Panels, IInv, TypeOK
    <2>3. /\ d \in Jobs /\ d.at = "dialog" /\ d.op = op /\ d.work = v.work
          /\ d.rev = v.rev /\ d.shown = v.version /\ d.torn = v.torn
      BY <2>1, <2>2, DialogIs
    <2>4. busy' = d /\ UNCHANGED <<store, tabs, panel, past>>
      BY <1>10 DEF Press
    <2> HIDE DEF d
    <2> QED
      BY <2>1, <2>2, <2>3, <2>4, PanelBounds, NoneIsNothing
         DEF IInv, BusyIs, TypeOK, Jobs, Overviews, Panels,
             store, tabs, panel, past
  <1>11. ASSUME NEW v \in Panels, Preview(v) PROVE BusyIs'
    BY <1>11, PanelBounds, NoneIsNothing
       DEF IInv, BusyIs, TypeOK, Jobs, Overviews, Panels,
           Preview, Idle, CloseOverview, Deselected, Beside, store, tabs, panel, past
  <1>12. ASSUME NEW v \in Panels, Send(v) PROVE BusyIs'
    BY <1>12, PanelBounds, NoneIsNothing
       DEF IInv, BusyIs, TypeOK, Jobs, Overviews, Panels,
           Send, Idle, OwnWrite, WriteTo, Busy, store, tabs, panel, past
  <1>13. ASSUME OtherRecord PROVE BusyIs'
    BY <1>13, PanelBounds, NoneIsNothing
       DEF IInv, BusyIs, TypeOK, Jobs, Overviews, Panels,
           OtherRecord, store, tabs, panel, past
  <1>14. ASSUME ClickNothing PROVE BusyIs'
    BY <1>14, PanelBounds, NoneIsNothing
       DEF IInv, BusyIs, TypeOK, Jobs, Overviews, Panels,
           ClickNothing, Clicked, Idle, CloseBoth, CloseOverview, Deselected, Full,
           store, tabs, panel, past
  <1>15. ASSUME ReadWork PROVE BusyIs'
    BY <1>15, PanelBounds, NoneIsNothing
       DEF IInv, BusyIs, TypeOK, Jobs, Overviews, Panels,
           ReadWork, Idle, Exists, Uninspected, Full, store, tabs, panel, past
  <1>16. ASSUME ShowWork PROVE BusyIs'
    BY <1>16, PanelBounds, NoneIsNothing
       DEF IInv, BusyIs, TypeOK, Jobs, Overviews, Panels,
           ShowWork, Idle, TabsOf, Beside, store, tabs, panel, past
  <1>17. ASSUME ReadFails PROVE BusyIs'
    BY <1>17, PanelBounds, NoneIsNothing
       DEF IInv, BusyIs, TypeOK, Jobs, Overviews, Panels,
           ReadFails, Idle, Uninspected, Full, store, tabs, panel, past
  <1>18. ASSUME Layout PROVE BusyIs'
    BY <1>18, PanelBounds, NoneIsNothing
       DEF IInv, BusyIs, TypeOK, Jobs, Overviews, Panels,
           Layout, Beside, store, tabs, panel, past
  <1>19. ASSUME Cancel PROVE BusyIs'
    BY <1>19, PanelBounds, NoneIsNothing
       DEF IInv, BusyIs, TypeOK, Jobs, Overviews, Panels,
           Cancel, Idle, store, tabs, panel, past
  <1>20. ASSUME Confirm PROVE BusyIs'
    BY <1>20, PanelBounds, NoneIsNothing
       DEF IInv, BusyIs, TypeOK, Jobs, Overviews, Panels,
           Confirm, Idle, IsCurrent, store, tabs, panel, past
  <1>21. ASSUME ConfirmFails PROVE BusyIs'
    BY <1>21, PanelBounds, NoneIsNothing
       DEF IInv, BusyIs, TypeOK, Jobs, Overviews, Panels,
           ConfirmFails, Idle, Reloads, CloseOverview, Deselected, Full, Busy, store,
           tabs, panel, past
  <1>22. ASSUME CreateFails PROVE BusyIs'
    BY <1>22, PanelBounds, NoneIsNothing
       DEF IInv, BusyIs, TypeOK, Jobs, Overviews, Panels,
           CreateFails, Idle, store, tabs, panel, past
  <1>23. ASSUME Commit PROVE BusyIs'
    BY <1>23, PanelBounds, NoneIsNothing
       DEF IInv, BusyIs, TypeOK, Jobs, Overviews, Panels,
           Commit, Idle, OwnWrite, WriteTo, Reloads, CloseOverview, Deselected, Full,
           Busy, store, tabs, panel, past
  <1>24. ASSUME Refresh PROVE BusyIs'
    BY <1>24, PanelBounds, NoneIsNothing
       DEF IInv, BusyIs, TypeOK, Jobs, Overviews, Panels,
           Refresh, Idle, CloseOverview, Deselected, Full, Busy, store, tabs, panel, past
  <1>25. ASSUME SendEnds PROVE BusyIs'
    BY <1>25, PanelBounds, NoneIsNothing
       DEF IInv, BusyIs, TypeOK, Jobs, Overviews, Panels,
           SendEnds, Idle, OwnWrite, WriteTo, Reloads, CloseOverview, Deselected, Full,
           Busy, store, tabs, panel, past
  <1>26. ASSUME SendFails PROVE BusyIs'
    BY <1>26, PanelBounds, NoneIsNothing
       DEF IInv, BusyIs, TypeOK, Jobs, Overviews, Panels,
           SendFails, Idle, store, tabs, panel, past
  <1>27. ASSUME SelectFile PROVE BusyIs'
    BY <1>27, PanelBounds, NoneIsNothing
       DEF IInv, BusyIs, TypeOK, Jobs, Overviews, Panels,
           SelectFile, Idle, Beside, store, tabs, panel, past
  <1>28. ASSUME SetHint PROVE BusyIs'
    BY <1>28, PanelBounds, NoneIsNothing
       DEF IInv, BusyIs, TypeOK, Jobs, Overviews, Panels,
           SetHint, Idle, Exists, OwnWrite, WriteTo, Beside, store, tabs, panel, past
  <1>29. CASE UNCHANGED vars
    BY <1>29 DEF IInv, BusyIs, TypeOK, Jobs, Overviews, Panels, vars, store, tabs,
       panel, past
  <1> QED
    BY <1>1, <1>2, <1>3, <1>4, <1>5, <1>6, <1>7, <1>8, <1>9, <1>10, <1>11, <1>12, <1>13,
       <1>14, <1>15, <1>16, <1>17, <1>18, <1>19, <1>20, <1>21, <1>22, <1>23, <1>24,
       <1>25, <1>26, <1>27, <1>28, <1>29 DEF Next

\* A panel that comes closes the other.
LEMMA SelectedStep ==
  ASSUME IInv, [Next]_vars
  PROVE  SelectedIsShown'
  <1>1. ASSUME NEW w \in Works, OtherWrites(w) PROVE SelectedIsShown'
    BY <1>1, PanelBounds, NoneIsNothing
       DEF IInv, TypeOK, BusyIs, SelectedIsShown, Overviews, Inspectors, Jobs, Panels,
           OtherWrites, WriteTo, Exists, After, store, tabs, panel, past
  <1>2. ASSUME NEW w \in Works, ClickWork(w) PROVE SelectedIsShown'
    BY <1>2, PanelBounds, NoneIsNothing
       DEF IInv, TypeOK, BusyIs, SelectedIsShown, Overviews, Inspectors, Jobs, Panels,
           ClickWork, Clicked, Idle, CloseBoth, CloseOverview, Deselected, Full, Busy,
           Exists, store, tabs, panel, past
  <1>3. ASSUME NEW w \in Works, MenuShowWork(w) PROVE SelectedIsShown'
    BY <1>3, PanelBounds, NoneIsNothing
       DEF IInv, TypeOK, BusyIs, SelectedIsShown, Overviews, Inspectors, Jobs, Panels,
           MenuShowWork, Idle, Busy, Exists, store, tabs, panel, past
  <1>4. ASSUME NEW w \in Workspaces, ClickWorkspace(w) PROVE SelectedIsShown'
    BY <1>4, PanelBounds, NoneIsNothing
       DEF IInv, TypeOK, BusyIs, SelectedIsShown, Overviews, Inspectors, Jobs, Panels,
           ClickWorkspace, Idle, CloseOverview, Deselected, Full, TabsOf, store, tabs,
           panel, past
  <1>5. ASSUME NEW t \in AllTabs, ClickTab(t) PROVE SelectedIsShown'
    BY <1>5, PanelBounds, NoneIsNothing
       DEF IInv, TypeOK, BusyIs, SelectedIsShown, Overviews, Inspectors, Jobs, Panels,
           ClickTab, TabsOf, Clicked, Idle, CloseBoth, CloseOverview, Deselected, Full,
           store, tabs, panel, past
  <1>6. ASSUME NEW t \in AllTabs, GotoTab(t) PROVE SelectedIsShown'
    BY <1>6, PanelBounds, NoneIsNothing
       DEF IInv, TypeOK, BusyIs, SelectedIsShown, Overviews, Inspectors, Jobs, Panels,
           GotoTab, TabsOf, Idle, Beside, store, tabs, panel, past
  <1>7. ASSUME NEW t \in AllTabs, CloseTab(t) PROVE SelectedIsShown'
    BY <1>7, PanelBounds, NoneIsNothing
       DEF IInv, TypeOK, BusyIs, SelectedIsShown, Overviews, Inspectors, Jobs, Panels,
           CloseTab, TabsOf, store, tabs, panel, past
  <1>8. ASSUME NEW i \in 1..MaxTabs, NewTab(i) PROVE SelectedIsShown'
    BY <1>8, PanelBounds, NoneIsNothing
       DEF IInv, TypeOK, BusyIs, SelectedIsShown, Overviews, Inspectors, Jobs, Panels,
           NewTab, Clicked, Idle, CloseBoth, CloseOverview, Deselected, Full, store,
           tabs, panel, past
  <1>9. ASSUME NEW fromMenu \in BOOLEAN, CreateWork(fromMenu) PROVE SelectedIsShown'
    BY <1>9, PanelBounds, NoneIsNothing
       DEF IInv, TypeOK, BusyIs, SelectedIsShown, Overviews, Inspectors, Jobs, Panels,
           CreateWork, Idle, Exists, Busy, CloseBoth, CloseOverview, Deselected, Full,
           store, tabs, panel, past
  <1>10. ASSUME NEW v \in Panels, NEW op \in Buttons(v), Press(v, op) PROVE SelectedIsShown'
    BY <1>10, PanelBounds, NoneIsNothing
       DEF IInv, TypeOK, BusyIs, SelectedIsShown, Overviews, Inspectors, Jobs, Panels,
           Press, Idle, Dialog, Busy, store, tabs, panel, past
  <1>11. ASSUME NEW v \in Panels, Preview(v) PROVE SelectedIsShown'
    BY <1>11, PanelBounds, NoneIsNothing
       DEF IInv, TypeOK, BusyIs, SelectedIsShown, Overviews, Inspectors, Jobs, Panels,
           Preview, Idle, CloseOverview, Deselected, Beside, store, tabs, panel, past
  <1>12. ASSUME NEW v \in Panels, Send(v) PROVE SelectedIsShown'
    BY <1>12, PanelBounds, NoneIsNothing
       DEF IInv, TypeOK, BusyIs, SelectedIsShown, Overviews, Inspectors, Jobs, Panels,
           Send, Idle, OwnWrite, WriteTo, Busy, store, tabs, panel, past
  <1>13. ASSUME OtherRecord PROVE SelectedIsShown'
    BY <1>13, PanelBounds, NoneIsNothing
       DEF IInv, TypeOK, BusyIs, SelectedIsShown, Overviews, Inspectors, Jobs, Panels,
           OtherRecord, store, tabs, panel, past
  <1>14. ASSUME ClickNothing PROVE SelectedIsShown'
    BY <1>14, PanelBounds, NoneIsNothing
       DEF IInv, TypeOK, BusyIs, SelectedIsShown, Overviews, Inspectors, Jobs, Panels,
           ClickNothing, Clicked, Idle, CloseBoth, CloseOverview, Deselected, Full,
           store, tabs, panel, past
  <1>15. ASSUME ReadWork PROVE SelectedIsShown'
    BY <1>15, PanelBounds, NoneIsNothing
       DEF IInv, TypeOK, BusyIs, SelectedIsShown, Overviews, Inspectors, Jobs, Panels,
           ReadWork, Idle, Exists, Uninspected, Full, store, tabs, panel, past
  <1>16. ASSUME ShowWork PROVE SelectedIsShown'
    <2> DEFINE w == busy.work
               o == [work |-> w, version |-> busy.shown, stage |-> busy.stage,
                     rev |-> rev, torn |-> version[w] # busy.shown]
    <2>1. busy \in Jobs /\ w \in Works /\ o \in Overviews /\ busy # None /\ busy.at = "revision"
      BY <1>16 DEF ShowWork, Idle, IInv, TypeOK, Jobs, Overviews
    <2>2. PICK t \in AllTabs : active' = t /\ open' = open \cup {t} /\ Beside(t)
                             /\ moved' = (moved \/ (t # active /\ overview # None))
      BY <1>16, <2>1, PanelBounds DEF ShowWork, TabsOf, AllTabs, IInv, TypeOK
    <2>3. /\ overview' = o /\ selected' = w /\ busy' = None
          /\ orphans' = orphans \cup ({overview} \ {None})
          /\ missed' = missed \ {w}
          /\ UNCHANGED <<store, inspector, own>>
      BY <1>16 DEF ShowWork
    <2> HIDE DEF o
    <2>4. /\ o.work = w /\ o.rev = rev /\ o.version = busy.shown
          /\ o.torn = (version[w] # busy.shown)
      BY DEF o
    <2> HIDE DEF w
    <2> QED
      BY <2>1, <2>2, <2>3, <2>4, PanelBounds, NoneIsNothing
         DEF IInv, TypeOK, BusyIs, SelectedIsShown, Overviews, Inspectors, Jobs, Panels,
             Beside, store, tabs, panel, past, w
  <1>17. ASSUME ReadFails PROVE SelectedIsShown'
    BY <1>17, PanelBounds, NoneIsNothing
       DEF IInv, TypeOK, BusyIs, SelectedIsShown, Overviews, Inspectors, Jobs, Panels,
           ReadFails, Idle, Uninspected, Full, store, tabs, panel, past
  <1>18. ASSUME Layout PROVE SelectedIsShown'
    BY <1>18, PanelBounds, NoneIsNothing
       DEF IInv, TypeOK, BusyIs, SelectedIsShown, Overviews, Inspectors, Jobs, Panels,
           Layout, Beside, store, tabs, panel, past
  <1>19. ASSUME Cancel PROVE SelectedIsShown'
    BY <1>19, PanelBounds, NoneIsNothing
       DEF IInv, TypeOK, BusyIs, SelectedIsShown, Overviews, Inspectors, Jobs, Panels,
           Cancel, Idle, store, tabs, panel, past
  <1>20. ASSUME Confirm PROVE SelectedIsShown'
    BY <1>20, PanelBounds, NoneIsNothing
       DEF IInv, TypeOK, BusyIs, SelectedIsShown, Overviews, Inspectors, Jobs, Panels,
           Confirm, Idle, IsCurrent, store, tabs, panel, past
  <1>21. ASSUME ConfirmFails PROVE SelectedIsShown'
    BY <1>21, PanelBounds, NoneIsNothing
       DEF IInv, TypeOK, BusyIs, SelectedIsShown, Overviews, Inspectors, Jobs, Panels,
           ConfirmFails, Idle, Reloads, CloseOverview, Deselected, Full, Busy, store,
           tabs, panel, past
  <1>22. ASSUME CreateFails PROVE SelectedIsShown'
    BY <1>22, PanelBounds, NoneIsNothing
       DEF IInv, TypeOK, BusyIs, SelectedIsShown, Overviews, Inspectors, Jobs, Panels,
           CreateFails, Idle, store, tabs, panel, past
  <1>23. ASSUME Commit PROVE SelectedIsShown'
    BY <1>23, PanelBounds, NoneIsNothing
       DEF IInv, TypeOK, BusyIs, SelectedIsShown, Overviews, Inspectors, Jobs, Panels,
           Commit, Idle, OwnWrite, WriteTo, Reloads, CloseOverview, Deselected, Full,
           Busy, store, tabs, panel, past
  <1>24. ASSUME Refresh PROVE SelectedIsShown'
    BY <1>24, PanelBounds, NoneIsNothing
       DEF IInv, TypeOK, BusyIs, SelectedIsShown, Overviews, Inspectors, Jobs, Panels,
           Refresh, Idle, CloseOverview, Deselected, Full, Busy, store, tabs, panel, past
  <1>25. ASSUME SendEnds PROVE SelectedIsShown'
    BY <1>25, PanelBounds, NoneIsNothing
       DEF IInv, TypeOK, BusyIs, SelectedIsShown, Overviews, Inspectors, Jobs, Panels,
           SendEnds, Idle, OwnWrite, WriteTo, Reloads, CloseOverview, Deselected, Full,
           Busy, store, tabs, panel, past
  <1>26. ASSUME SendFails PROVE SelectedIsShown'
    BY <1>26, PanelBounds, NoneIsNothing
       DEF IInv, TypeOK, BusyIs, SelectedIsShown, Overviews, Inspectors, Jobs, Panels,
           SendFails, Idle, store, tabs, panel, past
  <1>27. ASSUME SelectFile PROVE SelectedIsShown'
    BY <1>27, PanelBounds, NoneIsNothing
       DEF IInv, TypeOK, BusyIs, SelectedIsShown, Overviews, Inspectors, Jobs, Panels,
           SelectFile, Idle, Beside, store, tabs, panel, past
  <1>28. ASSUME SetHint PROVE SelectedIsShown'
    BY <1>28, PanelBounds, NoneIsNothing
       DEF IInv, TypeOK, BusyIs, SelectedIsShown, Overviews, Inspectors, Jobs, Panels,
           SetHint, Idle, Exists, OwnWrite, WriteTo, Beside, store, tabs, panel, past
  <1>29. CASE UNCHANGED vars
    BY <1>29 DEF IInv, TypeOK, BusyIs, SelectedIsShown, Overviews, Inspectors, Jobs,
       Panels, vars, store, tabs, panel, past
  <1> QED
    BY <1>1, <1>2, <1>3, <1>4, <1>5, <1>6, <1>7, <1>8, <1>9, <1>10, <1>11, <1>12, <1>13,
       <1>14, <1>15, <1>16, <1>17, <1>18, <1>19, <1>20, <1>21, <1>22, <1>23, <1>24,
       <1>25, <1>26, <1>27, <1>28, <1>29 DEF Next

\* A write takes the next revision.
LEMMA DatedStep ==
  ASSUME IInv, [Next]_vars
  PROVE  Dated'
  <1>1. ASSUME NEW w \in Works, OtherWrites(w) PROVE Dated'
    BY <1>1, PanelBounds, NoneIsNothing
       DEF IInv, TypeOK, Dated, Jobs, Overviews, Panels, Inspectors,
           OtherWrites, WriteTo, Exists, After, store, tabs, panel, past
  <1>2. ASSUME NEW w \in Works, ClickWork(w) PROVE Dated'
    BY <1>2, PanelBounds, NoneIsNothing
       DEF IInv, TypeOK, Dated, Jobs, Overviews, Panels, Inspectors,
           ClickWork, Clicked, Idle, CloseBoth, CloseOverview, Deselected, Full, Busy,
           Exists, store, tabs, panel, past
  <1>3. ASSUME NEW w \in Works, MenuShowWork(w) PROVE Dated'
    BY <1>3, PanelBounds, NoneIsNothing
       DEF IInv, TypeOK, Dated, Jobs, Overviews, Panels, Inspectors,
           MenuShowWork, Idle, Busy, Exists, store, tabs, panel, past
  <1>4. ASSUME NEW w \in Workspaces, ClickWorkspace(w) PROVE Dated'
    BY <1>4, PanelBounds, NoneIsNothing
       DEF IInv, TypeOK, Dated, Jobs, Overviews, Panels, Inspectors,
           ClickWorkspace, Idle, CloseOverview, Deselected, Full, TabsOf, store, tabs,
           panel, past
  <1>5. ASSUME NEW t \in AllTabs, ClickTab(t) PROVE Dated'
    BY <1>5, PanelBounds, NoneIsNothing
       DEF IInv, TypeOK, Dated, Jobs, Overviews, Panels, Inspectors,
           ClickTab, TabsOf, Clicked, Idle, CloseBoth, CloseOverview, Deselected, Full,
           store, tabs, panel, past
  <1>6. ASSUME NEW t \in AllTabs, GotoTab(t) PROVE Dated'
    BY <1>6, PanelBounds, NoneIsNothing
       DEF IInv, TypeOK, Dated, Jobs, Overviews, Panels, Inspectors,
           GotoTab, TabsOf, Idle, Beside, store, tabs, panel, past
  <1>7. ASSUME NEW t \in AllTabs, CloseTab(t) PROVE Dated'
    BY <1>7, PanelBounds, NoneIsNothing
       DEF IInv, TypeOK, Dated, Jobs, Overviews, Panels, Inspectors,
           CloseTab, TabsOf, store, tabs, panel, past
  <1>8. ASSUME NEW i \in 1..MaxTabs, NewTab(i) PROVE Dated'
    BY <1>8, PanelBounds, NoneIsNothing
       DEF IInv, TypeOK, Dated, Jobs, Overviews, Panels, Inspectors,
           NewTab, Clicked, Idle, CloseBoth, CloseOverview, Deselected, Full, store,
           tabs, panel, past
  <1>9. ASSUME NEW fromMenu \in BOOLEAN, CreateWork(fromMenu) PROVE Dated'
    BY <1>9, PanelBounds, NoneIsNothing
       DEF IInv, TypeOK, Dated, Jobs, Overviews, Panels, Inspectors,
           CreateWork, Idle, Exists, Busy, CloseBoth, CloseOverview, Deselected, Full,
           store, tabs, panel, past
  <1>10. ASSUME NEW v \in Panels, NEW op \in Buttons(v), Press(v, op) PROVE Dated'
    BY <1>10, PanelBounds, NoneIsNothing
       DEF IInv, TypeOK, Dated, Jobs, Overviews, Panels, Inspectors,
           Press, Idle, Dialog, Busy, store, tabs, panel, past
  <1>11. ASSUME NEW v \in Panels, Preview(v) PROVE Dated'
    BY <1>11, PanelBounds, NoneIsNothing
       DEF IInv, TypeOK, Dated, Jobs, Overviews, Panels, Inspectors,
           Preview, Idle, CloseOverview, Deselected, Beside, store, tabs, panel, past
  <1>12. ASSUME NEW v \in Panels, Send(v) PROVE Dated'
    BY <1>12, PanelBounds, NoneIsNothing
       DEF IInv, TypeOK, Dated, Jobs, Overviews, Panels, Inspectors,
           Send, Idle, OwnWrite, WriteTo, Busy, store, tabs, panel, past
  <1>13. ASSUME OtherRecord PROVE Dated'
    BY <1>13, PanelBounds, NoneIsNothing
       DEF IInv, TypeOK, Dated, Jobs, Overviews, Panels, Inspectors,
           OtherRecord, store, tabs, panel, past
  <1>14. ASSUME ClickNothing PROVE Dated'
    BY <1>14, PanelBounds, NoneIsNothing
       DEF IInv, TypeOK, Dated, Jobs, Overviews, Panels, Inspectors,
           ClickNothing, Clicked, Idle, CloseBoth, CloseOverview, Deselected, Full,
           store, tabs, panel, past
  <1>15. ASSUME ReadWork PROVE Dated'
    BY <1>15, PanelBounds, NoneIsNothing
       DEF IInv, TypeOK, Dated, Jobs, Overviews, Panels, Inspectors,
           ReadWork, Idle, Exists, Uninspected, Full, store, tabs, panel, past
  <1>16. ASSUME ShowWork PROVE Dated'
    BY <1>16, PanelBounds, NoneIsNothing
       DEF IInv, TypeOK, Dated, Jobs, Overviews, Panels, Inspectors,
           ShowWork, Idle, TabsOf, Beside, store, tabs, panel, past
  <1>17. ASSUME ReadFails PROVE Dated'
    BY <1>17, PanelBounds, NoneIsNothing
       DEF IInv, TypeOK, Dated, Jobs, Overviews, Panels, Inspectors,
           ReadFails, Idle, Uninspected, Full, store, tabs, panel, past
  <1>18. ASSUME Layout PROVE Dated'
    BY <1>18, PanelBounds, NoneIsNothing
       DEF IInv, TypeOK, Dated, Jobs, Overviews, Panels, Inspectors,
           Layout, Beside, store, tabs, panel, past
  <1>19. ASSUME Cancel PROVE Dated'
    BY <1>19, PanelBounds, NoneIsNothing
       DEF IInv, TypeOK, Dated, Jobs, Overviews, Panels, Inspectors,
           Cancel, Idle, store, tabs, panel, past
  <1>20. ASSUME Confirm PROVE Dated'
    BY <1>20, PanelBounds, NoneIsNothing
       DEF IInv, TypeOK, Dated, Jobs, Overviews, Panels, Inspectors,
           Confirm, Idle, IsCurrent, store, tabs, panel, past
  <1>21. ASSUME ConfirmFails PROVE Dated'
    BY <1>21, PanelBounds, NoneIsNothing
       DEF IInv, TypeOK, Dated, Jobs, Overviews, Panels, Inspectors,
           ConfirmFails, Idle, Reloads, CloseOverview, Deselected, Full, Busy, store,
           tabs, panel, past
  <1>22. ASSUME CreateFails PROVE Dated'
    BY <1>22, PanelBounds, NoneIsNothing
       DEF IInv, TypeOK, Dated, Jobs, Overviews, Panels, Inspectors,
           CreateFails, Idle, store, tabs, panel, past
  <1>23. ASSUME Commit PROVE Dated'
    BY <1>23, PanelBounds, NoneIsNothing
       DEF IInv, TypeOK, Dated, Jobs, Overviews, Panels, Inspectors,
           Commit, Idle, OwnWrite, WriteTo, Reloads, CloseOverview, Deselected, Full,
           Busy, store, tabs, panel, past
  <1>24. ASSUME Refresh PROVE Dated'
    BY <1>24, PanelBounds, NoneIsNothing
       DEF IInv, TypeOK, Dated, Jobs, Overviews, Panels, Inspectors,
           Refresh, Idle, CloseOverview, Deselected, Full, Busy, store, tabs, panel, past
  <1>25. ASSUME SendEnds PROVE Dated'
    BY <1>25, PanelBounds, NoneIsNothing
       DEF IInv, TypeOK, Dated, Jobs, Overviews, Panels, Inspectors,
           SendEnds, Idle, OwnWrite, WriteTo, Reloads, CloseOverview, Deselected, Full,
           Busy, store, tabs, panel, past
  <1>26. ASSUME SendFails PROVE Dated'
    BY <1>26, PanelBounds, NoneIsNothing
       DEF IInv, TypeOK, Dated, Jobs, Overviews, Panels, Inspectors,
           SendFails, Idle, store, tabs, panel, past
  <1>27. ASSUME SelectFile PROVE Dated'
    BY <1>27, PanelBounds, NoneIsNothing
       DEF IInv, TypeOK, Dated, Jobs, Overviews, Panels, Inspectors,
           SelectFile, Idle, Beside, store, tabs, panel, past
  <1>28. ASSUME SetHint PROVE Dated'
    BY <1>28, PanelBounds, NoneIsNothing
       DEF IInv, TypeOK, Dated, Jobs, Overviews, Panels, Inspectors,
           SetHint, Idle, Exists, OwnWrite, WriteTo, Beside, store, tabs, panel, past
  <1>29. CASE UNCHANGED vars
    BY <1>29 DEF IInv, TypeOK, Dated, Jobs, Overviews, Panels, Inspectors, vars, store,
       tabs, panel, past
  <1> QED
    BY <1>1, <1>2, <1>3, <1>4, <1>5, <1>6, <1>7, <1>8, <1>9, <1>10, <1>11, <1>12, <1>13,
       <1>14, <1>15, <1>16, <1>17, <1>18, <1>19, <1>20, <1>21, <1>22, <1>23, <1>24,
       <1>25, <1>26, <1>27, <1>28, <1>29 DEF Next

\* What is stored stays.
LEMMA KnownStep ==
  ASSUME IInv, [Next]_vars
  PROVE  Known'
  <1>1. ASSUME NEW w \in Works, OtherWrites(w) PROVE Known'
    BY <1>1, PanelBounds, NoneIsNothing
       DEF IInv, TypeOK, Known, BusyIs, Jobs, Overviews, Panels, Inspectors,
           OtherWrites, WriteTo, Exists, After, store, tabs, panel, past
  <1>2. ASSUME NEW w \in Works, ClickWork(w) PROVE Known'
    BY <1>2, PanelBounds, NoneIsNothing
       DEF IInv, TypeOK, Known, BusyIs, Jobs, Overviews, Panels, Inspectors,
           ClickWork, Clicked, Idle, CloseBoth, CloseOverview, Deselected, Full, Busy,
           Exists, store, tabs, panel, past
  <1>3. ASSUME NEW w \in Works, MenuShowWork(w) PROVE Known'
    BY <1>3, PanelBounds, NoneIsNothing
       DEF IInv, TypeOK, Known, BusyIs, Jobs, Overviews, Panels, Inspectors,
           MenuShowWork, Idle, Busy, Exists, store, tabs, panel, past
  <1>4. ASSUME NEW w \in Workspaces, ClickWorkspace(w) PROVE Known'
    BY <1>4, PanelBounds, NoneIsNothing
       DEF IInv, TypeOK, Known, BusyIs, Jobs, Overviews, Panels, Inspectors,
           ClickWorkspace, Idle, CloseOverview, Deselected, Full, TabsOf, store, tabs,
           panel, past
  <1>5. ASSUME NEW t \in AllTabs, ClickTab(t) PROVE Known'
    BY <1>5, PanelBounds, NoneIsNothing
       DEF IInv, TypeOK, Known, BusyIs, Jobs, Overviews, Panels, Inspectors,
           ClickTab, TabsOf, Clicked, Idle, CloseBoth, CloseOverview, Deselected, Full,
           store, tabs, panel, past
  <1>6. ASSUME NEW t \in AllTabs, GotoTab(t) PROVE Known'
    BY <1>6, PanelBounds, NoneIsNothing
       DEF IInv, TypeOK, Known, BusyIs, Jobs, Overviews, Panels, Inspectors,
           GotoTab, TabsOf, Idle, Beside, store, tabs, panel, past
  <1>7. ASSUME NEW t \in AllTabs, CloseTab(t) PROVE Known'
    BY <1>7, PanelBounds, NoneIsNothing
       DEF IInv, TypeOK, Known, BusyIs, Jobs, Overviews, Panels, Inspectors,
           CloseTab, TabsOf, store, tabs, panel, past
  <1>8. ASSUME NEW i \in 1..MaxTabs, NewTab(i) PROVE Known'
    BY <1>8, PanelBounds, NoneIsNothing
       DEF IInv, TypeOK, Known, BusyIs, Jobs, Overviews, Panels, Inspectors,
           NewTab, Clicked, Idle, CloseBoth, CloseOverview, Deselected, Full, store,
           tabs, panel, past
  <1>9. ASSUME NEW fromMenu \in BOOLEAN, CreateWork(fromMenu) PROVE Known'
    BY <1>9, PanelBounds, NoneIsNothing
       DEF IInv, TypeOK, Known, BusyIs, Jobs, Overviews, Panels, Inspectors,
           CreateWork, Idle, Exists, Busy, CloseBoth, CloseOverview, Deselected, Full,
           store, tabs, panel, past
  <1>10. ASSUME NEW v \in Panels, NEW op \in Buttons(v), Press(v, op) PROVE Known'
    <2> DEFINE d == Dialog(op, v)
    <2>1. op \in {"propose", "review", "assign"}
      BY DEF Buttons
    <2>2. v \in Overviews
      BY DEF Panels, IInv, TypeOK
    <2>3. /\ d \in Jobs /\ d.at = "dialog" /\ d.op = op /\ d.work = v.work
          /\ d.rev = v.rev /\ d.shown = v.version /\ d.torn = v.torn
      BY <2>1, <2>2, DialogIs
    <2>4. busy' = d /\ UNCHANGED <<store, tabs, panel, past>>
      BY <1>10 DEF Press
    <2> HIDE DEF d
    <2> QED
      BY <2>1, <2>2, <2>3, <2>4, PanelBounds, NoneIsNothing
         DEF IInv, TypeOK, Known, BusyIs, Jobs, Overviews, Panels, Inspectors,
             store, tabs, panel, past
  <1>11. ASSUME NEW v \in Panels, Preview(v) PROVE Known'
    BY <1>11, PanelBounds, NoneIsNothing
       DEF IInv, TypeOK, Known, BusyIs, Jobs, Overviews, Panels, Inspectors,
           Preview, Idle, CloseOverview, Deselected, Beside, store, tabs, panel, past
  <1>12. ASSUME NEW v \in Panels, Send(v) PROVE Known'
    BY <1>12, PanelBounds, NoneIsNothing
       DEF IInv, TypeOK, Known, BusyIs, Jobs, Overviews, Panels, Inspectors,
           Send, Idle, OwnWrite, WriteTo, Busy, store, tabs, panel, past
  <1>13. ASSUME OtherRecord PROVE Known'
    BY <1>13, PanelBounds, NoneIsNothing
       DEF IInv, TypeOK, Known, BusyIs, Jobs, Overviews, Panels, Inspectors,
           OtherRecord, store, tabs, panel, past
  <1>14. ASSUME ClickNothing PROVE Known'
    BY <1>14, PanelBounds, NoneIsNothing
       DEF IInv, TypeOK, Known, BusyIs, Jobs, Overviews, Panels, Inspectors,
           ClickNothing, Clicked, Idle, CloseBoth, CloseOverview, Deselected, Full,
           store, tabs, panel, past
  <1>15. ASSUME ReadWork PROVE Known'
    BY <1>15, PanelBounds, NoneIsNothing
       DEF IInv, TypeOK, Known, BusyIs, Jobs, Overviews, Panels, Inspectors,
           ReadWork, Idle, Exists, Uninspected, Full, store, tabs, panel, past
  <1>16. ASSUME ShowWork PROVE Known'
    BY <1>16, PanelBounds, NoneIsNothing
       DEF IInv, TypeOK, Known, BusyIs, Jobs, Overviews, Panels, Inspectors,
           ShowWork, Idle, TabsOf, Beside, store, tabs, panel, past
  <1>17. ASSUME ReadFails PROVE Known'
    BY <1>17, PanelBounds, NoneIsNothing
       DEF IInv, TypeOK, Known, BusyIs, Jobs, Overviews, Panels, Inspectors,
           ReadFails, Idle, Uninspected, Full, store, tabs, panel, past
  <1>18. ASSUME Layout PROVE Known'
    BY <1>18, PanelBounds, NoneIsNothing
       DEF IInv, TypeOK, Known, BusyIs, Jobs, Overviews, Panels, Inspectors,
           Layout, Beside, store, tabs, panel, past
  <1>19. ASSUME Cancel PROVE Known'
    BY <1>19, PanelBounds, NoneIsNothing
       DEF IInv, TypeOK, Known, BusyIs, Jobs, Overviews, Panels, Inspectors,
           Cancel, Idle, store, tabs, panel, past
  <1>20. ASSUME Confirm PROVE Known'
    BY <1>20, PanelBounds, NoneIsNothing
       DEF IInv, TypeOK, Known, BusyIs, Jobs, Overviews, Panels, Inspectors,
           Confirm, Idle, IsCurrent, store, tabs, panel, past
  <1>21. ASSUME ConfirmFails PROVE Known'
    BY <1>21, PanelBounds, NoneIsNothing
       DEF IInv, TypeOK, Known, BusyIs, Jobs, Overviews, Panels, Inspectors,
           ConfirmFails, Idle, Reloads, CloseOverview, Deselected, Full, Busy, store,
           tabs, panel, past
  <1>22. ASSUME CreateFails PROVE Known'
    BY <1>22, PanelBounds, NoneIsNothing
       DEF IInv, TypeOK, Known, BusyIs, Jobs, Overviews, Panels, Inspectors,
           CreateFails, Idle, store, tabs, panel, past
  <1>23. ASSUME Commit PROVE Known'
    BY <1>23, PanelBounds, NoneIsNothing
       DEF IInv, TypeOK, Known, BusyIs, Jobs, Overviews, Panels, Inspectors,
           Commit, Idle, OwnWrite, WriteTo, Reloads, CloseOverview, Deselected, Full,
           Busy, store, tabs, panel, past
  <1>24. ASSUME Refresh PROVE Known'
    BY <1>24, PanelBounds, NoneIsNothing
       DEF IInv, TypeOK, Known, BusyIs, Jobs, Overviews, Panels, Inspectors,
           Refresh, Idle, CloseOverview, Deselected, Full, Busy, store, tabs, panel, past
  <1>25. ASSUME SendEnds PROVE Known'
    BY <1>25, PanelBounds, NoneIsNothing
       DEF IInv, TypeOK, Known, BusyIs, Jobs, Overviews, Panels, Inspectors,
           SendEnds, Idle, OwnWrite, WriteTo, Reloads, CloseOverview, Deselected, Full,
           Busy, store, tabs, panel, past
  <1>26. ASSUME SendFails PROVE Known'
    BY <1>26, PanelBounds, NoneIsNothing
       DEF IInv, TypeOK, Known, BusyIs, Jobs, Overviews, Panels, Inspectors,
           SendFails, Idle, store, tabs, panel, past
  <1>27. ASSUME SelectFile PROVE Known'
    BY <1>27, PanelBounds, NoneIsNothing
       DEF IInv, TypeOK, Known, BusyIs, Jobs, Overviews, Panels, Inspectors,
           SelectFile, Idle, Beside, store, tabs, panel, past
  <1>28. ASSUME SetHint PROVE Known'
    BY <1>28, PanelBounds, NoneIsNothing
       DEF IInv, TypeOK, Known, BusyIs, Jobs, Overviews, Panels, Inspectors,
           SetHint, Idle, Exists, OwnWrite, WriteTo, Beside, store, tabs, panel, past
  <1>29. CASE UNCHANGED vars
    BY <1>29 DEF IInv, TypeOK, Known, BusyIs, Jobs, Overviews, Panels, Inspectors, vars,
       store, tabs, panel, past
  <1> QED
    BY <1>1, <1>2, <1>3, <1>4, <1>5, <1>6, <1>7, <1>8, <1>9, <1>10, <1>11, <1>12, <1>13,
       <1>14, <1>15, <1>16, <1>17, <1>18, <1>19, <1>20, <1>21, <1>22, <1>23, <1>24,
       <1>25, <1>26, <1>27, <1>28, <1>29 DEF Next

\* What the window writes to the Work that is shown, it shows.
LEMMA LoadedStep ==
  ASSUME IInv, [Next]_vars
  PROVE  Loaded'
  <1>1. ASSUME NEW w \in Works, OtherWrites(w) PROVE Loaded'
    BY <1>1, PanelBounds, NoneIsNothing
       DEF IInv, TypeOK, Loaded, Known, Dated, BusyIs, SelectedIsShown, Jobs, Overviews,
           Panels, Inspectors,
           OtherWrites, WriteTo, Exists, After, store, tabs, panel, past
  <1>2. ASSUME NEW w \in Works, ClickWork(w) PROVE Loaded'
    BY <1>2, PanelBounds, NoneIsNothing
       DEF IInv, TypeOK, Loaded, Known, Dated, BusyIs, SelectedIsShown, Jobs, Overviews,
           Panels, Inspectors,
           ClickWork, Clicked, Idle, CloseBoth, CloseOverview, Deselected, Full, Busy,
           Exists, store, tabs, panel, past
  <1>3. ASSUME NEW w \in Works, MenuShowWork(w) PROVE Loaded'
    BY <1>3, PanelBounds, NoneIsNothing
       DEF IInv, TypeOK, Loaded, Known, Dated, BusyIs, SelectedIsShown, Jobs, Overviews,
           Panels, Inspectors,
           MenuShowWork, Idle, Busy, Exists, store, tabs, panel, past
  <1>4. ASSUME NEW w \in Workspaces, ClickWorkspace(w) PROVE Loaded'
    BY <1>4, PanelBounds, NoneIsNothing
       DEF IInv, TypeOK, Loaded, Known, Dated, BusyIs, SelectedIsShown, Jobs, Overviews,
           Panels, Inspectors,
           ClickWorkspace, Idle, CloseOverview, Deselected, Full, TabsOf, store, tabs,
           panel, past
  <1>5. ASSUME NEW t \in AllTabs, ClickTab(t) PROVE Loaded'
    BY <1>5, PanelBounds, NoneIsNothing
       DEF IInv, TypeOK, Loaded, Known, Dated, BusyIs, SelectedIsShown, Jobs, Overviews,
           Panels, Inspectors,
           ClickTab, TabsOf, Clicked, Idle, CloseBoth, CloseOverview, Deselected, Full,
           store, tabs, panel, past
  <1>6. ASSUME NEW t \in AllTabs, GotoTab(t) PROVE Loaded'
    BY <1>6, PanelBounds, NoneIsNothing
       DEF IInv, TypeOK, Loaded, Known, Dated, BusyIs, SelectedIsShown, Jobs, Overviews,
           Panels, Inspectors,
           GotoTab, TabsOf, Idle, Beside, store, tabs, panel, past
  <1>7. ASSUME NEW t \in AllTabs, CloseTab(t) PROVE Loaded'
    BY <1>7, PanelBounds, NoneIsNothing
       DEF IInv, TypeOK, Loaded, Known, Dated, BusyIs, SelectedIsShown, Jobs, Overviews,
           Panels, Inspectors,
           CloseTab, TabsOf, store, tabs, panel, past
  <1>8. ASSUME NEW i \in 1..MaxTabs, NewTab(i) PROVE Loaded'
    BY <1>8, PanelBounds, NoneIsNothing
       DEF IInv, TypeOK, Loaded, Known, Dated, BusyIs, SelectedIsShown, Jobs, Overviews,
           Panels, Inspectors,
           NewTab, Clicked, Idle, CloseBoth, CloseOverview, Deselected, Full, store,
           tabs, panel, past
  <1>9. ASSUME NEW fromMenu \in BOOLEAN, CreateWork(fromMenu) PROVE Loaded'
    BY <1>9, PanelBounds, NoneIsNothing
       DEF IInv, TypeOK, Loaded, Known, Dated, BusyIs, SelectedIsShown, Jobs, Overviews,
           Panels, Inspectors,
           CreateWork, Idle, Exists, Busy, CloseBoth, CloseOverview, Deselected, Full,
           store, tabs, panel, past
  <1>10. ASSUME NEW v \in Panels, NEW op \in Buttons(v), Press(v, op) PROVE Loaded'
    BY <1>10, PanelBounds, NoneIsNothing
       DEF IInv, TypeOK, Loaded, Known, Dated, BusyIs, SelectedIsShown, Jobs, Overviews,
           Panels, Inspectors,
           Press, Idle, Dialog, Busy, store, tabs, panel, past
  <1>11. ASSUME NEW v \in Panels, Preview(v) PROVE Loaded'
    BY <1>11, PanelBounds, NoneIsNothing
       DEF IInv, TypeOK, Loaded, Known, Dated, BusyIs, SelectedIsShown, Jobs, Overviews,
           Panels, Inspectors,
           Preview, Idle, CloseOverview, Deselected, Beside, store, tabs, panel, past
  <1>12. ASSUME NEW v \in Panels, Send(v) PROVE Loaded'
    <2>1. v \in Overviews
      BY DEF Panels, IInv, TypeOK
    <2>2. v.work \in Works
      BY <2>1 DEF Overviews
    <2>3. /\ rev' = rev + 1 /\ own' = [own EXCEPT ![v.work] = rev + 1]
          /\ busy' = Busy("sending", "send", v.work) /\ UNCHANGED <<panel, missed>>
      BY <1>12 DEF Send, OwnWrite, WriteTo
    <2>4. busy = None
      BY <1>12 DEF Send, Idle
    <2>5. /\ busy'.at = "sending" /\ busy'.work = v.work /\ busy' \in Jobs
      BY <2>2, <2>3, PanelBounds DEF Busy, Jobs, Stages
    <2>6. busy' # None
      BY <2>5, NoneIsNothing
    <2>7. overview # None => overview.work \in Works
      BY DEF IInv, TypeOK, Overviews
    <2>8. CASE overview # None /\ overview.work = v.work
      BY <2>3, <2>5, <2>6, <2>8 DEF Loaded, panel
    <2>9. CASE overview # None /\ overview.work # v.work
      <3>1. own'[overview.work] = own[overview.work]
        BY <2>2, <2>3, <2>7, <2>9 DEF IInv, TypeOK
      <3> QED
        BY <2>3, <2>4, <2>9, <3>1 DEF IInv, Loaded, panel
    <2> QED
      BY <2>3, <2>8, <2>9 DEF Loaded, panel
  <1>13. ASSUME OtherRecord PROVE Loaded'
    BY <1>13, PanelBounds, NoneIsNothing
       DEF IInv, TypeOK, Loaded, Known, Dated, BusyIs, SelectedIsShown, Jobs, Overviews,
           Panels, Inspectors,
           OtherRecord, store, tabs, panel, past
  <1>14. ASSUME ClickNothing PROVE Loaded'
    BY <1>14, PanelBounds, NoneIsNothing
       DEF IInv, TypeOK, Loaded, Known, Dated, BusyIs, SelectedIsShown, Jobs, Overviews,
           Panels, Inspectors,
           ClickNothing, Clicked, Idle, CloseBoth, CloseOverview, Deselected, Full,
           store, tabs, panel, past
  <1>15. ASSUME ReadWork PROVE Loaded'
    BY <1>15, PanelBounds, NoneIsNothing
       DEF IInv, TypeOK, Loaded, Known, Dated, BusyIs, SelectedIsShown, Jobs, Overviews,
           Panels, Inspectors,
           ReadWork, Idle, Exists, Uninspected, Full, store, tabs, panel, past
  <1>16. ASSUME ShowWork PROVE Loaded'
    BY <1>16, PanelBounds, NoneIsNothing
       DEF IInv, TypeOK, Loaded, Known, Dated, BusyIs, SelectedIsShown, Jobs, Overviews,
           Panels, Inspectors,
           ShowWork, Idle, TabsOf, Beside, store, tabs, panel, past
  <1>17. ASSUME ReadFails PROVE Loaded'
    BY <1>17, PanelBounds, NoneIsNothing
       DEF IInv, TypeOK, Loaded, Known, Dated, BusyIs, SelectedIsShown, Jobs, Overviews,
           Panels, Inspectors,
           ReadFails, Idle, Uninspected, Full, store, tabs, panel, past
  <1>18. ASSUME Layout PROVE Loaded'
    BY <1>18, PanelBounds, NoneIsNothing
       DEF IInv, TypeOK, Loaded, Known, Dated, BusyIs, SelectedIsShown, Jobs, Overviews,
           Panels, Inspectors,
           Layout, Beside, store, tabs, panel, past
  <1>19. ASSUME Cancel PROVE Loaded'
    BY <1>19, PanelBounds, NoneIsNothing
       DEF IInv, TypeOK, Loaded, Known, Dated, BusyIs, SelectedIsShown, Jobs, Overviews,
           Panels, Inspectors,
           Cancel, Idle, store, tabs, panel, past
  <1>20. ASSUME Confirm PROVE Loaded'
    BY <1>20, PanelBounds, NoneIsNothing
       DEF IInv, TypeOK, Loaded, Known, Dated, BusyIs, SelectedIsShown, Jobs, Overviews,
           Panels, Inspectors,
           Confirm, Idle, IsCurrent, store, tabs, panel, past
  <1>21. ASSUME ConfirmFails PROVE Loaded'
    BY <1>21, PanelBounds, NoneIsNothing
       DEF IInv, TypeOK, Loaded, Known, Dated, BusyIs, SelectedIsShown, Jobs, Overviews,
           Panels, Inspectors,
           ConfirmFails, Idle, Reloads, CloseOverview, Deselected, Full, Busy, store,
           tabs, panel, past
  <1>22. ASSUME CreateFails PROVE Loaded'
    BY <1>22, PanelBounds, NoneIsNothing
       DEF IInv, TypeOK, Loaded, Known, Dated, BusyIs, SelectedIsShown, Jobs, Overviews,
           Panels, Inspectors,
           CreateFails, Idle, store, tabs, panel, past
  <1>23. ASSUME Commit PROVE Loaded'
    BY <1>23, PanelBounds, NoneIsNothing
       DEF IInv, TypeOK, Loaded, Known, Dated, BusyIs, SelectedIsShown, Jobs, Overviews,
           Panels, Inspectors,
           Commit, Idle, OwnWrite, WriteTo, Reloads, CloseOverview, Deselected, Full,
           Busy, store, tabs, panel, past
  <1>24. ASSUME Refresh PROVE Loaded'
    BY <1>24, PanelBounds, NoneIsNothing
       DEF IInv, TypeOK, Loaded, Known, Dated, BusyIs, SelectedIsShown, Jobs, Overviews,
           Panels, Inspectors,
           Refresh, Idle, CloseOverview, Deselected, Full, Busy, store, tabs, panel, past
  <1>25. ASSUME SendEnds PROVE Loaded'
    BY <1>25, PanelBounds, NoneIsNothing
       DEF IInv, TypeOK, Loaded, Known, Dated, BusyIs, SelectedIsShown, Jobs, Overviews,
           Panels, Inspectors,
           SendEnds, Idle, OwnWrite, WriteTo, Reloads, CloseOverview, Deselected, Full,
           Busy, store, tabs, panel, past
  <1>26. ASSUME SendFails PROVE Loaded'
    BY <1>26, PanelBounds, NoneIsNothing
       DEF IInv, TypeOK, Loaded, Known, Dated, BusyIs, SelectedIsShown, Jobs, Overviews,
           Panels, Inspectors,
           SendFails, Idle, store, tabs, panel, past
  <1>27. ASSUME SelectFile PROVE Loaded'
    BY <1>27, PanelBounds, NoneIsNothing
       DEF IInv, TypeOK, Loaded, Known, Dated, BusyIs, SelectedIsShown, Jobs, Overviews,
           Panels, Inspectors,
           SelectFile, Idle, Beside, store, tabs, panel, past
  <1>28. ASSUME SetHint PROVE Loaded'
    BY <1>28, PanelBounds, NoneIsNothing
       DEF IInv, TypeOK, Loaded, Known, Dated, BusyIs, SelectedIsShown, Jobs, Overviews,
           Panels, Inspectors,
           SetHint, Idle, Exists, OwnWrite, WriteTo, Beside, store, tabs, panel, past
  <1>29. CASE UNCHANGED vars
    BY <1>29 DEF IInv, TypeOK, Loaded, Known, Dated, BusyIs, SelectedIsShown, Jobs,
       Overviews, Panels, Inspectors, vars, store, tabs, panel, past
  <1> QED
    BY <1>1, <1>2, <1>3, <1>4, <1>5, <1>6, <1>7, <1>8, <1>9, <1>10, <1>11, <1>12, <1>13,
       <1>14, <1>15, <1>16, <1>17, <1>18, <1>19, <1>20, <1>21, <1>22, <1>23, <1>24,
       <1>25, <1>26, <1>27, <1>28, <1>29 DEF Next

\* Panels narrow the tab in front and give back its width.
LEMMA NarrowStep ==
  ASSUME IInv, [Next]_vars
  PROVE  Narrow'
  <1>1. ASSUME NEW w \in Works, OtherWrites(w) PROVE Narrow'
    BY <1>1, PanelBounds, NoneIsNothing
       DEF IInv, TypeOK, Narrow, BusyIs, SelectedIsShown, Panelled, AllTabs, Home, Jobs,
           Overviews, Inspectors, Panels,
           OtherWrites, WriteTo, Exists, After, store, tabs, panel, past
  <1>2. ASSUME NEW w \in Works, ClickWork(w) PROVE Narrow'
    BY <1>2, PanelBounds, NoneIsNothing
       DEF IInv, TypeOK, Narrow, BusyIs, SelectedIsShown, Panelled, AllTabs, Home, Jobs,
           Overviews, Inspectors, Panels,
           ClickWork, Clicked, Idle, CloseBoth, CloseOverview, Deselected, Full, Busy,
           Exists, store, tabs, panel, past
  <1>3. ASSUME NEW w \in Works, MenuShowWork(w) PROVE Narrow'
    BY <1>3, PanelBounds, NoneIsNothing
       DEF IInv, TypeOK, Narrow, BusyIs, SelectedIsShown, Panelled, AllTabs, Home, Jobs,
           Overviews, Inspectors, Panels,
           MenuShowWork, Idle, Busy, Exists, store, tabs, panel, past
  <1>4. ASSUME NEW w \in Workspaces, ClickWorkspace(w) PROVE Narrow'
    <2>1. PICK t \in AllTabs : active' = t /\ width' = [Full EXCEPT ![t] = "narrow"]
      <3>1. <<w, 1>> \in AllTabs
        BY <1>4, PanelBounds DEF AllTabs
      <3>2. TabsOf(w) \subseteq AllTabs
        BY DEF TabsOf, IInv, TypeOK
      <3> QED
        BY <1>4, <3>1, <3>2 DEF ClickWorkspace
    <2>2. inspector' \in Inspectors
      BY <1>4 DEF ClickWorkspace, Inspectors
    <2>3. \A u \in AllTabs : u # active' => moved \/ width'[u] = "full"
      BY <2>1 DEF Full, IInv, TypeOK, Narrow
    <2> QED
      BY <1>4, <2>2, <2>3, NoneIsNothing DEF Narrow, Panelled, ClickWorkspace
  <1>5. ASSUME NEW t \in AllTabs, ClickTab(t) PROVE Narrow'
    BY <1>5, PanelBounds, NoneIsNothing
       DEF IInv, TypeOK, Narrow, BusyIs, SelectedIsShown, Panelled, AllTabs, Home, Jobs,
           Overviews, Inspectors, Panels,
           ClickTab, TabsOf, Clicked, Idle, CloseBoth, CloseOverview, Deselected, Full,
           store, tabs, panel, past
  <1>6. ASSUME NEW t \in AllTabs, GotoTab(t) PROVE Narrow'
    BY <1>6, PanelBounds, NoneIsNothing
       DEF IInv, TypeOK, Narrow, BusyIs, SelectedIsShown, Panelled, AllTabs, Home, Jobs,
           Overviews, Inspectors, Panels,
           GotoTab, TabsOf, Idle, Beside, store, tabs, panel, past
  <1>7. ASSUME NEW t \in AllTabs, CloseTab(t) PROVE Narrow'
    BY <1>7, PanelBounds, NoneIsNothing
       DEF IInv, TypeOK, Narrow, BusyIs, SelectedIsShown, Panelled, AllTabs, Home, Jobs,
           Overviews, Inspectors, Panels,
           CloseTab, TabsOf, store, tabs, panel, past
  <1>8. ASSUME NEW i \in 1..MaxTabs, NewTab(i) PROVE Narrow'
    BY <1>8, PanelBounds, NoneIsNothing
       DEF IInv, TypeOK, Narrow, BusyIs, SelectedIsShown, Panelled, AllTabs, Home, Jobs,
           Overviews, Inspectors, Panels,
           NewTab, Clicked, Idle, CloseBoth, CloseOverview, Deselected, Full, store,
           tabs, panel, past
  <1>9. ASSUME NEW fromMenu \in BOOLEAN, CreateWork(fromMenu) PROVE Narrow'
    BY <1>9, PanelBounds, NoneIsNothing
       DEF IInv, TypeOK, Narrow, BusyIs, SelectedIsShown, Panelled, AllTabs, Home, Jobs,
           Overviews, Inspectors, Panels,
           CreateWork, Idle, Exists, Busy, CloseBoth, CloseOverview, Deselected, Full,
           store, tabs, panel, past
  <1>10. ASSUME NEW v \in Panels, NEW op \in Buttons(v), Press(v, op) PROVE Narrow'
    BY <1>10, PanelBounds, NoneIsNothing
       DEF IInv, TypeOK, Narrow, BusyIs, SelectedIsShown, Panelled, AllTabs, Home, Jobs,
           Overviews, Inspectors, Panels,
           Press, Idle, Dialog, Busy, store, tabs, panel, past
  <1>11. ASSUME NEW v \in Panels, Preview(v) PROVE Narrow'
    <2>1. v \in Overviews
      BY DEF Panels, IInv, TypeOK
    <2>2. v.work \in Works
      BY <2>1 DEF Overviews
    <2>3. inspector' \in Inspectors
      BY <1>11, <2>2, PanelBounds DEF Preview, Inspectors
    <2> QED
      BY <1>11, <2>3, PanelBounds, NoneIsNothing
         DEF IInv, TypeOK, Narrow, BusyIs, SelectedIsShown, Panelled, AllTabs, Home,
             Jobs, Overviews, Inspectors, Panels, Preview, CloseOverview, Deselected,
             Beside
  <1>12. ASSUME NEW v \in Panels, Send(v) PROVE Narrow'
    BY <1>12, PanelBounds, NoneIsNothing
       DEF IInv, TypeOK, Narrow, BusyIs, SelectedIsShown, Panelled, AllTabs, Home, Jobs,
           Overviews, Inspectors, Panels,
           Send, Idle, OwnWrite, WriteTo, Busy, store, tabs, panel, past
  <1>13. ASSUME OtherRecord PROVE Narrow'
    BY <1>13, PanelBounds, NoneIsNothing
       DEF IInv, TypeOK, Narrow, BusyIs, SelectedIsShown, Panelled, AllTabs, Home, Jobs,
           Overviews, Inspectors, Panels,
           OtherRecord, store, tabs, panel, past
  <1>14. ASSUME ClickNothing PROVE Narrow'
    BY <1>14, PanelBounds, NoneIsNothing
       DEF IInv, TypeOK, Narrow, BusyIs, SelectedIsShown, Panelled, AllTabs, Home, Jobs,
           Overviews, Inspectors, Panels,
           ClickNothing, Clicked, Idle, CloseBoth, CloseOverview, Deselected, Full,
           store, tabs, panel, past
  <1>15. ASSUME ReadWork PROVE Narrow'
    BY <1>15, PanelBounds, NoneIsNothing
       DEF IInv, TypeOK, Narrow, BusyIs, SelectedIsShown, Panelled, AllTabs, Home, Jobs,
           Overviews, Inspectors, Panels,
           ReadWork, Idle, Exists, Uninspected, Full, store, tabs, panel, past
  <1>16. ASSUME ShowWork PROVE Narrow'
    <2> DEFINE w == busy.work
               o == [work |-> w, version |-> busy.shown, stage |-> busy.stage,
                     rev |-> rev, torn |-> version[w] # busy.shown]
    <2>1. busy \in Jobs /\ w \in Works /\ o \in Overviews /\ busy # None /\ busy.at = "revision"
      BY <1>16 DEF ShowWork, Idle, IInv, TypeOK, Jobs, Overviews
    <2>2. PICK t \in AllTabs : active' = t /\ open' = open \cup {t} /\ Beside(t)
                             /\ moved' = (moved \/ (t # active /\ overview # None))
      BY <1>16, <2>1, PanelBounds DEF ShowWork, TabsOf, AllTabs, IInv, TypeOK
    <2>3. /\ overview' = o /\ selected' = w /\ busy' = None
          /\ orphans' = orphans \cup ({overview} \ {None})
          /\ missed' = missed \ {w}
          /\ UNCHANGED <<store, inspector, own>>
      BY <1>16 DEF ShowWork
    <2> HIDE DEF o
    <2>4. /\ o.work = w /\ o.rev = rev /\ o.version = busy.shown
          /\ o.torn = (version[w] # busy.shown)
      BY DEF o
    <2> HIDE DEF w
    <2> QED
      BY <2>1, <2>2, <2>3, <2>4, PanelBounds, NoneIsNothing
         DEF IInv, TypeOK, Narrow, BusyIs, SelectedIsShown, Panelled, AllTabs, Home,
             Jobs, Overviews, Inspectors, Panels,
             Beside, store, tabs, panel, past, w
  <1>17. ASSUME ReadFails PROVE Narrow'
    BY <1>17, PanelBounds, NoneIsNothing
       DEF IInv, TypeOK, Narrow, BusyIs, SelectedIsShown, Panelled, AllTabs, Home, Jobs,
           Overviews, Inspectors, Panels,
           ReadFails, Idle, Uninspected, Full, store, tabs, panel, past
  <1>18. ASSUME Layout PROVE Narrow'
    BY <1>18, PanelBounds, NoneIsNothing
       DEF IInv, TypeOK, Narrow, BusyIs, SelectedIsShown, Panelled, AllTabs, Home, Jobs,
           Overviews, Inspectors, Panels,
           Layout, Beside, store, tabs, panel, past
  <1>19. ASSUME Cancel PROVE Narrow'
    BY <1>19, PanelBounds, NoneIsNothing
       DEF IInv, TypeOK, Narrow, BusyIs, SelectedIsShown, Panelled, AllTabs, Home, Jobs,
           Overviews, Inspectors, Panels,
           Cancel, Idle, store, tabs, panel, past
  <1>20. ASSUME Confirm PROVE Narrow'
    BY <1>20, PanelBounds, NoneIsNothing
       DEF IInv, TypeOK, Narrow, BusyIs, SelectedIsShown, Panelled, AllTabs, Home, Jobs,
           Overviews, Inspectors, Panels,
           Confirm, Idle, IsCurrent, store, tabs, panel, past
  <1>21. ASSUME ConfirmFails PROVE Narrow'
    BY <1>21, PanelBounds, NoneIsNothing
       DEF IInv, TypeOK, Narrow, BusyIs, SelectedIsShown, Panelled, AllTabs, Home, Jobs,
           Overviews, Inspectors, Panels,
           ConfirmFails, Idle, Reloads, CloseOverview, Deselected, Full, Busy, store,
           tabs, panel, past
  <1>22. ASSUME CreateFails PROVE Narrow'
    BY <1>22, PanelBounds, NoneIsNothing
       DEF IInv, TypeOK, Narrow, BusyIs, SelectedIsShown, Panelled, AllTabs, Home, Jobs,
           Overviews, Inspectors, Panels,
           CreateFails, Idle, store, tabs, panel, past
  <1>23. ASSUME Commit PROVE Narrow'
    BY <1>23, PanelBounds, NoneIsNothing
       DEF IInv, TypeOK, Narrow, BusyIs, SelectedIsShown, Panelled, AllTabs, Home, Jobs,
           Overviews, Inspectors, Panels,
           Commit, Idle, OwnWrite, WriteTo, Reloads, CloseOverview, Deselected, Full,
           Busy, store, tabs, panel, past
  <1>24. ASSUME Refresh PROVE Narrow'
    BY <1>24, PanelBounds, NoneIsNothing
       DEF IInv, TypeOK, Narrow, BusyIs, SelectedIsShown, Panelled, AllTabs, Home, Jobs,
           Overviews, Inspectors, Panels,
           Refresh, Idle, CloseOverview, Deselected, Full, Busy, store, tabs, panel, past
  <1>25. ASSUME SendEnds PROVE Narrow'
    BY <1>25, PanelBounds, NoneIsNothing
       DEF IInv, TypeOK, Narrow, BusyIs, SelectedIsShown, Panelled, AllTabs, Home, Jobs,
           Overviews, Inspectors, Panels,
           SendEnds, Idle, OwnWrite, WriteTo, Reloads, CloseOverview, Deselected, Full,
           Busy, store, tabs, panel, past
  <1>26. ASSUME SendFails PROVE Narrow'
    BY <1>26, PanelBounds, NoneIsNothing
       DEF IInv, TypeOK, Narrow, BusyIs, SelectedIsShown, Panelled, AllTabs, Home, Jobs,
           Overviews, Inspectors, Panels,
           SendFails, Idle, store, tabs, panel, past
  <1>27. ASSUME SelectFile PROVE Narrow'
    BY <1>27, PanelBounds, NoneIsNothing
       DEF IInv, TypeOK, Narrow, BusyIs, SelectedIsShown, Panelled, AllTabs, Home, Jobs,
           Overviews, Inspectors, Panels,
           SelectFile, Idle, Beside, store, tabs, panel, past
  <1>28. ASSUME SetHint PROVE Narrow'
    BY <1>28, PanelBounds, NoneIsNothing
       DEF IInv, TypeOK, Narrow, BusyIs, SelectedIsShown, Panelled, AllTabs, Home, Jobs,
           Overviews, Inspectors, Panels,
           SetHint, Idle, Exists, OwnWrite, WriteTo, Beside, store, tabs, panel, past
  <1>29. CASE UNCHANGED vars
    BY <1>29 DEF IInv, TypeOK, Narrow, BusyIs, SelectedIsShown, Panelled, AllTabs, Home,
       Jobs, Overviews, Inspectors, Panels, vars, store, tabs, panel, past
  <1> QED
    BY <1>1, <1>2, <1>3, <1>4, <1>5, <1>6, <1>7, <1>8, <1>9, <1>10, <1>11, <1>12, <1>13,
       <1>14, <1>15, <1>16, <1>17, <1>18, <1>19, <1>20, <1>21, <1>22, <1>23, <1>24,
       <1>25, <1>26, <1>27, <1>28, <1>29 DEF Next

\* A write makes the panels rendered before it old.
LEMMA FreshStep ==
  ASSUME IInv, [Next]_vars
  PROVE  Fresh'
  <1>1. ASSUME NEW w \in Works, OtherWrites(w) PROVE Fresh'
    BY <1>1, PanelBounds, NoneIsNothing
       DEF IInv, TypeOK, Fresh, Unchanged, Dated, BusyIs, Jobs, Overviews, Panels,
           Inspectors,
           OtherWrites, WriteTo, Exists, After, store, tabs, panel, past
  <1>2. ASSUME NEW w \in Works, ClickWork(w) PROVE Fresh'
    BY <1>2, PanelBounds, NoneIsNothing
       DEF IInv, TypeOK, Fresh, Unchanged, Dated, BusyIs, Jobs, Overviews, Panels,
           Inspectors,
           ClickWork, Clicked, Idle, CloseBoth, CloseOverview, Deselected, Full, Busy,
           Exists, store, tabs, panel, past
  <1>3. ASSUME NEW w \in Works, MenuShowWork(w) PROVE Fresh'
    BY <1>3, PanelBounds, NoneIsNothing
       DEF IInv, TypeOK, Fresh, Unchanged, Dated, BusyIs, Jobs, Overviews, Panels,
           Inspectors,
           MenuShowWork, Idle, Busy, Exists, store, tabs, panel, past
  <1>4. ASSUME NEW w \in Workspaces, ClickWorkspace(w) PROVE Fresh'
    BY <1>4, PanelBounds, NoneIsNothing
       DEF IInv, TypeOK, Fresh, Unchanged, Dated, BusyIs, Jobs, Overviews, Panels,
           Inspectors,
           ClickWorkspace, Idle, CloseOverview, Deselected, Full, TabsOf, store, tabs,
           panel, past
  <1>5. ASSUME NEW t \in AllTabs, ClickTab(t) PROVE Fresh'
    BY <1>5, PanelBounds, NoneIsNothing
       DEF IInv, TypeOK, Fresh, Unchanged, Dated, BusyIs, Jobs, Overviews, Panels,
           Inspectors,
           ClickTab, TabsOf, Clicked, Idle, CloseBoth, CloseOverview, Deselected, Full,
           store, tabs, panel, past
  <1>6. ASSUME NEW t \in AllTabs, GotoTab(t) PROVE Fresh'
    BY <1>6, PanelBounds, NoneIsNothing
       DEF IInv, TypeOK, Fresh, Unchanged, Dated, BusyIs, Jobs, Overviews, Panels,
           Inspectors,
           GotoTab, TabsOf, Idle, Beside, store, tabs, panel, past
  <1>7. ASSUME NEW t \in AllTabs, CloseTab(t) PROVE Fresh'
    BY <1>7, PanelBounds, NoneIsNothing
       DEF IInv, TypeOK, Fresh, Unchanged, Dated, BusyIs, Jobs, Overviews, Panels,
           Inspectors,
           CloseTab, TabsOf, store, tabs, panel, past
  <1>8. ASSUME NEW i \in 1..MaxTabs, NewTab(i) PROVE Fresh'
    BY <1>8, PanelBounds, NoneIsNothing
       DEF IInv, TypeOK, Fresh, Unchanged, Dated, BusyIs, Jobs, Overviews, Panels,
           Inspectors,
           NewTab, Clicked, Idle, CloseBoth, CloseOverview, Deselected, Full, store,
           tabs, panel, past
  <1>9. ASSUME NEW fromMenu \in BOOLEAN, CreateWork(fromMenu) PROVE Fresh'
    BY <1>9, PanelBounds, NoneIsNothing
       DEF IInv, TypeOK, Fresh, Unchanged, Dated, BusyIs, Jobs, Overviews, Panels,
           Inspectors,
           CreateWork, Idle, Exists, Busy, CloseBoth, CloseOverview, Deselected, Full,
           store, tabs, panel, past
  <1>10. ASSUME NEW v \in Panels, NEW op \in Buttons(v), Press(v, op) PROVE Fresh'
    BY <1>10, PanelBounds, NoneIsNothing
       DEF IInv, TypeOK, Fresh, Unchanged, Dated, BusyIs, Jobs, Overviews, Panels,
           Inspectors,
           Press, Idle, Dialog, Busy, store, tabs, panel, past
  <1>11. ASSUME NEW v \in Panels, Preview(v) PROVE Fresh'
    BY <1>11, PanelBounds, NoneIsNothing
       DEF IInv, TypeOK, Fresh, Unchanged, Dated, BusyIs, Jobs, Overviews, Panels,
           Inspectors,
           Preview, Idle, CloseOverview, Deselected, Beside, store, tabs, panel, past
  <1>12. ASSUME NEW v \in Panels, Send(v) PROVE Fresh'
    BY <1>12, PanelBounds, NoneIsNothing
       DEF IInv, TypeOK, Fresh, Unchanged, Dated, BusyIs, Jobs, Overviews, Panels,
           Inspectors,
           Send, Idle, OwnWrite, WriteTo, Busy, store, tabs, panel, past
  <1>13. ASSUME OtherRecord PROVE Fresh'
    BY <1>13, PanelBounds, NoneIsNothing
       DEF IInv, TypeOK, Fresh, Unchanged, Dated, BusyIs, Jobs, Overviews, Panels,
           Inspectors,
           OtherRecord, store, tabs, panel, past
  <1>14. ASSUME ClickNothing PROVE Fresh'
    BY <1>14, PanelBounds, NoneIsNothing
       DEF IInv, TypeOK, Fresh, Unchanged, Dated, BusyIs, Jobs, Overviews, Panels,
           Inspectors,
           ClickNothing, Clicked, Idle, CloseBoth, CloseOverview, Deselected, Full,
           store, tabs, panel, past
  <1>15. ASSUME ReadWork PROVE Fresh'
    BY <1>15, PanelBounds, NoneIsNothing
       DEF IInv, TypeOK, Fresh, Unchanged, Dated, BusyIs, Jobs, Overviews, Panels,
           Inspectors,
           ReadWork, Idle, Exists, Uninspected, Full, store, tabs, panel, past
  <1>16. ASSUME ShowWork PROVE Fresh'
    <2> DEFINE w == busy.work
               o == [work |-> w, version |-> busy.shown, stage |-> busy.stage,
                     rev |-> rev, torn |-> version[w] # busy.shown]
    <2>1. busy \in Jobs /\ w \in Works /\ o \in Overviews /\ busy # None /\ busy.at = "revision"
      BY <1>16 DEF ShowWork, Idle, IInv, TypeOK, Jobs, Overviews
    <2>2. PICK t \in AllTabs : active' = t /\ open' = open \cup {t} /\ Beside(t)
                             /\ moved' = (moved \/ (t # active /\ overview # None))
      BY <1>16, <2>1, PanelBounds DEF ShowWork, TabsOf, AllTabs, IInv, TypeOK
    <2>3. /\ overview' = o /\ selected' = w /\ busy' = None
          /\ orphans' = orphans \cup ({overview} \ {None})
          /\ missed' = missed \ {w}
          /\ UNCHANGED <<store, inspector, own>>
      BY <1>16 DEF ShowWork
    <2> HIDE DEF o
    <2>4. /\ o.work = w /\ o.rev = rev /\ o.version = busy.shown
          /\ o.torn = (version[w] # busy.shown)
      BY DEF o
    <2> HIDE DEF w
    <2> QED
      BY <2>1, <2>2, <2>3, <2>4, PanelBounds, NoneIsNothing
         DEF IInv, TypeOK, Fresh, Unchanged, Dated, BusyIs, Jobs, Overviews, Panels,
             Inspectors,
             Beside, store, tabs, panel, past, w
  <1>17. ASSUME ReadFails PROVE Fresh'
    BY <1>17, PanelBounds, NoneIsNothing
       DEF IInv, TypeOK, Fresh, Unchanged, Dated, BusyIs, Jobs, Overviews, Panels,
           Inspectors,
           ReadFails, Idle, Uninspected, Full, store, tabs, panel, past
  <1>18. ASSUME Layout PROVE Fresh'
    BY <1>18, PanelBounds, NoneIsNothing
       DEF IInv, TypeOK, Fresh, Unchanged, Dated, BusyIs, Jobs, Overviews, Panels,
           Inspectors,
           Layout, Beside, store, tabs, panel, past
  <1>19. ASSUME Cancel PROVE Fresh'
    BY <1>19, PanelBounds, NoneIsNothing
       DEF IInv, TypeOK, Fresh, Unchanged, Dated, BusyIs, Jobs, Overviews, Panels,
           Inspectors,
           Cancel, Idle, store, tabs, panel, past
  <1>20. ASSUME Confirm PROVE Fresh'
    BY <1>20, PanelBounds, NoneIsNothing
       DEF IInv, TypeOK, Fresh, Unchanged, Dated, BusyIs, Jobs, Overviews, Panels,
           Inspectors,
           Confirm, Idle, IsCurrent, store, tabs, panel, past
  <1>21. ASSUME ConfirmFails PROVE Fresh'
    BY <1>21, PanelBounds, NoneIsNothing
       DEF IInv, TypeOK, Fresh, Unchanged, Dated, BusyIs, Jobs, Overviews, Panels,
           Inspectors,
           ConfirmFails, Idle, Reloads, CloseOverview, Deselected, Full, Busy, store,
           tabs, panel, past
  <1>22. ASSUME CreateFails PROVE Fresh'
    BY <1>22, PanelBounds, NoneIsNothing
       DEF IInv, TypeOK, Fresh, Unchanged, Dated, BusyIs, Jobs, Overviews, Panels,
           Inspectors,
           CreateFails, Idle, store, tabs, panel, past
  <1>23. ASSUME Commit PROVE Fresh'
    BY <1>23, PanelBounds, NoneIsNothing
       DEF IInv, TypeOK, Fresh, Unchanged, Dated, BusyIs, Jobs, Overviews, Panels,
           Inspectors,
           Commit, Idle, OwnWrite, WriteTo, Reloads, CloseOverview, Deselected, Full,
           Busy, store, tabs, panel, past
  <1>24. ASSUME Refresh PROVE Fresh'
    BY <1>24, PanelBounds, NoneIsNothing
       DEF IInv, TypeOK, Fresh, Unchanged, Dated, BusyIs, Jobs, Overviews, Panels,
           Inspectors,
           Refresh, Idle, CloseOverview, Deselected, Full, Busy, store, tabs, panel, past
  <1>25. ASSUME SendEnds PROVE Fresh'
    BY <1>25, PanelBounds, NoneIsNothing
       DEF IInv, TypeOK, Fresh, Unchanged, Dated, BusyIs, Jobs, Overviews, Panels,
           Inspectors,
           SendEnds, Idle, OwnWrite, WriteTo, Reloads, CloseOverview, Deselected, Full,
           Busy, store, tabs, panel, past
  <1>26. ASSUME SendFails PROVE Fresh'
    BY <1>26, PanelBounds, NoneIsNothing
       DEF IInv, TypeOK, Fresh, Unchanged, Dated, BusyIs, Jobs, Overviews, Panels,
           Inspectors,
           SendFails, Idle, store, tabs, panel, past
  <1>27. ASSUME SelectFile PROVE Fresh'
    BY <1>27, PanelBounds, NoneIsNothing
       DEF IInv, TypeOK, Fresh, Unchanged, Dated, BusyIs, Jobs, Overviews, Panels,
           Inspectors,
           SelectFile, Idle, Beside, store, tabs, panel, past
  <1>28. ASSUME SetHint PROVE Fresh'
    BY <1>28, PanelBounds, NoneIsNothing
       DEF IInv, TypeOK, Fresh, Unchanged, Dated, BusyIs, Jobs, Overviews, Panels,
           Inspectors,
           SetHint, Idle, Exists, OwnWrite, WriteTo, Beside, store, tabs, panel, past
  <1>29. CASE UNCHANGED vars
    BY <1>29 DEF IInv, TypeOK, Fresh, Unchanged, Dated, BusyIs, Jobs, Overviews, Panels,
       Inspectors, vars, store, tabs, panel, past
  <1> QED
    BY <1>1, <1>2, <1>3, <1>4, <1>5, <1>6, <1>7, <1>8, <1>9, <1>10, <1>11, <1>12, <1>13,
       <1>14, <1>15, <1>16, <1>17, <1>18, <1>19, <1>20, <1>21, <1>22, <1>23, <1>24,
       <1>25, <1>26, <1>27, <1>28, <1>29 DEF Next

\* The window opens with nothing under way.
LEMMA InitInvariant == Init => IInv
  <1> SUFFICES ASSUME Init PROVE IInv
    OBVIOUS
  <1>1. PICK made \in SUBSET Works :
          /\ version = [w \in Works |-> IF w \in made THEN 1 ELSE 0]
          /\ stage = [w \in Works |-> IF w \in made THEN "proposed" ELSE "none"]
          /\ rev = IF made = {} THEN 0 ELSE 1
    BY DEF Init
  <1>2. PICK w \in Workspaces : open = {<<w, 1>>} /\ active = <<w, 1>>
    BY DEF Init
  <1>3. <<w, 1>> \in AllTabs
    BY <1>2, PanelBounds DEF AllTabs
  <1>4. rev \in 0..MaxRevision /\ version \in [Works -> 0..MaxRevision]
    BY <1>1, PanelBounds
  <1>5. stage \in [Works -> Stages]
    BY <1>1 DEF Stages
  <1>6. own \in [Works -> 0..MaxRevision]
    BY PanelBounds DEF Init
  <1>7. TypeOK
    BY <1>2, <1>3, <1>4, <1>5, <1>6 DEF Init, TypeOK
  <1>8. Dated
    BY <1>1, <1>4, PanelBounds DEF Init, Dated
  <1>9. BusyIs /\ SelectedIsShown /\ Known /\ Loaded /\ Narrow /\ Fresh
    BY DEF Init, BusyIs, SelectedIsShown, Known, Loaded, Narrow, Fresh, Panels
  <1> QED
    BY <1>7, <1>8, <1>9 DEF IInv

\* Every behaviour of the panel keeps the invariant.
THEOREM Invariance == Spec => []IInv
  <1>1. IInv /\ [Next]_vars => IInv'
    BY TypeStep, BusyStep, SelectedStep, DatedStep, KnownStep, LoadedStep, NarrowStep,
       FreshStep
       DEF IInv
  <1> QED
    BY <1>1, InitInvariant, PTL DEF Spec

\* Of the panel, only its own part takes a step.
LEMMA PanelRuns == ApplicationSpec => Spec
  <1>1. Start => Init
    BY DEF Start
  <1>2. [Step]_application => [Next]_vars
    BY DEF Step, application
  <1> QED
    BY <1>1, <1>2, PTL DEF ApplicationSpec, Spec

\* The panel, the sidebar's selection and the terminals agree, whatever is clicked,
\* written by others or closed behind a dialog.
THEOREM PanelHolds == ApplicationSpec => []PanelAgrees
  <1>1. IInv => PanelAgrees
    <2>1. IInv => WritesAreShown
      BY DEF IInv, Loaded, WritesAreShown, Idle
    <2>2. IInv => FullWhenClosed
      BY DEF IInv, TypeOK, Narrow, FullWhenClosed
    <2> QED
      BY <2>1, <2>2 DEF IInv, PanelAgrees
  <1> QED
    BY <1>1, PanelRuns, Invariance, PTL

\* A decision that was not overtaken is one on the Work as it was shown.
THEOREM DecisionsAreInformed == ApplicationSpec => DecidesOnWhatIsShown
  <1>1. IInv /\ [Next]_vars =>
          [busy # None /\ busy.at = "commit" /\ busy.op \in {"review", "assign"} /\ own' # own =>
             \/ version[busy.work] = busy.shown
             \/ busy.torn
             \/ version[busy.work] # busy.checked]_vars
    BY DEF IInv, Fresh, Unchanged
  <1> QED
    BY <1>1, PanelRuns, Invariance, PTL DEF Spec, DecidesOnWhatIsShown

-----------------------------------------------------------------------------
(* The catalog *)

\* A copy that nobody overtook is the file.
InDate == \A w \in Catalog!Writers : edit[w] # None /\ ~edit[w].overtaken => edit[w].base = file

CatalogInv == Catalog!TypeOK /\ InDate

\* What an edit that saves leaves of it.
LEMMA EditLeaves ==
  ASSUME Catalog!TypeOK, NEW w \in Catalog!Writers, edit[w] # None
  PROVE  Catalog!Applied(w) \subseteq Paths
  <1>1. edit[w] \in Catalog!EditRec
    BY DEF Catalog!TypeOK
  <1> QED
    BY <1>1 DEF Catalog!TypeOK, Catalog!EditRec, Catalog!Ops, Catalog!Applied

\* A copy that was just loaded is the file.
LEMMA LoadStep ==
  ASSUME CatalogInv, NEW w \in Catalog!Writers,
         NEW op \in Catalog!Ops, NEW paths \in SUBSET Paths, Catalog!Load(w, op, paths)
  PROVE  CatalogInv'
  <1> DEFINE e == Catalog!Edit(op, paths, file)
  <1>1. e \in Catalog!EditRec /\ ~e.overtaken /\ e.base = file
    BY DEF CatalogInv, Catalog!TypeOK, Catalog!Edit, Catalog!EditRec
  <1>2. edit' = [edit EXCEPT ![w] = e] /\ UNCHANGED <<file, dirs>>
    BY DEF Catalog!Load
  <1> HIDE DEF e
  <1>3. Catalog!TypeOK'
    BY <1>1, <1>2 DEF CatalogInv, Catalog!TypeOK
  <1>4. InDate'
    BY <1>1, <1>2 DEF CatalogInv, Catalog!TypeOK, InDate
  <1> QED
    BY <1>3, <1>4 DEF CatalogInv

\* A save that changes the file overtakes every other copy.
LEMMA SaveStep ==
  ASSUME CatalogInv, NEW w \in Catalog!Writers, Catalog!Save(w)
  PROVE  CatalogInv'
  <1>1. ASSUME NEW v \in Catalog!Writers, v # w, edit[v] # None
        PROVE  /\ edit'[v] = [edit[v] EXCEPT !.overtaken = @ \/ file' # file]
               /\ edit'[v] \in Catalog!EditRec
               /\ edit'[v].base = edit[v].base
               /\ edit'[v].overtaken = (edit[v].overtaken \/ file' # file)
    <2>1. edit[v] \in Catalog!EditRec
      BY <1>1 DEF CatalogInv, Catalog!TypeOK
    <2>2. edit'[v] = [edit[v] EXCEPT !.overtaken = @ \/ file' # file]
      BY <1>1 DEF Catalog!Save
    <2> QED
      BY <2>1, <2>2 DEF Catalog!EditRec
  <1>2. edit'[w] = None /\ \A v \in Catalog!Writers : edit[v] = None => edit'[v] = None
    BY DEF Catalog!Save
  <1>3. file' \subseteq Paths /\ UNCHANGED dirs
    BY EditLeaves DEF Catalog!Save, CatalogInv
  <1>4. edit' \in [Catalog!Writers -> Catalog!EditRec \cup {None}]
    <2>1. \A v \in Catalog!Writers : edit'[v] \in Catalog!EditRec \cup {None}
      BY <1>1, <1>2
    <2>2. edit' = [v \in Catalog!Writers |-> edit'[v]]
      BY DEF Catalog!Save
    <2> QED
      BY <2>1, <2>2
  <1>5. InDate'
    BY <1>1, <1>2 DEF CatalogInv, InDate
  <1> QED
    BY <1>3, <1>4, <1>5 DEF CatalogInv, Catalog!TypeOK

\* Every step of the writers keeps the invariant.
LEMMA CatalogStep ==
  ASSUME CatalogInv, [Catalog!Next]_(Catalog!vars)
  PROVE  CatalogInv'
  <1>1. ASSUME NEW paths \in SUBSET Paths, NEW w \in Catalog!Writers,
               \/ Catalog!Load(w, "add", paths) \/ Catalog!Load(w, "remove", paths) \/ Catalog!Load(w, "clean", paths)
        PROVE  CatalogInv'
    BY <1>1, LoadStep DEF Catalog!Ops
  <1>2. ASSUME NEW paths \in (SUBSET Paths) \ {{}}, Catalog!WindowAdd(paths)
        PROVE  CatalogInv'
    BY <1>1, <1>2 DEF Catalog!WindowAdd, Catalog!Writers
  <1>3. ASSUME NEW paths \in (SUBSET Paths) \ {{}}, NEW w \in Commands,
               Catalog!Add(w, paths) \/ Catalog!Remove(w, paths)
        PROVE  CatalogInv'
    BY <1>1, <1>3 DEF Catalog!Add, Catalog!Remove, Catalog!Writers
  <1>4. ASSUME NEW w \in Commands, Catalog!Clean(w)
        PROVE  CatalogInv'
    BY <1>1, <1>4 DEF Catalog!Clean, Catalog!Writers
  <1>5. ASSUME NEW w \in Catalog!Writers, Catalog!Leave(w)
        PROVE  CatalogInv'
    BY <1>5 DEF CatalogInv, Catalog!TypeOK, InDate, Catalog!Leave
  <1>6. ASSUME NEW p \in Paths, Catalog!ChangeDirs(p)
        PROVE  CatalogInv'
    BY <1>6 DEF CatalogInv, Catalog!TypeOK, InDate, Catalog!ChangeDirs
  <1>7. CASE UNCHANGED Catalog!vars
    BY <1>7 DEF CatalogInv, Catalog!TypeOK, InDate, Catalog!vars
  <1> QED
    BY <1>2, <1>3, <1>4, <1>5, <1>6, <1>7, SaveStep DEF Catalog!Next

\* What a writer that was not overtaken leaves behind is the file it found with its
\* own edit.
LEMMA ExactStep ==
  ASSUME CatalogInv, Catalog!Next, NEW w \in Catalog!Writers,
         edit[w] # None, edit'[w] = None, ~edit[w].overtaken
  PROVE  CASE edit[w].op = "add" -> file \subseteq file' /\ file' \ file \subseteq edit[w].paths
           [] edit[w].op = "remove" -> file' \subseteq file /\ file \ file' \subseteq edit[w].paths
           [] edit[w].op = "clean" -> file' \subseteq file /\ (file \ file') \cap dirs = {}
  <1>1. edit[w] \in Catalog!EditRec /\ edit[w].base = file
    BY DEF CatalogInv, Catalog!TypeOK, InDate
  <1>2. edit[w].op \in Catalog!Ops
    BY <1>1 DEF Catalog!EditRec
  <1>3. CASE Catalog!Save(w)
    <2>1. file' = Catalog!Applied(w)
      BY <1>3 DEF Catalog!Save
    <2> QED
      BY <1>1, <1>2, <2>1 DEF Catalog!Applied, Catalog!Ops
  <1>4. CASE UNCHANGED file
    BY <1>2, <1>4 DEF Catalog!Ops
  <1>5. ASSUME NEW v \in Catalog!Writers, Catalog!Save(v), v # w
        PROVE  FALSE
    <2>1. edit'[w] = [edit[w] EXCEPT !.overtaken = @ \/ file' # file]
      BY <1>5 DEF Catalog!Save
    <2>2. edit'[w] \in Catalog!EditRec
      BY <1>1, <2>1 DEF Catalog!EditRec
    <2> QED
      BY <1>5, <2>2, NoneIsNoValue
  <1> QED
    BY <1>3, <1>4, <1>5
       DEF Catalog!Next, Catalog!WindowAdd, Catalog!Add, Catalog!Remove, Catalog!Clean, Catalog!Load, Catalog!Leave, Catalog!ChangeDirs

\* CatalogFile: every edit that was not overtaken changes what it was asked to and nothing
\* else, whichever other writers load and save beside it.
THEOREM EditsHold == ApplicationSpec => EditsAreExact
  <1>1. Start => CatalogInv
    BY DEF Start, Catalog!Init, CatalogInv, Catalog!TypeOK, InDate
  <1>2. [Step]_application => [Catalog!Next]_(Catalog!vars)
    BY DEF Step, application, catalogVars, Catalog!vars
  <1>3. CatalogInv /\ [Catalog!Next]_(Catalog!vars) => CatalogInv'
    BY CatalogStep
  <1>4. CatalogInv => (part = "catalog" => Catalog!TypeOK)
    BY DEF CatalogInv
  <1>5. CatalogInv /\ [Catalog!Next]_(Catalog!vars) =>
          [\A w \in Catalog!Writers :
             edit[w] # None /\ edit'[w] = None /\ ~edit[w].overtaken =>
              CASE edit[w].op = "add" -> file \subseteq file' /\ file' \ file \subseteq edit[w].paths
                [] edit[w].op = "remove" -> file' \subseteq file /\ file \ file' \subseteq edit[w].paths
                [] edit[w].op = "clean" -> file' \subseteq file /\ (file \ file') \cap dirs = {}]_(Catalog!vars)
    BY ExactStep
  <1> QED
    BY <1>1, <1>2, <1>3, <1>4, <1>5, PTL DEF ApplicationSpec, EditsAreExact, Catalog!EditsAreExact

-----------------------------------------------------------------------------
(* The stores of the workspaces *)

Calls ==
    {Stores!Idle} \cup [op: {"write"}, edit: Stores!Edits, next: Stores!Trees]
    \cup [op: {"delete"}, edit: Stores!Edits, unseen: SUBSET Tabs, tabs: SUBSET Tabs,
          panes: SUBSET Panes]

Active(c) == call[c] # Stores!Idle \/ left[c] # None

\* Of a migration only its repositories are written.
StoresTyped ==
    /\ Stores!TypeOK
    /\ call \in [Clients -> Calls] /\ left \in [Clients -> (SUBSET Repos) \cup {None}]
    /\ \A c \in Clients : call[c].op = "write" /\ left[c] # None =>
          call[c].edit.op = "workspace" /\ call[c].edit.of \in left[c]
    /\ \A c \in Clients : call[c].op = "delete" => left[c] = None /\ Stores!Deletes(call[c].edit)

\* Calls that did not overlap were made one after the other.
Solo == \A c, d \in Clients : Active(c) /\ Active(d) => c = d

\* What is written was made of what is stored, and a migration's under a new identifier.
WriteFits(c) ==
    call[c].op = "write" =>
        /\ call[c].next = Stores!Applied(tree, call[c].edit)
        /\ IF left[c] = None THEN Stores!Fits(call[c].edit) ELSE tree.ws[call[c].edit.id] = None

\* A deletion knows the panes of the tabs it has still to delete, or has still to ask.
DeleteFits(c) ==
    LET d == call[c] IN
    d.op = "delete" =>
        /\ d.unseen \subseteq d.tabs
        /\ \A p \in d.panes : tree.panes[p] \in d.tabs
        /\ \A p \in Panes : tree.panes[p] \in d.tabs => p \in d.panes \/ tree.panes[p] \in d.unseen
        /\ d.edit.op = "delete workspace" => Stores!TabsOf(tree, d.edit.id) \subseteq d.tabs

Parents(T) ==
    /\ \A t \in Tabs : T.tabs[t] # None => T.ws[T.tabs[t]] # None
    /\ \A p \in Panes : T.panes[p] # None => T.tabs[T.panes[p]] # None

\* A migration stores what the file names.
MigrationFits(c) ==
    left[c] # None =>
        legacy = Repos /\ Repos \ left[c] \subseteq Stores!PathsOf(tree) \cup removed

\* What a deletion will leave.
Rest(T, d) ==
    IF d.edit.op = "delete workspace"
    THEN [Stores!WithoutTabs(T, d.tabs) EXCEPT !.ws[d.edit.id] = None]
    ELSE Stores!WithoutTabs(T, d.tabs)

\* What returned is what is stored, but for a deletion under way.
KeepsPromise ==
    /\ \A c \in Clients :
          call[c].op = "delete" => Stores!Applied(promised, call[c].edit) = Rest(tree, call[c])
    /\ (\A c \in Clients : call[c].op # "delete") => tree = promised

\* No repository has a workspace that is still to be migrated.
Once ==
    /\ \A v, w \in Rooms : tree.ws[v] # None /\ tree.ws[v] = tree.ws[w] /\ tree.ws[v] # Folder => v = w
    /\ legacy = Repos /\ (\A c \in Clients : left[c] = None) =>
          \A w \in Rooms : tree.ws[w] # None => tree.ws[w] = Folder
    /\ \A c \in Clients : left[c] # None =>
          \A w \in Rooms : tree.ws[w] \in left[c] => tree.ws[w] = Folder

StoresInv ==
    /\ StoresTyped
    /\ ~raced => /\ Solo /\ Parents(tree)
                 /\ \A c \in Clients : WriteFits(c) /\ DeleteFits(c) /\ MigrationFits(c)
                 /\ ~torn => KeepsPromise /\ Once


\* A tree without some tabs has none of their panes.
LEMMA WithoutTabsIs ==
  ASSUME NEW T \in Stores!Trees, NEW S \in SUBSET Tabs
  PROVE  LET W == Stores!WithoutTabs(T, S) IN
         /\ W \in Stores!Trees /\ W.ws = T.ws /\ W.selected = T.selected
         /\ \A t \in Tabs : W.tabs[t] = IF t \in S THEN None ELSE T.tabs[t]
         /\ \A p \in Panes : W.panes[p] = IF T.panes[p] \in S THEN None ELSE T.panes[p]
  <1> DEFINE f == [t \in Tabs |-> IF t \in S THEN None ELSE T.tabs[t]]
             g == [p \in Panes |-> IF T.panes[p] \in S THEN None ELSE T.panes[p]]
  <1>1. Stores!WithoutTabs(T, S) = [T EXCEPT !.tabs = f, !.panes = g]
    BY DEF Stores!WithoutTabs
  <1>2. f \in [Tabs -> Rooms \cup {None}] /\ \A t \in Tabs : f[t] = IF t \in S THEN None ELSE T.tabs[t]
    BY DEF Stores!Trees
  <1>3. g \in [Panes -> Tabs \cup {None}]
        /\ \A p \in Panes : g[p] = IF T.panes[p] \in S THEN None ELSE T.panes[p]
    BY DEF Stores!Trees
  <1> HIDE DEF f, g
  <1> QED
    BY <1>1, <1>2, <1>3 DEF Stores!Trees

\* Trees with the same parts are one.
LEMMA SameTree ==
  ASSUME NEW T \in Stores!Trees, NEW U \in Stores!Trees, T.ws = U.ws, T.selected = U.selected,
         \A t \in Tabs : T.tabs[t] = U.tabs[t], \A p \in Panes : T.panes[p] = U.panes[p]
  PROVE  T = U
  <1>1. T.tabs = U.tabs /\ T.panes = U.panes
    BY DEF Stores!Trees
  <1> QED
    BY <1>1 DEF Stores!Trees

\* Taking the tabs of S from T and from U leaves the same, if they differ in those only.
LEMMA SameRest ==
  ASSUME NEW T \in Stores!Trees, NEW U \in Stores!Trees, NEW S \in SUBSET Tabs,
         NEW R \in SUBSET Tabs, T.ws = U.ws, T.selected = U.selected,
         \A t \in Tabs : (IF t \in S THEN None ELSE T.tabs[t]) = (IF t \in R THEN None ELSE U.tabs[t]),
         \A p \in Panes : (IF T.panes[p] \in S THEN None ELSE T.panes[p])
                          = (IF U.panes[p] \in R THEN None ELSE U.panes[p])
  PROVE  Stores!WithoutTabs(T, S) = Stores!WithoutTabs(U, R)
  <1> DEFINE V == Stores!WithoutTabs(T, S)
             W == Stores!WithoutTabs(U, R)
  <1>1. /\ V \in Stores!Trees /\ V.ws = T.ws /\ V.selected = T.selected
        /\ \A t \in Tabs : V.tabs[t] = IF t \in S THEN None ELSE T.tabs[t]
        /\ \A p \in Panes : V.panes[p] = IF T.panes[p] \in S THEN None ELSE T.panes[p]
    BY WithoutTabsIs
  <1>2. /\ W \in Stores!Trees /\ W.ws = U.ws /\ W.selected = U.selected
        /\ \A t \in Tabs : W.tabs[t] = IF t \in R THEN None ELSE U.tabs[t]
        /\ \A p \in Panes : W.panes[p] = IF U.panes[p] \in R THEN None ELSE U.panes[p]
    BY WithoutTabsIs
  <1> HIDE DEF V, W
  <1>3. V = W
    BY <1>1, <1>2, SameTree
  <1> QED
    BY <1>3 DEF V, W


\* What a change makes of a tree, one kind of change at a time.
LEMMA AppliedIs ==
  ASSUME NEW T \in Stores!Trees, NEW e \in Stores!Edits
  PROVE  LET A == Stores!Applied(T, e) IN
         /\ A \in Stores!Trees
         /\ e.op \in {"workspace", "tab", "pane", "select", "delete workspace", "delete tab",
                      "delete pane"}
         /\ e.op = "workspace" => e.id \in Rooms /\ e.of \in Stores!Places
                /\ A.ws = [T.ws EXCEPT ![e.id] = e.of] /\ A.tabs = T.tabs /\ A.panes = T.panes
         /\ e.op = "tab" => e.id \in Tabs /\ e.of \in Rooms
                /\ A.ws = T.ws /\ A.tabs = [T.tabs EXCEPT ![e.id] = e.of] /\ A.panes = T.panes
         /\ e.op = "pane" => e.id \in Panes /\ e.of \in Tabs
                /\ A.ws = T.ws /\ A.tabs = T.tabs /\ A.panes = [T.panes EXCEPT ![e.id] = e.of]
         /\ e.op = "select" => A.ws = T.ws /\ A.tabs = T.tabs /\ A.panes = T.panes
         /\ e.op = "delete pane" => e.id \in Panes
                /\ A.ws = T.ws /\ A.tabs = T.tabs /\ A.panes = [T.panes EXCEPT ![e.id] = None]
         /\ e.op = "delete tab" => e.id \in Tabs /\ A = Stores!WithoutTabs(T, {e.id})
         /\ e.op = "delete workspace" => e.id \in Rooms
                /\ A = [Stores!WithoutTabs(T, Stores!TabsOf(T, e.id)) EXCEPT !.ws[e.id] = None]
  <1> DEFINE A == Stores!Applied(T, e)
  <1>1. CASE e \in [op : {"workspace"}, id : Rooms, of : Stores!Places]
    BY <1>1 DEF Stores!Applied, Stores!Trees
  <1>2. CASE e \in [op : {"tab"}, id : Tabs, of : Rooms]
    BY <1>2 DEF Stores!Applied, Stores!Trees
  <1>3. CASE e \in [op : {"pane"}, id : Panes, of : Tabs]
    BY <1>3 DEF Stores!Applied, Stores!Trees
  <1>4. CASE e \in [op : {"select"}, id : {None}, of : Rooms \cup {None}]
    BY <1>4 DEF Stores!Applied, Stores!Trees
  <1>5. CASE e \in [op : {"delete workspace"}, id : Rooms, of : {None}]
    <2> DEFINE W == Stores!WithoutTabs(T, Stores!TabsOf(T, e.id))
    <2>1. W \in Stores!Trees
      BY WithoutTabsIs DEF Stores!TabsOf
    <2>2. A = [W EXCEPT !.ws[e.id] = None]
      BY <1>5 DEF Stores!Applied
    <2> HIDE DEF A, W
    <2>3. e.id \in Rooms /\ [W.ws EXCEPT ![e.id] = None] \in [Rooms -> Stores!Places \cup {None}]
      BY <1>5, <2>1 DEF Stores!Trees
    <2>4. [W EXCEPT !.ws = [W.ws EXCEPT ![e.id] = None]] \in Stores!Trees
      BY <2>1, <2>3 DEF Stores!Trees
    <2> QED
      BY <1>5, <2>2, <2>3, <2>4 DEF A, W
  <1>6. CASE e \in [op : {"delete tab"}, id : Tabs, of : {None}]
    <2>1. A = Stores!WithoutTabs(T, {e.id})
      BY <1>6 DEF Stores!Applied
    <2>2. A \in Stores!Trees
      <3>1. {e.id} \in SUBSET Tabs
        BY <1>6
      <3> QED
        BY <2>1, <3>1, WithoutTabsIs
    <2> QED
      BY <1>6, <2>1, <2>2
  <1>7. CASE e \in [op : {"delete pane"}, id : Panes, of : {None}]
    BY <1>7 DEF Stores!Applied, Stores!Trees
  <1> QED
    BY <1>1, <1>2, <1>3, <1>4, <1>5, <1>6, <1>7 DEF Stores!Edits


\* A change makes a tree of a tree.
LEMMA AppliedType ==
  ASSUME NEW T \in Stores!Trees, NEW e \in Stores!Edits
  PROVE  Stores!Applied(T, e) \in Stores!Trees
  BY AppliedIs

\* Once a call began, one that did not overlap is alone.
LEMMA Alone ==
  ASSUME StoresInv, ~raced, NEW c \in Clients, Active(c)
  PROVE  \A d \in Clients \ {c} : call[d] = Stores!Idle /\ left[d] = None
  BY DEF StoresInv, Solo, Active

\* A call that overlaps no other begins while the others rest.
LEMMA BeginsAlone ==
  ASSUME NEW c \in Clients, raced' = (raced \/ Stores!Others(c)), ~raced'
  PROVE  ~raced /\ \A d \in Clients \ {c} : call[d] = Stores!Idle /\ left[d] = None
  BY DEF Stores!Others

\* What is known of a client in some state.
LEMMA TypedIs ==
  ASSUME StoresTyped, NEW c \in Clients
  PROVE  /\ tree \in Stores!Trees /\ promised \in Stores!Trees
         /\ call[c] \in Calls /\ left[c] \in (SUBSET Repos) \cup {None}
         /\ call[c].op \in {"idle", "write", "delete"}
         /\ call[c] = Stores!Idle <=> call[c].op = "idle"
         /\ call[c].op = "write" => /\ call[c] \in [op: {"write"}, edit: Stores!Edits, next: Stores!Trees]
                                    /\ call[c].edit \in Stores!Edits /\ call[c].next \in Stores!Trees
         /\ call[c].op = "delete" =>
               /\ call[c] \in [op: {"delete"}, edit: Stores!Edits, unseen: SUBSET Tabs,
                               tabs: SUBSET Tabs, panes: SUBSET Panes]
               /\ call[c].edit \in Stores!Edits /\ call[c].unseen \in SUBSET Tabs
               /\ call[c].tabs \in SUBSET Tabs /\ call[c].panes \in SUBSET Panes
  BY DEF StoresTyped, Stores!TypeOK, Calls, Stores!Idle

\* What the end of a call leaves of the rest.
LEMMA ReturnedIs ==
  ASSUME StoresTyped, NEW c \in Clients, NEW e \in Stores!Edits, Stores!Returned(c, e),
         left[c] # None => e.of \in Repos
  PROVE  /\ call' = [call EXCEPT ![c] = Stores!Idle]
         /\ call' \in [Clients -> Calls] /\ left' \in [Clients -> (SUBSET Repos) \cup {None}]
         /\ promised' = Stores!Applied(promised, e) /\ promised' \in Stores!Trees
         /\ removed' \in SUBSET Stores!Places /\ removed \subseteq removed'
         /\ \A d \in Clients \ {c} : left'[d] = left[d]
         /\ left'[c] = IF left[c] = None THEN None ELSE left[c] \ {e.of}
  <1>1. /\ call' = [call EXCEPT ![c] = Stores!Idle] /\ promised' = Stores!Applied(promised, e)
        /\ left' = IF left[c] = None THEN left ELSE [left EXCEPT ![c] = left[c] \ {e.of}]
    BY DEF Stores!Returned
  <1>2. call' \in [Clients -> Calls]
    BY <1>1 DEF StoresTyped, Calls
  <1>3. promised' \in Stores!Trees
    BY <1>1, AppliedType DEF StoresTyped, Stores!TypeOK
  <1>4. left[c] # None => left[c] \in SUBSET Repos /\ left[c] \ {e.of} \in SUBSET Repos
    BY DEF StoresTyped
  <1>5. /\ left' \in [Clients -> (SUBSET Repos) \cup {None}]
        /\ \A d \in Clients \ {c} : left'[d] = left[d]
        /\ left'[c] = IF left[c] = None THEN None ELSE left[c] \ {e.of}
    BY <1>1, <1>4 DEF StoresTyped
  <1>6. removed' \in SUBSET Stores!Places /\ removed \subseteq removed'
    <2>1. removed \in SUBSET Stores!Places /\ tree.ws \in [Rooms -> Stores!Places \cup {None}]
      BY DEF StoresTyped, Stores!TypeOK, Stores!Trees
    <2>2. e.op = "delete workspace" => e.id \in Rooms
      BY <2>1, AppliedIs DEF StoresTyped, Stores!TypeOK
    <2> QED
      BY <2>1, <2>2 DEF Stores!Returned
  <1> QED
    BY <1>1, <1>2, <1>3, <1>5, <1>6


\* A client that rests fits whatever is stored.
LEMMA OthersRest ==
  ASSUME NEW c \in Clients, \A d \in Clients \ {c} : call'[d] = Stores!Idle /\ left'[d] = None
  PROVE  /\ Solo'
         /\ \A d \in Clients \ {c} : WriteFits(d)' /\ DeleteFits(d)' /\ MigrationFits(d)'
  <1>1. Solo'
    BY DEF Solo, Active
  <1>2. ASSUME NEW d \in Clients \ {c}
        PROVE  WriteFits(d)' /\ DeleteFits(d)' /\ MigrationFits(d)'
    <2>1. call'[d].op = "idle" /\ left'[d] = None
      BY DEF Stores!Idle
    <2> QED
      BY <2>1 DEF WriteFits, DeleteFits, MigrationFits
  <1> QED
    BY <1>1, <1>2

\* What is left to show of a step of c beside which nothing happens.
LEMMA StepOf ==
  ASSUME NEW c \in Clients, StoresTyped', Parents(tree)',
         \A d \in Clients \ {c} : call'[d] = Stores!Idle /\ left'[d] = None,
         WriteFits(c)', DeleteFits(c)', MigrationFits(c)',
         ~torn' => /\ call'[c].op = "delete" =>
                         (Stores!Applied(promised, call[c].edit) = Rest(tree, call[c]))'
                   /\ call'[c].op # "delete" => tree' = promised'
                   /\ \A v, w \in Rooms : tree'.ws[v] # None /\ tree'.ws[v] = tree'.ws[w]
                                       /\ tree'.ws[v] # Folder => v = w
                   /\ legacy' = Repos /\ left'[c] = None =>
                         \A w \in Rooms : tree'.ws[w] # None => tree'.ws[w] = Folder
                   /\ left'[c] # None =>
                         \A w \in Rooms : tree'.ws[w] \in left'[c] => tree'.ws[w] = Folder
  PROVE  StoresInv'
  <1>1. Solo' /\ \A d \in Clients \ {c} : WriteFits(d)' /\ DeleteFits(d)' /\ MigrationFits(d)'
    BY OthersRest
  <1>2. \A d \in Clients : d # c => call'[d].op # "delete"
    BY DEF Stores!Idle
  <1>3. ~torn' => KeepsPromise'
    <2>1. \A d \in Clients : call'[d].op = "delete" => d = c
      BY <1>2
    <2> QED
      BY <2>1 DEF KeepsPromise
  <1>4. ~torn' => Once'
    BY DEF Once
  <1> QED
    BY <1>1, <1>3, <1>4 DEF StoresInv

\* The parents of what is there are there after a change that fits.
LEMMA ParentsStay ==
  ASSUME tree \in Stores!Trees, Parents(tree), NEW e \in Stores!Edits,
         Stores!Fits(e) \/ e.op = "workspace"
  PROVE  Parents(Stores!Applied(tree, e))
  <1> DEFINE A == Stores!Applied(tree, e)
  <1> SUFFICES Parents(A)
    OBVIOUS
  <1>1. /\ A \in Stores!Trees
        /\ tree.ws \in [Rooms -> Stores!Places \cup {None}]
        /\ tree.tabs \in [Tabs -> Rooms \cup {None}] /\ tree.panes \in [Panes -> Tabs \cup {None}]
    BY AppliedType DEF Stores!Trees
  <1>2. None \notin Stores!Places
    BY NoneIsNoValue DEF Stores!Places
  <1>3. CASE e.op = "workspace"
    <2>1. A.ws = [tree.ws EXCEPT ![e.id] = e.of] /\ A.tabs = tree.tabs /\ A.panes = tree.panes
          /\ e.id \in Rooms /\ e.of \in Stores!Places
      BY <1>3, AppliedIs
    <2> HIDE DEF A
    <2> QED
      BY <1>1, <1>2, <2>1 DEF Parents
  <1>4. CASE e.op = "tab"
    <2>1. A.ws = tree.ws /\ A.tabs = [tree.tabs EXCEPT ![e.id] = e.of] /\ A.panes = tree.panes
          /\ e.id \in Tabs /\ e.of \in Rooms /\ tree.ws[e.of] # None
      BY <1>4, AppliedIs DEF Stores!Fits
    <2> HIDE DEF A
    <2> QED
      BY <1>1, <2>1, NoneIsNoValue DEF Parents
  <1>5. CASE e.op = "pane"
    <2>1. A.ws = tree.ws /\ A.tabs = tree.tabs /\ A.panes = [tree.panes EXCEPT ![e.id] = e.of]
          /\ e.id \in Panes /\ e.of \in Tabs /\ tree.tabs[e.of] # None
      BY <1>5, AppliedIs DEF Stores!Fits
    <2> HIDE DEF A
    <2> QED
      BY <1>1, <2>1, NoneIsNoValue DEF Parents
  <1>6. CASE e.op = "select"
    BY <1>6, AppliedIs DEF Parents
  <1>7. CASE e.op = "delete pane"
    <2>1. A.ws = tree.ws /\ A.tabs = tree.tabs /\ A.panes = [tree.panes EXCEPT ![e.id] = None]
          /\ e.id \in Panes
      BY <1>7, AppliedIs
    <2> HIDE DEF A
    <2> QED
      BY <1>1, <2>1 DEF Parents
  <1>8. CASE e.op = "delete tab"
    <2>1. A = Stores!WithoutTabs(tree, {e.id}) /\ {e.id} \in SUBSET Tabs
      BY <1>8, AppliedIs
    <2>2. /\ A.ws = tree.ws
          /\ \A t \in Tabs : A.tabs[t] = IF t \in {e.id} THEN None ELSE tree.tabs[t]
          /\ \A p \in Panes : A.panes[p] = IF tree.panes[p] \in {e.id} THEN None ELSE tree.panes[p]
      BY <2>1, WithoutTabsIs
    <2> HIDE DEF A
    <2> QED
      BY <1>1, <2>2 DEF Parents
  <1>9. CASE e.op = "delete workspace"
    <2> DEFINE S == Stores!TabsOf(tree, e.id)
               W == Stores!WithoutTabs(tree, S)
    <2>1. A = [W EXCEPT !.ws[e.id] = None] /\ e.id \in Rooms
      BY <1>9, AppliedIs
    <2>2. /\ S \in SUBSET Tabs /\ \A t \in Tabs : t \notin S => tree.tabs[t] # e.id
      BY DEF Stores!TabsOf
    <2> HIDE DEF S
    <2>3. /\ W \in Stores!Trees /\ W.ws = tree.ws
          /\ \A t \in Tabs : W.tabs[t] = IF t \in S THEN None ELSE tree.tabs[t]
          /\ \A p \in Panes : W.panes[p] = IF tree.panes[p] \in S THEN None ELSE tree.panes[p]
      BY <2>2, WithoutTabsIs
    <2> HIDE DEF W
    <2>4. A.tabs = W.tabs /\ A.panes = W.panes /\ A.ws = [W.ws EXCEPT ![e.id] = None]
      BY <2>1, <2>3 DEF Stores!Trees
    <2> HIDE DEF A, W
    <2> QED
      BY <1>1, <2>2, <2>3, <2>4 DEF Parents
  <1> QED
    BY <1>3, <1>4, <1>5, <1>6, <1>7, <1>8, <1>9, AppliedIs


\* A change that fits leaves the path of a workspace, takes it or makes it the user's.
LEMMA PathsStay ==
  ASSUME tree \in Stores!Trees, NEW e \in Stores!Edits, Stores!Fits(e)
  PROVE  \A w \in Rooms : LET p == Stores!Applied(tree, e).ws[w]
                          IN  p # None => p = tree.ws[w] \/ p = Folder
  <1> DEFINE A == Stores!Applied(tree, e)
  <1> SUFFICES ASSUME NEW w \in Rooms, A.ws[w] # None
               PROVE  A.ws[w] = tree.ws[w] \/ A.ws[w] = Folder
    OBVIOUS
  <1>1. tree.ws \in [Rooms -> Stores!Places \cup {None}]
    BY DEF Stores!Trees
  <1>2. CASE e.op = "workspace"
    <2>1. A.ws = [tree.ws EXCEPT ![e.id] = e.of] /\ e.id \in Rooms
          /\ e.of = IF tree.ws[e.id] = None THEN Folder ELSE tree.ws[e.id]
      BY <1>2, AppliedIs DEF Stores!Fits
    <2> HIDE DEF A
    <2> QED
      BY <1>1, <2>1
  <1>3. CASE e.op \in {"tab", "pane", "select", "delete pane"}
    BY <1>3, AppliedIs
  <1>4. CASE e.op = "delete tab"
    <2>1. A = Stores!WithoutTabs(tree, {e.id}) /\ {e.id} \in SUBSET Tabs
      BY <1>4, AppliedIs
    <2>2. A.ws = tree.ws
      BY <2>1, WithoutTabsIs
    <2> QED
      BY <2>2
  <1>5. CASE e.op = "delete workspace"
    <2> DEFINE S == Stores!TabsOf(tree, e.id)
               W == Stores!WithoutTabs(tree, S)
    <2>1. A = [W EXCEPT !.ws[e.id] = None] /\ e.id \in Rooms /\ S \in SUBSET Tabs
      BY <1>5, AppliedIs DEF Stores!TabsOf
    <2> HIDE DEF S
    <2>2. W \in Stores!Trees /\ W.ws = tree.ws
      BY <2>1, WithoutTabsIs
    <2> HIDE DEF W
    <2>3. A.ws = [tree.ws EXCEPT ![e.id] = None]
      BY <2>1, <2>2 DEF Stores!Trees
    <2> HIDE DEF A
    <2> QED
      BY <1>1, <2>1, <2>3
  <1> QED
    BY <1>2, <1>3, <1>4, <1>5, AppliedIs

\* A call that ends with its change made.
LEMMA Completes ==
  ASSUME StoresInv, NEW c \in Clients, NEW e \in Stores!Edits, call[c].op # "delete",
         Stores!Returned(c, e), tree' \in Stores!Trees, raced' \in BOOLEAN, calls' \in 0..MaxCalls,
         left[c] # None => e.op = "workspace" /\ e.of \in left[c],
         ~raced' => /\ ~raced /\ \A d \in Clients \ {c} : call[d] = Stores!Idle /\ left[d] = None
                    /\ tree' = Stores!Applied(tree, e)
                    /\ IF left[c] = None THEN Stores!Fits(e) ELSE tree.ws[e.id] = None,
         UNCHANGED <<kind, legacy, torn>>
  PROVE  StoresInv'
  <1>1. StoresTyped
    BY DEF StoresInv
  <1>2. /\ call' = [call EXCEPT ![c] = Stores!Idle]
        /\ call' \in [Clients -> Calls] /\ left' \in [Clients -> (SUBSET Repos) \cup {None}]
        /\ promised' = Stores!Applied(promised, e) /\ promised' \in Stores!Trees
        /\ removed' \in SUBSET Stores!Places /\ removed \subseteq removed'
        /\ \A d \in Clients \ {c} : left'[d] = left[d]
        /\ left'[c] = IF left[c] = None THEN None ELSE left[c] \ {e.of}
    <2>1. left[c] # None => left[c] \in SUBSET Repos /\ e.of \in Repos
      BY <1>1 DEF StoresTyped
    <2> QED
      BY <1>1, <2>1, ReturnedIs
  <1>3. /\ call'[c] = Stores!Idle /\ call'[c].op = "idle"
        /\ \A d \in Clients \ {c} : call'[d] = call[d]
    BY <1>1, <1>2 DEF StoresTyped, Stores!Idle
  <1>4. StoresTyped'
    <2>1. Stores!TypeOK'
      <3>1. \A d \in Clients : call'[d].op \in {"idle", "write", "delete"}
        BY <1>1, <1>3 DEF StoresTyped, Stores!TypeOK
      <3> QED
        BY <1>1, <1>2, <3>1 DEF StoresTyped, Stores!TypeOK
    <2>2. ASSUME NEW d \in Clients
          PROVE  /\ call'[d].op = "write" /\ left'[d] # None =>
                       call'[d].edit.op = "workspace" /\ call'[d].edit.of \in left'[d]
                 /\ call'[d].op = "delete" => left'[d] = None /\ Stores!Deletes(call'[d].edit)
      BY <1>1, <1>2, <1>3 DEF StoresTyped
    <2> QED
      BY <1>2, <2>1, <2>2 DEF StoresTyped, Stores!Deletes
  <1> SUFFICES ASSUME ~raced'
               PROVE  StoresInv'
    BY <1>4 DEF StoresInv
  <1>5. /\ Parents(tree) /\ MigrationFits(c) /\ (~torn => KeepsPromise /\ Once)
        /\ tree' = Stores!Applied(tree, e) /\ tree \in Stores!Trees
        /\ left[c] = None => Stores!Fits(e)
        /\ left[c] # None => e.op = "workspace" /\ tree.ws[e.id] = None /\ left[c] \in SUBSET Repos
        /\ \A d \in Clients \ {c} : call'[d] = Stores!Idle /\ left'[d] = None
    BY <1>1, <1>2, <1>3 DEF StoresInv, StoresTyped, Stores!TypeOK
  <1>6. Parents(tree)'
    BY <1>5, ParentsStay DEF Parents
  <1>7. ASSUME left[c] # None
        PROVE  /\ e.id \in Rooms /\ e.of \in Repos
               /\ tree'.ws = [tree.ws EXCEPT ![e.id] = e.of]
               /\ tree.ws \in [Rooms -> Stores!Places \cup {None}] /\ tree.ws[e.id] = None
               /\ left[c] \in SUBSET Repos
    BY <1>5, <1>7, AppliedIs DEF Stores!Trees
  <1>8. MigrationFits(c)'
    <2> SUFFICES ASSUME left'[c] # None
                 PROVE  legacy' = Repos /\ (Repos \ left[c] \subseteq Stores!PathsOf(tree) \cup removed)'
      BY DEF MigrationFits
    <2>1. left[c] # None
      BY <1>2
    <2>2. legacy = Repos /\ Repos \ left[c] \subseteq Stores!PathsOf(tree) \cup removed
      BY <1>5, <2>1 DEF MigrationFits
    <2>3. \A w \in Rooms : tree.ws[w] # None => tree'.ws[w] = tree.ws[w]
      BY <1>7, <2>1
    <2>4. tree'.ws[e.id] = e.of /\ e.of # None
      BY <1>7, <2>1, NoneIsNoValue
    <2>5. Stores!PathsOf(tree) \cup {e.of} \subseteq Stores!PathsOf(tree')
      BY <1>7, <2>1, <2>3, <2>4 DEF Stores!PathsOf
    <2> QED
      BY <1>2, <2>1, <2>2, <2>5 DEF Stores!PathsOf
  <1>9. ASSUME ~torn
        PROVE  /\ tree' = promised'
               /\ \A v, w \in Rooms : tree'.ws[v] # None /\ tree'.ws[v] = tree'.ws[w]
                                      /\ tree'.ws[v] # Folder => v = w
               /\ legacy' = Repos /\ left'[c] = None =>
                     \A w \in Rooms : tree'.ws[w] # None => tree'.ws[w] = Folder
               /\ left'[c] # None => \A w \in Rooms : tree'.ws[w] \in left'[c] => tree'.ws[w] = Folder
    <2>1. tree = promised
      <3>1. \A d \in Clients : call[d].op # "delete"
        BY <1>3, <1>5 DEF Stores!Idle
      <3> QED
        BY <1>5, <1>9, <3>1 DEF KeepsPromise
    <2>2. tree' = promised'
      BY <1>2, <1>5, <2>1
    <2>3. /\ \A v, w \in Rooms : tree.ws[v] # None /\ tree.ws[v] = tree.ws[w] /\ tree.ws[v] # Folder => v = w
          /\ legacy = Repos /\ left[c] = None =>
                \A w \in Rooms : tree.ws[w] # None => tree.ws[w] = Folder
          /\ left[c] # None => \A w \in Rooms : tree.ws[w] \in left[c] => tree.ws[w] = Folder
      BY <1>2, <1>5, <1>9 DEF Once
    <2>4. CASE left[c] = None
      <3>1. \A w \in Rooms : tree'.ws[w] # None => tree'.ws[w] = tree.ws[w] \/ tree'.ws[w] = Folder
        BY <1>5, <2>4, PathsStay
      <3>2. left'[c] = None /\ legacy' = legacy
        BY <1>2, <2>4
      <3>3. \A v, w \in Rooms : tree'.ws[v] # None /\ tree'.ws[v] = tree'.ws[w]
                                /\ tree'.ws[v] # Folder => v = w
        <4> SUFFICES ASSUME NEW v \in Rooms, NEW w \in Rooms, tree'.ws[v] # None,
                            tree'.ws[v] = tree'.ws[w], tree'.ws[v] # Folder
                     PROVE  v = w
          OBVIOUS
        <4>1. tree'.ws[v] = tree.ws[v] /\ tree'.ws[w] = tree.ws[w]
          BY <3>1
        <4> QED
          BY <2>3, <4>1
      <3>4. legacy = Repos => \A w \in Rooms : tree'.ws[w] # None => tree'.ws[w] = Folder
        BY <2>3, <2>4, <3>1
      <3> QED
        BY <2>2, <3>2, <3>3, <3>4
    <2>5. CASE left[c] # None
      <3>1. left'[c] = left[c] \ {e.of} /\ left'[c] \in SUBSET Repos /\ left'[c] # None /\ e.of \in left[c]
        BY <1>2, <2>5, <1>7, NoneIsNoValue
      <3>2. /\ \A w \in Rooms : tree'.ws[w] = IF w = e.id THEN e.of ELSE tree.ws[w]
            /\ \A w \in Rooms : tree.ws[w] \in left[c] => tree.ws[w] = Folder
        BY <1>7, <2>3, <2>5
      <3>3. \A v, w \in Rooms : tree'.ws[v] # None /\ tree'.ws[v] = tree'.ws[w]
                                /\ tree'.ws[v] # Folder => v = w
        <4> SUFFICES ASSUME NEW v \in Rooms, NEW w \in Rooms, tree'.ws[v] # None,
                            tree'.ws[v] = tree'.ws[w], tree'.ws[v] # Folder
                     PROVE  v = w
          OBVIOUS
        <4>1. CASE v # e.id /\ w # e.id
          <5>1. tree'.ws[v] = tree.ws[v] /\ tree'.ws[w] = tree.ws[w]
            BY <3>2, <4>1
          <5> QED
            BY <2>3, <5>1
        <4>2. CASE v = e.id \/ w = e.id
          BY <3>1, <3>2, <4>2
        <4> QED
          BY <4>1, <4>2
      <3>4. \A w \in Rooms : tree'.ws[w] \in left'[c] => tree'.ws[w] = Folder
        BY <3>1, <3>2
      <3> QED
        BY <2>2, <3>1, <3>3, <3>4
    <2> QED
      BY <2>4, <2>5
  <1>10. WriteFits(c)' /\ DeleteFits(c)'
    BY <1>3 DEF WriteFits, DeleteFits
  <1> QED
    BY <1>3, <1>4, <1>5, <1>6, <1>8, <1>9, <1>10, StepOf


\* Each step keeps the invariant.
LEMMA BeginsKeeps ==
  ASSUME StoresInv, NEW c \in Clients, NEW e \in Stores!Edits, Stores!Begins(c, e),
         IF left[c] = None THEN Stores!Fits(e)
         ELSE e.op = "workspace" /\ e.of \in left[c] /\ tree.ws[e.id] = None,
         calls' \in 0..MaxCalls
  PROVE  StoresInv'
  <1>1. /\ StoresTyped /\ call[c] = Stores!Idle /\ call[c].op = "idle"
        /\ raced' = (raced \/ Stores!Others(c)) /\ UNCHANGED <<kind, legacy, torn>>
    BY DEF StoresInv, Stores!Begins, Stores!Idle
  <1>2. tree \in Stores!Trees /\ promised \in Stores!Trees /\ raced' \in BOOLEAN
    BY <1>1 DEF StoresTyped, Stores!TypeOK
  <1>3. ~raced' => ~raced /\ \A d \in Clients \ {c} : call[d] = Stores!Idle /\ left[d] = None
    BY <1>1, BeginsAlone
  <1>4. CASE Stores!Puts(c, e)
    <2>1. Stores!Returned(c, e) /\ tree' = Stores!Applied(tree, e) /\ tree' \in Stores!Trees
      BY <1>2, <1>4, AppliedType DEF Stores!Puts
    <2> QED
      BY <1>1, <1>2, <1>3, <2>1, Completes
  <1>5. CASE Stores!Loads(c, e) \/ Stores!Lists(c, e)
    <2>1. PICK n \in Calls :
            /\ call' = [call EXCEPT ![c] = n] /\ UNCHANGED <<tree, left, promised, removed>>
            /\ \/ n.op = "write" /\ n.edit = e /\ n.next = Stores!Applied(tree, e)
               \/ /\ n.op = "delete" /\ n.edit = e /\ Stores!Deletes(e) /\ n.panes = {}
                  /\ n.unseen = n.tabs /\ n.tabs \in SUBSET Tabs
                  /\ n.tabs = IF e.op = "delete tab" THEN {e.id} ELSE Stores!TabsOf(tree, e.id)
      <3>1. CASE Stores!Loads(c, e)
        <4> DEFINE n == [op |-> "write", edit |-> e, next |-> Stores!Applied(tree, e)]
        <4>1. n \in Calls
          BY <1>2, AppliedType DEF Calls
        <4> QED
          BY <3>1, <4>1 DEF Stores!Loads, Stores!Loaded
      <3>2. CASE Stores!Lists(c, e)
        <4> DEFINE taken == IF e.op = "delete tab" THEN {e.id} ELSE Stores!TabsOf(tree, e.id)
                   n == [op |-> "delete", edit |-> e, unseen |-> taken, tabs |-> taken, panes |-> {}]
        <4>1. taken \in SUBSET Tabs
          BY <1>2, AppliedIs DEF Stores!TabsOf
        <4>2. call' = [call EXCEPT ![c] = n] /\ UNCHANGED <<tree, left, promised, removed>>
              /\ Stores!Deletes(e)
          BY <3>2 DEF Stores!Lists
        <4> HIDE DEF taken
        <4>3. n \in Calls
          BY <4>1 DEF Calls
        <4> QED
          BY <4>1, <4>2, <4>3 DEF taken
      <3> QED
        BY <1>5, <3>1, <3>2
    <2>2. /\ call'[c] = n /\ \A d \in Clients \ {c} : call'[d] = call[d]
          /\ call' \in [Clients -> Calls]
      BY <1>1, <2>1 DEF StoresTyped
    <2>3. left[c] # None => e.op = "workspace" /\ e.of \in left[c]
      OBVIOUS
    <2>4. StoresTyped'
      <3>1. \A d \in Clients : call'[d].op \in {"idle", "write", "delete"}
        BY <1>1, <2>1, <2>2 DEF StoresTyped, Stores!TypeOK
      <3>2. Stores!TypeOK'
        BY <1>1, <1>2, <2>1, <3>1 DEF StoresTyped, Stores!TypeOK
      <3>3. ASSUME NEW d \in Clients
            PROVE  /\ call'[d].op = "write" /\ left'[d] # None =>
                         call'[d].edit.op = "workspace" /\ call'[d].edit.of \in left'[d]
                   /\ call'[d].op = "delete" => left'[d] = None /\ Stores!Deletes(call'[d].edit)
        <4>1. CASE d = c
          BY <2>1, <2>2, <2>3, <4>1 DEF Stores!Deletes
        <4>2. CASE d # c
          BY <1>1, <2>1, <2>2, <4>2 DEF StoresTyped
        <4> QED
          BY <4>1, <4>2
      <3> QED
        BY <1>1, <2>1, <2>2, <3>2, <3>3 DEF StoresTyped, Stores!Deletes
    <2> SUFFICES ASSUME ~raced'
                 PROVE  StoresInv'
      BY <2>4 DEF StoresInv
    <2>5. /\ Parents(tree) /\ MigrationFits(c) /\ (~torn => KeepsPromise /\ Once)
          /\ \A d \in Clients \ {c} : call'[d] = Stores!Idle /\ left'[d] = None
      BY <1>3, <2>1, <2>2 DEF StoresInv
    <2>6. Parents(tree)' /\ MigrationFits(c)'
      <3>1. tree' = tree /\ left' = left /\ legacy' = legacy /\ removed' = removed
        BY <1>1, <2>1
      <3>2. Parents(tree)' = Parents(tree)
        BY <3>1
      <3>3. Stores!PathsOf(tree)' = Stores!PathsOf(tree)
        BY <3>1
      <3> QED
        BY <2>5, <3>1, <3>2, <3>3 DEF MigrationFits
    <2>7. WriteFits(c)'
      <3> SUFFICES ASSUME n.op = "write"
                   PROVE  /\ n.next = Stores!Applied(tree, n.edit)'
                          /\ IF left[c] = None THEN Stores!Fits(n.edit)' ELSE tree.ws[n.edit.id] = None
        BY <2>1, <2>2 DEF WriteFits
      <3> QED
        BY <2>1 DEF Stores!Fits, Stores!Applied, Stores!WithoutTabs, Stores!TabsOf
    <2>8. DeleteFits(c)'
      <3> SUFFICES ASSUME n.op = "delete"
                   PROVE  /\ n.unseen \subseteq n.tabs
                          /\ \A p \in n.panes : tree.panes[p] \in n.tabs
                          /\ \A p \in Panes : tree.panes[p] \in n.tabs => p \in n.panes \/ tree.panes[p] \in n.unseen
                          /\ n.edit.op = "delete workspace" => Stores!TabsOf(tree, n.edit.id)' \subseteq n.tabs
        BY <2>1, <2>2 DEF DeleteFits
      <3> QED
        BY <2>1 DEF Stores!TabsOf
    <2>9. ASSUME ~torn
          PROVE  /\ tree = promised
                 /\ n.op = "delete" => Stores!Applied(promised, e) = Rest(tree, n)
      <3>1. \A d \in Clients : call[d].op # "delete"
        BY <1>1, <1>3 DEF Stores!Idle
      <3>2. tree = promised
        BY <2>5, <2>9, <3>1 DEF KeepsPromise
      <3>3. ASSUME n.op = "delete"
            PROVE  Stores!Applied(tree, e) = Rest(tree, n)
        <4>1. CASE e.op = "delete tab"
          BY <1>2, <2>1, <3>3, <4>1, AppliedIs DEF Rest
        <4>2. CASE e.op = "delete workspace"
          <5>1. n.tabs = Stores!TabsOf(tree, e.id) /\ n.edit = e
            BY <2>1, <3>3, <4>2
          <5>2. Stores!Applied(tree, e) =
                  [Stores!WithoutTabs(tree, Stores!TabsOf(tree, e.id)) EXCEPT !.ws[e.id] = None]
            BY <1>2, <4>2, AppliedIs
          <5> QED
            BY Zenon, <4>2, <5>1, <5>2 DEF Rest
        <4> QED
          BY <2>1, <3>3, <4>1, <4>2 DEF Stores!Deletes
      <3> QED
        BY <3>2, <3>3
    <2>10. ~torn => /\ call'[c].op = "delete" =>
                          (Stores!Applied(promised, call[c].edit) = Rest(tree, call[c]))'
                    /\ call'[c].op # "delete" => tree' = promised'
      <3>1. promised' = promised /\ tree' = tree /\ torn' = torn /\ call'[c] = n /\ n.edit = e
        BY <1>1, <2>1, <2>2
      <3>2. Stores!Applied(promised, call[c].edit)' = Stores!Applied(promised, e)
        BY <3>1
      <3>3. Rest(tree, call[c])' = Rest(tree, n)
        BY <3>1
      <3>4. n.op \in {"write", "delete"}
        BY <2>1
      <3> QED
        BY <2>9, <3>1, <3>2, <3>3, <3>4
    <2>11. ASSUME ~torn'
           PROVE  /\ \A v, w \in Rooms : tree'.ws[v] # None /\ tree'.ws[v] = tree'.ws[w]
                                          /\ tree'.ws[v] # Folder => v = w
                  /\ legacy' = Repos /\ left'[c] = None =>
                        \A w \in Rooms : tree'.ws[w] # None => tree'.ws[w] = Folder
                  /\ left'[c] # None =>
                        \A w \in Rooms : tree'.ws[w] \in left'[c] => tree'.ws[w] = Folder
      <3>1. Once
        BY <1>1, <2>5, <2>11
      <3>2. tree' = tree /\ left' = left /\ legacy' = legacy
        BY <1>1, <2>1
      <3>3. left[c] = None => \A d \in Clients : left[d] = None
        BY <2>5, <3>2
      <3> QED
        BY <3>1, <3>2, <3>3 DEF Once
    <2>12. torn' = torn
      BY <1>1
    <2> QED
      BY <2>4, <2>5, <2>6, <2>7, <2>8, <2>10, <2>11, <2>12, StepOf
  <1> QED
    BY <1>4, <1>5 DEF Stores!Begins

\* A call that begins keeps the invariant.
LEMMA CallKeeps ==
  ASSUME StoresInv, NEW c \in Clients, NEW e \in Stores!Edits, Stores!Call(c, e)
  PROVE  StoresInv'
  <1>1. left[c] = None /\ Stores!Fits(e) /\ Stores!Begins(c, e)
    BY DEF Stores!Call
  <1>2. calls' \in 0..MaxCalls
    BY CallBound DEF Stores!Call, StoresInv, StoresTyped, Stores!TypeOK
  <1> QED
    BY <1>1, <1>2, BeginsKeeps

\* So does a migration that goes on.
LEMMA MigrateNextKeeps ==
  ASSUME StoresInv, NEW c \in Clients, NEW w \in Rooms, Stores!MigrateNext(c, w)
  PROVE  StoresInv'
  <1>1. PICK r \in left[c] : Stores!Begins(c, [op |-> "workspace", id |-> w, of |-> r])
    BY DEF Stores!MigrateNext
  <1> DEFINE e == [op |-> "workspace", id |-> w, of |-> r]
  <1>2. left[c] # None /\ left[c] \in SUBSET Repos /\ tree.ws[w] = None /\ calls' = calls
    BY DEF Stores!MigrateNext, Stores!Fresh, Stores!Ids, StoresInv, StoresTyped
  <1>3. e \in Stores!Edits /\ e.op = "workspace" /\ e.of \in left[c] /\ tree.ws[e.id] = None
    BY <1>1, <1>2 DEF Stores!Edits, Stores!Places
  <1>4. calls' \in 0..MaxCalls
    BY <1>2 DEF StoresInv, StoresTyped, Stores!TypeOK
  <1>5. Stores!Begins(c, e)
    BY <1>1
  <1> HIDE DEF e
  <1> QED
    BY <1>2, <1>3, <1>4, <1>5, BeginsKeeps

\* The file that is replaced is the one that was loaded, if no call overlapped.
LEMMA WriteKeeps ==
  ASSUME StoresInv, NEW c \in Clients, Stores!Write(c)
  PROVE  StoresInv'
  <1> DEFINE e == call[c].edit
  <1>1. /\ StoresTyped /\ call[c].op = "write" /\ tree' = call[c].next /\ Stores!Returned(c, e)
        /\ UNCHANGED <<kind, legacy, calls, raced, torn>>
    BY DEF Stores!Write, StoresInv
  <1>2. e \in Stores!Edits /\ tree' \in Stores!Trees /\ call[c] # Stores!Idle
    BY <1>1, TypedIs DEF Stores!Idle
  <1>3. left[c] # None => e.op = "workspace" /\ e.of \in left[c]
    BY <1>1 DEF StoresTyped
  <1>4. raced' \in BOOLEAN /\ calls' \in 0..MaxCalls
    BY <1>1 DEF StoresTyped, Stores!TypeOK
  <1>5. ASSUME ~raced'
        PROVE  /\ ~raced /\ \A d \in Clients \ {c} : call[d] = Stores!Idle /\ left[d] = None
               /\ tree' = Stores!Applied(tree, e)
               /\ IF left[c] = None THEN Stores!Fits(e) ELSE tree.ws[e.id] = None
    <2>1. ~raced
      BY <1>1, <1>5
    <2>2. \A d \in Clients \ {c} : call[d] = Stores!Idle /\ left[d] = None
      BY <1>2, <2>1, Alone DEF Active
    <2>3. WriteFits(c)
      BY <2>1 DEF StoresInv
    <2> QED
      BY <1>1, <2>1, <2>2, <2>3 DEF WriteFits
  <1> HIDE DEF e
  <1> QED
    BY <1>1, <1>2, <1>3, <1>4, <1>5, Completes

\* A call or a migration that ends with nothing more changed.
LEMMA GivesUp ==
  ASSUME StoresInv, NEW c \in Clients, Active(c),
         call' = [call EXCEPT ![c] = Stores!Idle], left' = [left EXCEPT ![c] = None],
         UNCHANGED <<kind, tree, calls, promised, removed, raced>>,
         legacy' \in {legacy, None}, torn' \in BOOLEAN,
         ~torn' => ~torn /\ call[c].op # "delete" /\ (legacy' = None \/ left[c] = None)
  PROVE  StoresInv'
  <1>1. StoresTyped
    BY DEF StoresInv
  <1>2. /\ call' \in [Clients -> Calls] /\ left' \in [Clients -> (SUBSET Repos) \cup {None}]
        /\ call'[c] = Stores!Idle /\ call'[c].op = "idle" /\ left'[c] = None
        /\ \A d \in Clients \ {c} : call'[d] = call[d] /\ left'[d] = left[d]
    BY <1>1 DEF StoresTyped, Calls, Stores!Idle
  <1>3. StoresTyped'
    <2>1. \A d \in Clients : call'[d].op \in {"idle", "write", "delete"}
      BY <1>1, <1>2 DEF StoresTyped, Stores!TypeOK
    <2>2. legacy' \in {None, {}, Repos}
      BY <1>1 DEF StoresTyped, Stores!TypeOK
    <2>3. Stores!TypeOK'
      BY <1>1, <2>1, <2>2 DEF StoresTyped, Stores!TypeOK
    <2>4. ASSUME NEW d \in Clients
          PROVE  /\ call'[d].op = "write" /\ left'[d] # None =>
                       call'[d].edit.op = "workspace" /\ call'[d].edit.of \in left'[d]
                 /\ call'[d].op = "delete" => left'[d] = None /\ Stores!Deletes(call'[d].edit)
      BY <1>1, <1>2 DEF StoresTyped
    <2> QED
      BY <1>2, <2>3, <2>4 DEF StoresTyped, Stores!Deletes
  <1> SUFFICES ASSUME ~raced'
               PROVE  StoresInv'
    BY <1>3 DEF StoresInv
  <1>4. \A d \in Clients \ {c} : call[d] = Stores!Idle /\ left[d] = None
    BY Alone
  <1>5. \A d \in Clients \ {c} : call'[d] = Stores!Idle /\ left'[d] = None
    BY <1>2, <1>4
  <1>6. Parents(tree)'
    BY DEF StoresInv
  <1>7. WriteFits(c)' /\ DeleteFits(c)' /\ MigrationFits(c)'
    BY <1>2 DEF WriteFits, DeleteFits, MigrationFits
  <1>8. ASSUME ~torn'
        PROVE  /\ tree' = promised'
               /\ \A v, w \in Rooms : tree'.ws[v] # None /\ tree'.ws[v] = tree'.ws[w]
                                      /\ tree'.ws[v] # Folder => v = w
               /\ legacy' = Repos /\ left'[c] = None =>
                     \A w \in Rooms : tree'.ws[w] # None => tree'.ws[w] = Folder
    <2>1. KeepsPromise /\ Once
      BY <1>8 DEF StoresInv
    <2>2. \A d \in Clients : call[d].op # "delete"
      BY <1>4, <1>8 DEF Stores!Idle
    <2>3. tree' = promised'
      BY <2>1, <2>2 DEF KeepsPromise
    <2>4. legacy' = Repos => legacy = Repos /\ \A d \in Clients : left[d] = None
      BY <1>4, <1>8, NoneIsNoValue
    <2> QED
      BY <2>1, <2>3, <2>4 DEF Once
  <1> QED
    BY <1>2, <1>3, <1>5, <1>6, <1>7, <1>8, StepOf

\* A call that ends without having its effect keeps the invariant.
LEMMA EndingsKeep ==
  ASSUME StoresInv, NEW c \in Clients, Stores!WriteFails(c) \/ Stores!Crash(c) \/ Stores!Rename(c)
  PROVE  StoresInv'
  <1>1. StoresTyped /\ torn \in BOOLEAN
    BY DEF StoresInv, StoresTyped, Stores!TypeOK
  <1>2. CASE Stores!WriteFails(c)
    <2>1. Active(c)
      BY <1>2 DEF Stores!WriteFails, Active, Stores!Idle
    <2> QED
      BY <1>1, <1>2, <2>1, GivesUp DEF Stores!WriteFails
  <1>3. CASE Stores!Crash(c)
    <2>1. Active(c)
      BY <1>3 DEF Stores!Crash, Active
    <2> QED
      BY <1>1, <1>3, <2>1, GivesUp DEF Stores!Crash
  <1>4. CASE Stores!Rename(c)
    <2>1. Active(c) /\ call[c].op # "delete"
      BY <1>4 DEF Stores!Rename, Active, Stores!Idle
    <2>2. call' = [call EXCEPT ![c] = Stores!Idle]
      BY <1>1, <1>4 DEF Stores!Rename, StoresTyped
    <2> QED
      BY <1>1, <1>4, <2>1, <2>2, GivesUp DEF Stores!Rename, Stores!BackedUp
  <1> QED
    BY <1>2, <1>3, <1>4

\* A migration begins with all the repositories to store.
LEMMA MigrateKeeps ==
  ASSUME StoresInv, NEW c \in Clients, Stores!Migrate(c)
  PROVE  StoresInv'
  <1>1. /\ StoresTyped /\ call[c] = Stores!Idle /\ call[c].op = "idle" /\ left[c] = None
        /\ legacy = Repos /\ left' = [left EXCEPT ![c] = Repos]
        /\ raced' = (raced \/ Stores!Others(c))
        /\ UNCHANGED <<kind, tree, call, legacy, promised, removed, torn>>
    <2>1. StoresTyped /\ legacy \in {None, {}, Repos}
      BY DEF StoresInv, StoresTyped, Stores!TypeOK
    <2>2. /\ call[c] = Stores!Idle /\ left[c] = None /\ legacy \notin {None, {}}
          /\ left' = [left EXCEPT ![c] = legacy] /\ raced' = (raced \/ Stores!Others(c))
          /\ UNCHANGED <<kind, tree, call, legacy, promised, removed, torn>>
      BY DEF Stores!Migrate
    <2>3. call[c].op = "idle"
      BY <2>2 DEF Stores!Idle
    <2>4. legacy = Repos
      BY <2>1, <2>2
    <2> QED
      BY <2>1, <2>2, <2>3, <2>4
  <1>2. ~raced' => ~raced /\ \A d \in Clients \ {c} : call[d] = Stores!Idle /\ left[d] = None
    BY <1>1, BeginsAlone
  <1>3. /\ left' \in [Clients -> (SUBSET Repos) \cup {None}] /\ left'[c] = Repos
        /\ \A d \in Clients \ {c} : left'[d] = left[d]
    BY <1>1 DEF StoresTyped
  <1>4. StoresTyped'
    <2>1. calls' \in 0..MaxCalls /\ raced' \in BOOLEAN
      BY <1>1, CallBound DEF Stores!Migrate, StoresTyped, Stores!TypeOK
    <2>2. Stores!TypeOK'
      BY <1>1, <2>1 DEF StoresTyped, Stores!TypeOK
    <2>3. ASSUME NEW d \in Clients
          PROVE  /\ call'[d].op = "write" /\ left'[d] # None =>
                       call'[d].edit.op = "workspace" /\ call'[d].edit.of \in left'[d]
                 /\ call'[d].op = "delete" => left'[d] = None /\ Stores!Deletes(call'[d].edit)
      BY <1>1, <1>3 DEF StoresTyped
    <2> QED
      BY <1>1, <1>3, <2>2, <2>3 DEF StoresTyped, Stores!Deletes
  <1> SUFFICES ASSUME ~raced'
               PROVE  StoresInv'
    BY <1>4 DEF StoresInv
  <1>5. \A d \in Clients \ {c} : call'[d] = Stores!Idle /\ left'[d] = None
    BY <1>1, <1>2, <1>3
  <1>6. Parents(tree)'
    BY <1>1, <1>2 DEF StoresInv
  <1>7. WriteFits(c)' /\ DeleteFits(c)' /\ MigrationFits(c)'
    BY <1>1, <1>3 DEF WriteFits, DeleteFits, MigrationFits
  <1>8. ASSUME ~torn'
        PROVE  /\ tree' = promised'
               /\ \A v, w \in Rooms : tree'.ws[v] # None /\ tree'.ws[v] = tree'.ws[w]
                                      /\ tree'.ws[v] # Folder => v = w
               /\ \A w \in Rooms : tree'.ws[w] \in left'[c] => tree'.ws[w] = Folder
    <2>1. KeepsPromise /\ Once
      BY <1>1, <1>2, <1>8 DEF StoresInv
    <2>2. \A d \in Clients : call[d].op # "delete" /\ left[d] = None
      BY <1>1, <1>2 DEF Stores!Idle
    <2>3. tree' = promised'
      BY <1>1, <2>1, <2>2 DEF KeepsPromise
    <2>4. None \notin Repos
      BY NoneIsNoValue
    <2> QED
      BY <1>1, <1>3, <2>1, <2>2, <2>3, <2>4 DEF Once
  <1>9. call'[c].op = "idle" /\ left'[c] # None
    BY <1>1, <1>3, NoneIsNoValue
  <1> QED
    BY <1>4, <1>5, <1>6, <1>7, <1>8, <1>9, StepOf

\* A step of a deletion that leaves what the deletion will leave.
LEMMA DeletionGoesOn ==
  ASSUME StoresInv, NEW c \in Clients, call[c].op = "delete",
         NEW n \in [op: {"delete"}, edit: Stores!Edits, unseen: SUBSET Tabs, tabs: SUBSET Tabs,
                    panes: SUBSET Panes],
         n.edit = call[c].edit, call' = [call EXCEPT ![c] = n],
         tree' \in Stores!Trees, tree'.ws = tree.ws,
         UNCHANGED <<kind, legacy, left, calls, promised, removed, raced, torn>>,
         DeleteFits(c) /\ Parents(tree) => DeleteFits(c)' /\ Parents(tree)',
         DeleteFits(c) => Rest(tree', n) = Rest(tree, call[c])
  PROVE  StoresInv'
  <1>1. StoresTyped /\ left[c] = None /\ Stores!Deletes(n.edit) /\ call[c] # Stores!Idle
    BY DEF StoresInv, StoresTyped, Stores!Idle
  <1>2. /\ call' \in [Clients -> Calls] /\ call'[c] = n /\ n.op = "delete"
        /\ \A d \in Clients \ {c} : call'[d] = call[d]
    BY <1>1 DEF StoresTyped, Calls
  <1>3. StoresTyped'
    <2>1. \A d \in Clients : call'[d].op \in {"idle", "write", "delete"}
      BY <1>1, <1>2 DEF StoresTyped, Stores!TypeOK
    <2>2. Stores!TypeOK'
      BY <1>1, <2>1 DEF StoresTyped, Stores!TypeOK
    <2>3. ASSUME NEW d \in Clients
          PROVE  /\ call'[d].op = "write" /\ left'[d] # None =>
                       call'[d].edit.op = "workspace" /\ call'[d].edit.of \in left'[d]
                 /\ call'[d].op = "delete" => left'[d] = None /\ Stores!Deletes(call'[d].edit)
      BY <1>1, <1>2 DEF StoresTyped
    <2> QED
      BY <1>1, <1>2, <2>2, <2>3 DEF StoresTyped, Stores!Deletes
  <1> SUFFICES ASSUME ~raced'
               PROVE  StoresInv'
    BY <1>3 DEF StoresInv
  <1>4. \A d \in Clients \ {c} : call'[d] = Stores!Idle /\ left'[d] = None
    BY <1>1, <1>2, Alone DEF Active
  <1>5. DeleteFits(c) /\ Parents(tree)
    BY DEF StoresInv
  <1>6. WriteFits(c)' /\ MigrationFits(c)'
    BY <1>1, <1>2 DEF WriteFits, MigrationFits
  <1>7. ASSUME ~torn'
        PROVE  /\ (Stores!Applied(promised, call[c].edit) = Rest(tree, call[c]))'
               /\ \A v, w \in Rooms : tree'.ws[v] # None /\ tree'.ws[v] = tree'.ws[w]
                                      /\ tree'.ws[v] # Folder => v = w
               /\ legacy' = Repos /\ left'[c] = None =>
                     \A w \in Rooms : tree'.ws[w] # None => tree'.ws[w] = Folder
    <2>1. KeepsPromise /\ Once
      BY <1>7 DEF StoresInv
    <2>2. \A d \in Clients : left[d] = None
      BY <1>1, <1>4
    <2>3. Stores!Applied(promised, n.edit) = Rest(tree', n)
      BY <1>5, <2>1 DEF KeepsPromise
    <2>4. Stores!Applied(promised, call[c].edit)' = Stores!Applied(promised, n.edit)
      BY <1>2
    <2>5. Rest(tree, call[c])' = Rest(tree', n)
      BY <1>2
    <2>6. (Stores!Applied(promised, call[c].edit) = Rest(tree, call[c]))'
      BY <2>3, <2>4, <2>5
    <2> QED
      BY <2>1, <2>2, <2>6 DEF Once
  <1> QED
    BY <1>1, <1>2, <1>3, <1>4, <1>5, <1>6, <1>7, StepOf

\* What is known of a deletion.
LEMMA DeletionIs ==
  ASSUME StoresInv, NEW c \in Clients, call[c].op = "delete"
  PROVE  /\ tree \in Stores!Trees /\ tree.tabs \in [Tabs -> Rooms \cup {None}]
         /\ tree.panes \in [Panes -> Tabs \cup {None}] /\ tree.ws \in [Rooms -> Stores!Places \cup {None}]
         /\ call[c] \in [op: {"delete"}, edit: Stores!Edits, unseen: SUBSET Tabs,
                         tabs: SUBSET Tabs, panes: SUBSET Panes]
         /\ call[c].edit \in Stores!Edits /\ call[c].unseen \in SUBSET Tabs
         /\ call[c].tabs \in SUBSET Tabs /\ call[c].panes \in SUBSET Panes
         /\ call \in [Clients -> Calls]
  BY TypedIs DEF StoresInv, Stores!Trees, StoresTyped

\* A deletion that lists the panes of a tab leaves what it will leave.
LEMMA ListPanesKeeps ==
  ASSUME StoresInv, NEW c \in Clients, NEW t \in Tabs, Stores!ListPanes(c, t)
  PROVE  StoresInv'
  <1> DEFINE d == call[c]
             n == [d EXCEPT !.unseen = d.unseen \ {t}, !.panes = Stores!PanesOf(tree, t)]
  <1>1. /\ d.op = "delete" /\ d.panes = {} /\ t \in d.unseen /\ tree' = tree
        /\ call' = [call EXCEPT ![c] = n]
        /\ UNCHANGED <<kind, legacy, left, calls, promised, removed, raced, torn>>
    BY DEF Stores!ListPanes, Stores!Step
  <1>2. Stores!PanesOf(tree, t) \in SUBSET Panes
        /\ \A p \in Panes : p \in Stores!PanesOf(tree, t) <=> tree.panes[p] = t
    BY DEF Stores!PanesOf
  <1>3. /\ n \in [op: {"delete"}, edit: Stores!Edits, unseen: SUBSET Tabs, tabs: SUBSET Tabs,
                  panes: SUBSET Panes]
        /\ n.edit = d.edit /\ n.tabs = d.tabs /\ n.unseen = d.unseen \ {t}
        /\ n.panes = Stores!PanesOf(tree, t)
    BY <1>1, <1>2, DeletionIs
  <1> HIDE DEF n
  <1>4. call'[c] = n /\ n.op = "delete"
    BY <1>1, <1>3, DeletionIs
  <1>5. ASSUME DeleteFits(c)
        PROVE  DeleteFits(c)' /\ Rest(tree', n) = Rest(tree, d)
    <2>1. /\ d.unseen \subseteq d.tabs
          /\ \A p \in Panes : tree.panes[p] \in d.tabs => tree.panes[p] \in d.unseen
          /\ d.edit.op = "delete workspace" => Stores!TabsOf(tree, d.edit.id) \subseteq d.tabs
      BY <1>1, <1>5 DEF DeleteFits
    <2>2. Stores!TabsOf(tree, call[c].edit.id)' = Stores!TabsOf(tree, d.edit.id)
      BY <1>1, <1>3, <1>4
    <2>3. DeleteFits(c)'
      <3>1. n.unseen \subseteq n.tabs
        BY <1>3, <2>1
      <3>2. \A p \in n.panes : tree'.panes[p] \in n.tabs
        BY <1>1, <1>2, <1>3, <2>1
      <3>3. \A p \in Panes : tree'.panes[p] \in n.tabs => p \in n.panes \/ tree'.panes[p] \in n.unseen
        BY <1>1, <1>2, <1>3, <2>1
      <3>4. n.edit.op = "delete workspace" => (Stores!TabsOf(tree, call[c].edit.id))' \subseteq n.tabs
        BY <1>3, <2>1, <2>2
      <3> QED
        BY <1>4, <3>1, <3>2, <3>3, <3>4 DEF DeleteFits
    <2>4. Rest(tree', n) = Rest(tree, d)
      BY Zenon, <1>1, <1>3 DEF Rest
    <2> QED
      BY <2>3, <2>4
  <1>6. Parents(tree)' = Parents(tree)
    BY <1>1
  <1> QED
    BY <1>1, <1>3, <1>5, <1>6, DeletionIs, DeletionGoesOn

\* So does one that deletes a pane it listed,
LEMMA DeletePaneKeeps ==
  ASSUME StoresInv, NEW c \in Clients, NEW q \in Panes, Stores!DeletePane(c, q)
  PROVE  StoresInv'
  <1> DEFINE d == call[c]
             n == [d EXCEPT !.panes = d.panes \ {q}]
  <1>1. /\ d.op = "delete" /\ q \in d.panes /\ tree' = [tree EXCEPT !.panes[q] = None]
        /\ call' = [call EXCEPT ![c] = n]
        /\ UNCHANGED <<kind, legacy, left, calls, promised, removed, raced, torn>>
    BY DEF Stores!DeletePane, Stores!Step
  <1>2. /\ tree' \in Stores!Trees /\ tree'.ws = tree.ws /\ tree'.tabs = tree.tabs
        /\ tree'.selected = tree.selected
        /\ \A p \in Panes : tree'.panes[p] = IF p = q THEN None ELSE tree.panes[p]
    BY <1>1, DeletionIs DEF Stores!Trees
  <1>3. /\ n \in [op: {"delete"}, edit: Stores!Edits, unseen: SUBSET Tabs, tabs: SUBSET Tabs,
                  panes: SUBSET Panes]
        /\ n.edit = d.edit /\ n.tabs = d.tabs /\ n.unseen = d.unseen /\ n.panes = d.panes \ {q}
    BY <1>1, DeletionIs
  <1> HIDE DEF n
  <1>4. call'[c] = n /\ n.op = "delete" /\ d.tabs \in SUBSET Tabs /\ tree \in Stores!Trees
    BY <1>1, <1>3, DeletionIs
  <1>5. None \notin d.tabs
    BY <1>4, NoneIsNoValue
  <1>6. ASSUME DeleteFits(c)
        PROVE  DeleteFits(c)' /\ Rest(tree', n) = Rest(tree, d)
    <2>1. /\ d.unseen \subseteq d.tabs
          /\ \A p \in d.panes : tree.panes[p] \in d.tabs
          /\ \A p \in Panes : tree.panes[p] \in d.tabs => p \in d.panes \/ tree.panes[p] \in d.unseen
          /\ d.edit.op = "delete workspace" => Stores!TabsOf(tree, d.edit.id) \subseteq d.tabs
      BY <1>1, <1>6 DEF DeleteFits
    <2>2. Stores!TabsOf(tree, call[c].edit.id)' = Stores!TabsOf(tree, d.edit.id)
      BY <1>2, <1>3, <1>4 DEF Stores!TabsOf
    <2>3. DeleteFits(c)'
      <3>1. \A p \in n.panes : tree'.panes[p] \in n.tabs
        BY <1>2, <1>3, <1>4, <2>1, DeletionIs
      <3>2. \A p \in Panes : tree'.panes[p] \in n.tabs => p \in n.panes \/ tree'.panes[p] \in n.unseen
        BY <1>2, <1>3, <1>5, <2>1
      <3> QED
        BY <1>3, <1>4, <2>1, <2>2, <3>1, <3>2 DEF DeleteFits
    <2>4. tree.panes[q] \in d.tabs
      BY <1>1, <2>1
    <2>5. Stores!WithoutTabs(tree', d.tabs) = Stores!WithoutTabs(tree, d.tabs)
      <3>1. \A p \in Panes : (IF tree'.panes[p] \in d.tabs THEN None ELSE tree'.panes[p])
                             = (IF tree.panes[p] \in d.tabs THEN None ELSE tree.panes[p])
        BY <1>2, <2>4
      <3>2. \A t \in Tabs : (IF t \in d.tabs THEN None ELSE tree'.tabs[t])
                            = (IF t \in d.tabs THEN None ELSE tree.tabs[t])
        BY <1>2
      <3> QED
        BY <1>2, <1>4, <3>1, <3>2, SameRest
    <2>6. Rest(tree', n) = Rest(tree, d)
      BY Zenon, <1>3, <2>5 DEF Rest
    <2> QED
      BY <2>3, <2>6
  <1>7. Parents(tree) => Parents(tree)'
    BY <1>2 DEF Parents
  <1> QED
    BY <1>1, <1>2, <1>3, <1>6, <1>7, DeletionGoesOn

\* and one that deletes a tab, when its panes are gone.
LEMMA DeleteTabKeeps ==
  ASSUME StoresInv, NEW c \in Clients, NEW q \in Tabs, Stores!DeleteTab(c, q)
  PROVE  StoresInv'
  <1> DEFINE d == call[c]
             n == [d EXCEPT !.tabs = d.tabs \ {q}]
  <1>1. /\ d.op = "delete" /\ q \in d.tabs /\ d.panes = {} /\ d.unseen = {}
        /\ tree' = [tree EXCEPT !.tabs[q] = None] /\ call' = [call EXCEPT ![c] = n]
        /\ UNCHANGED <<kind, legacy, left, calls, promised, removed, raced, torn>>
    BY DEF Stores!DeleteTab, Stores!Step, Stores!PanesAreGone
  <1>2. /\ tree' \in Stores!Trees /\ tree'.ws = tree.ws /\ tree'.panes = tree.panes
        /\ tree'.selected = tree.selected
        /\ \A t \in Tabs : tree'.tabs[t] = IF t = q THEN None ELSE tree.tabs[t]
    BY <1>1, DeletionIs DEF Stores!Trees
  <1>3. /\ n \in [op: {"delete"}, edit: Stores!Edits, unseen: SUBSET Tabs, tabs: SUBSET Tabs,
                  panes: SUBSET Panes]
        /\ n.edit = d.edit /\ n.tabs = d.tabs \ {q} /\ n.unseen = {} /\ n.panes = {}
    BY <1>1, DeletionIs
  <1> HIDE DEF n
  <1>4. /\ call'[c] = n /\ n.op = "delete" /\ d.tabs \in SUBSET Tabs /\ n.tabs \in SUBSET Tabs
        /\ tree \in Stores!Trees /\ d.edit \in Stores!Edits
        /\ tree.tabs \in [Tabs -> Rooms \cup {None}] /\ tree.panes \in [Panes -> Tabs \cup {None}]
    BY <1>1, <1>3, DeletionIs
  <1>5. ASSUME DeleteFits(c)
        PROVE  /\ \A p \in Panes : tree.panes[p] \notin d.tabs
               /\ d.edit.op = "delete workspace" => Stores!TabsOf(tree, d.edit.id) \subseteq d.tabs
    BY <1>1, <1>5 DEF DeleteFits
  <1>6. ASSUME DeleteFits(c)
        PROVE  DeleteFits(c)'
    <2>1. d.edit.op = "delete workspace" => d.edit.id \in Rooms
      BY <1>4, AppliedIs
    <2>2. d.edit.op = "delete workspace" =>
             (Stores!TabsOf(tree, call[c].edit.id))' \subseteq n.tabs
      <3> SUFFICES ASSUME d.edit.op = "delete workspace"
                   PROVE  Stores!TabsOf(tree, call[c].edit.id)' \subseteq n.tabs
        OBVIOUS
      <3>1. Stores!TabsOf(tree, call[c].edit.id)' = Stores!TabsOf(tree', d.edit.id)
        BY <1>3, <1>4
      <3>2. d.edit.id # None
        BY <2>1, NoneIsNoValue
      <3>3. \A t \in Tabs : tree'.tabs[t] = d.edit.id => t \in n.tabs
        <4> SUFFICES ASSUME NEW t \in Tabs, tree'.tabs[t] = d.edit.id
                     PROVE  t \in n.tabs
          OBVIOUS
        <4>1. t # q /\ tree.tabs[t] = d.edit.id
          BY <1>2, <3>2
        <4>2. t \in Stores!TabsOf(tree, d.edit.id)
          BY <4>1 DEF Stores!TabsOf
        <4> QED
          BY <1>3, <1>5, <1>6, <4>1, <4>2
      <3> QED
        BY <3>1, <3>3 DEF Stores!TabsOf
    <2> QED
      BY <1>2, <1>3, <1>4, <1>5, <1>6, <2>2 DEF DeleteFits
  <1>7. ASSUME DeleteFits(c)
        PROVE  Rest(tree', n) = Rest(tree, d)
    <2>1. \A p \in Panes : (IF tree'.panes[p] \in n.tabs THEN None ELSE tree'.panes[p])
                           = (IF tree.panes[p] \in d.tabs THEN None ELSE tree.panes[p])
      BY <1>2, <1>3, <1>5, <1>7
    <2>2. \A t \in Tabs : (IF t \in n.tabs THEN None ELSE tree'.tabs[t])
                          = (IF t \in d.tabs THEN None ELSE tree.tabs[t])
      BY <1>1, <1>2, <1>3
    <2>3. Stores!WithoutTabs(tree', n.tabs) = Stores!WithoutTabs(tree, d.tabs)
      BY <1>2, <1>4, <2>1, <2>2, SameRest
    <2> QED
      BY Zenon, <1>3, <2>3 DEF Rest
  <1>8. ASSUME DeleteFits(c), Parents(tree)
        PROVE  Parents(tree)'
    <2>1. \A p \in Panes : tree.panes[p] # q
      BY <1>1, <1>5, <1>8
    <2> QED
      BY <1>2, <1>4, <1>8, <2>1 DEF Parents
  <1> QED
    BY <1>1, <1>2, <1>3, <1>6, <1>7, <1>8, DeletionGoesOn

\* A deletion that is done has left what it promised.
LEMMA DeleteEndsKeeps ==
  ASSUME StoresInv, NEW c \in Clients, Stores!DeleteEnds(c)
  PROVE  StoresInv'
  <1> DEFINE d == call[c]
             e == d.edit
  <1>1. /\ d.op = "delete" /\ d.panes = {} /\ d.unseen = {} /\ d.tabs = {}
        /\ tree' = IF e.op = "delete workspace" THEN [tree EXCEPT !.ws[e.id] = None] ELSE tree
        /\ Stores!Returned(c, e) /\ UNCHANGED <<kind, legacy, calls, raced, torn>>
    BY DEF Stores!DeleteEnds
  <1>2. /\ StoresTyped /\ left[c] = None /\ Stores!Deletes(e) /\ e \in Stores!Edits
        /\ tree \in Stores!Trees /\ d # Stores!Idle
    <2>1. StoresTyped /\ e \in Stores!Edits /\ tree \in Stores!Trees
      BY <1>1, DeletionIs DEF StoresInv
    <2>2. left[c] = None /\ Stores!Deletes(e)
      BY <1>1, <2>1 DEF StoresTyped
    <2>3. d # Stores!Idle
      <3>1. Stores!Idle.op = "idle" /\ d.op # "idle"
        BY <1>1 DEF Stores!Idle
      <3> QED
        BY Zenon, <3>1
    <2> QED
      BY <2>1, <2>2, <2>3
  <1>3. /\ call' = [call EXCEPT ![c] = Stores!Idle]
        /\ call' \in [Clients -> Calls] /\ left' \in [Clients -> (SUBSET Repos) \cup {None}]
        /\ promised' = Stores!Applied(promised, e) /\ promised' \in Stores!Trees
        /\ removed' \in SUBSET Stores!Places
        /\ \A b \in Clients \ {c} : left'[b] = left[b]
        /\ left'[c] = None
    BY <1>1, <1>2, ReturnedIs
  <1>4. /\ call'[c] = Stores!Idle /\ call'[c].op = "idle"
        /\ \A b \in Clients \ {c} : call'[b] = call[b]
    BY <1>2, <1>3 DEF StoresTyped, Stores!Idle
  <1>5. /\ tree' \in Stores!Trees /\ tree'.tabs = tree.tabs /\ tree'.panes = tree.panes
        /\ tree'.ws = IF e.op = "delete workspace" THEN [tree.ws EXCEPT ![e.id] = None] ELSE tree.ws
        /\ tree.ws \in [Rooms -> Stores!Places \cup {None}]
        /\ tree.tabs \in [Tabs -> Rooms \cup {None}]
        /\ e.op = "delete workspace" => e.id \in Rooms
    <2>1. e.op = "delete workspace" => e.id \in Rooms
      BY <1>2, AppliedIs
    <2> HIDE DEF d
    <2>2. CASE e.op = "delete workspace"
      BY <1>1, <1>2, <2>1, <2>2 DEF Stores!Trees
    <2>3. CASE e.op # "delete workspace"
      BY <1>1, <1>2, <2>1, <2>3 DEF Stores!Trees
    <2> QED
      BY <2>2, <2>3
  <1>6. StoresTyped'
    <2>1. \A b \in Clients : call'[b].op \in {"idle", "write", "delete"}
      BY <1>2, <1>4 DEF StoresTyped, Stores!TypeOK
    <2>2. Stores!TypeOK'
      BY <1>1, <1>2, <1>3, <1>5, <2>1 DEF StoresTyped, Stores!TypeOK
    <2>3. ASSUME NEW b \in Clients
          PROVE  /\ call'[b].op = "write" /\ left'[b] # None =>
                       call'[b].edit.op = "workspace" /\ call'[b].edit.of \in left'[b]
                 /\ call'[b].op = "delete" => left'[b] = None /\ Stores!Deletes(call'[b].edit)
      BY <1>2, <1>3, <1>4 DEF StoresTyped
    <2> QED
      BY <1>3, <2>2, <2>3 DEF StoresTyped, Stores!Deletes
  <1> SUFFICES ASSUME ~raced'
               PROVE  StoresInv'
    BY <1>6 DEF StoresInv
  <1>7. ~raced /\ \A b \in Clients \ {c} : call[b] = Stores!Idle /\ left[b] = None
    BY <1>1, <1>2, Alone DEF Active
  <1>8. \A b \in Clients \ {c} : call'[b] = Stores!Idle /\ left'[b] = None
    BY <1>3, <1>4, <1>7
  <1>9. Parents(tree) /\ DeleteFits(c)
    BY <1>7 DEF StoresInv
  <1>10. Parents(tree)'
    <2>1. e.op = "delete workspace" => \A t \in Tabs : tree.tabs[t] # e.id
      BY <1>1, <1>9 DEF DeleteFits, Stores!TabsOf
    <2> HIDE DEF d, e
    <2> QED
      BY <1>5, <1>9, <2>1 DEF Parents
  <1>11. WriteFits(c)' /\ DeleteFits(c)' /\ MigrationFits(c)'
    BY <1>3, <1>4 DEF WriteFits, DeleteFits, MigrationFits
  <1>12. ASSUME ~torn'
         PROVE  /\ tree' = promised'
                /\ \A v, w \in Rooms : tree'.ws[v] # None /\ tree'.ws[v] = tree'.ws[w]
                                       /\ tree'.ws[v] # Folder => v = w
                /\ legacy' = Repos /\ left'[c] = None =>
                      \A w \in Rooms : tree'.ws[w] # None => tree'.ws[w] = Folder
    <2>1. KeepsPromise /\ Once /\ \A b \in Clients : left[b] = None
      BY <1>1, <1>2, <1>7, <1>12 DEF StoresInv
    <2>2. tree' = promised'
      <3>1. promised' = Rest(tree, d)
        BY <1>1, <1>3, <2>1 DEF KeepsPromise
      <3>2. Stores!WithoutTabs(tree, {}) = tree
        <4> DEFINE W == Stores!WithoutTabs(tree, {})
        <4>1. {} \in SUBSET Tabs
          OBVIOUS
        <4>2. /\ W \in Stores!Trees /\ W.ws = tree.ws /\ W.selected = tree.selected
              /\ \A t \in Tabs : W.tabs[t] = IF t \in {} THEN None ELSE tree.tabs[t]
              /\ \A p \in Panes : W.panes[p] = IF tree.panes[p] \in {} THEN None ELSE tree.panes[p]
          BY <1>2, <4>1, WithoutTabsIs
        <4> HIDE DEF W
        <4>3. W = tree
          BY <1>2, <4>2, SameTree
        <4> QED
          BY <4>3 DEF W
      <3>3. Rest(tree, d) = tree'
        BY Zenon, <1>1, <3>2 DEF Rest
      <3> QED
        BY <3>1, <3>3
    <2>3. \A w \in Rooms : tree'.ws[w] # None => tree'.ws[w] = tree.ws[w]
      <3> HIDE DEF d, e
      <3> QED
        BY <1>5
    <2>4. \A v, w \in Rooms : tree'.ws[v] # None /\ tree'.ws[v] = tree'.ws[w]
                              /\ tree'.ws[v] # Folder => v = w
      <3> SUFFICES ASSUME NEW v \in Rooms, NEW w \in Rooms, tree'.ws[v] # None,
                          tree'.ws[v] = tree'.ws[w], tree'.ws[v] # Folder
                   PROVE  v = w
        OBVIOUS
      <3>1. tree'.ws[v] = tree.ws[v] /\ tree'.ws[w] = tree.ws[w]
        BY <2>3
      <3> QED
        BY <2>1, <3>1 DEF Once
    <2>5. legacy = Repos => \A w \in Rooms : tree'.ws[w] # None => tree'.ws[w] = Folder
      BY <2>1, <2>3 DEF Once
    <2> QED
      BY <1>1, <2>2, <2>4, <2>5
  <1> QED
    BY <1>3, <1>4, <1>6, <1>8, <1>10, <1>11, <1>12, StepOf

\* Every step of a client keeps the invariant.
LEMMA StoresStep ==
  ASSUME StoresInv, Stores!Next
  PROVE  StoresInv'
  <1> PICK c \in Clients :
        \/ \E e \in Stores!Edits : Stores!Call(c, e)
        \/ Stores!Write(c) \/ Stores!WriteFails(c)
        \/ \E t \in Tabs : Stores!ListPanes(c, t) \/ Stores!DeleteTab(c, t)
        \/ \E p \in Panes : Stores!DeletePane(c, p)
        \/ Stores!DeleteEnds(c)
        \/ Stores!Migrate(c) \/ Stores!Rename(c) \/ \E w \in Rooms : Stores!MigrateNext(c, w)
        \/ Stores!Crash(c)
    BY Zenon DEF Stores!Next
  <1>1. CASE \E e \in Stores!Edits : Stores!Call(c, e)
    BY Zenon, <1>1, CallKeeps
  <1>2. CASE Stores!Write(c)
    BY Zenon, <1>2, WriteKeeps
  <1>3. CASE Stores!WriteFails(c) \/ Stores!Crash(c) \/ Stores!Rename(c)
    BY Zenon, <1>3, EndingsKeep
  <1>4. CASE \E t \in Tabs : Stores!ListPanes(c, t) \/ Stores!DeleteTab(c, t)
    BY Zenon, <1>4, ListPanesKeeps, DeleteTabKeeps
  <1>5. CASE \E p \in Panes : Stores!DeletePane(c, p)
    BY Zenon, <1>5, DeletePaneKeeps
  <1>6. CASE Stores!DeleteEnds(c)
    BY Zenon, <1>6, DeleteEndsKeeps
  <1>7. CASE Stores!Migrate(c)
    BY Zenon, <1>7, MigrateKeeps
  <1>8. CASE \E w \in Rooms : Stores!MigrateNext(c, w)
    BY Zenon, <1>8, MigrateNextKeeps
  <1> QED
    BY Zenon, <1>1, <1>2, <1>3, <1>4, <1>5, <1>6, <1>7, <1>8

\* The stores are empty at first.
LEMMA StoresInit ==
  ASSUME Stores!Init
  PROVE  StoresInv
  <1> USE CallBound, NoneIsNoValue DEF Stores!Init
  <1>1. tree \in Stores!Trees /\ promised \in Stores!Trees
    BY DEF Stores!Empty, Stores!Trees
  <1>2. \A c \in Clients : call[c] = Stores!Idle /\ call[c].op = "idle" /\ left[c] = None
    BY DEF Stores!Idle
  <1>3. \A w \in Rooms : tree.ws[w] = None
    BY DEF Stores!Empty
  <1>4. call \in [Clients -> Calls] /\ left \in [Clients -> (SUBSET Repos) \cup {None}]
    BY DEF Calls
  <1>5. Stores!TypeOK
    BY <1>1, <1>2, CallBound, 0 \in 0..MaxCalls DEF Stores!TypeOK
  <1>6. StoresTyped
    BY <1>2, <1>4, <1>5 DEF StoresTyped
  <1>7. Solo
    BY <1>2 DEF Solo, Active
  <1>8. Parents(tree)
    BY DEF Parents, Stores!Empty
  <1>9. \A c \in Clients : WriteFits(c) /\ DeleteFits(c) /\ MigrationFits(c)
    BY <1>2 DEF WriteFits, DeleteFits, MigrationFits
  <1>10. KeepsPromise
    BY <1>2 DEF KeepsPromise
  <1>11. Once
    BY <1>2, <1>3 DEF Once
  <1> QED
    BY <1>6, <1>7, <1>8, <1>9, <1>10, <1>11 DEF StoresInv

\* A step that leaves the variables of the stores keeps the invariant.
LEMMA StoresStutter ==
  ASSUME StoresInv, UNCHANGED storeVars
  PROVE  StoresInv'
  <1>1. StoresTyped'
    BY DEF storeVars, StoresInv, StoresTyped, Stores!TypeOK
  <1>2. ASSUME NEW c \in Clients
        PROVE  WriteFits(c)' = WriteFits(c) /\ DeleteFits(c)' = DeleteFits(c)
               /\ MigrationFits(c)' = MigrationFits(c)
    <2>1. tree' = tree /\ call' = call /\ left' = left /\ legacy' = legacy /\ removed' = removed
      BY DEF storeVars
    <2>2. WriteFits(c)' = WriteFits(c)
      BY <2>1 DEF WriteFits, Stores!Fits
    <2>3. DeleteFits(c)' = DeleteFits(c)
      BY <2>1 DEF DeleteFits
    <2>4. MigrationFits(c)' = MigrationFits(c)
      BY <2>1 DEF MigrationFits
    <2> QED
      BY <2>2, <2>3, <2>4
  <1>3. Solo' = Solo /\ Parents(tree)' = Parents(tree) /\ Once' = Once
    BY DEF storeVars, Solo, Active, Once
  <1>4. KeepsPromise' = KeepsPromise
    BY DEF storeVars, KeepsPromise
  <1> QED
    BY <1>1, <1>2, <1>3, <1>4 DEF StoresInv, storeVars

\* The invariant gives what the stores keep.
LEMMA StoresImply ==
  ASSUME StoresInv
  PROVE  Stores!TypeOK /\ Stores!ParentsExist /\ Stores!CallsHold /\ Stores!MigratedOnce
  <1>1. Stores!TypeOK
    BY DEF StoresInv, StoresTyped
  <1>2. Stores!ParentsExist
    BY DEF StoresInv, Parents, Stores!ParentsExist
  <1>3. Stores!CallsHold
    <2> SUFFICES ASSUME ~raced, ~torn, \A c \in Clients : call[c] = Stores!Idle
                 PROVE  tree = promised
      BY DEF Stores!CallsHold
    <2> QED
      BY DEF StoresInv, KeepsPromise, Stores!Idle
  <1>4. Stores!MigratedOnce
    BY DEF StoresInv, Once, Stores!MigratedOnce, Stores!Ids
  <1> QED
    BY <1>1, <1>2, <1>3, <1>4

\* What WorkspaceStores keeps while the stores run.
PartStores == part = "stores" => StoresInv

\* Of the stores, only their own part takes a step.
LEMMA PartStoresStep ==
  ASSUME PartStores, [Step]_application
  PROVE  PartStores'
  <1> SUFFICES ASSUME part' = "stores"
               PROVE  StoresInv'
    BY DEF PartStores
  <1>1. part = "stores" /\ (Stores!Next \/ UNCHANGED storeVars)
    BY DEF Step, application
  <1> QED
    BY Zenon, <1>1, StoresStep, StoresStutter DEF PartStores

\* WorkspaceStores: whatever the clients call and wherever one stops, a tab has its
\* workspace and a pane its tab; calls one after the other hold; a repository becomes one
\* workspace.
THEOREM StoresHold == ApplicationSpec => []StoresKeep
  <1>1. Start => PartStores
    BY StoresInit DEF Start, PartStores
  <1>2. PartStores /\ [Step]_application => PartStores'
    BY PartStoresStep
  <1>3. PartStores => StoresKeep
    BY Zenon, StoresImply DEF PartStores, StoresKeep
  <1> QED
    BY <1>1, <1>2, <1>3, PTL DEF ApplicationSpec

\* WorkspaceStores: the legacy file goes when all it named is stored, or was deleted since.
THEOREM LegacyIsStored == ApplicationSpec => NoRepoIsLost
  <1>1. Start => PartStores
    BY StoresInit DEF Start, PartStores
  <1>2. PartStores /\ [Step]_application => PartStores'
    BY PartStoresStep
  <1>3. PartStores /\ [Step]_application =>
           [legacy' # legacy /\ ~raced => legacy \subseteq Stores!PathsOf(tree) \cup removed]_(Stores!vars)
    <2> SUFFICES ASSUME PartStores, [Step]_application, legacy' # legacy, ~raced
                 PROVE  legacy \subseteq Stores!PathsOf(tree) \cup removed
      OBVIOUS
    <2>1. part = "stores" /\ Stores!Next
      BY DEF Step, application, storeVars
    <2>2. StoresInv
      BY <2>1 DEF PartStores
    <2>3. PICK c \in Clients : Stores!Rename(c)
      BY <2>1 DEF Stores!Next, Stores!Call, Stores!Begins, Stores!Write, Stores!WriteFails,
                  Stores!ListPanes, Stores!DeleteTab, Stores!DeletePane, Stores!Step,
                  Stores!DeleteEnds, Stores!Migrate, Stores!MigrateNext, Stores!Crash
    <2>4. left[c] = {} /\ left[c] # None
      BY <2>3 DEF Stores!Rename, Stores!Stored
    <2>5. MigrationFits(c)
      BY <2>2 DEF StoresInv
    <2> QED
      BY <2>4, <2>5 DEF MigrationFits
  <1> QED
    BY <1>1, <1>2, <1>3, PTL DEF ApplicationSpec, NoRepoIsLost, Stores!NoRepoIsLost

-----------------------------------------------------------------------------
(* The readings of the quotas *)

QFile == Quota!File
QFiles == Quota!Files

\* What reading a file as it is gives.
QuotaOf(f) == IF disk[f] = None THEN 0 ELSE Quota!Parse(f, disk[f], Quota!Size(disk[f]))

\* Claude's file is put in place whole.
ClaudeIsWhole == disk[Claude] # None => ~disk[Claude].partial

\* A log only grows, and Claude's file is replaced by another: what has the present
\* stamp is the file as it is.
Before(stamp, data) ==
    /\ data # None /\ stamp[1] <= data.ino
    /\ stamp[1] = data.ino => stamp[2] <= Quota!Size(data)

\* A cache entry was made of an earlier file or of the present one.
CacheIsOf == \A f \in DOMAIN cache : Before(cache[f].stamp, disk[f])

\* So was the file that is open.
OpenIsOf ==
    thread # None /\ thread.open # None =>
        LET o == thread.open IN
        /\ o.name \in thread.todo /\ Before(Quota!Stamp(o.file), disk[o.name])
        /\ Quota!Stamp(o.file) = Quota!Stamp(disk[o.name]) => o.file = disk[o.name]

\* Claude's file first, then the logs that were chosen.
InOrder ==
    thread # None =>
        IF thread.chosen = None THEN thread.todo \subseteq {Claude}
        ELSE thread.todo \subseteq thread.chosen /\ Cardinality(thread.chosen) <= Candidates

\* While nothing is written, a refresh has the quota of every file it is done with.
HasRead ==
    calm /\ thread # None =>
        /\ Claude \notin thread.todo => thread.claude = QuotaOf(Claude)
        /\ thread.chosen # None => Quota!Chosen(thread.chosen)
                                   /\ \A l \in thread.chosen \ thread.todo : QuotaOf(l) <= thread.codex
        /\ thread.codex = 0 \/ \E l \in Logs : disk[l] # None /\ thread.codex = QuotaOf(l)
        /\ thread.open # None => thread.open.file = disk[thread.open.name]

QuotaInv ==
    /\ Quota!TypeOK /\ ClaudeIsWhole /\ CacheIsOf /\ Quota!CacheIsSound
    /\ OpenIsOf /\ InOrder /\ HasRead /\ Quota!ShownIsNewest

\* The order of the numbers is well-founded.
LEMMA LessIsWellFounded == IsWellFoundedOn({ss \in Nat \X Nat : ss[1] < ss[2]}, Nat)
  BY NatLessThanWellFounded DEF OpToRel

\* Of numbers up to n, one is the greatest.
LEMMA HasGreatest ==
  ASSUME NEW n \in Nat, NEW S \in SUBSET (0..n), S # {}
  PROVE  \E m \in S : \A k \in S : k <= m
  <1> DEFINE R == {ss \in Nat \X Nat : ss[1] < ss[2]}
             T == {n - k : k \in S}
  <1>1. \A k \in S : n - k \in Nat
    OBVIOUS
  <1>2. T \in SUBSET Nat /\ T # {}
    BY <1>1
  <1>3. IsWellFoundedOn(R, Nat)
    BY LessIsWellFounded
  <1> HIDE DEF R, T
  <1>4. PICK t \in T : \A u \in T : ~(<<u, t>> \in R)
    BY <1>2, <1>3, WFMin
  <1>5. \A u \in T : t <= u
    <2>1. \A u \in T : u \in Nat /\ t \in Nat
      BY <1>2
    <2>2. \A u \in T : ~(u < t)
      BY <1>4, <2>1 DEF R
    <2> QED
      BY <2>1, <2>2
  <1>6. PICK m \in S : t = n - m
    BY DEF T
  <1>7. \A k \in S : n - k \in T
    BY DEF T
  <1>8. \A k \in S : n - m <= n - k
    BY <1>5, <1>6, <1>7
  <1> QED
    BY <1>8

\* Max is one of the numbers, and none is greater.
LEMMA MaxIs ==
  ASSUME NEW n \in Nat, NEW S \in SUBSET (0..n), S # {}
  PROVE  Quota!Max(S) \in S /\ \A k \in S : k <= Quota!Max(S)
  <1>1. PICK m \in S : \A k \in S : k <= m
    BY HasGreatest
  <1>2. m \in S /\ \A k \in S : m >= k
    BY <1>1
  <1>3. \A x \in S : (\A k \in S : x >= k) => x = m
    BY <1>2
  <1>4. Quota!Max(S) = m
    BY <1>2, <1>3 DEF Quota!Max
  <1> QED
    BY <1>2, <1>4

\* Min of two.
LEMMA MinIs ==
  ASSUME NEW a \in Int, NEW b \in Int
  PROVE  Quota!Min({a, b}) = IF a <= b THEN a ELSE b
  BY DEF Quota!Min

\* The lines that are read, with 0 for none.
Read(f, data, size) ==
    LET start == Quota!Start(f, size)
        first == IF start = 0 THEN 0 ELSE 2 * ((start + 2) \div 2)
        end   == Quota!Min({start + Budget, Quota!Size(data)})
    IN {0} \cup {data.lines[i] : i \in {j \in DOMAIN data.lines : Quota!Whole(j, first, end)}}

\* The size of a file, in halves of lines.
LEMMA SizeIs ==
  ASSUME NEW data \in QFile
  PROVE  /\ Len(data.lines) \in Nat /\ Len(data.lines) >= 1 /\ DOMAIN data.lines = 1..Len(data.lines)
         /\ \A j \in DOMAIN data.lines : data.lines[j] \in 0..MaxTime
         /\ data.partial \in BOOLEAN
         /\ Quota!Size(data) = IF data.partial THEN 2 * Len(data.lines) - 1 ELSE 2 * Len(data.lines)
         /\ Quota!Size(data) \in Nat /\ Quota!Size(data) >= 1
         /\ data.ino \in Nat /\ data.ino >= 1 /\ data.mtime \in 1..MaxTime
  <1>1. /\ data.lines \in Seq(0..MaxTime) /\ data.lines # <<>> /\ data.partial \in BOOLEAN
        /\ data.ino \in Nat \ {0} /\ data.mtime \in 1..MaxTime
    BY DEF QFile, Quota!File
  <1>2. /\ Len(data.lines) \in Nat /\ Len(data.lines) >= 1 /\ DOMAIN data.lines = 1..Len(data.lines)
        /\ \A j \in DOMAIN data.lines : data.lines[j] \in 0..MaxTime
    <2> DEFINE s == data.lines
    <2>1. s \in Seq(0..MaxTime) /\ s # <<>>
      BY <1>1
    <2> SUFFICES /\ Len(s) \in Nat /\ Len(s) >= 1 /\ DOMAIN s = 1..Len(s)
                 /\ \A j \in DOMAIN s : s[j] \in 0..MaxTime
      OBVIOUS
    <2> HIDE DEF s
    <2>2. Len(s) # 0 /\ Len(s) \in Nat
      BY <2>1, EmptySeq
    <2>3. DOMAIN s = 1..Len(s)
      BY <2>1
    <2>4. \A j \in 1..Len(s) : s[j] \in 0..MaxTime
      BY <2>1, ElementOfSeq
    <2> QED
      BY <2>2, <2>3, <2>4
  <1>3. Quota!Size(data) = IF data.partial THEN 2 * Len(data.lines) - 1 ELSE 2 * Len(data.lines)
    BY <1>1, <1>2 DEF Quota!Size
  <1> QED
    BY <1>1, <1>2, <1>3

\* A reading is a time, or 0.
LEMMA ParseIs ==
  ASSUME NEW f \in QFiles, NEW data \in QFile, NEW size \in Nat
  PROVE  /\ Quota!Parse(f, data, size) \in 0..MaxTime
         /\ f # Claude => /\ Quota!Parse(f, data, size) \in Read(f, data, size)
                          /\ \A at \in Read(f, data, size) : at <= Quota!Parse(f, data, size)
  <1>1. MaxTime \in Nat /\ 0 \in 0..MaxTime /\ data.lines[1] \in 0..MaxTime
    BY SizeIs, QuotaAssumption
  <1>2. Read(f, data, size) \in SUBSET (0..MaxTime) /\ Read(f, data, size) # {}
    BY <1>1, SizeIs DEF Read
  <1>3. CASE f = Claude
    BY <1>1, <1>3 DEF Quota!Parse
  <1>4. CASE f # Claude
    <2>1. Quota!Parse(f, data, size) = Quota!Max(Read(f, data, size))
      BY <1>4 DEF Quota!Parse, Read
    <2> QED
      BY <1>1, <1>2, <1>4, <2>1, MaxIs
  <1> QED
    BY <1>3, <1>4

\* Read whole, a log gives the newest of its last lines, from one that has ended.
LEMMA LogIs ==
  ASSUME NEW l \in Logs, NEW data \in QFile
  PROVE  LET size == Quota!Size(data)
             q == Quota!Parse(l, data, size)
         IN /\ \A j \in DOMAIN data.lines :
                  2 * j <= size /\ 2 * j - 2 > size - Budget => data.lines[j] <= q
            /\ q = 0 \/ \E j \in DOMAIN data.lines : 2 * j <= size /\ data.lines[j] = q
  <1> DEFINE size == Quota!Size(data)
             q == Quota!Parse(l, data, size)
             start == Quota!Start(l, size)
             first == IF start = 0 THEN 0 ELSE 2 * ((start + 2) \div 2)
             end == Quota!Min({start + Budget, size})
  <1>1. l \in QFiles /\ l # Claude /\ size \in Nat /\ Budget \in Nat /\ DOMAIN data.lines \subseteq Nat
    BY SizeIs, QuotaAssumption DEF QFiles, Quota!Files
  <1>2. q \in Read(l, data, size) /\ \A at \in Read(l, data, size) : at <= q
    BY <1>1, ParseIs
  <1>3. start = IF size - Budget < 0 THEN 0 ELSE size - Budget
    BY <1>1 DEF Quota!Start
  <1>4. start \in Nat /\ end = size
    BY <1>1, <1>3, MinIs
  <1>5. Read(l, data, size) =
          {0} \cup {data.lines[i] : i \in {j \in DOMAIN data.lines : Quota!Whole(j, first, size)}}
    BY <1>4 DEF Read
  <1> HIDE DEF q, start, size
  <1>6. ASSUME NEW j \in DOMAIN data.lines, 2 * j <= size, 2 * j - 2 > size - Budget
        PROVE  data.lines[j] <= q
    <2>1. 2 * j - 2 >= first
      <3>1. j \in Nat /\ j >= 1
        BY SizeIs
      <3>2. CASE start = 0
        BY <3>1, <3>2
      <3>3. CASE start # 0
        BY <1>1, <1>3, <1>4, <1>6, <3>1, <3>3
      <3> QED
        BY <3>2, <3>3
    <2>2. Quota!Whole(j, first, size)
      BY <1>6, <2>1 DEF Quota!Whole
    <2> QED
      BY <1>2, <1>5, <2>2
  <1>7. q = 0 \/ \E j \in DOMAIN data.lines : 2 * j <= size /\ data.lines[j] = q
    BY <1>2, <1>5 DEF Quota!Whole
  <1> QED
    BY <1>6, <1>7 DEF q, size

\* Claude's file is read if it is short enough.
LEMMA ClaudeIs ==
  ASSUME NEW data \in QFile, ~data.partial
  PROVE  Quota!Parse(Claude, data, Quota!Size(data)) = IF Len(data.lines) > 1 THEN 0 ELSE data.lines[1]
  <1>1. Quota!Size(data) = 2 * Len(data.lines) /\ Len(data.lines) \in Nat /\ Len(data.lines) >= 1
    BY SizeIs
  <1>2. Quota!Start(Claude, Quota!Size(data)) = 2 * Len(data.lines) - 2
    BY <1>1 DEF Quota!Start
  <1> QED
    BY <1>1, <1>2 DEF Quota!Parse

\* The counts of the instance are those of the library's theorems.
LEMMA SameCount == \A S : Quota!Cardinality(S) = Cardinality(S)
  BY Zenon DEF Quota!Cardinality, Cardinality, Quota!IsFiniteSet, IsFiniteSet

\* The logs that are read hold those that fewer than Candidates others are preferred to.
LEMMA RecentAreChosen ==
  ASSUME NEW set, Quota!Chosen(set), NEW l \in Quota!Recent
  PROVE  l \in set
  <1> DEFINE logs == {k \in Logs : disk[k] # None}
             newer == {k \in Logs \ {l} : disk[k] # None /\ disk[k].mtime >= disk[l].mtime}
  <1>1. /\ l \in logs /\ Candidates > Cardinality(newer) /\ set \subseteq logs
        /\ Cardinality(set) = Quota!Min({Candidates, Cardinality(logs)})
        /\ \A m \in set, k \in logs \ set : disk[m].mtime >= disk[k].mtime
    BY SameCount DEF Quota!Recent, Quota!Chosen
  <1>2. IsFiniteSet(logs) /\ IsFiniteSet(newer) /\ IsFiniteSet(set)
    BY <1>1, QuotaAssumption, FS_Subset
  <1>3. Cardinality(logs) \in Nat /\ Cardinality(newer) \in Nat /\ Cardinality(set) \in Nat
        /\ Candidates \in Nat
    BY <1>2, QuotaAssumption, FS_CardinalityType
  <1>4. SUFFICES ASSUME l \notin set
                 PROVE  FALSE
    OBVIOUS
  <1>5. set \subseteq newer
    BY <1>1, <1>4
  <1>6. Cardinality(set) <= Cardinality(newer)
    BY <1>2, <1>5, FS_Subset
  <1>7. Cardinality(set) = Cardinality(logs)
    BY <1>1, <1>3, <1>6, MinIs
  <1>8. set = logs
    BY <1>1, <1>2, <1>7, FS_Subset
  <1> QED
    BY <1>1, <1>4, <1>8

\* What is known of a file.
LEMMA FileIs ==
  ASSUME Quota!TypeOK, NEW f \in QFiles, disk[f] # None
  PROVE  disk[f] \in QFile /\ Quota!Size(disk[f]) \in Nat /\ disk[f].ino \in Nat
  BY SizeIs DEF Quota!TypeOK, QFiles, QFile

\* A quota is a time.
LEMMA QuotaIs ==
  ASSUME Quota!TypeOK, NEW f \in QFiles
  PROVE  QuotaOf(f) \in 0..MaxTime
  <1>1. 0 \in 0..MaxTime
    BY QuotaAssumption
  <1> QED
    BY <1>1, FileIs, ParseIs DEF QuotaOf

-----------------------------------------------------------------------------
\* A write makes a file no earlier stamp is of.
LEMMA FileWriteKeeps ==
  ASSUME QuotaInv, NEW f \in QFiles, NEW data, Quota!Write(f, data),
         \A t \in 1..MaxTime : [data EXCEPT !.mtime = t] \in QFile,
         f = Claude => ~data.partial,
         disk[f] # None => \/ data.ino > disk[f].ino
                           \/ data.ino = disk[f].ino /\ Quota!Size(data) > Quota!Size(disk[f])
  PROVE  QuotaInv'
  <1>1. PICK t \in 1..MaxTime :
          /\ clock' = t /\ disk' = [disk EXCEPT ![f] = [data EXCEPT !.mtime = t]]
          /\ calm' = FALSE /\ cache' = cache /\ thread' = thread /\ shown' = shown
    <2>1. PICK t \in {clock, clock + 1} :
            /\ t <= MaxTime /\ clock' = t /\ disk' = [disk EXCEPT ![f] = [data EXCEPT !.mtime = t]]
            /\ calm' = FALSE /\ cache' = cache /\ thread' = thread /\ shown' = shown
      BY Zenon DEF Quota!Write
    <2>2. t \in 1..MaxTime
      BY <2>1, QuotaAssumption DEF QuotaInv, Quota!TypeOK
    <2> QED
      BY <2>1, <2>2
  <1> DEFINE new == [data EXCEPT !.mtime = t]
  <1>2. new \in QFile /\ new.partial = data.partial /\ new.ino = data.ino
        /\ Quota!Size(new) = Quota!Size(data)
    BY DEF QFile, Quota!File, Quota!Size
  <1>3. disk' = [disk EXCEPT ![f] = new] /\ new \in QFile /\ new # None
    BY <1>1, <1>2, NoneIsNoValue DEF QFile
  <1> HIDE DEF new
  <1>4. disk'[f] = new /\ \A g \in QFiles \ {f} : disk'[g] = disk[g]
    BY <1>3 DEF QuotaInv, Quota!TypeOK, QFiles
  <1>5. Quota!TypeOK'
    BY <1>1, <1>3 DEF QuotaInv, Quota!TypeOK, QFile
  <1>6. ClaudeIsWhole'
    BY <1>2, <1>4, SMT DEF QuotaInv, ClaudeIsWhole, QFiles, Quota!Files
  <1>7. /\ Quota!Size(new) \in Nat /\ new.ino \in Nat
        /\ disk[f] # None => Quota!Size(disk[f]) \in Nat /\ disk[f].ino \in Nat
    BY <1>3, SizeIs, FileIs DEF QuotaInv
  <1>8. ASSUME NEW stamp \in Nat \X Nat \X Nat, NEW g \in QFiles, Before(stamp, disk[g])
        PROVE  /\ Before(stamp, disk'[g])
               /\ g = f => stamp # Quota!Stamp(disk'[g])
    <2>1. CASE g # f
      BY <1>4, <1>8, <2>1
    <2>2. CASE g = f
      <3>1. disk[f] # None /\ stamp[1] <= disk[f].ino
            /\ (stamp[1] = disk[f].ino => stamp[2] <= Quota!Size(disk[f]))
        BY <1>8, <2>2 DEF Before
      <3>2. Quota!Stamp(new)[1] = new.ino /\ Quota!Stamp(new)[2] = Quota!Size(new)
        BY DEF Quota!Stamp
      <3>3. stamp[1] \in Nat /\ stamp[2] \in Nat
        OBVIOUS
      <3>4. stamp[1] < new.ino \/ (stamp[1] = new.ino /\ stamp[2] < Quota!Size(new))
        <4> DEFINE a == stamp[1]  b == stamp[2]  d == disk[f].ino  e == Quota!Size(disk[f])
        <4>1. /\ a \in Nat /\ b \in Nat /\ d \in Nat /\ e \in Nat /\ new.ino \in Nat
              /\ Quota!Size(new) \in Nat /\ a <= d /\ (a = d => b <= e)
              /\ new.ino > d \/ (new.ino = d /\ Quota!Size(new) > e)
          BY <1>2, <1>7, <3>1, <3>3
        <4> HIDE DEF a, b, d, e
        <4>2. a < new.ino \/ (a = new.ino /\ b < Quota!Size(new))
          BY <4>1
        <4> QED
          BY <4>2 DEF a, b
      <3>5. stamp # Quota!Stamp(new)
        BY <1>7, <3>2, <3>3, <3>4
      <3>6. Before(stamp, new)
        BY <1>3, <1>7, <3>3, <3>4 DEF Before
      <3> QED
        BY <1>4, <2>2, <3>5, <3>6
    <2> QED
      BY <2>1, <2>2
  <1>9. CacheIsOf' /\ Quota!CacheIsSound'
    <2>1. ASSUME NEW g \in DOMAIN cache
          PROVE  /\ Before(cache[g].stamp, disk'[g])
                 /\ cache[g].stamp = Quota!Stamp(disk'[g]) =>
                       cache[g].quota = Quota!Parse(g, disk'[g], Quota!Size(disk'[g]))
      <3>1. /\ g \in QFiles /\ cache[g].stamp \in Nat \X Nat \X Nat /\ Before(cache[g].stamp, disk[g])
            /\ cache[g].stamp = Quota!Stamp(disk[g]) =>
                       cache[g].quota = Quota!Parse(g, disk[g], Quota!Size(disk[g]))
        BY DEF QuotaInv, Quota!TypeOK, CacheIsOf, Quota!CacheIsSound, QFiles, Quota!Reading
      <3>2. CASE g = f
        BY <1>8, <3>1, <3>2
      <3>3. CASE g # f
        BY <1>4, <1>8, <3>1, <3>3
      <3> QED
        BY <3>2, <3>3
    <2> QED
      BY <1>1, <2>1 DEF CacheIsOf, Quota!CacheIsSound
  <1>10. OpenIsOf'
    <2> SUFFICES ASSUME thread # None, thread.open # None
                 PROVE  /\ thread.open.name \in thread.todo
                        /\ Before(Quota!Stamp(thread.open.file), disk'[thread.open.name])
                        /\ Quota!Stamp(thread.open.file) = Quota!Stamp(disk'[thread.open.name]) =>
                              thread.open.file = disk'[thread.open.name]
      BY <1>1 DEF OpenIsOf
    <2>1. /\ thread.open.name \in QFiles /\ thread.open.file \in QFile
          /\ thread.open.name \in thread.todo
          /\ Before(Quota!Stamp(thread.open.file), disk[thread.open.name])
          /\ Quota!Stamp(thread.open.file) = Quota!Stamp(disk[thread.open.name]) =>
                thread.open.file = disk[thread.open.name]
      BY DEF QuotaInv, OpenIsOf, Quota!TypeOK, Quota!Refresh, Quota!Handle, QFiles, QFile
    <2>2. Quota!Stamp(thread.open.file) \in Nat \X Nat \X Nat
      BY <2>1, SizeIs, QuotaAssumption DEF Quota!Stamp
    <2> QED
      BY <1>4, <1>8, <2>1, <2>2
  <1>11. InOrder' /\ HasRead' /\ Quota!ShownIsNewest'
    BY <1>1 DEF QuotaInv, InOrder, HasRead, Quota!ShownIsNewest
  <1> QED
    BY <1>5, <1>6, <1>9, <1>10, <1>11 DEF QuotaInv

\* What a session or the status line writes is a file.
LEMMA WritesKeep ==
  ASSUME QuotaInv,
         \/ \E l \in Logs : Quota!EndLine(l) \/ \E at \in {0, clock} : Quota!AddLine(l, at)
         \/ \E lines \in {<<clock>>, <<0, 0>>} : Quota!Replace(lines)
  PROVE  QuotaInv'
  <1>1. 0 \in 0..MaxTime /\ clock \in 0..MaxTime /\ \A l \in Logs : l \in QFiles /\ l # Claude
    BY QuotaAssumption DEF QuotaInv, Quota!TypeOK, QFiles, Quota!Files
  <1>2. ASSUME NEW l \in Logs, NEW at \in {0, clock}, Quota!AddLine(l, at)
        PROVE  QuotaInv'
    <2>1. CASE disk[l] = None
      <3> DEFINE one == <<at>>
                 data == [ino |-> 1, mtime |-> 0, lines |-> one, partial |-> TRUE]
      <3>1. Quota!Write(l, data)
        BY <1>2, <2>1 DEF Quota!AddLine
      <3>2. one \in Seq(0..MaxTime) /\ one # <<>>
        BY <1>1
      <3> HIDE DEF one
      <3>3. ASSUME NEW t \in 1..MaxTime
            PROVE  [data EXCEPT !.mtime = t] \in QFile
        <4>1. one \in Seq(0..MaxTime) \ {<<>>} /\ 1 \in Nat \ {0} /\ 0 \in 0..MaxTime
          BY <3>2, QuotaAssumption
        <4> DEFINE Line == Seq(0..MaxTime) \ {<<>>}
                   Blank == [ino: Nat \ {0}, mtime: 0..MaxTime, lines: Line, partial: BOOLEAN]
        <4>2. one \in Line
          BY <4>1
        <4>3. QFile = [ino: Nat \ {0}, mtime: 1..MaxTime, lines: Line, partial: BOOLEAN]
          BY DEF QFile, Quota!File
        <4> HIDE DEF Line
        <4>4. data \in Blank
          BY <4>1, <4>2
        <4> HIDE DEF data
        <4> QED
          BY <4>3, <4>4
      <3> HIDE DEF data
      <3> QED
        BY <1>1, <2>1, <3>1, <3>3, FileWriteKeeps
    <2>2. CASE disk[l] # None
      <3> DEFINE old == disk[l]
                 data == [old EXCEPT !.lines = Append(old.lines, at), !.partial = TRUE]
      <3>1. ~old.partial /\ Quota!Write(l, data)
        BY <1>2, <2>2 DEF Quota!AddLine
      <3>2. /\ old \in QFile /\ old.lines \in Seq(0..MaxTime) /\ at \in 0..MaxTime
            /\ Quota!Size(old) = 2 * Len(old.lines) /\ Len(old.lines) \in Nat
            /\ old.ino \in Nat \ {0}
        BY <1>1, <2>2, <3>1, FileIs, SizeIs DEF QuotaInv, QFile, Quota!File
      <3> DEFINE longer == Append(old.lines, at)
      <3>3. longer \in Seq(0..MaxTime) /\ longer # <<>> /\ Len(longer) = Len(old.lines) + 1
        BY <3>2
      <3> HIDE DEF longer
      <3>4. /\ data.ino = old.ino /\ data.lines = longer /\ data.partial = TRUE
            /\ \A t \in 1..MaxTime : [data EXCEPT !.mtime = t] \in QFile
        BY <3>2, <3>3 DEF QFile, Quota!File, longer
      <3> HIDE DEF data
      <3>5. Quota!Size(data) = 2 * (Len(old.lines) + 1) - 1
        BY <3>3, <3>4 DEF Quota!Size
      <3>6. Quota!Size(data) > Quota!Size(old)
        BY <3>2, <3>5
      <3> QED
        BY <1>1, <3>1, <3>4, <3>6, FileWriteKeeps
    <2> QED
      BY <2>1, <2>2
  <1>3. ASSUME NEW l \in Logs, Quota!EndLine(l)
        PROVE  QuotaInv'
    <2> DEFINE old == disk[l]
               data == [old EXCEPT !.partial = FALSE]
    <2>1. old # None /\ old.partial /\ Quota!Write(l, data)
      BY <1>3 DEF Quota!EndLine
    <2>2. old \in QFile /\ Len(old.lines) \in Nat /\ Quota!Size(old) = 2 * Len(old.lines) - 1
      BY <1>1, <2>1, FileIs, SizeIs DEF QuotaInv
    <2>3. /\ data.ino = old.ino /\ data.lines = old.lines /\ data.partial = FALSE
          /\ data \in QFile /\ \A t \in 1..MaxTime : [data EXCEPT !.mtime = t] \in QFile
      BY <2>2 DEF QFile, Quota!File
    <2> HIDE DEF data
    <2>4. Quota!Size(data) = 2 * Len(old.lines)
      BY <2>2, <2>3, SizeIs
    <2>5. Quota!Size(data) > Quota!Size(old)
      BY <2>2, <2>4
    <2> QED
      BY <1>1, <2>1, <2>3, <2>5, FileWriteKeeps
  <1>4. ASSUME NEW lines \in {<<clock>>, <<0, 0>>}, Quota!Replace(lines)
        PROVE  QuotaInv'
    <2> DEFINE ino == IF disk[Claude] = None THEN 1 ELSE disk[Claude].ino + 1
               data == [ino |-> ino, mtime |-> 0, lines |-> lines, partial |-> FALSE]
    <2>1. Quota!Write(Claude, data)
      BY <1>4 DEF Quota!Replace
    <2>2. Claude \in QFiles
      BY DEF QFiles, Quota!Files
    <2>3. ino \in Nat \ {0} /\ (disk[Claude] # None => ino > disk[Claude].ino)
      BY <2>2, FileIs DEF QuotaInv
    <2>4. lines \in Seq(0..MaxTime) /\ lines # <<>>
      <3>1. <<clock>> \in Seq(0..MaxTime) /\ <<clock>> # <<>>
        BY <1>1
      <3>2. <<0, 0>> \in Seq(0..MaxTime) /\ <<0, 0>> # <<>>
        BY <1>1
      <3> QED
        BY Zenon, <3>1, <3>2
    <2> HIDE DEF ino
    <2>5. /\ data.ino = ino /\ data.partial = FALSE
          /\ \A t \in 1..MaxTime : [data EXCEPT !.mtime = t] \in QFile
      BY <2>3, <2>4 DEF QFile, Quota!File
    <2> HIDE DEF data
    <2> QED
      BY <2>1, <2>2, <2>3, <2>5, FileWriteKeeps
  <1> QED
    BY Zenon, <1>2, <1>3, <1>4

-----------------------------------------------------------------------------
\* A refresh begins with Claude's file.
LEMMA BeginKeeps ==
  ASSUME QuotaInv, Quota!Begin
  PROVE  QuotaInv'
  <1> DEFINE next == [todo |-> {Claude}, chosen |-> None, open |-> None, claude |-> 0, codex |-> 0]
  <1>1. thread' = next /\ calm' = TRUE /\ UNCHANGED <<disk, clock, cache, shown>>
    BY DEF Quota!Begin
  <1>2. /\ next \in Quota!Refresh /\ next.todo = {Claude} /\ next.chosen = None /\ next.open = None
        /\ next.claude = 0 /\ next.codex = 0
    BY QuotaAssumption DEF Quota!Refresh, Quota!Files
  <1> HIDE DEF next
  <1>3. next # None
    BY <1>2, NoneIsNoValue
  <1>4. Quota!TypeOK'
    BY <1>1, <1>2, <1>3 DEF QuotaInv, Quota!TypeOK
  <1>5. ClaudeIsWhole' /\ CacheIsOf' /\ Quota!CacheIsSound'
    BY <1>1 DEF QuotaInv, ClaudeIsWhole, CacheIsOf, Quota!CacheIsSound
  <1>6. OpenIsOf' /\ InOrder' /\ HasRead' /\ Quota!ShownIsNewest'
    BY <1>1, <1>2, <1>3 DEF OpenIsOf, InOrder, HasRead, Quota!ShownIsNewest
  <1> QED
    BY <1>4, <1>5, <1>6 DEF QuotaInv

\* It goes on with the logs that were modified last.
LEMMA ListKeeps ==
  ASSUME QuotaInv, NEW set \in SUBSET Logs, Quota!List(set)
  PROVE  QuotaInv'
  <1> DEFINE next == [thread EXCEPT !.todo = set, !.chosen = set]
  <1>1. /\ thread # None /\ thread.todo = {} /\ thread.open = None /\ thread.chosen = None
        /\ Quota!Chosen(set) /\ thread' = next /\ UNCHANGED <<disk, clock, cache, shown, calm>>
    BY DEF Quota!List
  <1>2. thread \in Quota!Refresh
    BY <1>1 DEF QuotaInv, Quota!TypeOK
  <1>3. /\ next \in Quota!Refresh /\ next.todo = set /\ next.chosen = set /\ next.open = None
        /\ next.claude = thread.claude /\ next.codex = thread.codex
    BY <1>1, <1>2 DEF Quota!Refresh, Quota!Files
  <1> HIDE DEF next
  <1>4. next # None /\ set # None
    BY <1>3, NoneIsNoValue
  <1>5. Cardinality(set) <= Candidates
    <2>1. IsFiniteSet({l \in Logs : disk[l] # None})
      BY QuotaAssumption, FS_Subset
    <2>2. Cardinality({l \in Logs : disk[l] # None}) \in Nat
      BY <2>1, FS_CardinalityType
    <2>3. Cardinality(set) = Quota!Min({Candidates, Cardinality({l \in Logs : disk[l] # None})})
      BY <1>1, SameCount DEF Quota!Chosen
    <2> QED
      BY <2>2, <2>3, MinIs, QuotaAssumption
  <1>6. Quota!TypeOK'
    BY <1>1, <1>3, <1>4 DEF QuotaInv, Quota!TypeOK
  <1>7. ClaudeIsWhole' /\ CacheIsOf' /\ Quota!CacheIsSound'
    BY <1>1 DEF QuotaInv, ClaudeIsWhole, CacheIsOf, Quota!CacheIsSound
  <1>8. OpenIsOf' /\ InOrder' /\ Quota!ShownIsNewest'
    BY <1>1, <1>3, <1>4, <1>5 DEF OpenIsOf, InOrder, Quota!ShownIsNewest
  <1>9. HasRead'
    <2> SUFFICES ASSUME calm
                 PROVE  /\ thread.claude = QuotaOf(Claude)
                        /\ Quota!Chosen(set)
                        /\ thread.codex = 0 \/ \E l \in Logs : disk[l] # None /\ thread.codex = QuotaOf(l)
      <3>1. \A f : QuotaOf(f)' = QuotaOf(f)
        BY <1>1 DEF QuotaOf
      <3>2. Quota!Chosen(set)' = Quota!Chosen(set)
        BY <1>1 DEF Quota!Chosen
      <3> QED
        BY <1>1, <1>3, <1>4, <3>1, <3>2 DEF HasRead
    <2> QED
      BY <1>1 DEF QuotaInv, HasRead
  <1> QED
    BY <1>6, <1>7, <1>8, <1>9 DEF QuotaInv

\* A refresh that has the quota of a file goes on without it.
LEMMA FoundKeeps ==
  ASSUME QuotaInv, thread # None, NEW f \in thread.todo, NEW quota \in 0..MaxTime,
         thread' = Quota!Found(f, quota), UNCHANGED <<disk, shown, calm>>,
         calm => quota = QuotaOf(f)
  PROVE  /\ thread' \in Quota!Refresh /\ thread' # None
         /\ OpenIsOf' /\ InOrder' /\ HasRead' /\ Quota!ShownIsNewest'
  <1> DEFINE n == thread'
             q == IF quota >= thread.codex THEN quota ELSE thread.codex
  <1>1. /\ thread \in Quota!Refresh /\ thread.todo \in SUBSET QFiles /\ f \in QFiles
        /\ thread.claude \in 0..MaxTime /\ thread.codex \in 0..MaxTime /\ MaxTime \in Nat
    BY QuotaAssumption DEF QuotaInv, Quota!TypeOK, Quota!Refresh, QFiles
  <1>2. Quota!Max({thread.codex, quota}) = q
    <2>1. {thread.codex, quota} \in SUBSET (0..MaxTime)
      BY <1>1
    <2>2. /\ Quota!Max({thread.codex, quota}) \in {thread.codex, quota}
          /\ \A k \in {thread.codex, quota} : k <= Quota!Max({thread.codex, quota})
      BY <1>1, <2>1, MaxIs
    <2> QED
      BY <1>1, <2>2
  <1>3. q \in 0..MaxTime /\ q >= quota /\ q >= thread.codex /\ q \in {quota, thread.codex}
    BY <1>1
  <1> HIDE DEF q
  <1>4. /\ n \in Quota!Refresh /\ n.todo = thread.todo \ {f} /\ n.open = None
        /\ n.chosen = thread.chosen
        /\ n.claude = IF f = Claude THEN quota ELSE thread.claude
        /\ n.codex = IF f = Claude THEN thread.codex ELSE q
    <2>1. CASE f = Claude
      BY <1>1, <2>1 DEF Quota!Found, Quota!Refresh, QFiles
    <2>2. CASE f # Claude
      <3>1. n = [thread EXCEPT !.todo = thread.todo \ {f}, !.open = None, !.codex = q]
        BY <1>2, <2>2 DEF Quota!Found
      <3> QED
        BY <1>1, <1>3, <2>2, <3>1 DEF Quota!Refresh, QFiles
    <2> QED
      BY <2>1, <2>2
  <1>5. n # None
    BY <1>4, NoneIsNoValue
  <1>6. OpenIsOf'
    BY <1>4 DEF OpenIsOf
  <1>7. InOrder'
    BY <1>4, <1>5 DEF QuotaInv, InOrder
  <1>8. Quota!ShownIsNewest'
    BY <1>5 DEF Quota!ShownIsNewest
  <1>9. HasRead'
    <2>1. CASE ~calm
      BY <2>1 DEF HasRead
    <2>2. CASE calm
      <3>1. \A g : QuotaOf(g)' = QuotaOf(g)
        BY DEF QuotaOf
      <3>2. \A set : Quota!Chosen(set)' = Quota!Chosen(set)
        BY DEF Quota!Chosen
      <3>3. /\ Claude \notin thread.todo => thread.claude = QuotaOf(Claude)
            /\ thread.chosen # None =>
                  /\ Quota!Chosen(thread.chosen)
                  /\ \A l \in thread.chosen \ thread.todo : QuotaOf(l) <= thread.codex
            /\ thread.codex = 0 \/ \E l \in Logs : disk[l] # None /\ thread.codex = QuotaOf(l)
        BY <2>2 DEF QuotaInv, HasRead
      <3>4. Claude \notin n.todo => n.claude = QuotaOf(Claude)
        BY <1>4, <2>2, <3>3
      <3>5. ASSUME thread.chosen # None, NEW l \in thread.chosen \ n.todo
            PROVE  QuotaOf(l) <= n.codex
        <4>1. l \in Logs /\ l # Claude /\ l \in QFiles
          BY <1>1, <3>5, QuotaAssumption DEF Quota!Refresh, QFiles, Quota!Files
        <4>2. QuotaOf(l) \in 0..MaxTime
          BY <4>1, QuotaIs DEF QuotaInv
        <4>3. CASE l = f
          BY <1>1, <1>3, <1>4, <2>2, <4>1, <4>2, <4>3
        <4>4. CASE l # f
          BY <1>1, <1>3, <1>4, <3>3, <3>5, <4>2, <4>4
        <4> QED
          BY <4>3, <4>4
      <3>6. n.codex = 0 \/ \E l \in Logs : disk[l] # None /\ n.codex = QuotaOf(l)
        <4>1. CASE n.codex = thread.codex
          BY <3>3, <4>1
        <4>2. CASE n.codex = quota /\ f # Claude
          <5>1. f \in Logs /\ quota = QuotaOf(f)
            BY <1>1, <2>2, <4>2 DEF QFiles, Quota!Files
          <5> QED
            BY <4>2, <5>1 DEF QuotaOf
        <4> QED
          BY <1>3, <1>4, <4>1, <4>2
      <3> QED
        BY <1>4, <3>1, <3>2, <3>3, <3>4, <3>5, <3>6 DEF HasRead
    <2> QED
      BY <2>1, <2>2
  <1> QED
    BY <1>4, <1>5, <1>6, <1>7, <1>8, <1>9

\* What the cache has of a file with the present stamp is taken, another is opened.
LEMMA OpenKeeps ==
  ASSUME QuotaInv, NEW f \in QFiles, Quota!Open(f)
  PROVE  QuotaInv'
  <1>1. /\ thread # None /\ f \in thread.todo /\ thread.open = None
        /\ UNCHANGED <<disk, clock, cache, shown, calm>>
        /\ thread' = IF disk[f] = None THEN Quota!Found(f, 0)
                     ELSE IF f \in DOMAIN cache /\ cache[f].stamp = Quota!Stamp(disk[f])
                     THEN Quota!Found(f, cache[f].quota)
                     ELSE [thread EXCEPT !.open = [name |-> f, file |-> disk[f]]]
    BY DEF Quota!Open
  <1>2. ClaudeIsWhole' /\ CacheIsOf' /\ Quota!CacheIsSound'
    BY <1>1 DEF QuotaInv, ClaudeIsWhole, CacheIsOf, Quota!CacheIsSound
  <1> SUFFICES /\ thread' \in Quota!Refresh /\ thread' # None
               /\ OpenIsOf' /\ InOrder' /\ HasRead' /\ Quota!ShownIsNewest'
    BY <1>1, <1>2 DEF QuotaInv, Quota!TypeOK
  <1>3. CASE disk[f] = None
    <2>1. 0 \in 0..MaxTime /\ QuotaOf(f) = 0
      BY <1>3, QuotaAssumption DEF QuotaOf
    <2> QED
      BY <1>1, <1>3, <2>1, FoundKeeps
  <1>4. CASE disk[f] # None /\ f \in DOMAIN cache /\ cache[f].stamp = Quota!Stamp(disk[f])
    <2>1. cache[f].quota \in 0..MaxTime /\ cache[f].quota = QuotaOf(f)
      BY <1>4 DEF QuotaInv, Quota!TypeOK, Quota!Reading, Quota!CacheIsSound, QuotaOf
    <2> QED
      BY <1>1, <1>4, <2>1, FoundKeeps
  <1>5. CASE disk[f] # None /\ ~(f \in DOMAIN cache /\ cache[f].stamp = Quota!Stamp(disk[f]))
    <2> DEFINE h == [name |-> f, file |-> disk[f]]
               n == [thread EXCEPT !.open = h]
    <2>1. thread \in Quota!Refresh /\ disk[f] \in QFile
      BY <1>1, <1>5, FileIs DEF QuotaInv, Quota!TypeOK
    <2>2. h \in Quota!Handle /\ h.name = f /\ h.file = disk[f]
      BY <2>1 DEF Quota!Handle, QFile, QFiles
    <2> HIDE DEF h
    <2>3. /\ n \in Quota!Refresh /\ n.todo = thread.todo /\ n.chosen = thread.chosen /\ n.open = h
          /\ n.claude = thread.claude /\ n.codex = thread.codex
      BY <2>1, <2>2 DEF Quota!Refresh
    <2> HIDE DEF n
    <2>4. thread' = n /\ n # None
      BY <1>1, <1>5, <2>3, NoneIsNoValue DEF n, h
    <2>5. OpenIsOf'
      <3>1. Before(Quota!Stamp(disk[f]), disk[f])
        BY <1>5, <2>1, SizeIs DEF Before, Quota!Stamp
      <3> QED
        BY <1>1, <2>2, <2>3, <2>4, <3>1 DEF OpenIsOf
    <2>6. InOrder' /\ Quota!ShownIsNewest'
      BY <1>1, <2>3, <2>4 DEF QuotaInv, InOrder, Quota!ShownIsNewest
    <2>7. HasRead'
      <3>1. \A g : QuotaOf(g)' = QuotaOf(g)
        BY <1>1 DEF QuotaOf
      <3>2. \A set : Quota!Chosen(set)' = Quota!Chosen(set)
        BY <1>1 DEF Quota!Chosen
      <3> QED
        BY <1>1, <2>2, <2>3, <2>4, <3>1, <3>2 DEF QuotaInv, HasRead
    <2> QED
      BY <2>3, <2>4, <2>5, <2>6, <2>7
  <1> QED
    BY <1>3, <1>4, <1>5

\* What is kept under the stamp the file was opened with is what reading it gives, if the
\* stamp is still its own.
LEMMA ReadKeeps ==
  ASSUME QuotaInv, Quota!Read
  PROVE  QuotaInv'
  <1> DEFINE f == thread.open.name
             data == thread.open.file
             quota == Quota!Parse(f, Quota!Opened, Quota!Size(data))
             entry == [stamp |-> Quota!Stamp(data), quota |-> quota]
  <1>1. /\ thread # None /\ thread.open # None /\ UNCHANGED <<disk, clock, shown, calm>>
        /\ cache' = [g \in (DOMAIN cache) \cup {f} |-> IF g = f THEN entry ELSE cache[g]]
        /\ thread' = Quota!Found(f, quota)
    BY DEF Quota!Read, Quota!KeptStamp
  <1>2. /\ f \in QFiles /\ data \in QFile /\ f \in thread.todo
        /\ Before(Quota!Stamp(data), disk[f])
        /\ Quota!Stamp(data) = Quota!Stamp(disk[f]) => data = disk[f]
    BY <1>1 DEF QuotaInv, OpenIsOf, Quota!TypeOK, Quota!Refresh, Quota!Handle, QFiles, QFile
  <1>3. Quota!Opened \in QFile /\ disk[f] # None
    BY <1>1, <1>2, FileIs DEF Quota!Opened, QuotaInv, Before
  <1>4. Quota!Size(data) \in Nat /\ Quota!Stamp(data) \in Nat \X Nat \X Nat
    BY <1>2, SizeIs, QuotaAssumption DEF Quota!Stamp
  <1>5. quota \in 0..MaxTime
    BY <1>2, <1>3, <1>4, ParseIs
  <1>6. data = disk[f] => quota = QuotaOf(f)
    BY <1>3 DEF Quota!Opened, QuotaOf
  <1>7. calm => quota = QuotaOf(f)
    BY <1>1, <1>6 DEF QuotaInv, HasRead
  <1> HIDE DEF quota
  <1>8. entry \in Quota!Reading /\ entry.stamp = Quota!Stamp(data) /\ entry.quota = quota
    BY <1>4, <1>5 DEF Quota!Reading
  <1> HIDE DEF entry, f, data
  <1>9. /\ thread' \in Quota!Refresh /\ thread' # None
        /\ OpenIsOf' /\ InOrder' /\ HasRead' /\ Quota!ShownIsNewest'
    BY <1>1, <1>2, <1>5, <1>7, FoundKeeps
  <1>10. /\ DOMAIN cache' = (DOMAIN cache) \cup {f} /\ cache'[f] = entry
         /\ \A g \in DOMAIN cache : g # f => cache'[g] = cache[g]
    BY <1>1
  <1>11. Quota!TypeOK'
    BY <1>1, <1>2, <1>8, <1>9, <1>10 DEF QuotaInv, Quota!TypeOK, QFiles
  <1>12. ClaudeIsWhole'
    BY <1>1 DEF QuotaInv, ClaudeIsWhole
  <1>13. CacheIsOf'
    BY <1>1, <1>2, <1>8, <1>10 DEF QuotaInv, CacheIsOf
  <1>14. Quota!CacheIsSound'
    <2>1. Quota!Stamp(data) = Quota!Stamp(disk[f]) =>
             quota = Quota!Parse(f, disk[f], Quota!Size(disk[f]))
      BY <1>2, <1>3, <1>6 DEF QuotaOf
    <2>2. \A g \in DOMAIN cache' :
             cache'[g].stamp = Quota!Stamp(disk[g]) =>
               cache'[g].quota = Quota!Parse(g, disk[g], Quota!Size(disk[g]))
      BY <1>8, <1>10, <2>1 DEF QuotaInv, Quota!CacheIsSound
    <2> QED
      BY <1>1, <2>2 DEF Quota!CacheIsSound
  <1> QED
    BY <1>9, <1>11, <1>12, <1>13, <1>14 DEF QuotaInv

\* A refresh that is done shows the newest quota, and keeps what it read.
LEMMA FinishKeeps ==
  ASSUME QuotaInv, Quota!Finish
  PROVE  QuotaInv'
  <1>1. /\ thread # None /\ thread.chosen # None /\ thread.todo = {} /\ thread' = None
        /\ shown' = [claude |-> thread.claude, codex |-> thread.codex]
        /\ cache' = [f \in Quota!Retained |-> cache[f]] /\ UNCHANGED <<disk, clock, calm>>
    BY DEF Quota!Finish
  <1>2. /\ thread.chosen \in SUBSET Logs /\ thread.claude \in 0..MaxTime
        /\ thread.codex \in 0..MaxTime /\ Cardinality(thread.chosen) <= Candidates
    BY <1>1 DEF QuotaInv, InOrder, Quota!TypeOK, Quota!Refresh
  <1>3. shown'.claude = thread.claude /\ shown'.codex = thread.codex
    BY <1>1
  <1>4. /\ DOMAIN cache' = (DOMAIN cache) \cap (thread.chosen \cup {Claude})
        /\ \A f \in DOMAIN cache' : f \in DOMAIN cache /\ cache'[f] = cache[f]
    BY <1>1 DEF Quota!Retained
  <1>5. Quota!Cardinality(DOMAIN cache') <= Candidates + 1
    <2>1. IsFiniteSet(thread.chosen)
      BY <1>2, QuotaAssumption, FS_Subset
    <2>2. IsFiniteSet(thread.chosen \cup {Claude})
          /\ Cardinality(thread.chosen \cup {Claude}) <= Cardinality(thread.chosen) + 1
      <3>1. Claude \notin thread.chosen
        BY <1>2, QuotaAssumption
      <3>2. /\ IsFiniteSet(thread.chosen \cup {Claude})
            /\ Cardinality(thread.chosen \cup {Claude}) = Cardinality(thread.chosen) + 1
        BY <2>1, <3>1, FS_AddElement
      <3>3. Cardinality(thread.chosen) \in Nat
        BY <2>1, FS_CardinalityType
      <3> HIDE DEF Quota!Retained
      <3> QED
        BY <3>2, <3>3
    <2>3. IsFiniteSet(DOMAIN cache')
          /\ Cardinality(DOMAIN cache') <= Cardinality(thread.chosen \cup {Claude})
      BY <1>4, <2>2, FS_Subset
    <2> HIDE DEF Quota!Retained
    <2>4. /\ Cardinality(thread.chosen) \in Nat /\ Cardinality(DOMAIN cache') \in Nat
          /\ Cardinality(thread.chosen \cup {Claude}) \in Nat
      BY <2>1, <2>2, <2>3, FS_CardinalityType
    <2>5. Cardinality(DOMAIN cache') <= Candidates + 1
      BY <1>2, <2>2, <2>3, <2>4, QuotaAssumption
    <2> QED
      BY <2>5, SameCount
  <1>6. Quota!TypeOK'
    BY <1>1, <1>2, <1>4, <1>5 DEF QuotaInv, Quota!TypeOK
  <1>7. ClaudeIsWhole' /\ OpenIsOf' /\ InOrder' /\ HasRead'
    BY <1>1 DEF QuotaInv, ClaudeIsWhole, OpenIsOf, InOrder, HasRead
  <1>8. CacheIsOf' /\ Quota!CacheIsSound'
    BY <1>1, <1>4 DEF QuotaInv, CacheIsOf, Quota!CacheIsSound
  <1>9. Quota!ShownIsNewest'
    <2> SUFFICES ASSUME calm
                 PROVE  /\ \A l \in Quota!Recent : \A at \in Quota!Visible(l) : at <= thread.codex
                        /\ thread.codex = 0
                           \/ \E l \in Logs : disk[l] # None /\ thread.codex \in Quota!Ended(l)
                        /\ thread.claude = IF disk[Claude] = None \/ Len(disk[Claude].lines) > 1 THEN 0
                                           ELSE disk[Claude].lines[1]
      <3>1. Quota!Recent' = Quota!Recent
        BY <1>1 DEF Quota!Recent
      <3>2. \A l : Quota!Visible(l)' = Quota!Visible(l) /\ Quota!Ended(l)' = Quota!Ended(l)
        BY <1>1 DEF Quota!Visible, Quota!Ended
      <3> QED
        BY <1>1, <1>3, <3>1, <3>2 DEF Quota!ShownIsNewest
    <2>1. /\ thread.claude = QuotaOf(Claude) /\ Quota!Chosen(thread.chosen)
          /\ \A l \in thread.chosen : QuotaOf(l) <= thread.codex
          /\ thread.codex = 0 \/ \E l \in Logs : disk[l] # None /\ thread.codex = QuotaOf(l)
      BY <1>1 DEF QuotaInv, HasRead
    <2>2. \A l \in Logs : l \in QFiles
      BY DEF QFiles, Quota!Files
    <2>3. ASSUME NEW l \in Quota!Recent, NEW at \in Quota!Visible(l)
          PROVE  at <= thread.codex
      <3>1. l \in Logs /\ disk[l] # None /\ l \in thread.chosen
        BY <2>1, RecentAreChosen DEF Quota!Recent
      <3>2. disk[l] \in QFile
        BY <2>2, <3>1, FileIs DEF QuotaInv
      <3>3. PICK j \in DOMAIN disk[l].lines :
               /\ at = disk[l].lines[j] /\ 2 * j <= Quota!Size(disk[l])
               /\ 2 * j - 2 > Quota!Size(disk[l]) - Budget
        BY <3>1 DEF Quota!Visible
      <3>4. at <= QuotaOf(l) /\ at \in Nat /\ QuotaOf(l) \in Nat
        BY <2>2, <3>1, <3>2, <3>3, LogIs, SizeIs, QuotaIs DEF QuotaOf, QuotaInv
      <3> QED
        BY <1>2, <2>1, <3>1, <3>4
    <2>4. ASSUME NEW l \in Logs, disk[l] # None, thread.codex = QuotaOf(l), thread.codex # 0
          PROVE  thread.codex \in Quota!Ended(l)
      <3>1. disk[l] \in QFile
        BY <2>2, <2>4, FileIs DEF QuotaInv
      <3> QED
        BY <2>4, <3>1, LogIs DEF QuotaOf, Quota!Ended
    <2>5. CASE disk[Claude] # None
      <3>1. disk[Claude] \in QFile /\ ~disk[Claude].partial
        BY <2>5, FileIs DEF QuotaInv, ClaudeIsWhole, QFiles, Quota!Files
      <3> QED
        BY <2>1, <2>3, <2>4, <2>5, <3>1, ClaudeIs DEF QuotaOf
    <2>6. CASE disk[Claude] = None
      BY <2>1, <2>3, <2>4, <2>6 DEF QuotaOf
    <2> QED
      BY <2>5, <2>6
  <1> QED
    BY <1>6, <1>7, <1>8, <1>9 DEF QuotaInv

\* Nothing is written and nothing read at first.
LEMMA QuotaInit ==
  ASSUME Quota!Init
  PROVE  QuotaInv
  <1>1. Quota!TypeOK
    <2>1. DOMAIN cache = {}
      BY DEF Quota!Init
    <2>2. Quota!Cardinality(DOMAIN cache) = 0
      BY <2>1, SameCount, FS_EmptySet
    <2>3. 0 \in 0..MaxTime /\ 1 \in 1..MaxTime /\ 0 <= Candidates + 1
      BY QuotaAssumption
    <2>4. disk \in [Quota!Files -> Quota!File \cup {None}] /\ clock \in 1..MaxTime
      BY <2>3 DEF Quota!Init
    <2>5. shown \in [claude: 0..MaxTime, codex: 0..MaxTime] /\ calm \in BOOLEAN
      BY <2>3 DEF Quota!Init
    <2>6. thread = None
      BY DEF Quota!Init
    <2>7. Quota!Cardinality(DOMAIN cache) <= Candidates + 1
      BY <2>2, <2>3
    <2> QED
      BY Zenon, <2>1, <2>4, <2>5, <2>6, <2>7 DEF Quota!TypeOK
  <1>2. ClaudeIsWhole /\ CacheIsOf /\ Quota!CacheIsSound
    BY DEF Quota!Init, ClaudeIsWhole, CacheIsOf, Quota!CacheIsSound, Quota!Files
  <1>3. OpenIsOf /\ InOrder /\ HasRead /\ Quota!ShownIsNewest
    BY DEF Quota!Init, OpenIsOf, InOrder, HasRead, Quota!ShownIsNewest
  <1> QED
    BY <1>1, <1>2, <1>3 DEF QuotaInv

\* Every step of a refresh and of the other programs keeps the invariant.
LEMMA QuotaStep ==
  ASSUME QuotaInv, [Quota!Next]_(Quota!vars)
  PROVE  QuotaInv'
  <1>1. CASE Quota!Next
    <2>1. ASSUME NEW set \in SUBSET Logs, Quota!List(set) PROVE QuotaInv'
      BY <2>1, ListKeeps
    <2>2. ASSUME NEW f \in Quota!Files, Quota!Open(f) PROVE QuotaInv'
      BY <2>2, OpenKeeps DEF QFiles
    <2> QED
      BY Zenon, <1>1, <2>1, <2>2, WritesKeep, BeginKeeps, ReadKeeps, FinishKeeps DEF Quota!Next
  <1>2. CASE UNCHANGED Quota!vars
    <2>1. UNCHANGED <<disk, clock, cache, thread, shown, calm>>
      BY <1>2 DEF Quota!vars
    <2>2. Quota!TypeOK' /\ ClaudeIsWhole' /\ CacheIsOf' /\ Quota!CacheIsSound'
      BY <2>1 DEF QuotaInv, Quota!TypeOK, ClaudeIsWhole, CacheIsOf, Quota!CacheIsSound
    <2>3. OpenIsOf' /\ InOrder'
      BY <2>1 DEF QuotaInv, OpenIsOf, InOrder
    <2>4. HasRead' /\ Quota!ShownIsNewest'
      <3>1. \A g : QuotaOf(g)' = QuotaOf(g) /\ Quota!Chosen(g)' = Quota!Chosen(g)
                   /\ Quota!Visible(g)' = Quota!Visible(g) /\ Quota!Ended(g)' = Quota!Ended(g)
        BY <2>1 DEF QuotaOf, Quota!Chosen, Quota!Visible, Quota!Ended
      <3>2. Quota!Recent' = Quota!Recent
        BY <2>1 DEF Quota!Recent
      <3>3. HasRead'
        BY <2>1, <3>1 DEF QuotaInv, HasRead
      <3>4. Quota!ShownIsNewest'
        BY <2>1, <3>1, <3>2 DEF QuotaInv, Quota!ShownIsNewest
      <3> QED
        BY <3>3, <3>4
    <2> QED
      BY <2>2, <2>3, <2>4 DEF QuotaInv
  <1> QED
    BY <1>1, <1>2

\* QuotaReader: what is kept of a file is what reading it would give, however it grew
\* meanwhile, and the newest quota of the recent logs is shown.
THEOREM QuotasHold == ApplicationSpec => []QuotasAreCurrent
  <1>1. Start => QuotaInv
    BY QuotaInit DEF Start
  <1>2. [Step]_application => [Quota!Next]_(Quota!vars)
    BY DEF Step, application, quotaVars, Quota!vars
  <1>3. QuotaInv /\ [Quota!Next]_(Quota!vars) => QuotaInv'
    BY QuotaStep
  <1>4. QuotaInv => QuotasAreCurrent
    BY DEF QuotaInv, QuotasAreCurrent
  <1> QED
    BY <1>1, <1>2, <1>3, <1>4, PTL DEF ApplicationSpec
=============================================================================
