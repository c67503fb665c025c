---------------------------- MODULE DesktopProofs ----------------------------
(***************************************************************************)
(* Proofs about Desktop, for every number of worktrees, tabs and panes, and *)
(* of repositories.                                                         *)
(*                                                                          *)
(* Tabs.  Nearly all of what the window shows is sound whatever happens     *)
(* (Good).  That there is an active tab, and that the answer to a question  *)
(* still fits, holds while nothing happened behind a question (raced): then *)
(* at most one is asked, and the tab or pane it names is still there, with  *)
(* the same tab to follow it (StillFits).  Each handler is one lemma, from  *)
(* what the operations on the window return.                                *)
(*                                                                          *)
(* Chrome.  The timers of both panels wait for what the mouse still asks    *)
(* for: every handler either keeps what an intent is about or takes the     *)
(* intent back (Calm).                                                      *)
(*                                                                          *)
(* SidebarScan and QuotaPoll.  The rows that are under way hold the home    *)
(* directory's; while the quotas shown are fresh a timer waits for the next *)
(* reading, unless its thread could not be started.                         *)
(***************************************************************************)
EXTENDS Desktop, FiniteSetTheorems, WellFoundedInduction, SequenceTheorems, TLAPS

-----------------------------------------------------------------------------
(* The inductive invariant *)

\* A tab that is not there has nothing, and no identifier was given out twice.
Unused(u) ==
    /\ \A i \in Ids \ u.items : u.ws[i] = None /\ u.panes[i] = {} /\ u.zoom[i] = 0
    /\ \A i \in u.items : u.ws[i] # None /\ i <= u.tabs /\ \A p \in u.panes[i] : p <= u.made

\* No pane is in two tabs.
Apart(u) == \A i, j \in u.items : i # j => u.panes[i] \cap u.panes[j] = {}

\* A worktree with tabs has an active one.
Remembered(u) ==
    \A w \in Workspaces : IF Of(u, w) = {} THEN u.active[w] = 0 ELSE u.active[w] \in Of(u, w)

\* More than one.
Several(S) == \E p, q \in S : p # q

\* A zoomed pane is one of several of its tab.
Zoomed(u) == \A i \in u.items : u.zoom[i] # 0 => u.zoom[i] \in u.panes[i] /\ Several(u.panes[i])

\* Tabs, panes and what is active agree.
Sound(u) == u \in UiRec /\ Unused(u) /\ Apart(u) /\ Remembered(u) /\ Zoomed(u)
Good(u)  == Sound(u) /\ (u.current # None => Of(u, u.current) # {})

\* There is an active tab, and no tab without a pane.
Shown(u) ==
    /\ u.tabs > 0 => ActiveId(u) # 0
    /\ \A i \in u.items : u.panes[i] # {}

\* The overview covers the active tab.
Current(u) == u.overview # 0 => u.overview = ActiveId(u)

\* No other tab is to follow i only where one of its worktree does.
Followed(u, i, other) ==
    /\ other = Successor(u, i)
    /\ Siblings(u, i) = {i} /\ u.current = u.ws[i] => other # 0

\* What a question was asked for still holds while nothing happened behind it.
StillFits(u, q) ==
    /\ q.why = "tab" => q.tab \in u.items /\ Followed(u, q.tab, q.other)
    /\ q.why = "pane" => \E i \in u.items : q.pane \in u.panes[i] /\ Several(u.panes[i])

\* Questions about a tab or a pane.
AboutTabs(q) == q.why \in {"tab", "pane"}

\* A question stands alone, unless something happened behind it.
TabsInv ==
    /\ Good(ui) /\ Current(ui)
    /\ window \in {"open", "closed", "quit"} /\ raced \in BOOLEAN
    /\ busy \subseteq LivePanes(ui) /\ pending \subseteq Panes /\ busy \cap pending = {}
    /\ asks \in Seq(QuestionRec)
    /\ \A k \in 1..Len(asks) : AboutTabs(asks[k]) => ui.overview = 0
    /\ ~raced => /\ Shown(ui) /\ Len(asks) <= 1
                 /\ \A k \in 1..Len(asks) : StillFits(ui, asks[k])

-----------------------------------------------------------------------------
(* First and Last *)

\* The order of the numbers is well-founded.
LEMMA LessIsWellFounded == IsWellFoundedOn({ss \in Nat \X Nat : ss[1] < ss[2]}, Nat)
  BY NatLessThanWellFounded DEF OpToRel

\* A set of numbers has a least one;
LEMMA HasFirst ==
  ASSUME NEW S \in SUBSET Nat, S # {}
  PROVE  \E m \in S : \A k \in S : m <= k
  <1> DEFINE R == {ss \in Nat \X Nat : ss[1] < ss[2]}
  <1>1. IsWellFoundedOn(R, Nat)
    BY LessIsWellFounded
  <1> HIDE DEF R
  <1>2. PICK m \in S : \A k \in S : ~(<<k, m>> \in R)
    BY <1>1, WFMin
  <1>3. \A k \in S : ~(k < m)
    BY <1>2 DEF R
  <1> QED
    BY <1>3

\* one that is bounded has a greatest.
LEMMA HasLast ==
  ASSUME NEW n \in Nat, NEW S \in SUBSET (1..n), S # {}
  PROVE  \E m \in S : \A k \in S : k <= m
  <1> DEFINE T == {n - k : k \in S}
  <1>1. \A k \in S : n - k \in Nat
    OBVIOUS
  <1>2. T \in SUBSET Nat /\ T # {}
    BY <1>1
  <1>3. PICK t \in T : \A k \in T : t <= k
    BY <1>2, HasFirst
  <1>4. PICK m \in S : t = n - m
    BY <1>3
  <1>5. \A k \in S : n - m <= n - k
    BY <1>3, <1>4
  <1> QED
    BY <1>5

\* The first of some tabs is one of them,
LEMMA FirstIn == \A S \in SUBSET Ids : S # {} => First(S) \in S
  <1> TAKE S \in SUBSET Ids
  <1>1. S \in SUBSET Nat
    BY TabBounds DEF Ids
  <1> QED
    BY <1>1, HasFirst DEF First

\* and so is the last.
LEMMA LastIn == \A S \in SUBSET Ids : S # {} => Last(S) \in S
  BY HasLast, TabBounds DEF Last, Ids

\* A tab has several panes when they are more than one.
LEMMA SeveralIs ==
  \A S \in SUBSET Panes : Cardinality(S) \in Nat /\ (Several(S) <=> ~(Cardinality(S) <= 1))
  <1> TAKE S \in SUBSET Panes
  <1>1. IsFiniteSet(S)
    <2>1. IsFiniteSet(1..MaxPanes)
      BY FS_Interval, TabBounds
    <2> QED
      BY <2>1, FS_Subset DEF Panes
  <1>2. Cardinality(S) \in Nat
    BY <1>1, FS_CardinalityType
  <1>3. CASE S = {}
    BY <1>3, FS_EmptySet DEF Several
  <1>4. ASSUME NEW p \in S
        PROVE  Several(S) <=> ~(Cardinality(S) <= 1)
    <2>1. IsFiniteSet(S \ {p}) /\ Cardinality(S \ {p}) = Cardinality(S) - 1
      BY <1>1, FS_RemoveElement
    <2>2. Cardinality(S \ {p}) \in Nat /\ (Cardinality(S \ {p}) = 0 <=> S \ {p} = {})
      BY <2>1, FS_CardinalityType, FS_EmptySet
    <2>3. Several(S) <=> S \ {p} # {}
      BY DEF Several
    <2> QED
      BY <1>2, <2>1, <2>2, <2>3
  <1> QED
    BY <1>2, <1>3, <1>4

-----------------------------------------------------------------------------
(* The operations of tabs.rs *)

\* The active tab is one of the current worktree, if there is one.
LEMMA ActiveIn ==
  ASSUME NEW u, Good(u)
  PROVE  /\ ActiveId(u) # 0 => ActiveId(u) \in u.items /\ u.current # None /\ u.ws[ActiveId(u)] = u.current
         /\ u.current # None => ActiveId(u) \in u.items /\ ActiveId(u) # 0
  BY DEF Good, Sound, UiRec, Remembered, Of, ActiveId, Ids

\* Nothing but the overview.
Alike(u, v) ==
    /\ v \in UiRec
    /\ v.items = u.items /\ v.ws = u.ws /\ v.panes = u.panes /\ v.zoom = u.zoom
    /\ v.active = u.active /\ v.current = u.current /\ v.tabs = u.tabs /\ v.made = u.made

\* Leaving the overview changes nothing else.
LEMMA DismissIs ==
  ASSUME NEW u \in UiRec
  PROVE  Alike(u, DismissOverview(u)) /\ DismissOverview(u).overview = 0
  BY TabBounds DEF UiRec, DismissOverview, Alike

\* Windows that differ in the overview only are as sound as each other.
LEMMA AlikeAreGood ==
  ASSUME NEW u, NEW v, Good(u), Alike(u, v)
  PROVE  /\ Good(v) /\ LivePanes(v) = LivePanes(u) /\ ActiveId(v) = ActiveId(u)
         /\ Shown(u) => Shown(v)
         /\ \A i : Successor(v, i) = Successor(u, i) /\ Siblings(v, i) = Siblings(u, i)
  BY DEF Alike, Good, Sound, Unused, Apart, Remembered, Zoomed, Of, LivePanes, ActiveId, Shown,
         Siblings, Successor, Other

\* What making a tab the active one changes;
LEMMA SetActiveIs ==
  ASSUME NEW u, Good(u), NEW i \in u.items
  PROVE  LET v == SetActive(u, i) IN
         /\ v \in UiRec
         /\ v.items = u.items /\ v.ws = u.ws /\ v.panes = u.panes /\ v.zoom = u.zoom
         /\ v.active = [u.active EXCEPT ![u.ws[i]] = i] /\ v.current = u.ws[i]
         /\ v.overview = u.overview /\ v.tabs = u.tabs /\ v.made = u.made
         /\ u.ws[i] \in Workspaces
  <1>1. u \in UiRec /\ u.ws[i] \in Workspaces /\ i \in Ids /\ i \in 0..MaxTabs
    BY TabBounds DEF Good, Sound, UiRec, Unused, Ids
  <1>2. [u.active EXCEPT ![u.ws[i]] = i] \in [Workspaces -> 0..MaxTabs]
    BY <1>1 DEF UiRec
  <1>3. SetActive(u, i) \in UiRec
    BY <1>1, <1>2 DEF SetActive, UiRec
  <1> QED
    BY <1>1, <1>3 DEF SetActive, UiRec

\* it keeps the window sound.
LEMMA SetActiveGood ==
  ASSUME NEW u, Good(u), NEW i \in Nat
  PROVE  LET v == SetActive(u, i) IN
         /\ Good(v) /\ LivePanes(v) = LivePanes(u) /\ v.overview = u.overview
         /\ i \in u.items => ActiveId(v) = i
         /\ \A j \in v.items : v.panes[j] = u.panes[j] /\ j \in u.items
  <1> DEFINE v == SetActive(u, i)
  <1>1. CASE i \notin u.items
    BY <1>1 DEF SetActive
  <1>2. CASE i \in u.items
    <2>1. /\ v \in UiRec
          /\ v.items = u.items /\ v.ws = u.ws /\ v.panes = u.panes /\ v.zoom = u.zoom
          /\ v.active = [u.active EXCEPT ![u.ws[i]] = i] /\ v.current = u.ws[i]
          /\ v.overview = u.overview /\ v.tabs = u.tabs /\ v.made = u.made
          /\ u.ws[i] \in Workspaces
      BY <1>2, SetActiveIs
    <2> HIDE DEF v
    <2>2. Unused(v) /\ Apart(v) /\ Zoomed(v)
      BY <2>1 DEF Good, Sound, Unused, Apart, Zoomed
    <2>3. Remembered(v) /\ Of(v, v.current) # {} /\ ActiveId(v) = i
      BY <1>2, <2>1, TabBounds DEF Good, Sound, UiRec, Remembered, Of, ActiveId
    <2>4. LivePanes(v) = LivePanes(u)
      BY <2>1 DEF LivePanes
    <2> QED
      BY <2>1, <2>2, <2>3, <2>4 DEF Good, Sound, v
  <1> QED
    BY <1>1, <1>2

\* So does selecting a tab.
LEMMA ActivateTabGood ==
  ASSUME NEW u, Good(u), NEW i \in Nat
  PROVE  LET v == ActivateTab(u, i) IN
         /\ Good(v) /\ LivePanes(v) = LivePanes(u) /\ v.overview = 0
         /\ i \in u.items => ActiveId(v) = i
         /\ i \notin u.items => ActiveId(v) = ActiveId(u)
         /\ \A j \in v.items : v.panes[j] = u.panes[j] /\ j \in u.items
  <1> DEFINE d == DismissOverview(u)
  <1>1. Alike(u, d) /\ d.overview = 0
    BY DismissIs DEF Good, Sound
  <1> HIDE DEF d
  <1>2. Good(d) /\ LivePanes(d) = LivePanes(u) /\ ActiveId(d) = ActiveId(u)
    BY <1>1, AlikeAreGood
  <1>3. d.items = u.items /\ d.panes = u.panes
    BY <1>1 DEF Alike
  <1>4. /\ Good(SetActive(d, i)) /\ LivePanes(SetActive(d, i)) = LivePanes(d)
        /\ SetActive(d, i).overview = d.overview
        /\ i \in d.items => ActiveId(SetActive(d, i)) = i
        /\ \A j \in SetActive(d, i).items : SetActive(d, i).panes[j] = d.panes[j] /\ j \in d.items
    BY <1>2, SetActiveGood
  <1>5. i \notin d.items => SetActive(d, i) = d
    BY DEF SetActive
  <1> QED
    BY <1>1, <1>2, <1>3, <1>4, <1>5 DEF ActivateTab, d

\* What making a worktree the current one changes.
LEMMA EnterIs ==
  ASSUME NEW u, Sound(u), NEW w \in Workspaces
  PROVE  /\ Enter(u, w) \in UiRec
         /\ Enter(u, w) = [u EXCEPT !.current = w]
         /\ Enter(u, w).active = u.active /\ Enter(u, w).current = w
  <1> DEFINE v == [u EXCEPT !.current = w]
             i == IF u.active[w] \in u.items THEN u.active[w]
                  ELSE IF Of(u, w) # {} THEN First(Of(u, w)) ELSE 0
  <1>1. u \in UiRec /\ v \in UiRec /\ v.active = u.active /\ v.current = w
    BY DEF Sound, UiRec
  <1>2. i = 0 \/ i = u.active[w]
    BY DEF Sound, Remembered, Of
  <1>3. Enter(u, w) = [v EXCEPT !.active[w] = IF i # 0 THEN i ELSE @]
    BY <1>1 DEF Enter, UiRec
  <1>4. (IF i # 0 THEN i ELSE u.active[w]) = u.active[w]
    BY <1>2
  <1> HIDE DEF i
  <1>5. [u.active EXCEPT ![w] = IF i # 0 THEN i ELSE @] = u.active
    BY <1>1, <1>4 DEF UiRec
  <1>6. Enter(u, w) = v
    BY <1>1, <1>3, <1>5 DEF UiRec
  <1> QED
    BY <1>1, <1>6

\* What a new tab changes;
LEMMA PushIs ==
  ASSUME NEW u \in UiRec, NEW w \in Workspaces, u.tabs < MaxTabs, u.made < MaxPanes
  PROVE  LET i == u.tabs + 1  p == u.made + 1  v == Push(u, w) IN
         /\ v \in UiRec /\ i \in Ids /\ p \in Panes
         /\ v.items = u.items \cup {i} /\ v.ws = [u.ws EXCEPT ![i] = w]
         /\ v.panes = [u.panes EXCEPT ![i] = {p}] /\ v.zoom = u.zoom
         /\ v.active = [u.active EXCEPT ![w] = i] /\ v.current = w
         /\ v.overview = u.overview /\ v.tabs = i /\ v.made = p
  <1> DEFINE i == u.tabs + 1
             p == u.made + 1
  <1>1. i \in Ids /\ p \in Panes /\ i \in 0..MaxTabs /\ p \in 0..MaxPanes
    BY TabBounds DEF UiRec, Ids, Panes
  <1>2. /\ u.items \cup {i} \in SUBSET Ids /\ [u.ws EXCEPT ![i] = w] \in [Ids -> Workspaces \cup {None}]
        /\ [u.panes EXCEPT ![i] = {p}] \in [Ids -> SUBSET Panes]
        /\ [u.active EXCEPT ![w] = i] \in [Workspaces -> 0..MaxTabs]
    BY <1>1 DEF UiRec
  <1>3. Push(u, w) = [u EXCEPT !.items = @ \cup {i}, !.ws[i] = w, !.panes[i] = {p}, !.active[w] = i,
                               !.current = w, !.tabs = i, !.made = p]
    BY DEF Push
  <1> HIDE DEF i, p
  <1>4. Push(u, w) \in UiRec
    BY <1>1, <1>2, <1>3 DEF UiRec
  <1>5. /\ Push(u, w).items = u.items \cup {i} /\ Push(u, w).ws = [u.ws EXCEPT ![i] = w]
        /\ Push(u, w).panes = [u.panes EXCEPT ![i] = {p}] /\ Push(u, w).zoom = u.zoom
        /\ Push(u, w).active = [u.active EXCEPT ![w] = i] /\ Push(u, w).current = w
        /\ Push(u, w).overview = u.overview /\ Push(u, w).tabs = i /\ Push(u, w).made = p
    BY <1>3 DEF UiRec
  <1> QED
    BY <1>1, <1>4, <1>5 DEF i, p

\* it keeps the window sound.
LEMMA PushGood ==
  ASSUME NEW u, Sound(u), NEW w \in Workspaces, u.tabs < MaxTabs, u.made < MaxPanes
  PROVE  LET v == Push(u, w) IN
         /\ Good(v) /\ LivePanes(u) \subseteq LivePanes(v) /\ v.overview = u.overview
         /\ ActiveId(v) # 0
         /\ (\A i \in u.items : u.panes[i] # {}) => \A i \in v.items : v.panes[i] # {}
  <1> DEFINE i == u.tabs + 1
             p == u.made + 1
             v == Push(u, w)
  <1>1. /\ v \in UiRec /\ i \in Ids /\ p \in Panes
        /\ v.items = u.items \cup {i} /\ v.ws = [u.ws EXCEPT ![i] = w]
        /\ v.panes = [u.panes EXCEPT ![i] = {p}] /\ v.zoom = u.zoom
        /\ v.active = [u.active EXCEPT ![w] = i] /\ v.current = w
        /\ v.overview = u.overview /\ v.tabs = i /\ v.made = p
    BY PushIs DEF Sound
  <1>2. u \in UiRec /\ u.tabs \in Nat /\ u.made \in Nat /\ i = u.tabs + 1 /\ p = u.made + 1
    BY DEF Sound, UiRec
  <1> HIDE DEF v, i, p
  <1>3. i \notin u.items /\ \A j \in u.items : p \notin u.panes[j]
    BY <1>2 DEF Sound, Unused
  <1>4. Unused(v)
    <2>1. ASSUME NEW j \in Ids \ v.items
          PROVE  v.ws[j] = None /\ v.panes[j] = {} /\ v.zoom[j] = 0
      BY <1>1, <1>2 DEF Sound, Unused, UiRec
    <2>2. ASSUME NEW j \in v.items
          PROVE  v.ws[j] # None /\ j <= v.tabs /\ \A q \in v.panes[j] : q <= v.made
      <3>1. CASE j = i
        BY <1>1, <1>2, <3>1, TabBounds DEF UiRec
      <3>2. CASE j # i
        <4>3. j \in u.items /\ v.ws[j] = u.ws[j] /\ v.panes[j] = u.panes[j]
          BY <1>1, <1>2, <2>2, <3>2 DEF UiRec
        <4>4. j \in Ids /\ u.panes[j] \in SUBSET Panes
          BY <1>2, <4>3 DEF UiRec
        <4>1. /\ j \in u.items /\ j \in Nat /\ v.ws[j] = u.ws[j] /\ v.panes[j] = u.panes[j]
              /\ v.panes[j] \subseteq Nat
          BY <4>3, <4>4 DEF Ids, Panes
        <4>2. u.ws[j] # None /\ j <= u.tabs /\ \A q \in u.panes[j] : q <= u.made
          BY <4>1 DEF Sound, Unused
        <4> QED
          BY <1>1, <1>2, <4>1, <4>2
      <3> QED
        BY <3>1, <3>2
    <2> QED
      BY <2>1, <2>2 DEF Unused
  <1>5. Apart(v)
    BY <1>1, <1>2, <1>3 DEF Sound, Apart, UiRec
  <1>6. Zoomed(v)
    BY <1>1, <1>2, <1>3 DEF Sound, Zoomed, UiRec, Unused
  <1>7. Of(v, w) = Of(u, w) \cup {i} /\ \A x \in Workspaces \ {w} : Of(v, x) = Of(u, x)
    BY <1>1, <1>2, <1>3 DEF Of, UiRec
  <1>8. Remembered(v)
    BY <1>1, <1>2, <1>7 DEF Sound, Remembered, UiRec
  <1>9. ActiveId(v) = i /\ i # 0 /\ Of(v, v.current) # {}
    BY <1>1, <1>2, <1>7, TabBounds DEF ActiveId, UiRec
  <1>10. LivePanes(u) \subseteq LivePanes(v)
    BY <1>1, <1>2, <1>3 DEF LivePanes, UiRec
  <1>11. (\A j \in u.items : u.panes[j] # {}) => \A j \in v.items : v.panes[j] # {}
    BY <1>1, <1>2, <1>3 DEF UiRec
  <1> QED
    BY <1>1, <1>4, <1>5, <1>6, <1>8, <1>9, <1>10, <1>11 DEF Good, Sound, v

\* A worktree that is opened has a tab.
LEMMA OpenWorktreeGood ==
  ASSUME NEW u, Good(u), u.overview = 0, NEW w \in Workspaces,
         Of(u, w) = {} => u.tabs < MaxTabs /\ u.made < MaxPanes
  PROVE  LET v == OpenWorktree(u, w) IN
         /\ Good(v) /\ LivePanes(u) \subseteq LivePanes(v) /\ v.overview = 0
         /\ Shown(u) => Shown(v)
  <1> DEFINE e == Enter(u, w)
  <1>1. e \in UiRec /\ e = [u EXCEPT !.current = w] /\ e.active = u.active /\ e.current = w
    BY EnterIs DEF Good
  <1> HIDE DEF e
  <1>2. /\ e.items = u.items /\ e.ws = u.ws /\ e.panes = u.panes /\ e.zoom = u.zoom
        /\ e.overview = u.overview /\ e.tabs = u.tabs /\ e.made = u.made
    BY <1>1 DEF Good, Sound, UiRec
  <1>3. Sound(e) /\ LivePanes(e) = LivePanes(u) /\ Of(e, w) = Of(u, w)
    BY <1>1, <1>2 DEF Good, Sound, Unused, Apart, Remembered, Zoomed, Of, LivePanes
  <1>4. CASE Of(u, w) # {}
    <2>1. Good(e) /\ e.active[w] \in e.items /\ e.active[w] \in Nat /\ e.active[w] # 0
      <3>1. u.active[w] \in Of(u, w)
        BY <1>4 DEF Good, Sound, Remembered
      <3>2. u.active[w] \in u.items /\ u.active[w] \in Ids
        BY <3>1 DEF Of, Good, Sound, UiRec
      <3>3. Good(e)
        BY <1>1, <1>3, <1>4 DEF Good
      <3> QED
        BY <1>1, <1>2, <3>2, <3>3 DEF Ids
    <2>2. OpenWorktree(u, w) = ActivateTab(e, e.active[w])
      BY <1>4 DEF OpenWorktree, e
    <2> HIDE DEF e
    <2>3. LET v == ActivateTab(e, e.active[w]) IN
          /\ Good(v) /\ LivePanes(v) = LivePanes(e) /\ v.overview = 0
          /\ ActiveId(v) = e.active[w]
          /\ \A j \in v.items : v.panes[j] = e.panes[j] /\ j \in e.items
      BY <2>1, ActivateTabGood
    <2> QED
      BY <1>2, <1>3, <2>1, <2>2, <2>3 DEF Shown
  <1>5. CASE Of(u, w) = {}
    <2>1. OpenWorktree(u, w) = Push(e, w)
      BY <1>5 DEF OpenWorktree, e
    <2>2. LET v == Push(e, w) IN
          /\ Good(v) /\ LivePanes(e) \subseteq LivePanes(v) /\ v.overview = e.overview
          /\ ActiveId(v) # 0
          /\ (\A i \in e.items : e.panes[i] # {}) => \A i \in v.items : v.panes[i] # {}
      BY <1>2, <1>3, <1>5, PushGood
    <2> QED
      BY <1>2, <1>3, <2>1, <2>2 DEF Shown
  <1> QED
    BY <1>4, <1>5

\* The tab after one of several is another of its worktree.
LEMMA NextTabIs ==
  ASSUME NEW u \in UiRec, NEW i \in u.items
  PROVE  \/ NextTab(u, i) = 0 /\ Siblings(u, i) = {i}
         \/ NextTab(u, i) \in Siblings(u, i) \ {i}
  <1> DEFINE right == {j \in Siblings(u, i) : j > i}
             left == {j \in Siblings(u, i) : j < i}
  <1>1. Siblings(u, i) \subseteq Ids /\ i \in Siblings(u, i) /\ i \in Ids
    BY DEF Siblings, Of, UiRec
  <1>2. \A j \in Siblings(u, i) : j = i \/ j \in right \/ j \in left
    BY <1>1, TabBounds DEF Ids
  <1>3. /\ right # {} => First(right) \in right
        /\ left # {} => Last(left) \in left
    BY <1>1, FirstIn, LastIn
  <1>4. NextTab(u, i) = IF right # {} THEN First(right) ELSE IF left # {} THEN Last(left) ELSE 0
    BY DEF NextTab
  <1>5. i \notin right /\ i \notin left /\ right \subseteq Siblings(u, i) /\ left \subseteq Siblings(u, i)
    BY <1>1, TabBounds DEF Ids
  <1> HIDE DEF right, left
  <1> QED
    BY <1>1, <1>2, <1>3, <1>4, <1>5

\* The tab of another worktree is not of this one.
LEMMA OtherIs ==
  ASSUME NEW u, Good(u), NEW w
  PROVE  Other(u, w) = 0 \/ Other(u, w) \in u.items \ Of(u, w)
  <1> DEFINE rest == u.items \ Of(u, w)
             v == u.ws[First(rest)]
  <1>1. CASE rest = {}
    BY <1>1 DEF Other
  <1>2. CASE rest # {}
    <2>1. First(rest) \in rest
      BY <1>2, FirstIn DEF Good, Sound, UiRec
    <2>2. v # w /\ v \in Workspaces
      BY <2>1, TabBounds DEF Of, Good, Sound, Unused, UiRec
    <2>3. u.active[v] \in u.items => u.active[v] \notin Of(u, w)
      <3> HIDE DEF v
      <3>1. 0 \notin u.items
        BY DEF Good, Sound, UiRec, Ids
      <3>2. u.active[v] \in u.items => u.active[v] \in Of(u, v)
        BY <2>2, <3>1 DEF Good, Sound, Remembered
      <3> QED
        BY <2>2, <3>2 DEF Of
    <2> HIDE DEF v
    <2>4. Other(u, w) = IF u.active[v] \in u.items THEN u.active[v] ELSE First(rest)
      BY <1>2 DEF Other, v
    <2> QED
      BY <2>1, <2>3, <2>4
  <1> QED
    BY <1>1, <1>2

\* What taking a tab out changes;
LEMMA RemoveIs ==
  ASSUME NEW u, Good(u), NEW i \in u.items
  PROVE  LET v == Remove(u, i)  w == u.ws[i]  next == NextTab(u, i) IN
         /\ v \in UiRec /\ w \in Workspaces /\ i \in Ids
         /\ v.items = u.items \ {i} /\ v.ws = [u.ws EXCEPT ![i] = None]
         /\ v.panes = [u.panes EXCEPT ![i] = {}] /\ v.zoom = [u.zoom EXCEPT ![i] = 0]
         /\ v.overview = u.overview /\ v.tabs = u.tabs /\ v.made = u.made
         /\ u.active[w] # i => v.active = u.active /\ v.current = u.current
         /\ u.active[w] = i => /\ v.active = [u.active EXCEPT ![w] = next]
                               /\ v.current = IF next = 0 /\ u.current = w THEN None ELSE u.current
  <1> DEFINE w == u.ws[i]
             next == NextTab(u, i)
             r == [u EXCEPT !.items = @ \ {i}, !.ws[i] = None, !.panes[i] = {}, !.zoom[i] = 0]
             s == [r EXCEPT !.active[w] = next,
                            !.current = IF next = 0 /\ @ = w THEN None ELSE @]
  <1>1. u \in UiRec /\ w \in Workspaces /\ i \in Ids
    BY DEF Good, Sound, UiRec, Unused
  <1>2. next \in 0..MaxTabs
    <2>1. next = 0 \/ next \in Ids
      BY <1>1, NextTabIs DEF Siblings, Of, UiRec
    <2> QED
      BY <2>1, TabBounds DEF Ids
  <1>3. Remove(u, i) = IF u.active[w] # i THEN r ELSE s
    BY DEF Remove
  <1> HIDE DEF next, w
  <1>4. /\ u.items \ {i} \in SUBSET Ids /\ [u.ws EXCEPT ![i] = None] \in [Ids -> Workspaces \cup {None}]
        /\ [u.panes EXCEPT ![i] = {}] \in [Ids -> SUBSET Panes]
        /\ [u.zoom EXCEPT ![i] = 0] \in [Ids -> 0..MaxPanes]
        /\ [u.active EXCEPT ![w] = next] \in [Workspaces -> 0..MaxTabs]
    BY <1>1, <1>2, TabBounds DEF UiRec
  <1>5. /\ r \in UiRec
        /\ r.items = u.items \ {i} /\ r.ws = [u.ws EXCEPT ![i] = None]
        /\ r.panes = [u.panes EXCEPT ![i] = {}] /\ r.zoom = [u.zoom EXCEPT ![i] = 0]
        /\ r.overview = u.overview /\ r.tabs = u.tabs /\ r.made = u.made
        /\ r.active = u.active /\ r.current = u.current
    BY <1>1, <1>4 DEF UiRec
  <1> HIDE DEF r
  <1>6. (IF next = 0 /\ r.current = w THEN None ELSE r.current) \in Workspaces \cup {None}
    BY <1>5 DEF UiRec
  <1>7. /\ s \in UiRec
        /\ s.items = r.items /\ s.ws = r.ws /\ s.panes = r.panes /\ s.zoom = r.zoom
        /\ s.overview = r.overview /\ s.tabs = r.tabs /\ s.made = r.made
        /\ s.active = [u.active EXCEPT ![w] = next]
        /\ s.current = IF next = 0 /\ u.current = w THEN None ELSE u.current
    BY <1>4, <1>5, <1>6 DEF UiRec
  <1> HIDE DEF s
  <1>8. CASE u.active[w] # i
    BY <1>1, <1>3, <1>5, <1>8 DEF w, next
  <1>9. CASE u.active[w] = i
    BY <1>1, <1>3, <1>5, <1>7, <1>9 DEF w, next
  <1> QED
    BY <1>8, <1>9

\* it keeps the window sound and every other tab.
LEMMA RemoveGood ==
  ASSUME NEW u, Good(u), NEW i \in Nat
  PROVE  LET v == Remove(u, i) IN
         /\ Good(v) /\ v.overview = u.overview /\ LivePanes(v) \subseteq LivePanes(u)
         /\ \A j \in u.items \ {i} : j \in v.items
         /\ i \notin v.items /\ v.tabs = u.tabs
         /\ \A j \in v.items : j \in u.items /\ v.panes[j] = u.panes[j]
         /\ \A p \in LivePanes(u) \ LivePanes(v) : i \in u.items /\ p \in u.panes[i]
         /\ i \notin u.items => v = u
         /\ i \in u.items /\ (u.current # u.ws[i] \/ u.active[u.ws[i]] # i) => ActiveId(v) = ActiveId(u)
         /\ i \in u.items /\ Siblings(u, i) # {i} /\ u.current # None => ActiveId(v) # 0
  <1> DEFINE v == Remove(u, i)
             w == u.ws[i]
             next == NextTab(u, i)
  <1>1. CASE i \notin u.items
    BY <1>1 DEF Remove
  <1>2. CASE i \in u.items
    <2>1. /\ v \in UiRec /\ w \in Workspaces /\ i \in Ids
          /\ v.items = u.items \ {i} /\ v.ws = [u.ws EXCEPT ![i] = None]
          /\ v.panes = [u.panes EXCEPT ![i] = {}] /\ v.zoom = [u.zoom EXCEPT ![i] = 0]
          /\ v.overview = u.overview /\ v.tabs = u.tabs /\ v.made = u.made
          /\ u.active[w] # i => v.active = u.active /\ v.current = u.current
          /\ u.active[w] = i => /\ v.active = [u.active EXCEPT ![w] = next]
                                /\ v.current = IF next = 0 /\ u.current = w THEN None ELSE u.current
      BY <1>2, RemoveIs
    <2>2. \/ next = 0 /\ Of(u, w) = {i}
          \/ next \in Of(u, w) \ {i}
      BY <1>2, NextTabIs DEF Siblings, Good, Sound
    <2>3. u \in UiRec /\ u.ws[i] = w /\ w # None /\ Siblings(u, i) = Of(u, w)
      BY <2>1, TabBounds DEF Good, Sound, Siblings
    <2> HIDE DEF v, w, next
    <2>4. Unused(v)
      BY <2>1, <2>3 DEF Good, Sound, Unused, UiRec
    <2>5. Apart(v) /\ Zoomed(v)
      BY <2>1, <2>3 DEF Good, Sound, Apart, Zoomed, UiRec
    <2>6. Of(v, w) = Of(u, w) \ {i} /\ \A x \in Workspaces \ {w} : Of(v, x) = Of(u, x) /\ i \notin Of(u, x)
      BY <2>1, <2>3 DEF Of, UiRec
    <2>7. i # 0 /\ 0 \notin u.items
      BY <2>1, <2>3 DEF Ids, UiRec
    <2>8. i \in Of(u, w) /\ u.active[w] \in Of(u, w)
      BY <1>2, <2>1, <2>3 DEF Of, Good, Sound, Remembered
    <2>9. Remembered(v)
      <3> SUFFICES ASSUME NEW x \in Workspaces
                   PROVE  IF Of(v, x) = {} THEN v.active[x] = 0 ELSE v.active[x] \in Of(v, x)
        BY DEF Remembered
      <3>1. CASE x # w
        BY <2>1, <2>3, <2>6, <3>1 DEF Good, Sound, Remembered, UiRec
      <3>2. CASE x = w /\ u.active[w] # i
        BY <2>1, <2>6, <2>8, <3>2
      <3>3. CASE x = w /\ u.active[w] = i
        BY <2>1, <2>2, <2>3, <2>6, <3>3 DEF UiRec
      <3> QED
        BY <3>1, <3>2, <3>3
    <2>10. v.current # None => v.current = u.current /\ v.current \in Workspaces /\ Of(v, v.current) # {}
      <3>1. v.current # None => v.current = u.current /\ u.current \in Workspaces /\ Of(u, u.current) # {}
        BY <2>1, <2>3 DEF Good, UiRec
      <3>2. CASE u.current # w
        BY <2>6, <3>1, <3>2
      <3>3. CASE u.current = w /\ u.active[w] # i
        BY <2>6, <2>8, <3>1, <3>3
      <3>4. CASE u.current = w /\ u.active[w] = i
        BY <2>1, <2>2, <2>6, <2>7, <3>1, <3>4
      <3> QED
        BY <3>2, <3>3, <3>4
    <2>11. \A j \in v.items : j \in u.items /\ v.panes[j] = u.panes[j]
      BY <2>1, <2>3 DEF UiRec
    <2>12. /\ LivePanes(v) \subseteq LivePanes(u)
           /\ \A p \in LivePanes(u) \ LivePanes(v) : p \in u.panes[i]
      BY <2>1, <2>3, <2>11 DEF LivePanes, UiRec
    <2>13. u.current # w \/ u.active[w] # i => ActiveId(v) = ActiveId(u)
      BY <2>1, <2>3 DEF ActiveId, UiRec
    <2>14. Of(u, w) # {i} /\ u.current # None => ActiveId(v) # 0
      <3>1. Good(v)
        BY <2>1, <2>4, <2>5, <2>9, <2>10 DEF Good, Sound
      <3>2. Of(u, w) # {i} /\ u.current # None => v.current # None
        BY <2>1, <2>2, <2>7 DEF Of
      <3> QED
        BY <3>1, <3>2, ActiveIn
    <2> QED
      BY <1>2, <2>1, <2>3, <2>4, <2>5, <2>9, <2>10, <2>11, <2>12, <2>13, <2>14
      DEF Good, Sound, v, w
  <1> QED
    BY <1>1, <1>2

\* A tab that is closed is followed by one of its worktree, or the window switches.
LEMMA AfterCloseGood ==
  ASSUME NEW u, Good(u), NEW i \in Nat, NEW other \in Nat
  PROVE  LET v == AfterClose(u, i, other) IN
         /\ Good(v) /\ (u.overview = 0 => v.overview = 0)
         /\ \A p \in LivePanes(u) \ LivePanes(v) : i \in u.items /\ p \in u.panes[i]
         /\ Shown(u) /\ i \in u.items /\ Followed(u, i, other) => Shown(v)
  <1> DEFINE r == Remove(u, i)
             v == AfterClose(u, i, other)
  <1>1. /\ Good(r) /\ r.overview = u.overview /\ LivePanes(r) \subseteq LivePanes(u)
        /\ \A j \in u.items \ {i} : j \in r.items
        /\ i \notin r.items /\ r.tabs = u.tabs
        /\ \A j \in r.items : j \in u.items /\ r.panes[j] = u.panes[j]
        /\ \A p \in LivePanes(u) \ LivePanes(r) : i \in u.items /\ p \in u.panes[i]
        /\ i \in u.items /\ (u.current # u.ws[i] \/ u.active[u.ws[i]] # i) => ActiveId(r) = ActiveId(u)
        /\ i \in u.items /\ Siblings(u, i) # {i} /\ u.current # None => ActiveId(r) # 0
    BY RemoveGood
  <1>2. v = IF other # 0 THEN ActivateTab(r, other) ELSE r
    BY DEF AfterClose
  <1> HIDE DEF r, v
  <1>3. LET a == ActivateTab(r, other) IN
        /\ Good(a) /\ LivePanes(a) = LivePanes(r) /\ a.overview = 0
        /\ other \in r.items => ActiveId(a) = other
        /\ other \notin r.items => ActiveId(a) = ActiveId(r)
        /\ \A j \in a.items : a.panes[j] = r.panes[j] /\ j \in r.items
    BY <1>1, ActivateTabGood
  <1>4. Good(v) /\ (u.overview = 0 => v.overview = 0) /\ LivePanes(v) = LivePanes(r)
    BY <1>1, <1>2, <1>3
  <1>5. ASSUME Shown(u), i \in u.items, Followed(u, i, other)
        PROVE  Shown(v)
    <2>1. \A j \in v.items : v.panes[j] # {}
      BY <1>1, <1>2, <1>3, <1>5 DEF Shown
    <2>2. u.current # None /\ ActiveId(u) # 0
      <3>1. u.tabs > 0
        BY <1>5 DEF Good, Sound, Unused, UiRec, Ids
      <3> QED
        BY <1>5, <3>1 DEF Shown, ActiveId
    <2>3. CASE other # 0
      <3>1. other \in u.items /\ other # i
        <4>1. other = Other(u, u.ws[i])
          BY <1>5, <2>3 DEF Followed, Successor
        <4>2. other \in u.items \ Of(u, u.ws[i])
          BY <2>3, <4>1, OtherIs
        <4> QED
          BY <1>5, <4>2 DEF Of
      <3> QED
        BY <1>1, <1>2, <1>3, <2>1, <2>3, <3>1 DEF Shown
    <2>4. CASE other = 0
      <3>1. Siblings(u, i) # {i} \/ u.current # u.ws[i]
        BY <1>5, <2>4 DEF Followed
      <3> QED
        BY <1>1, <1>2, <1>5, <2>1, <2>2, <2>4, <3>1 DEF Shown
    <2> QED
      BY <2>3, <2>4
  <1> QED
    BY <1>1, <1>4, <1>5 DEF v

-----------------------------------------------------------------------------
(* The operations on panes *)

\* Undoing the zoom of the active tab keeps its panes.
LEMMA RestoreZoomGood ==
  ASSUME NEW u, Good(u), NEW p
  PROVE  LET v == RestoreZoom(u, p) IN
         /\ Good(v) /\ LivePanes(v) = LivePanes(u) /\ ActiveId(v) = ActiveId(u)
         /\ v.items = u.items /\ v.panes = u.panes /\ v.overview = u.overview
         /\ v.tabs = u.tabs /\ v.made = u.made
         /\ \A i \in u.items : p \in u.panes[i] => v.zoom[i] = 0
         /\ Shown(u) => Shown(v)
         /\ \A i : Successor(v, i) = Successor(u, i) /\ Siblings(v, i) = Siblings(u, i)
  <1> DEFINE zoom == [i \in Ids |-> IF i \in TabOf(u, p) THEN 0 ELSE u.zoom[i]]
             v == RestoreZoom(u, p)
  <1>1. u \in UiRec
    BY DEF Good, Sound
  <1>2. zoom \in [Ids -> 0..MaxPanes]
    BY <1>1, TabBounds DEF UiRec
  <1>3. v = [u EXCEPT !.zoom = zoom]
    BY <1>1 DEF RestoreZoom, UiRec
  <1>4. \A i \in Ids : zoom[i] = IF i \in TabOf(u, p) THEN 0 ELSE u.zoom[i]
    OBVIOUS
  <1> HIDE DEF zoom, v
  <1>5. /\ v \in UiRec /\ v.items = u.items /\ v.ws = u.ws /\ v.panes = u.panes /\ v.zoom = zoom
        /\ v.active = u.active /\ v.current = u.current /\ v.overview = u.overview
        /\ v.tabs = u.tabs /\ v.made = u.made
    BY <1>1, <1>2, <1>3 DEF UiRec
  <1>6. u.items \subseteq Ids
    BY <1>1 DEF UiRec
  <1>7. Unused(v) /\ Apart(v) /\ Remembered(v) /\ (v.current # None => Of(v, v.current) # {})
    BY <1>4, <1>5 DEF Good, Sound, Unused, Apart, Remembered, Of
  <1>8. Zoomed(v)
    BY <1>4, <1>5, <1>6 DEF Good, Sound, Zoomed
  <1>9. \A i \in u.items : p \in u.panes[i] => v.zoom[i] = 0
    BY <1>4, <1>5, <1>6 DEF TabOf
  <1>10. /\ ActiveId(v) = ActiveId(u) /\ LivePanes(v) = LivePanes(u)
         /\ \A i : Successor(v, i) = Successor(u, i) /\ Siblings(v, i) = Siblings(u, i)
    BY <1>5 DEF ActiveId, LivePanes, Successor, Siblings, Other, Of
  <1>11. Shown(u) => Shown(v)
    BY <1>5, <1>10 DEF Shown
  <1> QED
    BY <1>5, <1>7, <1>8, <1>9, <1>10, <1>11 DEF Good, Sound, v

\* Closing a pane keeps every other one.
LEMMA CloseRestoredGood ==
  ASSUME NEW u, Good(u), NEW p
  PROVE  LET v == ClosePane(RestoreZoom(u, p), p) IN
         /\ Good(v) /\ ActiveId(v) = ActiveId(u) /\ v.overview = u.overview
         /\ LivePanes(u) \ {p} \subseteq LivePanes(v)
         /\ Shown(u) /\ (\E i \in u.items : p \in u.panes[i] /\ Several(u.panes[i])) => Shown(v)
  <1> DEFINE r == RestoreZoom(u, p)
             panes == [i \in Ids |-> r.panes[i] \ {p}]
             v == ClosePane(r, p)
  <1>1. /\ Good(r) /\ LivePanes(r) = LivePanes(u) /\ ActiveId(r) = ActiveId(u)
        /\ r.items = u.items /\ r.panes = u.panes /\ r.overview = u.overview
        /\ \A i \in u.items : p \in u.panes[i] => r.zoom[i] = 0
        /\ Shown(u) => Shown(r)
    BY RestoreZoomGood
  <1>2. r \in UiRec
    BY <1>1 DEF Good, Sound
  <1> HIDE DEF r
  <1>3. panes \in [Ids -> SUBSET Panes] /\ \A i \in Ids : panes[i] = r.panes[i] \ {p}
    BY <1>2 DEF UiRec
  <1>4. v = [r EXCEPT !.panes = panes]
    BY <1>2 DEF ClosePane, UiRec
  <1> HIDE DEF panes, v
  <1>5. /\ v \in UiRec /\ v.items = r.items /\ v.ws = r.ws /\ v.panes = panes /\ v.zoom = r.zoom
        /\ v.active = r.active /\ v.current = r.current /\ v.overview = r.overview
        /\ v.tabs = r.tabs /\ v.made = r.made
    BY <1>2, <1>3, <1>4 DEF UiRec
  <1>6. r.items \subseteq Ids
    BY <1>2 DEF UiRec
  <1>7. Unused(v) /\ Apart(v)
    BY <1>1, <1>3, <1>5, <1>6 DEF Good, Sound, Unused, Apart
  <1>8. Remembered(v) /\ (v.current # None => Of(v, v.current) # {})
    BY <1>1, <1>5 DEF Good, Sound, Remembered, Of
  <1>9. Zoomed(v)
    <2> SUFFICES ASSUME NEW i \in v.items, v.zoom[i] # 0
                 PROVE  v.zoom[i] \in v.panes[i] /\ Several(v.panes[i])
      BY DEF Zoomed
    <2>1. r.zoom[i] \in r.panes[i] /\ Several(r.panes[i])
      BY <1>1, <1>5 DEF Good, Sound, Zoomed
    <2>2. p \notin r.panes[i]
      BY <1>1, <1>5
    <2>3. i \in Ids /\ v.panes[i] = r.panes[i] \ {p}
      BY <1>3, <1>5, <1>6
    <2>4. v.panes[i] = r.panes[i]
      BY <2>2, <2>3
    <2> QED
      BY <1>5, <2>1, <2>4
  <1>10. ActiveId(v) = ActiveId(r)
    BY <1>5 DEF ActiveId
  <1>11. LivePanes(r) \ {p} \subseteq LivePanes(v)
    BY <1>3, <1>5, <1>6 DEF LivePanes
  <1>12. ASSUME Shown(u), NEW i \in u.items, p \in u.panes[i], Several(u.panes[i])
         PROVE  Shown(v)
    <2>1. \A j \in u.items \ {i} : p \notin u.panes[j]
      BY <1>12 DEF Good, Sound, Apart
    <2>2. u.panes[i] \ {p} # {}
      BY <1>12 DEF Several
    <2>3. \A j \in u.items : u.panes[j] # {}
      BY <1>12 DEF Shown
    <2>4. \A j \in v.items : v.panes[j] # {}
      BY <1>1, <1>3, <1>5, <1>6, <2>1, <2>2, <2>3
    <2> QED
      BY <1>1, <1>5, <1>10, <1>12, <2>4 DEF Shown
  <1> QED
    BY <1>1, <1>5, <1>7, <1>8, <1>9, <1>10, <1>11, <1>12 DEF Good, Sound, v, r

\* A pane with the focus is one of the active tab.
LEMMA FocusableIs ==
  ASSUME NEW u, Good(u), NEW p \in Focusable(u)
  PROVE  /\ ActiveId(u) \in u.items /\ ActiveId(u) # 0 /\ ActiveId(u) \in Ids
         /\ p \in u.panes[ActiveId(u)] /\ p \in LivePanes(u)
  <1>1. ActiveId(u) # 0
    BY DEF Focusable
  <1>2. ActiveId(u) \in u.items /\ ActiveId(u) \in Ids
    BY <1>1, ActiveIn DEF Good, Sound, UiRec
  <1>3. p \in u.panes[ActiveId(u)]
    BY <1>1, <1>2 DEF Focusable, Good, Sound, Zoomed
  <1> QED
    BY <1>1, <1>2, <1>3 DEF LivePanes

\* A tab that is divided has a pane more.
LEMMA DivideGood ==
  ASSUME NEW u, Good(u), u.made < MaxPanes, NEW i \in u.items, u.zoom[i] = 0
  PROVE  LET v == [u EXCEPT !.panes[i] = @ \cup {u.made + 1}, !.made = u.made + 1] IN
         /\ Good(v) /\ ActiveId(v) = ActiveId(u) /\ v.overview = u.overview
         /\ LivePanes(u) \subseteq LivePanes(v)
         /\ Shown(u) => Shown(v)
  <1> DEFINE p == u.made + 1
             v == [u EXCEPT !.panes[i] = @ \cup {p}, !.made = p]
  <1>1. u \in UiRec /\ i \in Ids /\ u.made \in Nat /\ p \in Panes /\ p \in 0..MaxPanes
    BY TabBounds DEF Good, Sound, UiRec, Panes
  <1>2. [u.panes EXCEPT ![i] = @ \cup {p}] \in [Ids -> SUBSET Panes]
    BY <1>1 DEF UiRec
  <1>3. p > u.made
    BY <1>1
  <1> HIDE DEF p
  <1>4. /\ v \in UiRec /\ v.items = u.items /\ v.ws = u.ws /\ v.panes = [u.panes EXCEPT ![i] = @ \cup {p}]
        /\ v.zoom = u.zoom
        /\ v.active = u.active /\ v.current = u.current /\ v.overview = u.overview
        /\ v.tabs = u.tabs /\ v.made = p
    BY <1>1, <1>2 DEF UiRec
  <1> HIDE DEF v
  <1>5. /\ \A j \in Ids : v.panes[j] = IF j = i THEN u.panes[i] \cup {p} ELSE u.panes[j]
        /\ u.items \subseteq Ids
        /\ \A j \in Ids : u.panes[j] \subseteq Panes
    BY <1>1, <1>4 DEF UiRec
  <1>6. Unused(v)
    <2>1. ASSUME NEW j \in Ids \ v.items
          PROVE  v.ws[j] = None /\ v.panes[j] = {} /\ v.zoom[j] = 0
      BY <1>4, <1>5 DEF Good, Sound, Unused
    <2>2. ASSUME NEW j \in v.items
          PROVE  v.ws[j] # None /\ j <= v.tabs /\ \A q \in v.panes[j] : q <= v.made
      <3>1. j \in u.items /\ j \in Ids
        BY <1>4, <1>5
      <3>2. u.ws[j] # None /\ j <= u.tabs /\ (\A q \in u.panes[j] : q <= u.made) /\ u.panes[j] \subseteq Nat
        BY <1>5, <3>1 DEF Good, Sound, Unused, Panes
      <3> QED
        BY <1>1, <1>3, <1>4, <1>5, <3>1, <3>2
    <2> QED
      BY <2>1, <2>2 DEF Unused
  <1>7. \A j \in u.items : p \notin u.panes[j]
    <2> SUFFICES ASSUME NEW j \in u.items, p \in u.panes[j]
                 PROVE  FALSE
      OBVIOUS
    <2>1. p <= u.made
      BY DEF Good, Sound, Unused
    <2> QED
      BY <1>1, <1>3, <2>1 DEF Panes
  <1>8. Apart(v)
    BY <1>4, <1>5, <1>7 DEF Good, Sound, Apart
  <1>9. Remembered(v) /\ (v.current # None => Of(v, v.current) # {})
    BY <1>4 DEF Good, Sound, Remembered, Of
  <1>10. Zoomed(v)
    BY <1>4, <1>5 DEF Good, Sound, Zoomed
  <1>11. LivePanes(u) \subseteq LivePanes(v)
    BY <1>4, <1>5 DEF LivePanes
  <1>12. ActiveId(v) = ActiveId(u)
    BY <1>4 DEF ActiveId
  <1>13. Shown(u) => Shown(v)
    BY <1>4, <1>5, <1>12 DEF Shown
  <1> QED
    BY <1>4, <1>6, <1>8, <1>9, <1>10, <1>11, <1>12, <1>13 DEF Good, Sound, v, p

\* A pane is zoomed only where there are several.
LEMMA ToggleZoomGood ==
  ASSUME NEW u, Good(u), NEW i \in u.items, NEW p \in u.panes[i], NEW z,
         z = IF u.zoom[i] # 0 \/ u.panes[i] = {p} THEN 0 ELSE p
  PROVE  LET v == [u EXCEPT !.zoom[i] = z] IN
         /\ Good(v) /\ ActiveId(v) = ActiveId(u) /\ v.overview = u.overview
         /\ LivePanes(u) = LivePanes(v)
         /\ Shown(u) => Shown(v)
  <1> DEFINE v == [u EXCEPT !.zoom[i] = z]
  <1>1. u \in UiRec /\ i \in Ids /\ p \in Panes /\ z \in 0..MaxPanes
    BY TabBounds DEF Good, Sound, UiRec, Panes
  <1>2. [u.zoom EXCEPT ![i] = z] \in [Ids -> 0..MaxPanes]
    BY <1>1 DEF UiRec
  <1>3. /\ v \in UiRec /\ v.items = u.items /\ v.ws = u.ws /\ v.panes = u.panes
        /\ v.zoom = [u.zoom EXCEPT ![i] = z]
        /\ v.active = u.active /\ v.current = u.current /\ v.overview = u.overview
        /\ v.tabs = u.tabs /\ v.made = u.made
    BY <1>1, <1>2 DEF UiRec
  <1> HIDE DEF v
  <1>4. \A j \in Ids : v.zoom[j] = IF j = i THEN z ELSE u.zoom[j]
    BY <1>1, <1>3 DEF UiRec
  <1>5. u.items \subseteq Ids
    BY <1>1 DEF UiRec
  <1>6. z # 0 => z = p /\ Several(u.panes[i])
    BY DEF Several
  <1>7. Unused(v)
    BY <1>3, <1>4, <1>5 DEF Good, Sound, Unused
  <1>8. Zoomed(v)
    BY <1>3, <1>4, <1>5, <1>6 DEF Good, Sound, Zoomed
  <1>9. Apart(v) /\ Remembered(v) /\ (v.current # None => Of(v, v.current) # {})
    BY <1>3 DEF Good, Sound, Apart, Remembered, Of
  <1>10. ActiveId(v) = ActiveId(u) /\ LivePanes(v) = LivePanes(u)
    BY <1>3 DEF ActiveId, LivePanes
  <1>11. Shown(u) => Shown(v)
    BY <1>3, <1>10 DEF Shown
  <1> QED
    BY <1>3, <1>7, <1>8, <1>9, <1>10, <1>11 DEF Good, Sound, v

\* The overview covers the active tab.
LEMMA ToggleOverviewGood ==
  ASSUME NEW u, Good(u), NEW o, o \in {0, ActiveId(u)}
  PROVE  Alike(u, [u EXCEPT !.overview = o]) /\ [u EXCEPT !.overview = o].overview = o
  <1>1. u \in UiRec /\ o \in 0..MaxTabs
    BY TabBounds DEF Good, Sound, UiRec, ActiveId
  <1> QED
    BY <1>1 DEF UiRec, Alike

-----------------------------------------------------------------------------
(* The steps *)

\* What a step of NoSilentKill may not do.
NoKill ==
    \A p \in busy : p \notin LivePanes(ui') =>
        /\ asks # <<>> /\ asks' = Tail(asks)
        /\ p = Head(asks).pane \/ p \in ui.panes[Head(asks).tab]

\* A handler runs behind the questions that are open, if there are any.
Behind == raced' = (raced \/ asks # <<>>) /\ pending' \subseteq pending

\* What a handler leaves for the window to show.
Leaves(u) ==
    /\ Good(u) /\ Current(u) /\ busy \subseteq LivePanes(u)
    /\ asks # <<>> => u.overview = 0
    /\ ~raced' => Shown(u)

\* What happens behind a question voids it.
LEMMA BehindIs ==
  ASSUME TabsInv, Behind
  PROVE  /\ raced' \in BOOLEAN /\ pending' \subseteq pending
         /\ ~raced' => ~raced /\ asks = <<>> /\ Len(asks) = 0
  BY DEF TabsInv, Behind

\* A handler that is done keeps the invariant, if it takes no busy pane,
LEMMA DoneKeeps ==
  ASSUME TabsInv, Behind, NEW u, Leaves(u), Done(u)
  PROVE  TabsInv' /\ NoKill
  <1>1. /\ ui' = u /\ busy' = busy \cap LivePanes(u) /\ window' = window /\ asks' = asks
        /\ raced' \in BOOLEAN /\ pending' \subseteq pending
        /\ ~raced' => ~raced /\ asks = <<>> /\ Len(asks) = 0
    BY BehindIs DEF Done
  <1>2. \A k \in 1..Len(asks') : AboutTabs(asks'[k]) => u.overview = 0
    BY <1>1 DEF TabsInv, Leaves
  <1>3. ~raced' => Shown(u) /\ Len(asks') <= 1 /\ \A k \in 1..Len(asks') : StillFits(u, asks'[k])
    BY <1>1 DEF Leaves
  <1> QED
    BY <1>1, <1>2, <1>3 DEF TabsInv, Leaves, NoKill

\* A question is put before those that are open.
LEMMA PutBefore ==
  ASSUME NEW q \in QuestionRec, NEW s \in Seq(QuestionRec)
  PROVE  LET t == <<q>> \o s IN
         /\ t \in Seq(QuestionRec) /\ Len(t) = Len(s) + 1 /\ t[1] = q
         /\ \A k \in 2..Len(t) : k - 1 \in 1..Len(s) /\ t[k] = s[k - 1]
  OBVIOUS

\* and one that asks first, if what it asks about holds.
LEMMA AskKeeps ==
  ASSUME TabsInv, Behind, NEW u, Leaves(u), NEW q \in QuestionRec, Ask(u, q),
         AboutTabs(q) => u.overview = 0, ~raced' => StillFits(u, q)
  PROVE  TabsInv' /\ NoKill
  <1>1. /\ ui' = u /\ busy' = busy /\ window' = window /\ asks' = <<q>> \o asks
        /\ raced' \in BOOLEAN /\ pending' \subseteq pending
        /\ ~raced' => ~raced /\ asks = <<>> /\ Len(asks) = 0
    BY BehindIs DEF Ask
  <1>2. /\ asks' \in Seq(QuestionRec) /\ Len(asks') = Len(asks) + 1 /\ asks'[1] = q
        /\ \A k \in 2..Len(asks') : k - 1 \in 1..Len(asks) /\ asks'[k] = asks[k - 1]
    BY <1>1, PutBefore DEF TabsInv
  <1>4. Len(asks) \in Nat /\ asks # <<>> => u.overview = 0
    BY DEF TabsInv, Leaves
  <1>5. \A k \in 1..Len(asks') : AboutTabs(asks'[k]) => u.overview = 0
    <2> SUFFICES ASSUME NEW k \in 1..Len(asks'), AboutTabs(asks'[k])
                 PROVE  u.overview = 0
      OBVIOUS
    <2>1. CASE k = 1
      BY <1>2, <2>1
    <2>2. CASE k # 1
      BY <1>2, <1>4, <2>2
    <2> QED
      BY <2>1, <2>2
  <1>6. ~raced' => /\ Shown(u) /\ Len(asks') <= 1
                   /\ \A k \in 1..Len(asks') : StillFits(u, asks'[k])
    <2> HAVE ~raced'
    <2>1. Len(asks') = 1 /\ asks'[1] = q
      BY <1>1, <1>2
    <2> QED
      BY <2>1 DEF Leaves
  <1> QED
    BY <1>1, <1>2, <1>5, <1>6 DEF TabsInv, Leaves, NoKill

\* Closing the window asks while panes are busy.
LEMMA CloseWindowKeeps ==
  ASSUME TabsInv, Behind, NEW u, Leaves(u), NEW why \in {"window", "quit"}, NEW queued \in BOOLEAN,
         CloseWindow(u, why, queued)
  PROVE  TabsInv' /\ NoKill
  <1>1. CASE busy # {}
    <2> DEFINE q == Question(why, 0, 0, 0, queued)
    <2>1. Ask(u, q)
      BY <1>1 DEF CloseWindow
    <2>2. q \in QuestionRec /\ q.why = why
      BY TabBounds DEF Question, QuestionRec
    <2>3. ~AboutTabs(q) /\ StillFits(u, q)
      BY <2>2 DEF AboutTabs, StillFits
    <2> HIDE DEF q
    <2> QED
      BY <2>1, <2>2, <2>3, AskKeeps
  <1>2. CASE busy = {}
    <2>1. /\ ui' = u /\ window' \in {"closed", "quit"} /\ busy' = busy /\ asks' = asks
          /\ raced' \in BOOLEAN /\ pending' \subseteq pending
          /\ ~raced' => ~raced /\ asks = <<>> /\ Len(asks) = 0
      BY <1>2, BehindIs DEF CloseWindow
    <2>2. \A k \in 1..Len(asks') : AboutTabs(asks'[k]) => u.overview = 0
      BY <2>1 DEF TabsInv, Leaves
    <2>3. ~raced' => Shown(u) /\ Len(asks') <= 1 /\ \A k \in 1..Len(asks') : StillFits(u, asks'[k])
      BY <2>1 DEF Leaves
    <2> QED
      BY <1>2, <2>1, <2>2, <2>3 DEF TabsInv, Leaves, NoKill
  <1> QED
    BY <1>1, <1>2

\* Closing a tab asks while its panes are busy.
LEMMA RequestCloseTabKeeps ==
  ASSUME TabsInv, Behind, NEW u0, Leaves(u0), NEW i \in Ids, NEW queued \in BOOLEAN,
         RequestCloseTab(u0, i, queued)
  PROVE  TabsInv' /\ NoKill
  <1> DEFINE u == DismissOverview(u0)
             other == Successor(u, i)
  <1>1. Alike(u0, u) /\ u.overview = 0
    BY DismissIs DEF Leaves, Good, Sound
  <1>2. Leaves(u)
    BY <1>1, AlikeAreGood DEF Leaves, Current
  <1>3. \/ i \notin u.items /\ Done(u)
        \/ /\ Siblings(u, i) = {i} /\ u.current = u.ws[i] /\ Other(u, u.ws[i]) = 0
           /\ CloseWindow(u, "window", queued)
        \/ /\ i \in u.items /\ ~(Siblings(u, i) = {i} /\ u.current = u.ws[i] /\ Other(u, u.ws[i]) = 0)
           /\ Running(u, i) # {} /\ Ask(u, Question("tab", i, 0, other, queued))
        \/ /\ i \in u.items /\ ~(Siblings(u, i) = {i} /\ u.current = u.ws[i] /\ Other(u, u.ws[i]) = 0)
           /\ Running(u, i) = {} /\ Done(AfterClose(u, i, other))
    BY DEF RequestCloseTab
  <1> HIDE DEF u
  <1>4. other \in 0..MaxTabs
    <2>1. Other(u, u.ws[i]) = 0 \/ Other(u, u.ws[i]) \in Ids
      BY <1>2, OtherIs DEF Leaves, Good, Sound, UiRec
    <2> QED
      BY <2>1, TabBounds DEF Successor, Ids
  <1>5. ~(Siblings(u, i) = {i} /\ u.current = u.ws[i] /\ Other(u, u.ws[i]) = 0) => Followed(u, i, other)
    BY DEF Followed, Successor
  <1> HIDE DEF other
  <1>6. CASE i \notin u.items /\ Done(u)
    BY <1>2, <1>6, DoneKeeps
  <1>7. CASE CloseWindow(u, "window", queued)
    BY <1>2, <1>7, CloseWindowKeeps
  <1>8. CASE i \in u.items /\ Followed(u, i, other) /\ Ask(u, Question("tab", i, 0, other, queued))
    <2> DEFINE q == Question("tab", i, 0, other, queued)
    <2>1. q \in QuestionRec /\ q.why = "tab" /\ q.tab = i /\ q.other = other
      BY <1>4, TabBounds DEF Question, QuestionRec, Ids
    <2>2. StillFits(u, q)
      BY <1>8, <2>1 DEF StillFits
    <2> HIDE DEF q
    <2> QED
      BY <1>1, <1>2, <1>8, <2>1, <2>2, AskKeeps DEF q
  <1>9. CASE i \in u.items /\ Followed(u, i, other) /\ Running(u, i) = {} /\ Done(AfterClose(u, i, other))
    <2> DEFINE v == AfterClose(u, i, other)
    <2>1. /\ Good(v) /\ (u.overview = 0 => v.overview = 0)
          /\ \A p \in LivePanes(u) \ LivePanes(v) : i \in u.items /\ p \in u.panes[i]
          /\ Shown(u) /\ i \in u.items /\ Followed(u, i, other) => Shown(v)
      BY <1>2, <1>4, AfterCloseGood DEF Leaves, Ids
    <2> HIDE DEF v
    <2>2. Leaves(v)
      BY <1>1, <1>2, <1>9, <2>1 DEF Leaves, Current, Running
    <2> QED
      BY <1>9, <2>2, DoneKeeps DEF v
  <1> QED
    BY <1>3, <1>5, <1>6, <1>7, <1>8, <1>9

\* No handler runs behind a question the window waits in.
LEMMA FreeIsBehind ==
  ASSUME TabsInv, Free, Quiet
  PROVE  Behind /\ asks = <<>>
  BY DEF TabsInv, Free, Quiet, Behind

\* A handler may leave the window as it was,
LEMMA UiLeaves ==
  ASSUME TabsInv, Behind, asks = <<>>
  PROVE  Leaves(ui)
  BY BehindIs DEF TabsInv, Leaves

\* or without the overview,
LEMMA DismissedLeaves ==
  ASSUME TabsInv, Behind
  PROVE  /\ Leaves(DismissOverview(ui)) /\ DismissOverview(ui).overview = 0
         /\ Alike(ui, DismissOverview(ui)) /\ ui.items \subseteq Ids
         /\ ~raced' => Shown(ui)
  <1>1. Alike(ui, DismissOverview(ui)) /\ DismissOverview(ui).overview = 0
    BY DismissIs DEF TabsInv, Good, Sound
  <1>2. ~raced' => Shown(ui)
    BY BehindIs DEF TabsInv
  <1>3. ui.items \subseteq Ids
    BY DEF TabsInv, Good, Sound, UiRec
  <1> QED
    BY <1>1, <1>2, <1>3, AlikeAreGood DEF TabsInv, Leaves, Current

\* A row of the sidebar is clicked.
LEMMA OpenRowKeeps ==
  ASSUME TabsInv, NEW w \in Workspaces, OpenRow(w)
  PROVE  TabsInv' /\ NoKill
  <1> DEFINE d == DismissOverview(ui)
             v == OpenWorktree(d, w)
  <1>1. Behind /\ asks = <<>> /\ Done(v) /\ (Of(ui, w) = {} => ui.tabs < MaxTabs /\ ui.made < MaxPanes)
    BY FreeIsBehind DEF OpenRow, MayOpen
  <1>2. Leaves(d) /\ d.overview = 0 /\ Alike(ui, d)
    BY <1>1, DismissedLeaves
  <1> HIDE DEF d
  <1>3. Of(d, w) = {} => d.tabs < MaxTabs /\ d.made < MaxPanes
    BY <1>1, <1>2 DEF Alike, Of
  <1>4. Good(v) /\ LivePanes(d) \subseteq LivePanes(v) /\ v.overview = 0 /\ (Shown(d) => Shown(v))
    BY <1>2, <1>3, OpenWorktreeGood DEF Leaves
  <1> HIDE DEF v
  <1>5. Leaves(v)
    BY <1>2, <1>4 DEF Leaves, Current
  <1> QED
    BY <1>1, <1>5, DoneKeeps

\* A new tab is opened.
LEMMA NewTabKeeps ==
  ASSUME TabsInv, NewTab
  PROVE  TabsInv' /\ NoKill
  <1> DEFINE d == DismissOverview(ui)
  <1>1. Behind /\ asks = <<>> /\ ui.tabs < MaxTabs /\ ui.made < MaxPanes
    BY FreeIsBehind DEF NewTab, MayOpen
  <1>2. PICK w \in Workspaces : Done(Push(d, w))
    BY DEF NewTab
  <1>3. Leaves(d) /\ d.overview = 0 /\ Alike(ui, d)
    BY <1>1, DismissedLeaves
  <1> HIDE DEF d
  <1> DEFINE v == Push(d, w)
  <1>4. d.tabs < MaxTabs /\ d.made < MaxPanes
    BY <1>1, <1>3 DEF Alike
  <1>5. /\ Good(v) /\ LivePanes(d) \subseteq LivePanes(v) /\ v.overview = d.overview
        /\ ActiveId(v) # 0
        /\ (\A i \in d.items : d.panes[i] # {}) => \A i \in v.items : v.panes[i] # {}
    BY <1>3, <1>4, PushGood DEF Leaves, Good
  <1> HIDE DEF v
  <1>6. Leaves(v)
    BY <1>3, <1>5 DEF Leaves, Current, Shown
  <1> QED
    BY <1>1, <1>2, <1>6, DoneKeeps DEF v

\* Every way to another tab.
LEMMA ActivateKeeps ==
  ASSUME TabsInv, Free, Quiet, NEW i \in ui.items \cup {ui.overview}, Done(ActivateTab(ui, i))
  PROVE  TabsInv' /\ NoKill
  <1> DEFINE v == ActivateTab(ui, i)
  <1>1. Behind /\ asks = <<>>
    BY FreeIsBehind
  <1>2. Leaves(ui) /\ i \in Nat
    BY <1>1, UiLeaves DEF TabsInv, Good, Sound, UiRec, Ids
  <1>3. /\ Good(v) /\ LivePanes(v) = LivePanes(ui) /\ v.overview = 0
        /\ i \in ui.items => ActiveId(v) = i
        /\ i \notin ui.items => ActiveId(v) = ActiveId(ui)
        /\ \A j \in v.items : v.panes[j] = ui.panes[j] /\ j \in ui.items
    BY <1>2, ActivateTabGood DEF Leaves
  <1> HIDE DEF v
  <1>4. Shown(ui) => Shown(v)
    <2>1. 0 \notin ui.items /\ \A j \in ui.items : j <= ui.tabs /\ j \in Nat /\ ui.tabs \in Nat
      BY DEF TabsInv, Good, Sound, Unused, UiRec, Ids
    <2>2. v.tabs = ui.tabs
      BY DEF v, ActivateTab, SetActive, DismissOverview, TabsInv, Good, Sound, UiRec
    <2> QED
      BY <1>3, <2>1, <2>2 DEF Shown
  <1>5. Leaves(v)
    BY <1>2, <1>3, <1>4 DEF Leaves, Current
  <1> QED
    BY <1>1, <1>5, DoneKeeps DEF v

\* The next tab is gone to, or one by its number.
LEMMA GotoTabKeeps ==
  ASSUME TabsInv, GotoTab
  PROVE  TabsInv' /\ NoKill
  BY ActivateKeeps DEF GotoTab, Visible, Of

\* The overview is opened or left;
LEMMA ToggleOverviewKeeps ==
  ASSUME TabsInv, ToggleOverview
  PROVE  TabsInv' /\ NoKill
  <1> DEFINE o == IF ui.overview # 0 THEN 0 ELSE ActiveId(ui)
             v == [ui EXCEPT !.overview = o]
  <1>1. Behind /\ asks = <<>> /\ Done(v)
    BY FreeIsBehind DEF ToggleOverview
  <1>2. Leaves(ui)
    BY <1>1, UiLeaves
  <1>3. o \in {0, ActiveId(ui)}
    OBVIOUS
  <1> HIDE DEF o
  <1>4. Alike(ui, v) /\ v.overview = o
    BY <1>2, <1>3, ToggleOverviewGood DEF Leaves
  <1> HIDE DEF v
  <1>5. Leaves(v)
    BY <1>1, <1>2, <1>3, <1>4, AlikeAreGood DEF Leaves, Current
  <1> QED
    BY <1>1, <1>5, DoneKeeps

\* it is left by a key or for a card.
LEMMA LeaveOverviewKeeps ==
  ASSUME TabsInv, LeaveOverview
  PROVE  TabsInv' /\ NoKill
  <1>1. Free /\ Quiet /\ Behind /\ asks = <<>>
    BY FreeIsBehind DEF LeaveOverview, AtWindow
  <1>2. CASE Done(DismissOverview(ui))
    BY <1>1, <1>2, DismissedLeaves, DoneKeeps
  <1>3. ASSUME NEW i \in Visible(ui) \cup {ui.overview}, Done(ActivateTab(ui, i))
        PROVE  TabsInv' /\ NoKill
    BY <1>1, <1>3, ActivateKeeps DEF Visible, Of
  <1> QED
    BY <1>2, <1>3 DEF LeaveOverview

\* A tab's close button is clicked.
LEMMA CloseTabClickedKeeps ==
  ASSUME TabsInv, NEW i \in ui.items, CloseTabClicked(i)
  PROVE  TabsInv' /\ NoKill
  <1>1. Behind /\ asks = <<>> /\ RequestCloseTab(ui, i, FALSE)
    BY FreeIsBehind DEF CloseTabClicked, AtWindow
  <1>2. i \in Ids
    BY <1>1, DismissedLeaves
  <1> QED
    BY <1>1, <1>2, UiLeaves, RequestCloseTabKeeps

\* The pane with the focus is closed.
LEMMA CloseFocusedKeeps ==
  ASSUME TabsInv, NEW p \in Panes, CloseFocused(p)
  PROVE  TabsInv' /\ NoKill
  <1> DEFINE u == DismissOverview(ui)
             i == ActiveId(u)
  <1>1. Behind /\ asks = <<>> /\ p \in Focusable(ui)
    BY FreeIsBehind DEF CloseFocused
  <1>2. Leaves(u) /\ u.overview = 0 /\ Alike(ui, u)
    BY <1>1, DismissedLeaves
  <1>3. \/ Cardinality(u.panes[i]) <= 1 /\ RequestCloseTab(u, i, FALSE)
        \/ ~(Cardinality(u.panes[i]) <= 1) /\ p \in busy /\ Ask(u, Question("pane", i, p, 0, FALSE))
        \/ ~(Cardinality(u.panes[i]) <= 1) /\ p \notin busy /\ Done(ClosePane(RestoreZoom(u, p), p))
    BY DEF CloseFocused
  <1> HIDE DEF u
  <1>4. i \in u.items /\ i \in Ids /\ p \in u.panes[i] /\ u.panes[i] \in SUBSET Panes
    <2>1. p \in Focusable(u)
      BY <1>1, <1>2, AlikeAreGood DEF TabsInv, Focusable, Alike
    <2> QED
      BY <1>2, <2>1, FocusableIs DEF Leaves, Good, Sound, UiRec
  <1> HIDE DEF i
  <1>5. CASE RequestCloseTab(u, i, FALSE)
    BY <1>1, <1>2, <1>4, <1>5, RequestCloseTabKeeps
  <1>6. CASE ~(Cardinality(u.panes[i]) <= 1) /\ Ask(u, Question("pane", i, p, 0, FALSE))
    <2> DEFINE q == Question("pane", i, p, 0, FALSE)
    <2>1. q \in QuestionRec /\ q.why = "pane" /\ q.pane = p
      BY <1>4, TabBounds DEF Question, QuestionRec, Ids, Panes
    <2>2. StillFits(u, q)
      BY <1>4, <1>6, <2>1, SeveralIs DEF StillFits
    <2> HIDE DEF q
    <2> QED
      BY <1>1, <1>2, <1>6, <2>1, <2>2, AskKeeps DEF q
  <1>7. CASE /\ ~(Cardinality(u.panes[i]) <= 1) /\ p \notin busy
             /\ Done(ClosePane(RestoreZoom(u, p), p))
    <2> DEFINE v == ClosePane(RestoreZoom(u, p), p)
    <2>1. Several(u.panes[i])
      BY <1>4, <1>7, SeveralIs
    <2>2. /\ Good(v) /\ ActiveId(v) = ActiveId(u) /\ v.overview = u.overview
          /\ LivePanes(u) \ {p} \subseteq LivePanes(v)
          /\ Shown(u) /\ (\E j \in u.items : p \in u.panes[j] /\ Several(u.panes[j])) => Shown(v)
      BY <1>2, CloseRestoredGood DEF Leaves
    <2> HIDE DEF v
    <2>3. Leaves(v)
      BY <1>2, <1>4, <1>7, <2>1, <2>2 DEF Leaves, Current
    <2> QED
      BY <1>1, <1>7, <2>3, DoneKeeps DEF v
  <1> QED
    BY <1>3, <1>5, <1>6, <1>7

\* or without the zoom.
LEMMA RestoredLeaves ==
  ASSUME NEW u, Leaves(u), NEW p
  PROVE  Leaves(RestoreZoom(u, p))
  BY RestoreZoomGood DEF Leaves, Current

\* The pane with the focus is divided,
LEMMA DivideKeeps ==
  ASSUME TabsInv, NEW p \in Panes, Divide(p)
  PROVE  TabsInv' /\ NoKill
  <1> DEFINE d == DismissOverview(ui)
             u == RestoreZoom(d, p)
             i == ActiveId(u)
             v == [u EXCEPT !.panes[i] = @ \cup {u.made + 1}, !.made = u.made + 1]
  <1>1. Behind /\ asks = <<>> /\ p \in Focusable(ui) /\ u.made < MaxPanes /\ Done(v)
    BY FreeIsBehind DEF Divide
  <1>2. Leaves(d) /\ d.overview = 0 /\ Alike(ui, d)
    BY <1>1, DismissedLeaves
  <1> HIDE DEF d
  <1>3. /\ Leaves(u) /\ ActiveId(u) = ActiveId(d) /\ u.items = d.items /\ u.panes = d.panes
        /\ u.overview = 0
        /\ \A j \in d.items : p \in d.panes[j] => u.zoom[j] = 0
    BY <1>2, RestoredLeaves, RestoreZoomGood DEF Leaves
  <1> HIDE DEF u
  <1>4. i \in u.items /\ u.zoom[i] = 0
    <2>1. p \in Focusable(d)
      BY <1>1, <1>2, AlikeAreGood DEF TabsInv, Focusable, Alike
    <2> QED
      BY <1>2, <1>3, <2>1, FocusableIs DEF Leaves
  <1> HIDE DEF i
  <1>5. /\ Good(v) /\ ActiveId(v) = ActiveId(u) /\ v.overview = u.overview
        /\ LivePanes(u) \subseteq LivePanes(v)
        /\ Shown(u) => Shown(v)
    BY <1>1, <1>3, <1>4, DivideGood DEF Leaves
  <1> HIDE DEF v
  <1>6. Leaves(v)
    BY <1>3, <1>5 DEF Leaves, Current
  <1> QED
    BY <1>1, <1>6, DoneKeeps

\* or zoomed,
LEMMA ToggleZoomKeeps ==
  ASSUME TabsInv, NEW p \in Panes, ToggleZoom(p)
  PROVE  TabsInv' /\ NoKill
  <1> DEFINE u == DismissOverview(ui)
             i == ActiveId(u)
             z == IF u.zoom[i] # 0 \/ u.panes[i] = {p} THEN 0 ELSE p
             v == [u EXCEPT !.zoom[i] = z]
  <1>1. Behind /\ asks = <<>> /\ p \in Focusable(ui)
    BY FreeIsBehind DEF ToggleZoom
  <1>2. Leaves(u) /\ u.overview = 0 /\ Alike(ui, u)
    BY <1>1, DismissedLeaves
  <1>3. i \in u.items /\ p \in u.panes[i] /\ i \in Ids
    <2> HIDE DEF u
    <2>1. p \in Focusable(u)
      BY <1>1, <1>2, AlikeAreGood DEF TabsInv, Focusable, Alike
    <2> QED
      BY <1>2, <2>1, FocusableIs DEF Leaves
  <1>4. Done([u EXCEPT !.zoom[i] = IF @ # 0 \/ u.panes[i] = {p} THEN 0 ELSE p])
    BY DEF ToggleZoom
  <1> HIDE DEF u, i
  <1>5. Done(v)
    BY <1>2, <1>3, <1>4 DEF Leaves, Good, Sound, UiRec
  <1>6. /\ Good(v) /\ ActiveId(v) = ActiveId(u) /\ v.overview = u.overview
        /\ LivePanes(u) = LivePanes(v)
        /\ Shown(u) => Shown(v)
    BY <1>2, <1>3, ToggleZoomGood DEF Leaves
  <1> HIDE DEF v
  <1>7. Leaves(v)
    BY <1>2, <1>6 DEF Leaves, Current
  <1> QED
    BY <1>1, <1>5, <1>7, DoneKeeps

\* or left for the next.
LEMMA GotoSplitKeeps ==
  ASSUME TabsInv, NEW p \in Panes, GotoSplit(p)
  PROVE  TabsInv' /\ NoKill
  BY FreeIsBehind, DismissedLeaves, RestoredLeaves, DoneKeeps DEF GotoSplit

\* What happens by itself leaves the tabs alone.
LEMMA ProgramKeeps ==
  ASSUME TabsInv, NEW p \in Panes, Program(p) \/ ShellEnds(p)
  PROVE  TabsInv' /\ NoKill
  <1>1. /\ UNCHANGED <<ui, window, asks, raced>> /\ p \in LivePanes(ui) \ pending
        /\ busy' \subseteq busy \cup {p} /\ pending' \subseteq pending \cup {p}
        /\ p \in busy' => p \notin pending'
    BY DEF Program, ShellEnds
  <1> QED
    BY <1>1 DEF TabsInv, NoKill

\* A pane whose shell ended is closed, whatever is asked meanwhile.
LEMMA DrainKeeps ==
  ASSUME TabsInv, NEW p \in Panes, Drain(p)
  PROVE  TabsInv' /\ NoKill
  <1> DEFINE d == DismissOverview(ui)
             u == RestoreZoom(d, p)
             own == TabOf(u, p)
             i == First(own)
  <1>1. Behind /\ p \notin busy
    BY DEF TabsInv, Drain, Dequeue, Behind
  <1>2. Leaves(d) /\ d.overview = 0
    BY <1>1, DismissedLeaves
  <1>3. Leaves(u) /\ u.overview = 0
    BY <1>2, RestoredLeaves, RestoreZoomGood DEF Leaves
  <1>4. \/ Done(u)
        \/ own # {} /\ RequestCloseTab(u, i, TRUE)
        \/ own # {} /\ ~(Cardinality(u.panes[i]) <= 1) /\ Done(ClosePane(u, p))
    BY DEF Drain, CloseLeaf
  <1>5. own # {} => i \in u.items /\ i \in Ids /\ p \in u.panes[i] /\ u.panes[i] \in SUBSET Panes
    <2> HIDE DEF u
    <2>1. own \in SUBSET Ids /\ u.items \subseteq Ids
      BY <1>3 DEF TabOf, Leaves, Good, Sound, UiRec
    <2>2. own # {} => i \in own
      BY <2>1, FirstIn
    <2> QED
      BY <1>3, <2>1, <2>2 DEF TabOf, Leaves, Good, Sound, UiRec
  <1>6. CASE own # {} /\ ~(Cardinality(u.panes[i]) <= 1) /\ Done(ClosePane(u, p))
    <2> DEFINE v == ClosePane(u, p)
    <2>1. d.panes = u.panes /\ d.items = u.items
      BY <1>2, RestoreZoomGood DEF Leaves
    <2>2. Several(u.panes[i])
      BY <1>5, <1>6, SeveralIs
    <2>3. \E j \in d.items : p \in d.panes[j] /\ Several(d.panes[j])
      BY <1>5, <1>6, <2>1, <2>2
    <2>4. /\ Good(v) /\ ActiveId(v) = ActiveId(d) /\ v.overview = d.overview
          /\ LivePanes(d) \ {p} \subseteq LivePanes(v)
          /\ Shown(d) /\ (\E j \in d.items : p \in d.panes[j] /\ Several(d.panes[j])) => Shown(v)
      BY <1>2, CloseRestoredGood DEF Leaves
    <2> HIDE DEF v, d
    <2>5. Leaves(v)
      BY <1>1, <1>2, <2>3, <2>4 DEF Leaves, Current
    <2> QED
      BY <1>1, <1>6, <2>5, DoneKeeps DEF v
  <1> HIDE DEF u, i, own
  <1>7. CASE own # {} /\ RequestCloseTab(u, i, TRUE)
    BY <1>1, <1>3, <1>5, <1>7, RequestCloseTabKeeps
  <1> QED
    BY <1>1, <1>3, <1>4, <1>6, <1>7, DoneKeeps

\* The answer closes what was asked about and nothing that came later.
LEMMA AnswerKeeps ==
  ASSUME TabsInv, NEW yes \in BOOLEAN, Answer(yes)
  PROVE  TabsInv' /\ NoKill
  <1> DEFINE q == Head(asks)
             t == AfterClose(ui, q.tab, q.other)
             c == ClosePane(RestoreZoom(ui, q.pane), q.pane)
  <1>1. /\ asks # <<>> /\ asks' = Tail(asks) /\ raced' = raced /\ pending' = pending
        /\ \/ UNCHANGED <<ui, window, busy>>
           \/ /\ q.why = "tab"
              /\ ui' = t /\ busy' = busy \cap LivePanes(t) /\ window' = window
           \/ /\ q.why = "pane"
              /\ ui' = c /\ busy' = busy \cap LivePanes(c) /\ window' = window
           \/ window' \in {"closed", "quit"} /\ UNCHANGED <<ui, busy>>
    <2>1. asks # <<>> /\ Len(asks) > 0 /\ asks[1] \in QuestionRec /\ q = asks[1]
      BY DEF Answer, TabsInv
    <2>2. q.why \in {"tab", "pane", "window", "quit"}
      BY <2>1 DEF QuestionRec
    <2> QED
      BY <2>2 DEF Answer, Quiet
  <1>2. /\ q = asks[1] /\ q \in QuestionRec /\ 1 \in 1..Len(asks) /\ Len(asks) \in Nat
        /\ Tail(asks) \in Seq(QuestionRec) /\ Len(Tail(asks)) = Len(asks) - 1
        /\ \A k \in 1..Len(asks) - 1 : k + 1 \in 1..Len(asks) /\ Tail(asks)[k] = asks[k + 1]
    BY <1>1 DEF TabsInv
  <1>3. /\ q.tab \in Nat /\ q.other \in Nat
        /\ ~raced => StillFits(ui, q) /\ Shown(ui) /\ Len(asks) = 1
        /\ AboutTabs(q) => ui.overview = 0
    BY <1>2 DEF TabsInv, QuestionRec
  <1>4. ASSUME NEW u, Good(u), Current(u), ui' = u, busy' \subseteq LivePanes(u), busy' \subseteq busy,
               ui.overview = 0 => u.overview = 0, window' \in {"open", "closed", "quit"},
               ~raced => Shown(u)
        PROVE  TabsInv'
    <2>1. \A k \in 1..Len(asks') : AboutTabs(asks'[k]) => u.overview = 0
      <3> SUFFICES ASSUME NEW k \in 1..Len(asks'), AboutTabs(asks'[k])
                   PROVE  u.overview = 0
        OBVIOUS
      <3>1. k + 1 \in 1..Len(asks) /\ asks'[k] = asks[k + 1]
        BY <1>1, <1>2
      <3> QED
        BY <1>4, <3>1 DEF TabsInv
    <2>2. ~raced => Len(asks') = 0
      BY <1>1, <1>2, <1>3
    <2> QED
      BY <1>1, <1>2, <1>4, <2>1, <2>2 DEF TabsInv
  <1>5. CASE UNCHANGED <<ui, busy>> /\ window' \in {"open", "closed", "quit"}
    <2>1. busy \subseteq LivePanes(ui) /\ Good(ui) /\ Current(ui)
      BY DEF TabsInv
    <2>2. TabsInv'
      BY <1>3, <1>4, <1>5, <2>1
    <2> QED
      BY <1>5, <2>1, <2>2 DEF NoKill
  <1>6. CASE q.why = "tab" /\ ui' = t /\ busy' = busy \cap LivePanes(t) /\ window' = window
    <2>1. /\ Good(t) /\ (ui.overview = 0 => t.overview = 0)
          /\ \A p \in LivePanes(ui) \ LivePanes(t) : q.tab \in ui.items /\ p \in ui.panes[q.tab]
          /\ Shown(ui) /\ q.tab \in ui.items /\ Followed(ui, q.tab, q.other) => Shown(t)
      BY <1>3, AfterCloseGood DEF TabsInv
    <2> HIDE DEF t
    <2>2. ui.overview = 0
      BY <1>3, <1>6 DEF AboutTabs
    <2>3. ~raced => Shown(t)
      BY <1>3, <1>6, <2>1 DEF StillFits
    <2>4. TabsInv'
      BY <1>4, <1>6, <2>1, <2>2, <2>3 DEF TabsInv, Current
    <2> QED
      BY <1>1, <1>6, <2>1, <2>4 DEF NoKill, TabsInv
  <1>7. CASE q.why = "pane" /\ ui' = c /\ busy' = busy \cap LivePanes(c) /\ window' = window
    <2>1. /\ Good(c) /\ c.overview = ui.overview
          /\ LivePanes(ui) \ {q.pane} \subseteq LivePanes(c)
          /\ Shown(ui) /\ (\E i \in ui.items : q.pane \in ui.panes[i] /\ Several(ui.panes[i])) => Shown(c)
      BY CloseRestoredGood DEF TabsInv
    <2> HIDE DEF c
    <2>2. ui.overview = 0
      BY <1>3, <1>7 DEF AboutTabs
    <2>3. ~raced => Shown(c)
      BY <1>3, <1>7, <2>1 DEF StillFits
    <2>4. TabsInv'
      BY <1>4, <1>7, <2>1, <2>2, <2>3 DEF TabsInv, Current
    <2> QED
      BY <1>1, <1>7, <2>1, <2>4 DEF NoKill, TabsInv
  <1>8. window \in {"open", "closed", "quit"}
    BY DEF TabsInv
  <1> QED
    BY <1>1, <1>5, <1>6, <1>7, <1>8

\* The application is told to quit.
LEMMA QuitKeeps ==
  ASSUME TabsInv, Quit
  PROVE  TabsInv' /\ NoKill
  <1>1. Behind /\ asks = <<>>
    BY FreeIsBehind DEF Quit
  <1>2. CASE window = "open"
    BY <1>1, <1>2, DismissedLeaves, CloseWindowKeeps DEF Quit
  <1>3. CASE window # "open"
    BY <1>3 DEF Quit, Quiet, TabsInv, NoKill
  <1> QED
    BY <1>2, <1>3

\* Every handler keeps the invariant and kills no busy pane unasked.
LEMMA TabsStep ==
  ASSUME TabsInv, Next
  PROVE  TabsInv' /\ NoKill
  <1>1. ASSUME NEW i \in ui.items, SelectTab(i)
        PROVE  TabsInv' /\ NoKill
    BY <1>1, ActivateKeeps DEF SelectTab, AtWindow
  <1>2. CASE CloseWindowClicked
    <2>1. Behind /\ asks = <<>> /\ CloseWindow(ui, "window", FALSE)
      BY <1>2, FreeIsBehind DEF CloseWindowClicked, AtWindow
    <2> QED
      BY <2>1, UiLeaves, CloseWindowKeeps
  <1>3. CASE Reveal
    BY <1>3 DEF Reveal, Quiet, TabsInv, NoKill
  <1> QED
    BY <1>1, <1>2, <1>3, OpenRowKeeps, NewTabKeeps, GotoTabKeeps, ToggleOverviewKeeps,
       LeaveOverviewKeeps, CloseTabClickedKeeps, CloseFocusedKeeps, DivideKeeps, ToggleZoomKeeps,
       GotoSplitKeeps, ProgramKeeps, DrainKeeps, QuitKeeps, AnswerKeeps DEF Next

\* The window opens without a tab.
LEMMA TabsInit ==
  ASSUME Init
  PROVE  TabsInv
  <1>1. ui \in UiRec
    BY TabBounds DEF Init, UiRec, Ids
  <1>2. asks \in Seq(QuestionRec) /\ Len(asks) = 0
    BY DEF Init
  <1>3. Good(ui)
    BY <1>1 DEF Init, Good, Sound, Unused, Apart, Remembered, Zoomed, Of
  <1>4. Current(ui) /\ Shown(ui)
    BY DEF Init, Current, Shown
  <1>5. window = "open" /\ busy = {} /\ pending = {} /\ raced = FALSE
    BY DEF Init
  <1>6. 1..Len(asks) = {}
    BY <1>2
  <1>7. \A k \in 1..Len(asks) : (AboutTabs(asks[k]) => ui.overview = 0) /\ StillFits(ui, asks[k])
    BY Zenon, <1>6
  <1>8. busy \subseteq LivePanes(ui) /\ pending \subseteq Panes /\ busy \cap pending = {}
    BY <1>5
  <1>9. window \in {"open", "closed", "quit"} /\ Len(asks) <= 1
    BY <1>2, <1>5
  <1>10. raced \in BOOLEAN
    BY Zenon, <1>5
  <1> QED
    BY Zenon, <1>2, <1>3, <1>4, <1>7, <1>8, <1>9, <1>10 DEF TabsInv

\* Steps of the other parts leave the tabs alone.
LEMMA TabsStutter ==
  ASSUME TabsInv, UNCHANGED vars
  PROVE  TabsInv' /\ NoKill
  BY DEF vars, TabsInv, NoKill

\* The invariant gives what the tabs agree on.
LEMMA TabsImply ==
  ASSUME TabsInv
  PROVE  TabsAgree
  <1>1. TypeOK
    BY DEF TabsInv, Good, Sound, Apart, TypeOK
  <1>2. ActiveIsTheirs /\ OverviewIsCurrent
    BY DEF TabsInv, Good, Sound, Remembered, Current, ActiveIsTheirs, OverviewIsCurrent
  <1>3. ZoomIsSplit
    <2> SUFFICES ASSUME NEW i \in ui.items, ui.zoom[i] # 0
                 PROVE  ui.zoom[i] \in ui.panes[i] /\ Cardinality(ui.panes[i]) > 1
      BY DEF ZoomIsSplit
    <2>1. ui.zoom[i] \in ui.panes[i] /\ Several(ui.panes[i]) /\ ui.panes[i] \in SUBSET Panes
      BY DEF TabsInv, Good, Sound, Zoomed, UiRec
    <2> QED
      BY <2>1, SeveralIs
  <1>4. SessionShownUnlessRaced
    BY DEF TabsInv, Shown, SessionShownUnlessRaced, SessionShown
  <1> QED
    BY <1>1, <1>2, <1>3, <1>4 DEF TabsAgree

-----------------------------------------------------------------------------
(* The tabs, in the window *)

\* Every step of the desktop keeps the invariant of the tabs.
LEMMA TabsGoOn ==
  ASSUME TabsInv, [Step]_desktop
  PROVE  TabsInv' /\ [NoKill]_vars
  <1>1. CASE part = "tabs" /\ Next
    BY <1>1, TabsStep
  <1>2. CASE UNCHANGED vars
    BY <1>2, TabsStutter
  <1>3. Next \/ UNCHANGED vars
    BY DEF Step, desktop
  <1> QED
    BY <1>2, <1>3, TabsStep

\* The tabs of the window agree in every state, whatever closes behind a question.
THEOREM TabsHold == AllSpec => []TabsAgree
  <1>1. Start => TabsInv
    BY TabsInit DEF Start
  <1>2. TabsInv /\ [Step]_desktop => TabsInv'
    BY TabsGoOn
  <1>3. TabsInv => TabsAgree
    BY TabsImply
  <1> QED
    BY <1>1, <1>2, <1>3, PTL DEF AllSpec

\* No step closes a pane whose process runs, but the answer to a question about it.
THEOREM NoPaneIsKilled == AllSpec => NoSilentKill
  <1>1. Start => TabsInv
    BY TabsInit DEF Start
  <1>2. TabsInv /\ [Step]_desktop => TabsInv' /\ [NoKill]_vars
    BY TabsGoOn
  <1> QED
    BY <1>1, <1>2, PTL DEF AllSpec, NoSilentKill, NoKill


-----------------------------------------------------------------------------
(* The panels *)

\* Panel!TypeOK and Panel!IntentIsDue of a state of the panels.
Typed(u) == u \in Panel!UiRec /\ (u.open \/ u.keys \/ u.focus = "quota" => u.shown)

\* The sidebar's timer runs while what it waits for is wanted,
SideDue(u) ==
    /\ u.timer = "open" => u.mode = "Closed" /\ u.pointer = "chip" /\ ~u.pressed
    /\ u.timer = "close" => u.mode = "Transient" /\ u.pointer = "out" /\ ~u.pressed
    /\ u.timer = "fold" => u.mode = "Transient" /\ u.pointer = "chip" /\ u.entered

\* and so does that of the quota panel.
QuotaDue(u) == u.pending # None => u.shown /\ u.pending # u.open /\ u.pending = u.hovered

\* An intent that waits is still wanted.
Due(u) == Typed(u) /\ SideDue(u) /\ QuotaDue(u)

\* A handler of the sidebar that takes an intent back, or leaves the timer and what it
\* is about.
Calm(u) == Typed(u) /\ QuotaDue(u) /\ u.timer = None

\* The panels.
PanelsInv == Due(panels) /\ kept \subseteq {"sidebar", "quota"}

\* Setting the mode of the sidebar takes its intent back.
LEMMA SetModeIs ==
  ASSUME NEW u, Typed(u), QuotaDue(u), NEW m \in {"Closed", "Transient", "Pinned"}
  PROVE  /\ Calm(Panel!SetMode(u, m)) /\ Due(Panel!SetMode(u, m))
         /\ Panel!SetMode(u, m).shown = u.shown /\ Panel!SetMode(u, m).pressed = u.pressed
  <1> DEFINE v == Panel!SetMode(u, m)
  <1>1. v.focus \in Panel!Focuses /\ (v.focus = "quota" => u.focus = "quota") /\ v.keyboard \in BOOLEAN
    BY DEF Panel!SetMode, Typed, Panel!UiRec, Panel!Focuses
  <1>2. v \in Panel!UiRec
    <2> DEFINE k == m # "Closed" /\ u.keyboard
               f == IF m = "Closed" /\ Panel!HasFocus(u) THEN "terminal" ELSE u.focus
    <2>1. v = [u EXCEPT !.mode = m, !.entered = FALSE, !.timer = None, !.keyboard = k, !.focus = f]
      BY DEF Panel!SetMode
    <2>2. k \in BOOLEAN
      BY DEF Typed, Panel!UiRec
    <2>3. f \in Panel!Focuses
      BY DEF Typed, Panel!UiRec, Panel!Focuses
    <2> HIDE DEF k, f, v
    <2> QED
      BY <2>1, <2>2, <2>3 DEF Typed, Panel!UiRec
  <1>3. /\ v.timer = None /\ v.open = u.open /\ v.keys = u.keys /\ v.shown = u.shown
        /\ v.pending = u.pending /\ v.hovered = u.hovered /\ v.pressed = u.pressed
    BY DEF Panel!SetMode, Typed, Panel!UiRec
  <1> HIDE DEF v
  <1>4. Typed(v) /\ QuotaDue(v) /\ SideDue(v)
    BY <1>1, <1>2, <1>3, NoneIsNoValue DEF Typed, QuotaDue, SideDue
  <1> QED
    BY <1>3, <1>4 DEF Calm, Due, v

\* Cancelling does.
LEMMA CancelIs ==
  ASSUME NEW u, Typed(u), QuotaDue(u)
  PROVE  /\ Calm(Panel!Cancel(u)) /\ Due(Panel!Cancel(u))
         /\ Panel!Cancel(u).shown = u.shown /\ Panel!Cancel(u).pressed = u.pressed
  <1> DEFINE v == Panel!Cancel(u)
  <1>2. v \in Panel!UiRec
    BY DEF Panel!Cancel, Typed, Panel!UiRec
  <1>3. /\ v.timer = None /\ v.open = u.open /\ v.keys = u.keys /\ v.shown = u.shown
        /\ v.pending = u.pending /\ v.hovered = u.hovered /\ v.pressed = u.pressed
        /\ v.focus = u.focus
    BY DEF Panel!Cancel, Typed, Panel!UiRec
  <1> HIDE DEF v
  <1>4. Typed(v) /\ QuotaDue(v) /\ SideDue(v)
    BY <1>2, <1>3, NoneIsNoValue DEF Typed, QuotaDue, SideDue
  <1> QED
    BY <1>3, <1>4 DEF Calm, Due, v

\* The focus and whether the keyboard is in use matter to no intent.
LEMMA FocusIs ==
  ASSUME NEW u, Typed(u), NEW f \in Panel!Focuses, f = "quota" => u.shown
  PROVE  LET v == [u EXCEPT !.focus = f]
         IN  Typed(v) /\ (QuotaDue(u) => QuotaDue(v)) /\ (SideDue(u) => SideDue(v))
             /\ v.timer = u.timer /\ v.shown = u.shown /\ v.mode = u.mode /\ v.pressed = u.pressed
  <1> DEFINE v == [u EXCEPT !.focus = f]
  <1>2. v \in Panel!UiRec
    BY DEF Typed, Panel!UiRec
  <1>3. /\ v.timer = u.timer /\ v.open = u.open /\ v.keys = u.keys /\ v.shown = u.shown
        /\ v.pending = u.pending /\ v.hovered = u.hovered /\ v.pressed = u.pressed
        /\ v.focus = f /\ v.mode = u.mode /\ v.pointer = u.pointer /\ v.entered = u.entered
    BY DEF Typed, Panel!UiRec
  <1> HIDE DEF v
  <1>4. Typed(v) /\ (QuotaDue(u) => QuotaDue(v)) /\ (SideDue(u) => SideDue(v))
    BY <1>2, <1>3 DEF Typed, QuotaDue, SideDue
  <1> QED
    BY <1>3, <1>4 DEF v

\* Leaving a pressed button or the keyboard in use matter to no intent but of the pointer.
LEMMA CalmIsDue == \A u : Calm(u) => Due(u)
  BY NoneIsNoValue DEF Calm, Due, SideDue

\* Where the keyboard was.
LEMMA TypingIs ==
  ASSUME NEW u, Calm(u), NEW b \in BOOLEAN
  PROVE  Calm([u EXCEPT !.keyboard = b]) /\ [u EXCEPT !.keyboard = b].shown = u.shown
  <1> DEFINE v == [u EXCEPT !.keyboard = b]
  <1>1. v \in Panel!UiRec
    BY DEF Calm, Typed, Panel!UiRec
  <1>2. /\ v.timer = u.timer /\ v.open = u.open /\ v.keys = u.keys /\ v.shown = u.shown
        /\ v.pending = u.pending /\ v.hovered = u.hovered /\ v.focus = u.focus
    BY DEF Calm, Typed, Panel!UiRec
  <1> HIDE DEF v
  <1>3. Calm(v)
    BY <1>1, <1>2 DEF Calm, Typed, QuotaDue
  <1> QED
    BY <1>2, <1>3 DEF v

\* Toggling the sidebar takes its intent back,
LEMMA ToggledIs ==
  ASSUME NEW u, Typed(u), QuotaDue(u)
  PROVE  Calm(Panel!Toggled(u)) /\ Panel!Toggled(u).shown = u.shown
         /\ Panel!Toggled(u).pressed = u.pressed
  <1> DEFINE m == IF u.mode = "Pinned" THEN "Closed" ELSE "Pinned"
  <1>1. m \in {"Closed", "Transient", "Pinned"}
    OBVIOUS
  <1> QED
    BY <1>1, SetModeIs DEF Panel!Toggled

\* and so does opening it.
LEMMA OpenedIs ==
  ASSUME NEW u, Calm(u)
  PROVE  Calm(Panel!Opened(u)) /\ Panel!Opened(u).shown = u.shown
  BY SetModeIs DEF Panel!Opened, Calm

\* The intents of the sidebar follow its pointer.
LEMMA AtIs ==
  ASSUME NEW u, Typed(u), QuotaDue(u), NEW r \in {"chip", "list", "head", "out"}
  PROVE  LET v == Panel!At(u, r)
         IN  /\ Typed(v) /\ QuotaDue(v) /\ v.pointer = r /\ v.mode = u.mode /\ v.timer = u.timer
             /\ v.pressed = u.pressed /\ (u.entered => v.entered) /\ v.shown = u.shown
             /\ v.entered \in BOOLEAN
  <1> DEFINE v == Panel!At(u, r)
             e == u.entered \/ r = "list"
  <1>1. v = [u EXCEPT !.pointer = r, !.entered = e]
    BY DEF Panel!At
  <1>2. e \in BOOLEAN /\ (u.entered => e)
    BY DEF Typed, Panel!UiRec
  <1> HIDE DEF v, e
  <1>3. v \in Panel!UiRec
    BY <1>1, <1>2 DEF Typed, Panel!UiRec
  <1>4. /\ v.timer = u.timer /\ v.open = u.open /\ v.keys = u.keys /\ v.shown = u.shown
        /\ v.pending = u.pending /\ v.hovered = u.hovered /\ v.pressed = u.pressed
        /\ v.focus = u.focus /\ v.mode = u.mode /\ v.pointer = r /\ v.entered = e
    BY <1>1 DEF Typed, Panel!UiRec
  <1>5. Typed(v) /\ QuotaDue(v)
    BY <1>3, <1>4 DEF Typed, QuotaDue
  <1> QED
    BY <1>2, <1>4, <1>5 DEF v

\* An intent the mouse leaves behind is taken back.
LEMMA SideMovedIs ==
  ASSUME NEW u, Due(u), NEW r \in {"chip", "list", "head", "out"}
  PROVE  Due(Panel!SideMoved(u, r))
  <1> DEFINE v == Panel!At(u, r)
             i == Panel!Intent(v, r)
             s == [v EXCEPT !.timer = i]
  <1>1. /\ Typed(v) /\ QuotaDue(v) /\ v.pointer = r /\ v.mode = u.mode /\ v.timer = u.timer
        /\ v.pressed = u.pressed /\ (u.entered => v.entered) /\ v.entered \in BOOLEAN
    BY AtIs DEF Due
  <1>2. /\ i \in {None, "open", "close", "fold"}
        /\ i = "open" => v.mode = "Closed" /\ r = "chip"
        /\ i = "close" => v.mode = "Transient" /\ r = "out"
        /\ i = "fold" => v.mode # "Closed" /\ r = "chip" /\ v.entered
    BY NoneIsNoValue DEF Panel!Intent
  <1>3. Panel!SideMoved(u, r) = IF u.pressed THEN Panel!Cancel(v)
                                ELSE IF r = u.pointer \/ u.mode = "Pinned" THEN v ELSE s
    BY DEF Panel!SideMoved
  <1>4. Due(Panel!Cancel(v))
    BY <1>1, CancelIs
  <1>5. ASSUME ~u.pressed, r = u.pointer \/ u.mode = "Pinned"
        PROVE  Due(v)
    BY <1>1, <1>5 DEF Due, SideDue
  <1>6. ASSUME ~u.pressed, u.mode # "Pinned"
        PROVE  Due(s)
    <2> HIDE DEF v, i
    <2>1. s \in Panel!UiRec
      BY <1>1, <1>2 DEF Typed, Panel!UiRec
    <2>2. /\ s.timer = i /\ s.open = v.open /\ s.keys = v.keys /\ s.shown = v.shown
          /\ s.pending = v.pending /\ s.hovered = v.hovered /\ s.pressed = v.pressed
          /\ s.focus = v.focus /\ s.mode = v.mode /\ s.pointer = v.pointer /\ s.entered = v.entered
          /\ v.mode \in {"Closed", "Transient", "Pinned"}
      BY <1>1 DEF Typed, Panel!UiRec
    <2> HIDE DEF s
    <2>3. Typed(s) /\ QuotaDue(s)
      BY <1>1, <2>1, <2>2 DEF Typed, QuotaDue
    <2>4. SideDue(s)
      BY <1>1, <1>2, <1>6, <2>2 DEF SideDue
    <2> QED
      BY <2>3, <2>4 DEF Due
  <1> HIDE DEF v, i, s
  <1> QED
    BY <1>3, <1>4, <1>5, <1>6

\* A click in the window takes the intent of the sidebar back.
LEMMA SideDownIs ==
  ASSUME NEW u, Due(u), NEW r \in {"chip", "list", "head", "out"}
  PROVE  Calm(Panel!SideDown(u, r)) /\ Panel!SideDown(u, r).shown = u.shown
  <1> DEFINE w == Panel!At(u, r)
             k == [w EXCEPT !.keyboard = FALSE]
             v == Panel!Cancel(k)
  <1>1. Typed(w) /\ QuotaDue(w) /\ w.shown = u.shown
    BY AtIs DEF Due
  <1> HIDE DEF w
  <1>2. k \in Panel!UiRec
    BY <1>1 DEF Typed, Panel!UiRec
  <1>3. /\ k.open = w.open /\ k.keys = w.keys /\ k.shown = w.shown /\ k.focus = w.focus
        /\ k.pending = w.pending /\ k.hovered = w.hovered
    BY <1>1 DEF Typed, Panel!UiRec
  <1> HIDE DEF k
  <1>4. Typed(k) /\ QuotaDue(k) /\ k.shown = u.shown
    BY <1>1, <1>2, <1>3 DEF Typed, QuotaDue
  <1>5. Calm(v) /\ v.shown = u.shown
    BY <1>4, CancelIs
  <1>6. Panel!SideDown(u, r) = IF r = "out" /\ u.mode = "Transient" THEN Panel!SetMode(v, "Closed") ELSE v
    BY DEF Panel!SideDown, k, w
  <1> HIDE DEF v
  <1>7. Calm(Panel!SetMode(v, "Closed")) /\ Panel!SetMode(v, "Closed").shown = u.shown
    BY <1>5, SetModeIs DEF Calm
  <1> QED
    BY <1>5, <1>6, <1>7

\* What a key leaves of the sidebar.
LEMMA SideKeyIs ==
  ASSUME NEW u, Due(u), NEW k \in Panel!Keys, NEW b \in Panel!SideKey(u, k)
  PROVE  Due(b.ui)
  <1> DEFINE c == Panel!Cancel(u)
             typed == [c EXCEPT !.keyboard = TRUE]
             m == Panel!SetMode(typed, "Transient")
             closed == Panel!SetMode(u, "Closed")
  <1>1. Calm(c) /\ Calm(closed) /\ Due(c)
    BY CancelIs, SetModeIs DEF Due
  <1>2. Calm(typed)
    <2> HIDE DEF c
    <2> QED
      BY <1>1, TypingIs
  <1>3. Calm(m)
    <2> HIDE DEF typed
    <2> QED
      BY <1>2, SetModeIs DEF Calm
  <1>4. Due(typed) /\ Due(m)
    BY <1>2, <1>3, CalmIsDue
  <1>5. \A v, f : Calm(v) /\ f \in {"list", "terminal"} => Due([v EXCEPT !.focus = f])
    <2> SUFFICES ASSUME NEW v, NEW f, Calm(v), f \in {"list", "terminal"}
                 PROVE  Due([v EXCEPT !.focus = f])
      OBVIOUS
    <2> QED
      BY CalmIsDue, FocusIs DEF Due, Calm, Panel!Focuses
  <1>6. b.ui \in {c, typed, u, [typed EXCEPT !.focus = "list"], [m EXCEPT !.focus = "list"],
                  [closed EXCEPT !.focus = "terminal"]}
    <2>1. CASE k = "escape" /\ u.mode = "Transient"
      BY <2>1 DEF Panel!SideKey
    <2>2. CASE ~(k = "escape" /\ u.mode = "Transient") /\ k = "digit" /\ u.mode # "Closed"
      BY <2>2 DEF Panel!SideKey
    <2>3. CASE ~(k = "escape" /\ u.mode = "Transient") /\ ~(k = "digit" /\ u.mode # "Closed")
               /\ Panel!HasFocus(u) /\ k \in {"up", "down"}
      <3> DEFINE h == IF u.mode = "Closed" THEN m ELSE typed
                 s == [h EXCEPT !.focus = "list"]
      <3>1. b \in {[ui |-> s, taken |-> TRUE]}
        BY <2>3 DEF Panel!SideKey
      <3>2. h \in {m, typed}
        OBVIOUS
      <3> HIDE DEF h
      <3>3. b.ui = s
        BY <3>1
      <3> QED
        BY Zenon, <3>2, <3>3
    <2>5. CASE ~(k = "escape" /\ u.mode = "Transient") /\ ~(k = "digit" /\ u.mode # "Closed")
               /\ Panel!HasFocus(u) /\ k \notin {"up", "down"}
      BY <2>5 DEF Panel!SideKey
    <2>6. CASE ~(k = "escape" /\ u.mode = "Transient") /\ ~(k = "digit" /\ u.mode # "Closed")
               /\ ~Panel!HasFocus(u)
      BY <2>6 DEF Panel!SideKey
    <2> QED
      BY <2>1, <2>2, <2>3, <2>5, <2>6
  <1> HIDE DEF c, typed, m, closed
  <1> QED
    BY <1>1, <1>2, <1>3, <1>4, <1>5, <1>6

-----------------------------------------------------------------------------
(* The quota panel and the views *)

\* Cancelling the hover leaves no intent of the quota panel.
LEMMA CancelHoverIs ==
  ASSUME NEW u, Typed(u)
  PROVE  LET v == Panel!CancelHover(u)
         IN  /\ Typed(v) /\ QuotaDue(v) /\ (SideDue(u) => SideDue(v)) /\ v.pending = None
             /\ v.shown = u.shown /\ v.open = u.open /\ v.keys = u.keys /\ v.focus = u.focus
             /\ v.timer = u.timer /\ v.pressed = u.pressed /\ v.pointer = u.pointer
             /\ v.mode = u.mode /\ v.entered = u.entered
  <1> DEFINE v == Panel!CancelHover(u)
  <1>1. v \in Panel!UiRec
    BY DEF Panel!CancelHover, Typed, Panel!UiRec
  <1>2. /\ v.timer = u.timer /\ v.open = u.open /\ v.keys = u.keys /\ v.shown = u.shown
        /\ v.pending = None /\ v.pressed = u.pressed /\ v.focus = u.focus
        /\ v.mode = u.mode /\ v.pointer = u.pointer /\ v.entered = u.entered
    BY DEF Panel!CancelHover, Typed, Panel!UiRec
  <1> HIDE DEF v
  <1>3. Typed(v) /\ QuotaDue(v) /\ (SideDue(u) => SideDue(v))
    BY <1>1, <1>2 DEF Typed, QuotaDue, SideDue
  <1> QED
    BY <1>2, <1>3 DEF v

\* Opening and closing the details takes the intent back.
LEMMA SetOpenIs ==
  ASSUME NEW u, Typed(u), NEW open \in BOOLEAN
  PROVE  LET v == Panel!SetOpen(u, open)
         IN  /\ Typed(v) /\ QuotaDue(v) /\ (SideDue(u) => SideDue(v))
             /\ v.shown = u.shown /\ v.timer = u.timer /\ v.focus = u.focus
             /\ v.pending = None /\ (~open => ~v.open)
  <1> DEFINE w == Panel!CancelHover(u)
             k == open /\ w.keys
             v == [w EXCEPT !.open = open, !.keys = k]
  <1>1. /\ Typed(w) /\ QuotaDue(w) /\ (SideDue(u) => SideDue(w)) /\ w.pending = None
        /\ w.shown = u.shown /\ w.open = u.open /\ w.keys = u.keys /\ w.focus = u.focus
        /\ w.timer = u.timer
    BY CancelHoverIs
  <1>2. Panel!SetOpen(u, open) = IF u.open = open \/ ~u.shown THEN w ELSE v
    BY DEF Panel!SetOpen
  <1> HIDE DEF w
  <1>3. k \in BOOLEAN
    BY <1>1 DEF Typed, Panel!UiRec
  <1> HIDE DEF k
  <1>4. v \in Panel!UiRec
    BY <1>1, <1>3 DEF Typed, Panel!UiRec
  <1>5. /\ v.timer = w.timer /\ v.open = open /\ v.keys = k /\ v.shown = w.shown
        /\ v.pending = w.pending /\ v.pressed = w.pressed /\ v.focus = w.focus
        /\ v.mode = w.mode /\ v.pointer = w.pointer /\ v.entered = w.entered
    BY <1>1 DEF Typed, Panel!UiRec
  <1> HIDE DEF v
  <1>6. u.shown => Typed(v) /\ QuotaDue(v) /\ (SideDue(w) => SideDue(v))
    BY <1>1, <1>4, <1>5 DEF Typed, QuotaDue, SideDue
  <1>7. ~u.shown => ~w.open
    BY <1>1 DEF Typed
  <1>8. CASE u.open = open \/ ~u.shown
    BY <1>1, <1>2, <1>7, <1>8
  <1>9. CASE ~(u.open = open \/ ~u.shown)
    BY <1>1, <1>2, <1>5, <1>6, <1>9
  <1> QED
    BY <1>8, <1>9

\* Nor does losing the application.
LEMMA QuotaDeactivateIs ==
  ASSUME NEW u, Typed(u)
  PROVE  LET v == Panel!QuotaDeactivate(u)
         IN  /\ Typed(v) /\ QuotaDue(v) /\ (SideDue(u) => SideDue(v)) /\ v.timer = u.timer
             /\ v.pressed = u.pressed
  <1> DEFINE w == Panel!CancelHover(u)
             v == [w EXCEPT !.hovered = None]
  <1>1. /\ Typed(w) /\ QuotaDue(w) /\ (SideDue(u) => SideDue(w)) /\ w.pending = None
        /\ w.timer = u.timer /\ w.pressed = u.pressed
    BY CancelHoverIs
  <1>2. Panel!QuotaDeactivate(u) = v
    BY DEF Panel!QuotaDeactivate
  <1> HIDE DEF w
  <1>3. v \in Panel!UiRec
    BY <1>1 DEF Typed, Panel!UiRec
  <1>4. /\ v.timer = w.timer /\ v.open = w.open /\ v.keys = w.keys /\ v.shown = w.shown
        /\ v.pending = w.pending /\ v.pressed = w.pressed /\ v.focus = w.focus
        /\ v.mode = w.mode /\ v.pointer = w.pointer /\ v.entered = w.entered
    BY <1>1 DEF Typed, Panel!UiRec
  <1> HIDE DEF v
  <1>5. Typed(v) /\ QuotaDue(v) /\ (SideDue(w) => SideDue(v))
    BY <1>1, <1>3, <1>4 DEF Typed, QuotaDue, SideDue
  <1> QED
    BY <1>1, <1>2, <1>4, <1>5

\* The intent of the quota panel is where the mouse is,
LEMMA QuotaMovedIs ==
  ASSUME NEW u, Due(u), NEW inside \in BOOLEAN
  PROVE  Due(Panel!QuotaMoved(u, inside))
  <1> DEFINE p == IF inside # u.open THEN inside ELSE None
             v == [u EXCEPT !.hovered = inside, !.pending = p]
  <1>1. Panel!QuotaMoved(u, inside) =
          IF ~u.shown THEN u ELSE IF u.pressed THEN Panel!QuotaDeactivate(u)
          ELSE IF u.hovered = inside THEN u ELSE v
    BY DEF Panel!QuotaMoved
  <1>2. Due(Panel!QuotaDeactivate(u))
    BY QuotaDeactivateIs DEF Due
  <1>3. ASSUME u.shown
        PROVE  Due(v)
    <2>1. p \in {None, TRUE, FALSE} /\ (p # None => p = inside /\ p # u.open)
      BY NoneIsNoValue
    <2> HIDE DEF p
    <2>2. v \in Panel!UiRec
      BY <2>1 DEF Due, Typed, Panel!UiRec
    <2>3. /\ v.timer = u.timer /\ v.open = u.open /\ v.keys = u.keys /\ v.shown = u.shown
          /\ v.pending = p /\ v.hovered = inside /\ v.pressed = u.pressed /\ v.focus = u.focus
          /\ v.mode = u.mode /\ v.pointer = u.pointer /\ v.entered = u.entered
      BY DEF Due, Typed, Panel!UiRec
    <2> HIDE DEF v
    <2> QED
      BY <1>3, <2>1, <2>2, <2>3 DEF Due, Typed, QuotaDue, SideDue
  <1> HIDE DEF v
  <1> QED
    BY <1>1, <1>2, <1>3

\* and none after a click.
LEMMA QuotaDownIs ==
  ASSUME NEW u, Due(u), NEW inside \in BOOLEAN
  PROVE  LET v == Panel!QuotaDown(u, inside)
         IN  Due(v) /\ v.shown = u.shown /\ (u.shown => v.pending = None)
  <1> DEFINE w == Panel!CancelHover(u)
             v == [w EXCEPT !.keys = FALSE, !.hovered = inside]
  <1>1. Typed(w) /\ QuotaDue(w) /\ SideDue(w) /\ w.pending = None /\ w.shown = u.shown
    BY CancelHoverIs DEF Due
  <1>2. Panel!QuotaDown(u, inside) = IF ~u.shown THEN u ELSE IF inside THEN v ELSE Panel!SetOpen(v, FALSE)
    BY DEF Panel!QuotaDown
  <1> HIDE DEF w
  <1>3. v \in Panel!UiRec
    BY <1>1 DEF Typed, Panel!UiRec
  <1>4. /\ v.timer = w.timer /\ v.open = w.open /\ v.keys = FALSE /\ v.shown = w.shown
        /\ v.pending = w.pending /\ v.pressed = w.pressed /\ v.focus = w.focus
        /\ v.mode = w.mode /\ v.pointer = w.pointer /\ v.entered = w.entered
    BY <1>1 DEF Typed, Panel!UiRec
  <1> HIDE DEF v
  <1>5. Due(v)
    BY <1>1, <1>3, <1>4 DEF Due, Typed, QuotaDue, SideDue
  <1>6. Due(Panel!SetOpen(v, FALSE)) /\ Panel!SetOpen(v, FALSE).shown = v.shown
        /\ Panel!SetOpen(v, FALSE).pending = None
    BY <1>5, SetOpenIs DEF Due
  <1> QED
    BY <1>1, <1>2, <1>4, <1>5, <1>6

\* What a key leaves of the quota panel.
LEMMA QuotaKeyIs ==
  ASSUME NEW u, Due(u), NEW k \in Panel!Keys, NEW a \in Panel!QuotaKey(u, k)
  PROVE  Due(a.ui)
  <1> DEFINE w == Panel!CancelHover(u)
             typed == [w EXCEPT !.keys = TRUE]
             check == [typed EXCEPT !.check = TRUE]
             there == [u EXCEPT !.focus = "quota"]
  <1>1. /\ Due(w) /\ w.pending = None /\ w.shown = u.shown
    BY CancelHoverIs DEF Due
  <1> HIDE DEF w
  <1>2. ASSUME u.shown
        PROVE  Due(typed) /\ typed.shown
    <2>1. typed \in Panel!UiRec
      BY <1>1 DEF Due, Typed, Panel!UiRec
    <2>2. /\ typed.timer = w.timer /\ typed.open = w.open /\ typed.shown = w.shown
          /\ typed.pending = w.pending /\ typed.pressed = w.pressed /\ typed.focus = w.focus
          /\ typed.mode = w.mode /\ typed.pointer = w.pointer /\ typed.entered = w.entered
      BY <1>1 DEF Due, Typed, Panel!UiRec
    <2> HIDE DEF typed
    <2> QED
      BY <1>1, <1>2, <2>1, <2>2 DEF Due, Typed, QuotaDue, SideDue
  <1>3. ASSUME u.shown
        PROVE  Due(check) /\ check.shown
    <2> HIDE DEF typed
    <2>1. check \in Panel!UiRec
      BY <1>2, <1>3 DEF Due, Typed, Panel!UiRec
    <2>2. /\ check.timer = typed.timer /\ check.open = typed.open /\ check.shown = typed.shown
          /\ check.pending = typed.pending /\ check.pressed = typed.pressed
          /\ check.focus = typed.focus /\ check.mode = typed.mode /\ check.keys = typed.keys
          /\ check.pointer = typed.pointer /\ check.entered = typed.entered
          /\ check.hovered = typed.hovered
      BY <1>2, <1>3 DEF Due, Typed, Panel!UiRec
    <2> HIDE DEF check
    <2> QED
      BY <1>2, <1>3, <2>1, <2>2 DEF Due, Typed, QuotaDue, SideDue
  <1>4. ASSUME NEW v, Due(v), NEW f \in Panel!Focuses, f = "quota" => v.shown
        PROVE  Due([v EXCEPT !.focus = f])
    BY <1>4, FocusIs DEF Due
  <1>5. ASSUME NEW v, Due(v), NEW o \in BOOLEAN
        PROVE  Due(Panel!SetOpen(v, o))
    BY <1>5, SetOpenIs DEF Due
  <1>6. "quota" \in Panel!Focuses /\ u.open \in BOOLEAN /\ u.focus \in Panel!Focuses
        /\ \A f \in Panel!Reached(u) : f \in Panel!Focuses /\ (f = "quota" => u.shown)
    BY DEF Due, Typed, Panel!UiRec, Panel!Focuses, Panel!Reached
  <1> HIDE DEF typed, check, there
  <1>7. CASE ~u.shown
    BY <1>7 DEF Panel!QuotaKey
  <1>8. CASE u.shown /\ k = "escape" /\ u.open
    <2> DEFINE x == Panel!SetOpen(there, FALSE)
    <2>0. a \in {[ui |-> x, taken |-> TRUE]}
      BY Zenon, <1>8 DEF Panel!QuotaKey, there
    <2> HIDE DEF x
    <2>1. a.ui = x
      BY <2>0
    <2>2. Due(there)
      BY <1>4, <1>6, <1>8 DEF there
    <2> QED
      BY <1>5, <2>1, <2>2 DEF x
  <1>9. CASE u.shown /\ ~(k = "escape" /\ u.open) /\ ~Panel!FocusInside(u)
    <2> DEFINE x == IF k = "escape" THEN w ELSE u
    <2>1. a \in {[ui |-> x, taken |-> FALSE]}
      BY Zenon, <1>9 DEF Panel!QuotaKey, w
    <2>2. x \in {w, u}
      OBVIOUS
    <2> HIDE DEF x
    <2>3. a.ui = x
      BY <2>1
    <2> QED
      BY <1>1, <2>2, <2>3
  <1>10. CASE u.shown /\ ~(k = "escape" /\ u.open) /\ Panel!FocusInside(u) /\ k = "up"
    <2> DEFINE x == Panel!SetOpen(typed, TRUE)
    <2>0. a \in {[ui |-> x, taken |-> TRUE]}
      BY Zenon, <1>10 DEF Panel!QuotaKey, typed, w
    <2> HIDE DEF x
    <2>1. a.ui = x
      BY <2>0
    <2> QED
      BY <1>2, <1>5, <1>10, <2>1 DEF x
  <1>11. CASE u.shown /\ ~(k = "escape" /\ u.open) /\ Panel!FocusInside(u) /\ k = "return"
    <2> DEFINE chip == [typed EXCEPT !.focus = "quota"]
    <2>1. a.ui = Panel!SetOpen(chip, ~u.open)
      BY <1>11 DEF Panel!QuotaKey, typed, w
    <2>2. Due(chip)
      BY <1>2, <1>4, <1>6, <1>11
    <2> HIDE DEF chip
    <2> QED
      BY <1>5, <2>1, <2>2
  <1>12. CASE u.shown /\ ~(k = "escape" /\ u.open) /\ Panel!FocusInside(u) /\ k \notin {"up", "return"}
    <2> DEFINE x(f) == [typed EXCEPT !.check = TRUE, !.focus = f]
               F == IF k = "tab" THEN Panel!Reached(u) ELSE {u.focus}
    <2>0. a \in UNION {{[ui |-> x(f), taken |-> k = "tab"]} : f \in F}
      BY Zenon, <1>12 DEF Panel!QuotaKey, typed, w
    <2>1. PICK f \in F : a \in {[ui |-> x(f), taken |-> k = "tab"]}
      BY Zenon, <2>0
    <2>2. f \in Panel!Focuses /\ (f = "quota" => u.shown)
      BY <1>6, <1>12, <2>1
    <2> HIDE DEF x
    <2>3. a.ui = x(f)
      BY <2>1
    <2>4. x(f) = [check EXCEPT !.focus = f]
      BY DEF x, check
    <2> QED
      BY <1>3, <1>4, <1>12, <2>2, <2>3, <2>4
  <1> QED
    BY <1>7, <1>8, <1>9, <1>10, <1>11, <1>12

\* What a click leaves of the views.
LEMMA ClickedIs ==
  ASSUME NEW u, Calm(u), NEW p \in Panel!Places, p = "quota" => u.shown, NEW v \in Panel!Clicked(u, p)
  PROVE  Calm(v)
  <1>1. ASSUME NEW f \in Panel!Focuses, f = "quota" => u.shown
        PROVE  Calm([u EXCEPT !.focus = f]) /\ [u EXCEPT !.focus = f].shown = u.shown
    BY <1>1, FocusIs DEF Calm
  <1>2. Panel!Focuses = {"chip", "list", "quota", "terminal", "other"} /\ u.focus \in Panel!Focuses
        /\ (u.focus = "quota" => u.shown)
    BY DEF Panel!Focuses, Calm, Typed, Panel!UiRec
  <1>3. CASE p = "chip"
    <2> DEFINE c == [u EXCEPT !.focus = "chip"]
    <2>1. v = Panel!Opened(c)
      BY <1>3 DEF Panel!Clicked
    <2>2. Calm(c)
      BY <1>1, <1>2
    <2> HIDE DEF c
    <2> QED
      BY <2>1, <2>2, OpenedIs
  <1>4. CASE p = "list"
    <2>1. PICK f \in {"terminal", "list", u.focus} : v = [u EXCEPT !.focus = f]
      BY <1>4 DEF Panel!Clicked
    <2> QED
      BY <1>1, <1>2, <2>1
  <1>5. CASE p = "head"
    BY <1>5, ToggledIs DEF Panel!Clicked, Calm
  <1>6. CASE p = "quota"
    <2> DEFINE c == [u EXCEPT !.focus = "quota"]
               d == [c EXCEPT !.keys = FALSE]
    <2>1. v = c \/ v = Panel!SetOpen(d, TRUE)
      BY <1>6 DEF Panel!Clicked
    <2>2. Calm(c) /\ c.shown = u.shown
      BY <1>1, <1>2, <1>6
    <2> HIDE DEF c
    <2>3. d \in Panel!UiRec
      BY <2>2 DEF Calm, Typed, Panel!UiRec
    <2>4. /\ d.timer = c.timer /\ d.open = c.open /\ d.keys = FALSE /\ d.shown = c.shown
          /\ d.pending = c.pending /\ d.focus = c.focus
      BY <2>2 DEF Calm, Typed, Panel!UiRec
    <2> HIDE DEF d
    <2>5. Typed(d) /\ d.timer = None
      BY <2>2, <2>3, <2>4 DEF Calm, Typed
    <2>6. Calm(Panel!SetOpen(d, TRUE))
      BY <2>5, SetOpenIs DEF Calm
    <2> QED
      BY <2>1, <2>2, <2>6
  <1>7. CASE p = "out"
    <2>1. PICK f \in {"terminal", "other"} : v = [u EXCEPT !.focus = f]
      BY <1>7 DEF Panel!Clicked
    <2> QED
      BY <1>1, <1>2, <2>1
  <1> QED
    BY <1>3, <1>4, <1>5, <1>6, <1>7 DEF Panel!Places

\* What a key that no panel took leaves of the views.
LEMMA PressedIs ==
  ASSUME NEW u, Due(u), NEW k \in Panel!Keys, NEW v \in Panel!Pressed(u, k)
  PROVE  Due(v)
  <1>1. ASSUME NEW f \in Panel!Focuses, f = "quota" => u.shown
        PROVE  Due([u EXCEPT !.focus = f])
    BY <1>1, FocusIs DEF Due
  <1>2. \A f \in Panel!Reached(u) : f \in Panel!Focuses /\ (f = "quota" => u.shown)
    BY DEF Panel!Reached, Panel!Focuses
  <1>3. Due(Panel!Toggled(u))
    BY ToggledIs, CalmIsDue DEF Due
  <1>4. Due(Panel!Opened(u))
    BY SetModeIs DEF Due, Panel!Opened
  <1>5. CASE k = "return" /\ u.focus = "chip"
    BY <1>3, <1>4, <1>5 DEF Panel!Pressed
  <1>6. CASE k = "tab" /\ u.focus # "terminal"
    <2>1. PICK f \in Panel!Reached(u) : v = [u EXCEPT !.focus = f]
      BY <1>6 DEF Panel!Pressed
    <2> QED
      BY <1>1, <1>2, <2>1
  <1>7. CASE ~(k = "return" /\ u.focus = "chip") /\ ~(k = "tab" /\ u.focus # "terminal")
    BY <1>7 DEF Panel!Pressed
  <1> QED
    BY <1>5, <1>6, <1>7

\* Losing the focus folds a transient sidebar.
LEMMA UnfocusedIs ==
  ASSUME NEW u, Due(u)
  PROVE  Due(Panel!Unfocused(u))
  BY SetModeIs DEF Due, Panel!Unfocused

\* The mouse moves,
LEMMA MouseMovedKeeps ==
  ASSUME PanelsInv, NEW p \in Panel!Places, Panel!MouseMoved(p)
  PROVE  PanelsInv'
  <1> DEFINE inside == p = "quota"
             r == Panel!Region(p)
             q == Panel!QuotaMoved(panels, inside)
             v == Panel!SideMoved(q, r)
  <1>1. r \in {"chip", "list", "head", "out"} /\ inside \in BOOLEAN
    BY DEF Panel!Region, Panel!Places
  <1>2. panels' = v /\ kept' \subseteq {"sidebar", "quota"}
    BY DEF Panel!MouseMoved, PanelsInv
  <1> HIDE DEF inside, r
  <1>3. Due(q)
    BY <1>1, QuotaMovedIs DEF PanelsInv
  <1> HIDE DEF q
  <1>4. Due(v)
    BY <1>1, <1>3, SideMovedIs
  <1> HIDE DEF v
  <1> QED
    BY <1>2, <1>4 DEF PanelsInv

\* is pressed,
LEMMA MouseDownKeeps ==
  ASSUME PanelsInv, NEW p \in Panel!Places, Panel!MouseDown(p)
  PROVE  PanelsInv'
  <1> DEFINE inside == p = "quota"
             r == Panel!Region(p)
             q == Panel!QuotaDown(panels, inside)
             s == Panel!SideDown(q, r)
  <1>1. r \in {"chip", "list", "head", "out"} /\ inside \in BOOLEAN
    BY DEF Panel!Region, Panel!Places
  <1>2. PICK v \in Panel!Clicked(s, p) : panels' = [v EXCEPT !.pressed = TRUE]
    BY DEF Panel!MouseDown
  <1>3. kept' = kept /\ (p = "quota" => panels.shown)
    BY DEF Panel!MouseDown, Panel!PlaceAt
  <1> HIDE DEF inside, r
  <1>4. Due(q) /\ q.shown = panels.shown
    BY <1>1, QuotaDownIs DEF PanelsInv
  <1> HIDE DEF q
  <1>5. Calm(s) /\ s.shown = panels.shown
    BY <1>1, <1>4, SideDownIs
  <1> HIDE DEF s
  <1>6. Calm(v)
    BY <1>2, <1>3, <1>5, ClickedIs
  <1> DEFINE w == [v EXCEPT !.pressed = TRUE]
  <1>7. w \in Panel!UiRec
    BY <1>6 DEF Calm, Typed, Panel!UiRec
  <1>8. /\ w.timer = v.timer /\ w.open = v.open /\ w.keys = v.keys /\ w.shown = v.shown
        /\ w.pending = v.pending /\ w.hovered = v.hovered /\ w.focus = v.focus
    BY <1>6 DEF Calm, Typed, Panel!UiRec
  <1>9. panels' = w
    BY <1>2
  <1> HIDE DEF w
  <1>10. Calm(w)
    BY <1>6, <1>7, <1>8 DEF Calm, Typed, QuotaDue
  <1> QED
    BY <1>3, <1>9, <1>10, CalmIsDue DEF PanelsInv

\* and released.
LEMMA MouseUpKeeps ==
  ASSUME PanelsInv, Panel!MouseUp
  PROVE  PanelsInv'
  <1> DEFINE w == [panels EXCEPT !.pressed = FALSE]
  <1>1. w \in Panel!UiRec
    BY DEF PanelsInv, Due, Typed, Panel!UiRec
  <1>2. /\ w.timer = panels.timer /\ w.open = panels.open /\ w.keys = panels.keys
        /\ w.shown = panels.shown /\ w.pending = panels.pending /\ w.hovered = panels.hovered
        /\ w.focus = panels.focus /\ w.mode = panels.mode /\ w.pointer = panels.pointer
        /\ w.entered = panels.entered /\ w.pressed = FALSE
    BY DEF PanelsInv, Due, Typed, Panel!UiRec
  <1>3. panels' = w /\ kept' = kept
    BY DEF Panel!MouseUp
  <1> HIDE DEF w
  <1>4. Due(w)
    BY <1>1, <1>2 DEF PanelsInv, Due, Typed, QuotaDue, SideDue
  <1> QED
    BY <1>3, <1>4 DEF PanelsInv

\* A key goes to the quota panel, then to the sidebar, then to the window.
LEMMA KeyDownKeeps ==
  ASSUME PanelsInv, NEW k \in Panel!Keys, Panel!KeyDown(k)
  PROVE  PanelsInv'
  <1>1. PICK a \in Panel!QuotaKey(panels, k) : \E b \in Panel!SideKey(a.ui, k) :
          /\ \E v \in IF a.taken \/ b.taken THEN {b.ui} ELSE Panel!Pressed(b.ui, k) :
                panels' = Panel!Unfocused(v)
          /\ kept' = kept \cup (IF k = "digit" /\ b.taken THEN {"sidebar"} ELSE {})
    BY DEF Panel!KeyDown
  <1>2. PICK b \in Panel!SideKey(a.ui, k) :
          /\ \E v \in IF a.taken \/ b.taken THEN {b.ui} ELSE Panel!Pressed(b.ui, k) :
                panels' = Panel!Unfocused(v)
          /\ kept' = kept \cup (IF k = "digit" /\ b.taken THEN {"sidebar"} ELSE {})
    BY <1>1
  <1>3. PICK v \in {b.ui} \cup Panel!Pressed(b.ui, k) : panels' = Panel!Unfocused(v)
    BY <1>2
  <1>4. Due(a.ui)
    BY QuotaKeyIs DEF PanelsInv
  <1>5. Due(b.ui)
    BY <1>4, SideKeyIs
  <1>6. Due(v)
    BY <1>3, <1>5, PressedIs
  <1>7. Due(Panel!Unfocused(v))
    BY <1>6, UnfocusedIs
  <1>8. kept' \subseteq {"sidebar", "quota"}
    BY <1>2 DEF PanelsInv
  <1> QED
    BY <1>3, <1>7, <1>8 DEF PanelsInv

\* A timer that fires does what is still wanted.
LEMMA TimersKeep ==
  ASSUME PanelsInv, Panel!SideTimer \/ Panel!HoverTimer
  PROVE  PanelsInv'
  <1>1. Typed(panels) /\ QuotaDue(panels) /\ SideDue(panels) /\ kept \subseteq {"sidebar", "quota"}
    BY DEF PanelsInv, Due
  <1>2. CASE Panel!SideTimer
    <2> DEFINE c == Panel!Cancel(panels)
    <2>1. Calm(c)
      BY <1>1, CancelIs
    <2>2. panels.timer \in {"open", "close", "fold"}
      BY <1>1, <1>2 DEF Panel!SideTimer, Typed, Panel!UiRec
    <2>3. panels' \in {c, Panel!SetMode(c, "Transient"), Panel!SetMode(c, "Closed")} /\ kept' = kept
      BY <1>2, <2>2 DEF Panel!SideTimer
    <2> HIDE DEF c
    <2>4. Due(c) /\ Due(Panel!SetMode(c, "Transient")) /\ Due(Panel!SetMode(c, "Closed"))
      BY <2>1, CalmIsDue, SetModeIs DEF Calm
    <2> QED
      BY <1>1, <2>3, <2>4 DEF PanelsInv
  <1>3. CASE Panel!HoverTimer
    <2>1. panels.pending \in BOOLEAN
      BY <1>1, <1>3 DEF Panel!HoverTimer, Typed, Panel!UiRec
    <2>2. panels' \in {Panel!SetOpen(panels, panels.pending), Panel!CancelHover(panels)} /\ kept' = kept
      BY <1>3 DEF Panel!HoverTimer
    <2> QED
      BY <1>1, <2>1, <2>2, SetOpenIs, CancelHoverIs DEF PanelsInv, Due
  <1> QED
    BY <1>2, <1>3

\* The focus is checked later than it changed.
LEMMA CheckFocusKeeps ==
  ASSUME PanelsInv, Panel!CheckFocus
  PROVE  PanelsInv'
  <1> DEFINE w == [panels EXCEPT !.check = FALSE]
  <1>1. w \in Panel!UiRec
    BY DEF PanelsInv, Due, Typed, Panel!UiRec
  <1>2. /\ w.timer = panels.timer /\ w.open = panels.open /\ w.keys = panels.keys
        /\ w.shown = panels.shown /\ w.pending = panels.pending /\ w.hovered = panels.hovered
        /\ w.focus = panels.focus /\ w.mode = panels.mode /\ w.pointer = panels.pointer
        /\ w.entered = panels.entered /\ w.pressed = panels.pressed
    BY DEF PanelsInv, Due, Typed, Panel!UiRec
  <1>3. panels' \in {w, Panel!SetOpen(w, FALSE)} /\ kept' = kept
    BY DEF Panel!CheckFocus
  <1> HIDE DEF w
  <1>4. Due(w)
    BY <1>1, <1>2 DEF PanelsInv, Due, Typed, QuotaDue, SideDue
  <1>5. Due(Panel!SetOpen(w, FALSE))
    BY <1>4, SetOpenIs DEF Due
  <1> QED
    BY <1>3, <1>4, <1>5 DEF PanelsInv

\* Another application comes to the front.
LEMMA DeactivateKeeps ==
  ASSUME PanelsInv, Panel!Deactivate
  PROVE  PanelsInv'
  <1> DEFINE w == [panels EXCEPT !.keyboard = FALSE, !.pointer = "out"]
             c == Panel!Cancel(w)
             d == IF c.mode = "Transient" THEN Panel!SetMode(c, "Closed") ELSE c
  <1>1. w \in Panel!UiRec
    BY DEF PanelsInv, Due, Typed, Panel!UiRec
  <1>2. /\ w.open = panels.open /\ w.keys = panels.keys /\ w.shown = panels.shown
        /\ w.pending = panels.pending /\ w.hovered = panels.hovered /\ w.focus = panels.focus
    BY DEF PanelsInv, Due, Typed, Panel!UiRec
  <1>3. panels' = Panel!QuotaDeactivate(d) /\ kept' = {}
    BY DEF Panel!Deactivate
  <1> HIDE DEF w
  <1>4. Typed(w) /\ QuotaDue(w)
    BY <1>1, <1>2 DEF PanelsInv, Due, Typed, QuotaDue
  <1>5. Calm(c)
    BY <1>4, CancelIs
  <1> HIDE DEF c
  <1>6. Due(d)
    BY <1>5, CalmIsDue, SetModeIs DEF Calm
  <1> HIDE DEF d
  <1>7. Due(Panel!QuotaDeactivate(d))
    BY <1>6, QuotaDeactivateIs DEF Due
  <1> QED
    BY <1>3, <1>7 DEF PanelsInv

\* The divider is dragged until the sidebar folds.
LEMMA CollapseKeeps ==
  ASSUME PanelsInv, Panel!Collapse
  PROVE  PanelsInv'
  <1> DEFINE w == [panels EXCEPT !.mode = "Closed"]
  <1>1. w \in Panel!UiRec
    BY DEF PanelsInv, Due, Typed, Panel!UiRec
  <1>2. /\ w.timer = panels.timer /\ w.open = panels.open /\ w.keys = panels.keys
        /\ w.shown = panels.shown /\ w.pending = panels.pending /\ w.hovered = panels.hovered
        /\ w.focus = panels.focus /\ panels.mode = "Pinned"
    BY DEF PanelsInv, Due, Typed, Panel!UiRec, Panel!Collapse
  <1>3. panels' = w /\ kept' = kept
    BY DEF Panel!Collapse
  <1> HIDE DEF w
  <1>4. w.timer = None
    BY <1>2 DEF PanelsInv, Due, SideDue, Typed, Panel!UiRec
  <1>5. Calm(w)
    BY <1>1, <1>2, <1>4 DEF PanelsInv, Due, Calm, Typed, QuotaDue
  <1> QED
    BY <1>3, <1>5, CalmIsDue DEF PanelsInv

\* The quota panel comes or goes with the quotas.
LEMMA ApplyQuotaKeeps ==
  ASSUME PanelsInv, NEW now \in BOOLEAN, Panel!ApplyQuota(now)
  PROVE  PanelsInv'
  <1> DEFINE s == IF now THEN panels ELSE Panel!SetOpen(panels, FALSE)
             c == Panel!CancelHover(s)
             o == c.open /\ now
             k == c.keys /\ now
             f == IF c.focus = "quota" /\ ~now THEN "terminal" ELSE c.focus
             w == [c EXCEPT !.shown = now, !.open = o, !.keys = k, !.focus = f]
  <1>1. Due(s)
    BY SetOpenIs DEF PanelsInv, Due
  <1>2. panels' = w /\ kept' \subseteq {"sidebar", "quota"}
    BY DEF Panel!ApplyQuota, PanelsInv
  <1> HIDE DEF s
  <1>3. Due(c) /\ c.pending = None
    BY <1>1, CancelHoverIs DEF Due
  <1> HIDE DEF c
  <1>4. o \in BOOLEAN /\ k \in BOOLEAN /\ (~now => ~o /\ ~k)
    BY <1>3 DEF Due, Typed, Panel!UiRec
  <1>5. f \in Panel!Focuses /\ (f = "quota" => now)
    BY <1>3 DEF Due, Typed, Panel!UiRec, Panel!Focuses
  <1> HIDE DEF o, k, f
  <1>6. w \in Panel!UiRec
    BY <1>3, <1>4, <1>5 DEF Due, Typed, Panel!UiRec
  <1>7. /\ w.timer = c.timer /\ w.open = o /\ w.keys = k /\ w.shown = now
        /\ w.pending = c.pending /\ w.focus = f /\ w.mode = c.mode /\ w.pointer = c.pointer
        /\ w.entered = c.entered /\ w.pressed = c.pressed
    BY <1>3 DEF Due, Typed, Panel!UiRec
  <1> HIDE DEF w
  <1>8. Due(w)
    BY <1>3, <1>4, <1>5, <1>6, <1>7 DEF Due, Typed, QuotaDue, SideDue
  <1> QED
    BY <1>2, <1>8 DEF PanelsInv

\* No intent waits at first.
LEMMA PanelsInit ==
  ASSUME Panel!Init
  PROVE  PanelsInv
  <1>1. panels \in Panel!UiRec
    BY DEF Panel!Init, Panel!UiRec, Panel!Focuses
  <1>2. panels.timer = None /\ panels.pending = None /\ ~panels.open /\ ~panels.keys
        /\ panels.focus = "terminal" /\ kept = {}
    BY DEF Panel!Init
  <1> QED
    BY <1>1, <1>2, CalmIsDue DEF PanelsInv, Calm, Typed, QuotaDue

\* Every event keeps the invariant of the panels.
LEMMA PanelsStep ==
  ASSUME PanelsInv, Panel!Next
  PROVE  PanelsInv'
  <1>1. CASE Panel!Toggle
    BY <1>1, ToggledIs, CalmIsDue DEF Panel!Toggle, PanelsInv, Due
  <1>2. ASSUME NEW f \in Panel!Focuses, Panel!FocusElsewhere(f)
        PROVE  PanelsInv'
    BY <1>2, FocusIs DEF Panel!FocusElsewhere, PanelsInv, Due
  <1> QED
    BY <1>1, <1>2, MouseMovedKeeps, MouseDownKeeps, MouseUpKeeps, KeyDownKeeps, TimersKeep,
       CheckFocusKeeps, DeactivateKeeps, CollapseKeeps, ApplyQuotaKeeps DEF Panel!Next

\* Steps of the other parts leave the panels alone.
LEMMA PanelsStutter ==
  ASSUME PanelsInv, UNCHANGED panelVars
  PROVE  PanelsInv'
  BY DEF PanelsInv, panelVars

\* The invariant gives that intents are due.
LEMMA PanelsImply ==
  ASSUME PanelsInv
  PROVE  Panel!TypeOK /\ Panel!IntentIsDue
  BY DEF PanelsInv, Due, Typed, SideDue, QuotaDue, Panel!TypeOK, Panel!IntentIsDue

-----------------------------------------------------------------------------
(* The scan of the sidebar *)

\* Also the rows that are under way hold the home directory's.
ScanInv ==
    /\ Scan!TypeOK
    /\ incoming # None => Scan!HomeRow \in incoming
    /\ thread.step = "post" => Scan!HomeRow \in thread.found

\* A scan under way.
ScanRec == [todo: SUBSET Repos, found: SUBSET Scan!Rows, step: {"none", "load", "scan", "post"}]

\* What a scan finds are rows.
LEMMA RowsAre ==
  /\ Scan!HomeRow \in Scan!Rows
  /\ Scan!Idle \in ScanRec /\ Scan!Idle.step = "none"
  /\ disk \in [Repos -> Scan!Answers] => \A r \in Repos : Scan!RowsOf(r) \subseteq Scan!Rows
  <1>1. Scan!HomeRow \in Scan!Rows
    BY DEF Scan!Rows
  <1>2. Scan!Idle \in ScanRec /\ Scan!Idle.step = "none"
    BY DEF Scan!Idle, ScanRec
  <1>3. ASSUME disk \in [Repos -> Scan!Answers], NEW r \in Repos
        PROVE  Scan!RowsOf(r) \subseteq Scan!Rows
    <2>1. Scan!Trees[disk[r]] \subseteq {1, 2}
      BY <1>3 DEF Scan!Answers, Scan!Trees
    <2> QED
      BY <2>1 DEF Scan!RowsOf, Scan!Rows
  <1> QED
    BY <1>1, <1>2, <1>3

\* The home directory's row is listed at first.
LEMMA ScanInit ==
  ASSUME Scan!Init
  PROVE  ScanInv
  <1>1. shown \subseteq Scan!Rows /\ Scan!HomeRow \in shown
    BY RowsAre DEF Scan!Init, Scan!Listing, Scan!WithHome
  <1>2. thread \in ScanRec /\ thread.step = "none" /\ incoming = None
    BY RowsAre DEF Scan!Init
  <1>3. registered \subseteq Repos /\ disk \in [Repos -> Scan!Answers] /\ scanning = FALSE
        /\ dirty = FALSE /\ asked = FALSE
    BY DEF Scan!Init
  <1>4. {scanning, dirty, asked} \subseteq BOOLEAN
    BY <1>3
  <1>5. incoming \in (SUBSET Scan!Rows) \cup {None} /\ thread.step # "post"
    BY <1>2
  <1> QED
    BY Zenon, <1>1, <1>2, <1>3, <1>4, <1>5 DEF ScanInv, Scan!TypeOK, ScanRec

\* Every step of a scan keeps its rows and its flag.
LEMMA ScanStep ==
  ASSUME ScanInv, Scan!Next
  PROVE  ScanInv'
  <1>1. CASE Scan!AskRefresh
    BY <1>1, RowsAre DEF Scan!AskRefresh, Scan!Refresh, ScanInv, Scan!TypeOK, ScanRec
  <1>2. ASSUME NEW paths \in SUBSET Repos, Scan!AddRepos(paths)
        PROVE  ScanInv'
    BY <1>2, RowsAre DEF Scan!AddRepos, Scan!Refresh, ScanInv, Scan!TypeOK, ScanRec
  <1>3. ASSUME NEW r \in Repos, Scan!EditElsewhere(r)
        PROVE  ScanInv'
    BY <1>3 DEF Scan!EditElsewhere, ScanInv, Scan!TypeOK
  <1>4. ASSUME NEW r \in Repos, NEW a \in Scan!Answers, Scan!ChangeDisk(r, a)
        PROVE  ScanInv'
    BY <1>4 DEF Scan!ChangeDisk, ScanInv, Scan!TypeOK
  <1>5. CASE Scan!LoadState
    BY <1>5 DEF Scan!LoadState, ScanInv, Scan!TypeOK
  <1>6. CASE Scan!Post
    BY <1>6, RowsAre, NoneIsNoValue DEF Scan!Post, ScanInv, Scan!TypeOK, Scan!WithHome, ScanRec
  <1>7. ASSUME NEW r \in Repos, Scan!ScanRepo(r)
        PROVE  ScanInv'
    BY <1>7, RowsAre DEF Scan!ScanRepo, ScanInv, Scan!TypeOK, Scan!AfterFailure, Scan!WithHome
  <1>8. CASE Scan!Apply
    <2>0. incoming # None /\ thread \in ScanRec
      BY <1>8 DEF Scan!Apply, ScanInv, Scan!TypeOK, ScanRec
    <2>1. incoming \in SUBSET Scan!Rows /\ Scan!HomeRow \in incoming /\ thread.step = "none"
      BY <2>0 DEF ScanInv, Scan!TypeOK
    <2>2. /\ shown' = incoming /\ incoming' = None /\ dirty' = FALSE
          /\ registered' = registered /\ disk' = disk
      BY <1>8 DEF Scan!Apply
    <2>3. \/ scanning' = FALSE /\ thread' = thread /\ asked' = asked
          \/ scanning' = TRUE /\ thread' = [Scan!Idle EXCEPT !.step = "load"] /\ asked' = asked
          \/ scanning' = FALSE /\ thread' = thread /\ asked' = FALSE
      BY <1>8 DEF Scan!Apply
    <2>4. thread' \in ScanRec /\ thread'.step \in {"none", "load"}
          /\ (scanning' <=> thread'.step = "load")
      BY <2>0, <2>1, <2>3, RowsAre DEF ScanRec
    <2>5. {scanning, dirty, asked}' \subseteq BOOLEAN
      BY <2>2, <2>3 DEF ScanInv, Scan!TypeOK
    <2>6. /\ registered' \subseteq Repos /\ disk' \in [Repos -> Scan!Answers]
          /\ incoming' \in (SUBSET Scan!Rows) \cup {None} /\ shown' \subseteq Scan!Rows
          /\ Scan!HomeRow \in shown'
      BY <2>1, <2>2 DEF ScanInv, Scan!TypeOK
    <2>7. (Scan!HomeRow)' = Scan!HomeRow /\ (Scan!Rows)' = Scan!Rows
      BY DEF Scan!HomeRow, Scan!Rows, Scan!Row
    <2> QED
      BY <2>2, <2>4, <2>5, <2>6, <2>7 DEF ScanInv, Scan!TypeOK, ScanRec
  <1> QED
    BY <1>1, <1>2, <1>3, <1>4, <1>5, <1>6, <1>7, <1>8 DEF Scan!Next, Scan!Worker

-----------------------------------------------------------------------------
(* The polling of the quotas *)

\* While they are fresh a wait runs: only what makes them fresh ends a reading.
PollInv == Quota!TypeOK /\ Quota!PollingGoesOn /\ (fresh => waiting \/ starved)

\* The first reading begins with the application.
LEMMA PollInit ==
  ASSUME Quota!Init
  PROVE  PollInv
  <1>1. {fetching, posted, waiting, fresh, live, starved} \subseteq BOOLEAN
    BY DEF Quota!Init
  <1>2. polls \in 0..MaxPolls
    BY PollBound DEF Quota!Init
  <1>3. fetching /\ ~posted /\ ~fresh
    BY DEF Quota!Init
  <1> QED
    BY <1>1, <1>2, <1>3 DEF PollInv, Quota!TypeOK, Quota!PollingGoesOn

\* Every step leaves something that leads to the next reading.
LEMMA PollStep ==
  ASSUME PollInv, Quota!Next
  PROVE  PollInv'
  <1> USE PollBound DEF PollInv, Quota!TypeOK, Quota!PollingGoesOn
  <1>1. CASE Quota!Activate
    BY <1>1 DEF Quota!Activate, Quota!RequestQuota, Quota!Fetch, Quota!SchedulePoll
  <1>2. CASE Quota!ChangeLive
    BY <1>2 DEF Quota!ChangeLive
  <1>3. CASE Quota!Post
    BY <1>3 DEF Quota!Post
  <1>4. CASE Quota!Apply
    BY <1>4 DEF Quota!Apply, Quota!SchedulePoll
  <1>5. CASE Quota!WaitEnds
    <2>1. polls' \in 0..MaxPolls /\ polls' > 0
      BY <1>5 DEF Quota!WaitEnds
    <2>2. {fetching, posted, waiting, fresh, live, starved}' \subseteq BOOLEAN
      BY <1>5 DEF Quota!WaitEnds
    <2>3. (posted' => fetching') /\ ~fresh'
      BY <1>5 DEF Quota!WaitEnds, Quota!WaitTakes
    <2> QED
      BY <2>1, <2>2, <2>3
  <1>6. CASE Quota!Poll
    <2>1. polls' \in 0..MaxPolls
      BY <1>6 DEF Quota!Poll
    <2>2. {fetching, posted, waiting, fresh, live, starved}' \subseteq BOOLEAN
      BY <1>6 DEF Quota!Poll, Quota!RequestQuota, Quota!Fetch, Quota!SchedulePoll
    <2>3. (posted' => fetching') /\ (fetching' \/ waiting' \/ starved') /\ fresh' = fresh
          /\ (fresh => waiting' \/ starved')
      BY <1>6 DEF Quota!Poll, Quota!RequestQuota, Quota!Fetch, Quota!SchedulePoll
    <2> QED
      BY <2>1, <2>2, <2>3
  <1>7. CASE Quota!Age
    BY <1>7 DEF Quota!Age
  <1> QED
    BY <1>1, <1>2, <1>3, <1>4, <1>5, <1>6, <1>7 DEF Quota!Next

-----------------------------------------------------------------------------
(* The window *)

\* Each part has its invariant while it runs.
PartsInv ==
    /\ part = "panels" => PanelsInv
    /\ part = "scan" => ScanInv
    /\ part = "poll" => PollInv

\* In every state an intent of a panel that waits is still wanted, one scan of the
\* repositories is under way exactly while the flag says so, and something leads to the
\* next reading of the quotas.
THEOREM PanelsHold == AllSpec => []PanelsAgree
  <1>1. Start => PartsInv
    BY PanelsInit, ScanInit, PollInit DEF Start, PartsInv
  <1>2. PartsInv /\ [Step]_desktop => PartsInv'
    <2> SUFFICES ASSUME PartsInv, [Step]_desktop
                 PROVE  PartsInv'
      OBVIOUS
    <2>1. UNCHANGED part
      BY DEF Step, desktop
    <2>2. ASSUME part = "panels"
          PROVE  PanelsInv'
      BY <2>2, PanelsStep, PanelsStutter DEF Step, desktop, PartsInv
    <2>3. ASSUME part = "scan"
          PROVE  ScanInv'
      <3>1. Scan!Next \/ UNCHANGED scanVars
        BY <2>3 DEF Step, desktop
      <3>2. CASE UNCHANGED scanVars
        BY <2>3, <3>2 DEF scanVars, PartsInv, ScanInv, Scan!TypeOK
      <3> QED
        BY <2>3, <3>1, <3>2, ScanStep DEF PartsInv
    <2>4. ASSUME part = "poll"
          PROVE  PollInv'
      <3>1. Quota!Next \/ UNCHANGED pollVars
        BY <2>4 DEF Step, desktop
      <3>2. CASE UNCHANGED pollVars
        BY <2>4, <3>2 DEF pollVars, PartsInv, PollInv, Quota!TypeOK, Quota!PollingGoesOn
      <3> QED
        BY <2>4, <3>1, <3>2, PollStep DEF PartsInv
    <2> QED
      BY <2>1, <2>2, <2>3, <2>4 DEF PartsInv
  <1>3. PartsInv => PanelsAgree
    BY PanelsImply DEF PartsInv, PanelsAgree, ScanInv, PollInv
  <1> QED
    BY <1>1, <1>2, <1>3, PTL DEF AllSpec
=============================================================================
