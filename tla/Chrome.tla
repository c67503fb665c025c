------------------------------- MODULE Chrome -------------------------------
(***************************************************************************)
(* The two panels that open under the pointer: the catalog in the sidebar   *)
(* (crates/combe/src/window.rs) and the quota details (quota_panel.rs).     *)
(*                                                                          *)
(* The window hands every event to the quota panel, then to the sidebar,    *)
(* and, if neither took it, to the views.  Both panels wait before they     *)
(* follow the pointer: they schedule an intent, which a timer carries out   *)
(* later and which anything in between may have to cancel.  The fields of   *)
(* ui before "shown" belong to the sidebar, those from "shown" to the       *)
(* quota panel; the keyboard focus and the mouse buttons belong to both.    *)
(***************************************************************************)
CONSTANT None

VARIABLES
    ui,
    kept    \* panels whose closing was cancelled while the pointer was outside

vars == <<ui, kept>>

Places == {"chip", "list", "head", "quota", "out"}
Keys == {"escape", "digit", "up", "down", "return", "tab", "other"}
Focuses == {"chip", "list", "quota", "terminal", "other"}

\* Where the tab key can go.
Reached(u) == IF u.shown THEN Focuses ELSE Focuses \ {"quota"}

\* Where the sidebar sees the pointer.
Region(p) == IF p = "quota" THEN "out" ELSE p

\* open: toggled once when it is not to be visible at first.
Init ==
    /\ ui \in [mode: {"Pinned", "Closed"}, pointer: {"out"}, entered: {FALSE},
               keyboard: {FALSE}, timer: {None}, focus: {"terminal"}, pressed: {FALSE},
               shown: {FALSE}, open: {FALSE}, keys: {FALSE}, hovered: {None},
               pending: {None}, check: {FALSE}]
    /\ kept = {}

-----------------------------------------------------------------------------
(* The sidebar *)

HasFocus(u) == u.focus \in {"chip", "list"}
Cancel(u) == [u EXCEPT !.timer = None]

\* MUTANT of SetMode: an intent outlives the change of mode.
SetModeOnly(u, m) ==
    [u EXCEPT !.mode = m, !.entered = FALSE, !.keyboard = m # "Closed" /\ @,
              !.focus = IF m = "Closed" /\ HasFocus(u) THEN "terminal" ELSE @]

SetMode(u, m) ==
    [u EXCEPT !.mode = m, !.entered = FALSE, !.timer = None, !.keyboard = m # "Closed" /\ @,
              !.focus = IF m = "Closed" /\ HasFocus(u) THEN "terminal" ELSE @]

Toggled(u) == SetMode(u, IF u.mode = "Pinned" THEN "Closed" ELSE "Pinned")
Opened(u) == IF u.mode = "Pinned" THEN u ELSE SetMode(u, "Transient")

\* MUTANT of Intent: leaving schedules nothing.
OnlyOpens(u, r) ==
    CASE r = "chip" /\ u.mode = "Closed" -> "open"
      [] r = "chip" /\ u.mode # "Closed" /\ u.entered -> "fold"
      [] OTHER -> None

\* What the pointer's move into region r asks for.
Intent(u, r) ==
    CASE r = "chip" /\ u.mode = "Closed" -> "open"
      [] r = "chip" /\ u.mode # "Closed" /\ u.entered -> "fold"
      [] r = "out" /\ u.mode = "Transient" -> "close"
      [] OTHER -> None

At(u, r) == [u EXCEPT !.pointer = r, !.entered = @ \/ r = "list"]

SideMoved(u, r) ==
    LET v == At(u, r)
    IN IF u.pressed THEN Cancel(v)
       ELSE IF r = u.pointer \/ u.mode = "Pinned" THEN v
       ELSE [v EXCEPT !.timer = Intent(v, r)]

SideDown(u, r) ==
    LET v == Cancel([At(u, r) EXCEPT !.keyboard = FALSE])
    IN IF r = "out" /\ u.mode = "Transient" THEN SetMode(v, "Closed") ELSE v

\* The state after a key, and whether the sidebar took it.
SideKey(u, k) ==
    LET typed == [Cancel(u) EXCEPT !.keyboard = TRUE]
        Is(v, taken) == {[ui |-> v, taken |-> taken]}
    IN IF k = "escape" /\ u.mode = "Transient"
         THEN Is([SetMode(u, "Closed") EXCEPT !.focus = "terminal"], TRUE)
       ELSE IF k = "digit" /\ u.mode # "Closed"
         THEN Is(Cancel(u), TRUE) \cup Is([typed EXCEPT !.focus = "list"], TRUE)
       ELSE IF HasFocus(u)
         THEN IF k \in {"up", "down"}
              THEN Is([(IF u.mode = "Closed" THEN SetMode(typed, "Transient") ELSE typed)
                          EXCEPT !.focus = "list"], TRUE)
              ELSE Is(typed, FALSE)
       ELSE Is(IF k = "escape" THEN Cancel(u) ELSE u, FALSE)

-----------------------------------------------------------------------------
(* The quota panel *)

CancelHover(u) == [u EXCEPT !.pending = None]
FocusInside(u) == u.focus = "quota"

SetOpen(u, open) ==
    IF u.open = open \/ ~u.shown THEN CancelHover(u)
    ELSE [CancelHover(u) EXCEPT !.open = open, !.keys = open /\ @]

QuotaDeactivate(u) == [CancelHover(u) EXCEPT !.hovered = None]

QuotaMoved(u, inside) ==
    IF ~u.shown THEN u
    ELSE IF u.pressed THEN QuotaDeactivate(u)
    ELSE IF u.hovered = inside THEN u
    ELSE [u EXCEPT !.hovered = inside, !.pending = IF inside # u.open THEN inside ELSE None]

QuotaDown(u, inside) ==
    LET v == [CancelHover(u) EXCEPT !.keys = FALSE, !.hovered = inside]
    IN IF ~u.shown THEN u ELSE IF inside THEN v ELSE SetOpen(v, FALSE)

QuotaKey(u, k) ==
    LET typed == [CancelHover(u) EXCEPT !.keys = TRUE]
        chip == [typed EXCEPT !.focus = "quota"]
        Is(v, taken) == {[ui |-> v, taken |-> taken]}
    IN IF ~u.shown THEN Is(u, FALSE)
       ELSE IF k = "escape" /\ u.open
         THEN Is(SetOpen([u EXCEPT !.focus = "quota"], FALSE), TRUE)
       ELSE IF ~FocusInside(u) THEN Is(IF k = "escape" THEN CancelHover(u) ELSE u, FALSE)
       ELSE IF k = "up" THEN Is(SetOpen(typed, TRUE), TRUE)
       ELSE IF k = "return" THEN Is(SetOpen(chip, ~u.open), TRUE)
       ELSE UNION {Is([typed EXCEPT !.check = TRUE, !.focus = f], k = "tab") :
                     f \in IF k = "tab" THEN Reached(u) ELSE {u.focus}}

-----------------------------------------------------------------------------
(* The views *)

\* Where a click goes that no panel took: the chip opens, a row opens its
\* worktree and gives the focus to its terminal, a heading keeps it, the header
\* holds the pin button; the quota chip opens its details.
Clicked(u, p) ==
    CASE p = "chip" -> {Opened([u EXCEPT !.focus = "chip"])}
      [] p = "list" -> {[u EXCEPT !.focus = f] : f \in {"terminal", "list", u.focus}}
      [] p = "head" -> {u, Toggled(u)}
      [] p = "quota" -> {[u EXCEPT !.focus = "quota"],
                         SetOpen([u EXCEPT !.focus = "quota", !.keys = FALSE], TRUE)}
      [] p = "out" -> {[u EXCEPT !.focus = f] : f \in {"terminal", "other"}}

\* Where a key goes: Return or the space bar press what has the focus, and a row
\* keeps the focus then; the tab key leaves every view but a terminal.
Pressed(u, k) ==
    CASE k = "return" /\ u.focus = "chip" -> {Opened(u), Toggled(u), u}
      [] k = "tab" /\ u.focus # "terminal" -> {[u EXCEPT !.focus = f] : f \in Reached(u)}
      [] OTHER -> {u}

\* The end of send_event.
Unfocused(u) ==
    IF u.mode = "Transient" /\ u.keyboard /\ ~HasFocus(u) THEN SetMode(u, "Closed") ELSE u

-----------------------------------------------------------------------------
(* Events *)

PlaceAt(p) ==
    /\ p = "list" => ui.mode # "Closed"
    /\ p = "quota" => ui.shown

\* Moved, or dragged if a button is pressed.  A sidebar that is left with a
\* button pressed schedules nothing, then or later.
MouseMoved(p) ==
    LET r == Region(p) IN
    /\ PlaceAt(p)
    /\ ui' = SideMoved(QuotaMoved(ui, p = "quota"), r)
    /\ kept' = IF ui.pressed /\ r = "out" THEN kept \cup {"sidebar"}
               ELSE kept \ ((IF r # ui.pointer THEN {"sidebar"} ELSE {})
                            \cup (IF (p = "quota") # ui.hovered THEN {"quota"} ELSE {}))

MouseDown(p) ==
    /\ PlaceAt(p)
    /\ \E v \in Clicked(SideDown(QuotaDown(ui, p = "quota"), Region(p)), p) :
          ui' = [v EXCEPT !.pressed = TRUE]
    /\ UNCHANGED kept

MouseUp ==
    /\ ui.pressed
    /\ ui' = [ui EXCEPT !.pressed = FALSE]
    /\ UNCHANGED kept

\* A digit without a row cancels the closing of a catalog that stays.
KeyDown(k) ==
    \E a \in QuotaKey(ui, k) : \E b \in SideKey(a.ui, k) :
        /\ \E v \in IF a.taken \/ b.taken THEN {b.ui} ELSE Pressed(b.ui, k) : ui' = Unfocused(v)
        /\ kept' = kept \cup (IF k = "digit" /\ b.taken THEN {"sidebar"} ELSE {})

\* openSidebar, closeSidebar, foldSidebar.
SideTimer ==
    /\ ui.timer # None
    /\ LET u == Cancel(ui) IN
       ui' = CASE ui.timer = "open" -> SetMode(u, "Transient")
               [] ui.timer = "close" -> IF u.keyboard /\ HasFocus(u) THEN u
                                        ELSE SetMode(u, "Closed")
               [] ui.timer = "fold" -> SetMode(u, "Closed")
    /\ UNCHANGED kept

\* applyHover.
HoverTimer ==
    /\ ui.pending # None
    /\ ui' = IF ui.pending \/ ~(ui.keys /\ FocusInside(ui)) THEN SetOpen(ui, ui.pending)
             ELSE CancelHover(ui)
    /\ UNCHANGED kept

CheckFocus ==
    /\ ui.check
    /\ LET u == [ui EXCEPT !.check = FALSE] IN
       ui' = IF u.open /\ u.keys /\ ~FocusInside(u) THEN SetOpen(u, FALSE) ELSE u
    /\ UNCHANGED kept

\* The application or the window stops being the active one.
Deactivate ==
    LET u == Cancel([ui EXCEPT !.keyboard = FALSE, !.pointer = "out"]) IN
    /\ ui' = QuotaDeactivate(IF u.mode = "Transient" THEN SetMode(u, "Closed") ELSE u)
    /\ kept' = {}

\* Cmd-B.
Toggle ==
    /\ ui' = Toggled(ui)
    /\ UNCHANGED kept

\* The divider is dragged past the smallest width.
Collapse ==
    /\ ui.mode = "Pinned"
    /\ ui' = [ui EXCEPT !.mode = "Closed"]
    /\ UNCHANGED kept

\* A command gives the focus to a terminal or another view.
FocusElsewhere(f) ==
    /\ f \in {"terminal", "other"}
    /\ ui' = [ui EXCEPT !.focus = f]
    /\ UNCHANGED kept

\* New quotas arrive, or none: the chip and the details are made again.
ApplyQuota(shown) ==
    LET u == CancelHover(IF shown THEN ui ELSE SetOpen(ui, FALSE)) IN
    /\ ui' = [u EXCEPT !.shown = shown, !.open = @ /\ shown, !.keys = @ /\ shown,
                       !.focus = IF @ = "quota" /\ ~shown THEN "terminal" ELSE @]
    /\ kept' = IF ui.pending # None /\ shown THEN kept \cup {"quota"} ELSE kept

Next ==
    \/ \E p \in Places : MouseMoved(p) \/ MouseDown(p)
    \/ MouseUp
    \/ \E k \in Keys : KeyDown(k)
    \/ SideTimer \/ HoverTimer \/ CheckFocus
    \/ Deactivate \/ Toggle \/ Collapse
    \/ \E f \in Focuses : FocusElsewhere(f)
    \/ \E shown \in BOOLEAN : ApplyQuota(shown)

Spec == Init /\ [][Next]_vars

\* The run loop fires timers that are due.
Fairness == WF_ui(SideTimer) /\ WF_ui(HoverTimer)
FairSpec == Spec /\ Fairness

-----------------------------------------------------------------------------
(* Properties *)

UiRec == [mode: {"Closed", "Transient", "Pinned"}, pointer: {"chip", "list", "head", "out"},
          entered: BOOLEAN, keyboard: BOOLEAN, timer: {None, "open", "close", "fold"},
          focus: Focuses, pressed: BOOLEAN, shown: BOOLEAN, open: BOOLEAN, keys: BOOLEAN,
          hovered: {None, TRUE, FALSE}, pending: {None, TRUE, FALSE}, check: BOOLEAN]

\* Every variable has its type, and details are open only under a chip that has
\* the focus if anything in the panel has.
TypeOK ==
    /\ ui \in UiRec /\ kept \subseteq {"sidebar", "quota"}
    /\ ui.open \/ ui.keys \/ ui.focus = "quota" => ui.shown

\* An intent that waits is still wanted: the pointer is where it was scheduled
\* and the panel as it was found.  Every other cause must have cancelled it.
IntentIsDue ==
    /\ ui.timer = "open" => ui.mode = "Closed" /\ ui.pointer = "chip" /\ ~ui.pressed
    /\ ui.timer = "close" => ui.mode = "Transient" /\ ui.pointer = "out" /\ ~ui.pressed
    /\ ui.timer = "fold" => ui.mode = "Transient" /\ ui.pointer = "chip" /\ ui.entered
    /\ ui.pending # None => ui.shown /\ ui.pending # ui.open /\ ui.pending = ui.hovered

\* "Pinned panels survive those dismissals" (docs/DESIGN.md, Sidebar
\* interaction): only the pin button, its command and the divider unpin.
PinnedStays ==
    [][ui.mode = "Pinned" /\ ui'.mode # "Pinned" =>
          Toggle \/ Collapse \/ MouseDown("head") \/ (KeyDown("return") /\ HasFocus(ui))]_vars

\* A sidebar that closes gives the keyboard back, whichever event, key or timer
\* closed it; the divider alone does not.
ClosingReturnsFocus ==
    [][ui.mode # "Closed" /\ ui'.mode = "Closed" => ~HasFocus(ui') \/ Collapse]_vars

\* A panel that opened by itself goes after the pointer left it, unless the
\* keyboard is in use there or something cancelled the closing.  What does cancel
\* it: leaving the sidebar with a button pressed, Command and a number no row has,
\* and new quotas arriving within the 250 ms, after which the pointer has to come
\* back and leave again.
LeftPanelsClose ==
    /\ (ui.mode = "Transient" /\ ui.pointer = "out" /\ ~ui.keyboard /\ "sidebar" \notin kept)
          ~> (ui.mode # "Transient" \/ ui.pointer # "out" \/ ui.keyboard \/ "sidebar" \in kept)
    /\ (ui.open /\ ui.hovered = FALSE /\ ~ui.keys /\ "quota" \notin kept)
          ~> (~ui.open \/ ui.hovered # FALSE \/ ui.keys \/ "quota" \in kept)
=============================================================================
