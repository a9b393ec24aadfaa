------------------------------ MODULE Desktop ------------------------------
(***************************************************************************)
(* The window-management core of the compositor: the grid model, the       *)
(* keyboard focus, exclusive fullscreen, maximize, and what the layout     *)
(* pass leaves on screen, driven by the nav chords (input.rs), the xdg and *)
(* X11 client requests (handlers/), the taskbar protocol                   *)
(* (foreign_toplevel.rs), the pointer, and the layer-shell launcher.       *)
(*                                                                         *)
(* RubixState is served by one thread: a handler runs to completion, so    *)
(* each one is an action.  What interleaves is the order of the events,    *)
(* and with it the state one handler leaves for the next.                  *)
(*                                                                         *)
(* The fields the handlers thread through each other are the record desk,  *)
(* and every method is an operator from a desk to the desk it leaves (to   *)
(* the set of desks it may leave where a HashSet is iterated).             *)
(***************************************************************************)
EXTENDS Grid

CONSTANTS
  NumMonitors,    \* heads, each bound to a monitor of the same number
  VisibleColumns, \* config.visible_columns, the same for every monitor
  MaxWindows,     \* bound: windows created in a behaviour
  Kind,           \* the shell of each window, in the order of their birth
  MayFullscreen,  \* the windows whose client asks for fullscreen
  Chords,         \* the nav chords the keymap binds
  Devices,        \* the other event sources: "pointer", "taskbar", "launcher"
  MaxColumns,     \* bound: columns of a monitor
  MaxRows         \* bound: groups of a column

AllChords == {"Rotate", "Scroll", "MoveColumn", "NewGroup", "Swap", "Focus", "Move",
              "NewColumn", "Visible", "NextMonitor", "Carry", "Remove", "Maximize",
              "FocusFullscreen", "Redraw"}

Window  == 1..MaxWindows
Monitors == 1..NumMonitors

ASSUME DesktopAssumption ==
  /\ NumMonitors \in Nat \ {0}
  /\ VisibleColumns \in Nat \ {0}
  /\ MaxWindows \in Nat
  /\ Kind \in [Window -> {"wayland", "x11", "menu"}]
  /\ MayFullscreen \subseteq Window
  /\ Chords \subseteq AllChords
  /\ Devices \subseteq {"pointer", "taskbar", "launcher"}
  /\ MaxColumns \in Nat /\ MaxRows \in Nat

VARIABLES
  desk,              \* the fields below
  unmapped,          \* toplevels that have not committed a buffer
  pending_x11_focus, \* the X11 window whose focus waits for its surface
  layer,             \* whether the launcher's layer surface is mapped
  next_id,           \* next_window_id's counter
  gone,              \* tracked X11 windows their client has withdrawn
  xwayland           \* the X server, and xwayland_respawn_attempts

vars == <<desk, unmapped, pending_x11_focus, layer, next_id, gone, xwayland>>

NoMaximize == [stage |-> "None", window |-> NoWindow]
LayerFocus == -1

(***************************************************************************)
(* focus is the keyboard's target: a window, LayerFocus for the launcher,  *)
(* or NoWindow.  space is the set of windows smithay's Space has mapped    *)
(* once the tweens settle.  associated are the X11 windows XWayland has    *)
(* given their wl_surface.                                                 *)
(***************************************************************************)
Desk == [monitors : [Monitors -> Monitor], active_monitor : Monitors,
         windows : SUBSET Window, fullscreen_windows : SUBSET Window,
         maximized : [stage : {"None", "Group", "Monitor"}, window : Window \cup {NoWindow}],
         focus : Window \cup {NoWindow, LayerFocus}, space : SUBSET Window,
         iconified : SUBSET Window, associated : SUBSET Window]

Managed == {w \in Window : Kind[w] # "menu"}
Wayland == {w \in Window : Kind[w] = "wayland"}
X11     == {w \in Window : Kind[w] = "x11"}

XWAYLAND_MAX_RESPAWN_ATTEMPTS == 3

\* init_xwayland: a server is spawned, or there is none for the rest of the session.
Spawned(attempts) == [server : {"starting", "none"}, respawn_attempts : {attempts}]

Init ==
  /\ desk \in {[monitors |-> [i \in Monitors |-> NewMonitor(VisibleColumns)],
                active_monitor |-> a, windows |-> {}, fullscreen_windows |-> {},
                maximized |-> NoMaximize, focus |-> NoWindow, space |-> {},
                iconified |-> {}, associated |-> {}] : a \in Monitors}
  /\ unmapped = {} /\ gone = {}
  /\ pending_x11_focus = NoWindow
  /\ layer = FALSE
  /\ next_id = 1
  /\ xwayland \in Spawned(0)

----------------------------------------------------------------------------
(* What the handlers read *)

\* The monitor the cursor is on, and a desk with that monitor replaced.
Cursor(d) == d.monitors[d.active_monitor]
WithCursor(d, m) == [d EXCEPT !.monitors[d.active_monitor] = m]

GridWindows(d) == UNION {MonitorWindows(d.monitors[i]) : i \in Monitors}

\* get_monitor_id_by_window_id.
MonitorOf(d, w) == CHOOSE i \in Monitors : w \in MonitorWindows(d.monitors[i])

\* focused_window_id: the tracked window whose wl_surface holds the keyboard.
FocusedWindow(d) ==
  IF d.focus \in d.windows /\ (d.focus \in Wayland \/ d.focus \in d.associated)
  THEN d.focus ELSE NoWindow

\* The windows a layout pass gives a rect: the visible bands, and the
\* fullscreen window that holds the focus.
Targets(d) ==
  (UNION {VisibleWindows(d.monitors[i]) : i \in Monitors})
    \cup ({FocusedWindow(d)} \cap d.fullscreen_windows)

----------------------------------------------------------------------------
(* Layout and focus *)

\* Mutant of ApplyLayout: sync_x11_iconic is not called.
LayoutWithoutIconic(d) == [d EXCEPT !.space = Targets(d) \cap d.windows]

\* sync_x11_iconic: the tracked X11 windows a layout pass leaves out are told
\* they are iconic.
Iconified(d) == (X11 \cap d.windows) \ Targets(d)

\* apply_layout, its tweens settled: the targets are mapped and every other
\* tracked window is unmapped.
ApplyLayout(d) == [d EXCEPT !.space = Targets(d) \cap d.windows, !.iconified = Iconified(d)]

\* Mutant of EnterFullscreen: the window keeps its tile.
FullscreenOverTile(d, w) == [d EXCEPT !.fullscreen_windows = @ \cup {w}]

\* set_window_fullscreen(id, true).
EnterFullscreen(d, w) ==
  IF w \in d.fullscreen_windows THEN d
  ELSE [d EXCEPT !.fullscreen_windows = @ \cup {w},
                 !.monitors = [i \in Monitors |-> RemoveWindow(d.monitors[i], w)]]

\* set_window_fullscreen(id, false) for each of ws in turn: insert_into_grid
\* puts them beside the focused window.
LeaveFullscreen(d, ws) ==
  [WithCursor(d, AddWindows(Cursor(d), ws, FocusedWindow(d)))
     EXCEPT !.fullscreen_windows = @ \ {ws[i] : i \in 1..Len(ws)}]

\* Mutant of Reconciled: of several fullscreen windows only one goes back.
ReconciledOneOnly(d) ==
  LET focused  == FocusedWindow(d)
      released == d.maximized.window \notin {NoWindow, focused}
      base     == IF released THEN [d EXCEPT !.maximized = NoMaximize] ELSE d
      leaving  == (d.fullscreen_windows \cap d.windows \cap Wayland) \ {focused}
  IN  IF leaving # {} THEN {ApplyLayout(LeaveFullscreen(base, <<w>>)) : w \in leaving}
      ELSE {IF released THEN ApplyLayout(base) ELSE base}

(***************************************************************************)
(* reconcile_focus_state, after the focus moved: maximize is released, and *)
(* the Wayland windows that are fullscreen without the focus go back into  *)
(* the grid, in the order the HashSet yields them.                         *)
(***************************************************************************)
Reconciled(d) ==
  LET focused  == FocusedWindow(d)
      released == d.maximized.window \notin {NoWindow, focused}
      base     == IF released THEN [d EXCEPT !.maximized = NoMaximize] ELSE d
      leaving  == (d.fullscreen_windows \cap d.windows \cap Wayland) \ {focused}
  IN  IF leaving # {} THEN {ApplyLayout(LeaveFullscreen(base, ws)) : ws \in SetToSeqs(leaving)}
      ELSE {IF released THEN ApplyLayout(base) ELSE base}

\* Mutant of RevealTiled: the cursor stays on its monitor.
RevealTiledMonitorStays(d, w) ==
  LET r == RevealWindow(d.monitors[MonitorOf(d, w)], w)
  IN  [desk |-> [d EXCEPT !.monitors[MonitorOf(d, w)] = FocusWindow(r.monitor, w)],
       kind |-> r.kind]

\* What focus_by_id does to the model for a window of the grid: its monitor
\* becomes the active one, its slot is revealed, and the cursor moves to it.
RevealTiled(d, w) ==
  LET i == MonitorOf(d, w)
      r == RevealWindow(d.monitors[i], w)
  IN  [desk |-> [d EXCEPT !.active_monitor = i,
                          !.monitors[i] = FocusWindow(r.monitor, w)],
       kind |-> r.kind]

\* Mutant of FocusById: no layout pass after a reveal.
FocusByIdUnlaid(d, w) ==
  IF w \notin d.windows THEN {d}
  ELSE Reconciled([(IF w \in GridWindows(d) THEN RevealTiled(d, w).desk ELSE d)
                     EXCEPT !.focus = w, !.iconified = @ \ {w}])

\* focus_by_id.  Outside the grid (fullscreen windows) nothing is revealed.
FocusById(d, w) ==
  LET previous == FocusedWindow(d)
      revealed == IF w \in GridWindows(d) THEN RevealTiled(d, w)
                  ELSE [desk |-> d, kind |-> "AlreadyVisible"]
      focused  == [revealed.desk EXCEPT !.focus = w, !.iconified = @ \ {w}]
      Crossed(e) == {w, previous} \cap e.fullscreen_windows # {}
  IN  IF w \notin d.windows THEN {d}
      ELSE {IF Crossed(e) \/ revealed.kind # "AlreadyVisible" THEN ApplyLayout(e) ELSE e
              : e \in Reconciled(focused)}

\* focus_active_window: the window of the active slot, or no focus at all.
FocusActiveWindow(d) ==
  LET w == ActiveWindow(Cursor(d))
  IN  IF w # NoWindow THEN FocusById(d, w)
      ELSE Reconciled([d EXCEPT !.focus = NoWindow])

\* Mutant of RemoveById: fullscreen_windows keeps the id.
RemoveByIdStillFullscreen(d, ws) ==
  [d EXCEPT !.monitors = [i \in Monitors |-> PruneWindows(d.monitors[i], ws)],
            !.windows = @ \ ws, !.space = @ \ ws, !.iconified = @ \ ws,
            !.associated = @ \ ws, !.focus = IF @ \in ws THEN NoWindow ELSE @]

\* remove_window_by_id for each of ws.  A dead surface is no window's, so the
\* keyboard that still targets one focuses nothing.
RemoveById(d, ws) ==
  [d EXCEPT !.monitors = [i \in Monitors |-> PruneWindows(d.monitors[i], ws)],
            !.windows = @ \ ws, !.fullscreen_windows = @ \ ws, !.space = @ \ ws,
            !.iconified = @ \ ws, !.associated = @ \ ws,
            !.focus = IF @ \in ws THEN NoWindow ELSE @]
----------------------------------------------------------------------------
(* Nav chords: dispatch_nav *)

\* A chord that does not keep maximize drops it before anything else.
Released == [desk EXCEPT !.maximized = NoMaximize]

\* Mutants of the two tails: the focus stays behind, or the layout is skipped.
TailWithoutFocus(d)  == desk' = ApplyLayout(d)
TailWithoutLayout(d) == desk' = d

\* The tail of dispatch_nav, for the chords in its refocus set and the others.
ThenRefocus(d) == desk' \in FocusActiveWindow(ApplyLayout(d))
ThenStay(d)    == desk' = ApplyLayout(d)

Bound(chord) ==
  /\ chord \in Chords
  /\ UNCHANGED <<unmapped, pending_x11_focus, layer, next_id, gone, xwayland>>

RotateColumnsBy(motion) ==
  /\ Bound("Rotate")
  /\ ThenRefocus(WithCursor(Released, RotateColumns(Cursor(desk), motion)))

ScrollColumnBy(motion) ==
  /\ Bound("Scroll")
  /\ ThenRefocus(WithCursor(Released, ScrollActiveColumn(Cursor(desk), motion)))

MoveActiveColumnBy(motion) ==
  /\ Bound("MoveColumn")
  /\ ThenRefocus(WithCursor(Released, MoveActiveColumn(Cursor(desk), motion)))

NewGroup ==
  /\ Bound("NewGroup")
  /\ Len(Cursor(desk).columns[Cursor(desk).active_column].groups) < MaxRows
  /\ ThenRefocus(WithCursor(Released, GrowActiveColumn(Cursor(desk))))

SwapGroup(direction) ==
  /\ Bound("Swap")
  /\ ThenRefocus(WithCursor(Released, SwapActiveGroup(Cursor(desk), direction)))

(***************************************************************************)
(* find_target_by_direction, down to the slot.  On the cube plane every    *)
(* column hangs with its active row at the height of the screen, so a      *)
(* horizontal step stays at the height of the origin and a vertical one in *)
(* its column; past the last slot it wraps to the farthest one behind.     *)
(* Which tile of the destination lies nearest is split geometry, and any   *)
(* of them is allowed, as is another tile of the origin's own group.       *)
(***************************************************************************)
Origin(m, focused) ==
  IF focused \in MonitorWindows(m) THEN Locate(m, focused) ELSE ActiveSlot(m)

SlotsInLine(m, s, direction) ==
  LET Height(t) == t[2] - m.columns[t[1]].active_row
  IN  IF direction \in {"Left", "Right"}
      THEN {t \in Slots(m) : t[1] # s[1] /\ Height(t) = Height(s)}
      ELSE {t \in Slots(m) : t[1] = s[1] /\ t[2] # s[2]}

NextSlots(m, s, direction) ==
  LET Along(t) == CASE direction = "Right" -> t[1] - s[1]
                    [] direction = "Left"  -> s[1] - t[1]
                    [] direction = "Down"  -> t[2] - s[2]
                    [] direction = "Up"    -> s[2] - t[2]
      line  == SlotsInLine(m, s, direction)
      ahead == {t \in line : Along(t) > 0}
      pool  == IF ahead # {} THEN ahead ELSE line
  IN  {t \in pool : \A u \in pool : Along(t) <= Along(u)}

\* The targets: a window and its slot, or an empty slot.
DirectionTargets(m, focused, direction) ==
  LET s == Origin(m, focused)
      origin == IF focused \in MonitorWindows(m) THEN focused ELSE ActiveWindow(m)
      In(t) == LET ws == GroupWindows(GroupAt(m, t))
               IN  {[slot |-> t, window |-> w] : w \in IF ws = {} THEN {NoWindow} ELSE ws}
  IN  (UNION {In(t) : t \in NextSlots(m, s, direction)})
        \cup {x \in In(s) : x.window \notin {NoWindow, origin}}

\* focus_window_by_direction: reveal the slot, then point the cursor at it.
StepTo(m, target, direction) ==
  LET r == RevealSlot(m, target.slot, direction)
  IN  IF target.window = NoWindow THEN SetActiveSlot(r.monitor, r.slot)
      ELSE FocusWindow(r.monitor, target.window)

FocusWindowBy(direction) ==
  LET targets == DirectionTargets(Cursor(desk), FocusedWindow(desk), direction)
  IN  /\ Bound("Focus")
      /\ \/ \E target \in targets :
              ThenRefocus(WithCursor(Released, StepTo(Cursor(desk), target, direction)))
         \/ /\ NextSlots(Cursor(desk), Origin(Cursor(desk), FocusedWindow(desk)), direction) = {}
            /\ ThenRefocus(Released)

\* move_focused_window_by_direction: to the neighbour group, over the whole cube.
MoveFocusedWindow(direction) ==
  LET m == Cursor(desk)
      w == FocusedWindow(desk)
      dest == IF w \in MonitorWindows(m)
              THEN NeighbourSlots(m, Locate(m, w), direction, Len(m.columns)) ELSE {}
  IN  /\ Bound("Move")
      /\ \/ \E s \in dest : ThenStay(WithCursor(Released, MoveWindowToGroup(m, w, s)))
         \/ dest = {} /\ ThenStay(Released)

MoveToNewColumn(to_left) ==
  LET m == Cursor(desk)
      w == FocusedWindow(desk)
  IN  /\ Bound("NewColumn")
      /\ Len(m.columns) < MaxColumns
      /\ ThenStay(IF w \in MonitorWindows(m)
                  THEN WithCursor(Released, MoveWindowToNewColumn(m, w, to_left))
                  ELSE Released)

ChangeVisibleColumns(change) ==
  /\ Bound("Visible")
  /\ ThenStay(WithCursor(Released, IncrementVisibleColumns(Cursor(desk), change)))

\* monitor_id_by_offset(1), of more than one monitor.
NextMonitor(d) == (d.active_monitor % NumMonitors) + 1

FocusNextMonitor ==
  /\ Bound("NextMonitor")
  /\ ThenRefocus(IF NumMonitors > 1 THEN [Released EXCEPT !.active_monitor = NextMonitor(desk)]
                 ELSE Released)

\* Mutant of MoveWindowToMonitor: the source monitor keeps the window.
CopyWindowToMonitor(d, w, dest) ==
  LET m == d.monitors[dest]
      s == ActiveSlot(m)
  IN  IF w \notin GridWindows(d) \/ MonitorOf(d, w) = dest THEN d
      ELSE [d EXCEPT !.active_monitor = dest,
                     !.monitors[dest] = SetGroupAt(m, s, GroupAdd(GroupAt(m, s), w, ActiveWindow(m)))]

\* Workspace::move_window_to_monitor: beside the window active over there.
MoveWindowToMonitor(d, w, dest) ==
  IF w \notin GridWindows(d) \/ MonitorOf(d, w) = dest THEN d
  ELSE LET source == MonitorOf(d, w)
           m == d.monitors[dest]
           s == ActiveSlot(m)
       IN  [d EXCEPT !.active_monitor = dest,
                     !.monitors[source] = RemoveWindow(@, w),
                     !.monitors[dest] = SetGroupAt(m, s, GroupAdd(GroupAt(m, s), w, ActiveWindow(m)))]

MoveWindowToNextMonitor ==
  /\ Bound("Carry")
  /\ ThenRefocus(IF NumMonitors > 1 /\ FocusedWindow(desk) # NoWindow
                 THEN MoveWindowToMonitor(Released, FocusedWindow(desk), NextMonitor(desk))
                 ELSE Released)

\* RemoveWindow: evict the focused window, or prune the empty group.
RemoveFocusedWindow ==
  LET w == FocusedWindow(desk)
  IN  /\ Bound("Remove")
      /\ ThenRefocus(IF w # NoWindow THEN RemoveById(Released, {w})
                     ELSE WithCursor(Released, RemoveActiveGroup(Cursor(desk))))

\* group_window_ids has another window than w.
HasSiblings(d, w) ==
  \E i \in Monitors : \E s \in Slots(d.monitors[i]) :
    LET ws == GroupWindows(GroupAt(d.monitors[i], s)) IN w \in ws /\ ws # {w}

\* next_maximize: forward Group, Monitor, None; backward Monitor, Group, None.
NextMaximize(current, w, forward, has_siblings) ==
  LET stage == IF current.window = w THEN current.stage ELSE "None"
      next == CASE stage = "None" /\ forward -> IF has_siblings THEN "Group" ELSE "Monitor"
                [] stage = "None" /\ ~forward -> "Monitor"
                [] stage = "Group" /\ forward -> "Monitor"
                [] stage = "Monitor" /\ ~forward /\ has_siblings -> "Group"
                [] OTHER -> "None"
  IN  IF next = "None" THEN NoMaximize ELSE [stage |-> next, window |-> w]

\* cycle_maximize; the chord keeps maximize until it has read it.
ToggleMaximize(forward) ==
  LET w == FocusedWindow(desk)
  IN  /\ Bound("Maximize")
      /\ ThenStay(IF w \in {NoWindow} \cup desk.fullscreen_windows THEN desk
                  ELSE [desk EXCEPT !.maximized =
                          NextMaximize(@, w, forward, HasSiblings(desk, w))])

\* focus_next_fullscreen: the next one up in id order, round to the lowest.
FocusNextFullscreen ==
  LET ids == desk.fullscreen_windows \cap desk.windows
      cur == FocusedWindow(desk)
      above == IF cur \in ids THEN {w \in ids : w > cur} ELSE {}
      pool == IF above # {} THEN above ELSE ids
  IN  /\ Bound("FocusFullscreen")
      /\ \/ \E w \in pool : /\ \A v \in pool : w <= v
                            /\ desk' \in {ApplyLayout(e) : e \in FocusById(Released, w)}
         \/ ids = {} /\ ThenStay(Released)

\* FlipSplitDirection and Spawn (the grid's shape stays), and the display
\* adjustments, which keep maximize.
Redraw(keeps_maximize) ==
  /\ Bound("Redraw")
  /\ ThenStay(IF keeps_maximize THEN desk ELSE Released)

NavStep ==
  \/ \E motion \in {-1, 1} : \/ RotateColumnsBy(motion) \/ ScrollColumnBy(motion)
                            \/ MoveActiveColumnBy(motion) \/ ChangeVisibleColumns(motion)
  \/ \E direction \in Directions : \/ SwapGroup(direction) \/ FocusWindowBy(direction)
                                   \/ MoveFocusedWindow(direction)
  \/ \E b \in BOOLEAN : MoveToNewColumn(b) \/ ToggleMaximize(b) \/ Redraw(b)
  \/ NewGroup \/ FocusNextMonitor \/ MoveWindowToNextMonitor
  \/ RemoveFocusedWindow \/ FocusNextFullscreen

----------------------------------------------------------------------------
(* Clients: xdg_shell.rs, compositor.rs, xwayland.rs *)

\* The next window to be born is of this shell.
Born(shell) ==
  /\ next_id <= MaxWindows
  /\ Kind[next_id] = shell
  /\ next_id' = next_id + 1

\* new_toplevel: staged until its first buffer.
NewToplevel ==
  /\ Born("wayland")
  /\ unmapped' = unmapped \cup {next_id}
  /\ UNCHANGED <<desk, pending_x11_focus, layer, gone, xwayland>>

\* Beside the focused window, unless it starts fullscreen.
Tiled(d, w) ==
  IF w \in d.fullscreen_windows THEN d
  ELSE WithCursor(d, AddWindows(Cursor(d), <<w>>, FocusedWindow(d)))

\* Mutant of FirstBuffer: the toplevel stays staged.
FirstBufferStillStaged(w) ==
  /\ w \in unmapped
  /\ desk' \in FocusById(ApplyLayout(Tiled([desk EXCEPT !.windows = @ \cup {w}], w)), w)
  /\ UNCHANGED <<unmapped, pending_x11_focus, layer, next_id, gone, xwayland>>

\* The first buffer commit promotes a staged toplevel: layout, then focus.
FirstBuffer(w) ==
  /\ w \in unmapped
  /\ unmapped' = unmapped \ {w}
  /\ desk' \in FocusById(ApplyLayout(Tiled([desk EXCEPT !.windows = @ \cup {w}], w)), w)
  /\ UNCHANGED <<pending_x11_focus, layer, next_id, gone, xwayland>>

\* toplevel_destroyed.
ToplevelDestroyed(w) ==
  /\ UNCHANGED <<pending_x11_focus, layer, next_id, gone, xwayland>>
  /\ \/ /\ w \in unmapped
        /\ unmapped' = unmapped \ {w}
        /\ desk' = [desk EXCEPT !.fullscreen_windows = @ \ {w}]
     \/ /\ w \in desk.windows \cap Wayland
        /\ desk' = ApplyLayout(RemoveById(desk, {w}))
        /\ UNCHANGED unmapped

\* set_window_fullscreen, and the layout pass every caller runs after it.
Fullscreened(w, enter) ==
  ApplyLayout(IF enter THEN EnterFullscreen(desk, w)
              ELSE IF w \in desk.fullscreen_windows THEN LeaveFullscreen(desk, <<w>>) ELSE desk)

\* xdg fullscreen_request and unfullscreen_request of w's client, mapped or staged.
ClientFullscreen(w, enter) ==
  /\ w \in MayFullscreen
  /\ UNCHANGED <<unmapped, pending_x11_focus, layer, next_id, gone, xwayland>>
  /\ \/ /\ w \in unmapped
        /\ desk' = [desk EXCEPT !.fullscreen_windows = IF enter THEN @ \cup {w} ELSE @ \ {w}]
     \/ w \in desk.windows \cap Wayland /\ desk' = Fullscreened(w, enter)

\* Their X11 counterparts find a window only by its surface.
X11Fullscreen(w, enter) ==
  /\ w \in MayFullscreen \cap desk.windows \cap desk.associated
  /\ desk' = Fullscreened(w, enter)
  /\ UNCHANGED <<unmapped, pending_x11_focus, layer, next_id, gone, xwayland>>

\* configure_notify: a menu that moved is mapped where it went.
ConfigureNotify(w) ==
  /\ w \in (desk.windows \cap desk.associated) \ Managed
  /\ desk' = [desk EXCEPT !.space = @ \cup {w}]
  /\ UNCHANGED <<unmapped, pending_x11_focus, layer, next_id, gone, xwayland>>

(***************************************************************************)
(* map_window_request of a managed window: tile it unless it starts        *)
(* fullscreen, focus it, lay out.  XWayland usually associates the surface *)
(* later, and then the focus that found none is recorded for it.           *)
(***************************************************************************)
MapX11(starts_fullscreen, has_surface) ==
  /\ Born("x11") /\ xwayland.server = "ready"
  /\ starts_fullscreen => next_id \in MayFullscreen
  /\ LET w == next_id
         tracked == [desk EXCEPT !.windows = @ \cup {w},
                                 !.associated = IF has_surface THEN @ \cup {w} ELSE @]
         placed == IF starts_fullscreen THEN EnterFullscreen(tracked, w) ELSE Tiled(tracked, w)
     IN  \E focused \in FocusById(placed, w) :
           /\ desk' = ApplyLayout(focused)
           /\ pending_x11_focus' = IF FocusedWindow(focused) = w THEN pending_x11_focus ELSE w
  /\ UNCHANGED <<unmapped, layer, gone, xwayland>>

\* An override-redirect or menu-typed window: tracked and mapped, never tiled.
MapMenu(has_surface) ==
  /\ Born("menu") /\ xwayland.server = "ready"
  /\ desk' = [desk EXCEPT !.windows = @ \cup {next_id}, !.space = @ \cup {next_id},
                          !.associated = IF has_surface THEN @ \cup {next_id} ELSE @]
  /\ UNCHANGED <<unmapped, pending_x11_focus, layer, gone, xwayland>>

\* surface_associated: finishes the focus the map request lost.
SurfaceAssociated(w) ==
  LET d == [desk EXCEPT !.associated = @ \cup {w}]
  IN  /\ w \in desk.windows \ (Wayland \cup desk.associated \cup gone)
      /\ IF pending_x11_focus = w
         THEN desk' \in FocusById(d, w) /\ pending_x11_focus' = NoWindow
         ELSE desk' = d /\ UNCHANGED pending_x11_focus
      /\ UNCHANGED <<unmapped, layer, next_id, gone, xwayland>>

\* unmapped_window and destroyed_window: remove_x11_window looks the window up
\* by its surface and gives up without one.  A menu's end lays nothing out.
X11Withdrawn(w) ==
  /\ w \in desk.windows \ (Wayland \cup gone)
  /\ IF w \in desk.associated
     THEN /\ desk' = IF w \in Managed THEN ApplyLayout(RemoveById(desk, {w}))
                     ELSE RemoveById(desk, {w})
          /\ UNCHANGED gone
     ELSE gone' = gone \cup {w} /\ UNCHANGED desk
  /\ UNCHANGED <<unmapped, pending_x11_focus, layer, next_id, xwayland>>

\* Ready: the window manager starts, and the exits before are forgiven.
XwaylandReady ==
  /\ xwayland.server = "starting"
  /\ xwayland' = [server |-> "ready", respawn_attempts |-> 0]
  /\ UNCHANGED <<desk, unmapped, pending_x11_focus, layer, next_id, gone>>

\* Error, or a window manager that does not start: nothing tries again.
XwaylandFails ==
  /\ xwayland.server = "starting"
  /\ xwayland' = [xwayland EXCEPT !.server = "none"]
  /\ UNCHANGED <<desk, unmapped, pending_x11_focus, layer, next_id, gone>>

\* disconnected: XWayland died, every X11 window goes, with one layout.  It is
\* respawned, counting the exits that came soon after the one before.
XwaylandDisconnected ==
  LET stale == desk.windows \ Wayland
  IN  /\ xwayland.server = "ready"
      /\ desk' = IF stale = {} THEN desk ELSE ApplyLayout(RemoveById(desk, stale))
      /\ gone' = {}
      /\ \E attempts \in {1, xwayland.respawn_attempts + 1} :
           xwayland' \in IF attempts > XWAYLAND_MAX_RESPAWN_ATTEMPTS
                         THEN {[server |-> "none", respawn_attempts |-> attempts]}
                         ELSE Spawned(attempts)
      /\ UNCHANGED <<unmapped, pending_x11_focus, layer, next_id>>

\* active_window_request: _NET_ACTIVE_WINDOW of a managed window with a surface.
ActiveWindowRequest(w) ==
  /\ w \in desk.windows \cap X11 \cap desk.associated
  /\ desk' \in FocusById(desk, w)
  /\ UNCHANGED <<unmapped, pending_x11_focus, layer, next_id, gone, xwayland>>

ClientStep ==
  \/ NewToplevel \/ XwaylandReady \/ XwaylandFails \/ XwaylandDisconnected
  \/ \E a, b \in BOOLEAN : MapX11(a, b) \/ MapMenu(b)
  \/ \E w \in Window :
       \/ FirstBuffer(w) \/ ToplevelDestroyed(w) \/ SurfaceAssociated(w)
       \/ X11Withdrawn(w) \/ ActiveWindowRequest(w) \/ ConfigureNotify(w)
       \/ \E enter \in BOOLEAN : ClientFullscreen(w, enter) \/ X11Fullscreen(w, enter)

----------------------------------------------------------------------------
(* Pointer, taskbar and launcher *)

Device(device) ==
  /\ device \in Devices
  /\ UNCHANGED <<unmapped, pending_x11_focus, next_id, gone, xwayland>>

(***************************************************************************)
(* window_id_at: the topmost managed window under the pointer.  On a       *)
(* single head a fullscreen window lies over every other; where windows    *)
(* lie otherwise is not modelled, and any that is mapped can be pointed at.*)
(***************************************************************************)
Pointable(d) ==
  LET covering == d.space \cap d.fullscreen_windows
  IN  Managed \cap (IF NumMonitors = 1 /\ covering # {} THEN covering ELSE d.space)

Click(w) ==
  /\ Device("pointer")
  /\ w \in Pointable(desk)
  /\ desk' \in FocusById(desk, w)
  /\ UNCHANGED layer

\* An empty-desktop click drops the keyboard focus and does no more.
ClickDesktop ==
  /\ Device("pointer")
  /\ NumMonitors = 1 => desk.space \cap desk.fullscreen_windows = {}
  /\ desk' = [desk EXCEPT !.focus = NoWindow]
  /\ UNCHANGED layer

\* focus_follows_pointer, suspended while anything is fullscreen.
Hover(w) ==
  /\ Device("pointer")
  /\ desk.fullscreen_windows = {}
  /\ w \in Pointable(desk) \ {FocusedWindow(desk)}
  /\ desk' \in FocusById(desk, w)
  /\ UNCHANGED layer

\* The requests of a foreign-toplevel handle; menus have none.
Taskbar(w) ==
  /\ Device("taskbar")
  /\ w \in Managed \cap desk.windows
  /\ UNCHANGED layer

Activate(w) == Taskbar(w) /\ desk' \in FocusById(desk, w)

TaskbarFullscreen(w, enter) ==
  /\ Taskbar(w)
  /\ desk' = Fullscreened(w, enter)

SetMaximized(w) ==
  /\ Taskbar(w)
  /\ desk' = ApplyLayout([desk EXCEPT !.maximized = [stage |-> "Monitor", window |-> w]])

UnsetMaximized(w) ==
  /\ Taskbar(w)
  /\ desk.maximized.window = w
  /\ desk' = ApplyLayout([desk EXCEPT !.maximized = NoMaximize])

\* A commit of the launcher's surface: relayout if its exclusive zone changed
\* the work area, then the keyboard goes to it (focus_interactive_layer).
LayerCommit(reflow) ==
  /\ Device("launcher")
  /\ layer' = TRUE
  /\ desk' = [(IF reflow THEN ApplyLayout(desk) ELSE desk) EXCEPT !.focus = LayerFocus]

\* layer_destroyed: the focus it held goes to the active window.
LayerDestroyed(reflow) ==
  LET d == IF reflow THEN ApplyLayout(desk) ELSE desk
  IN  /\ Device("launcher")
      /\ layer /\ layer' = FALSE
      /\ IF desk.focus = LayerFocus THEN desk' \in FocusActiveWindow(d) ELSE desk' = d

DeviceStep ==
  \/ ClickDesktop
  \/ \E w \in Window :
       \/ Click(w) \/ Hover(w) \/ Activate(w) \/ SetMaximized(w) \/ UnsetMaximized(w)
       \/ \E enter \in BOOLEAN : TaskbarFullscreen(w, enter)
  \/ \E reflow \in BOOLEAN : LayerCommit(reflow) \/ LayerDestroyed(reflow)

Next == NavStep \/ ClientStep \/ DeviceStep

Spec == Init /\ [][Next]_vars
----------------------------------------------------------------------------
(* Properties *)

\* The fields hold what the code's types and comments say they hold.
TypeOK ==
  /\ desk \in Desk
  /\ unmapped \subseteq Wayland \ desk.windows
  /\ pending_x11_focus \in X11 \cup {NoWindow}
  /\ layer \in BOOLEAN
  /\ next_id \in 1..MaxWindows + 1
  /\ gone \subseteq desk.windows
  /\ xwayland \in [server : {"starting", "ready", "none"},
                   respawn_attempts : 0..XWAYLAND_MAX_RESPAWN_ATTEMPTS + 1]

\* No column, row or band index the grid methods use is ever out of range,
\* whatever the order of the chords (the code indexes them unchecked).
IndexSafe == \A i \in Monitors : IndexSafeMonitor(desk.monitors[i])

\* Every managed window is tiled exactly when it is not fullscreen, on one
\* monitor, in one group (set_window_fullscreen: a fullscreen window leaves
\* the grid), and the grid holds only tracked windows.
Partition ==
  /\ GridWindows(desk) \subseteq desk.windows
  /\ \A w \in Managed \cap desk.windows :
       w \in GridWindows(desk) <=> w \notin desk.fullscreen_windows
  /\ \A i, j \in Monitors : i # j =>
       MonitorWindows(desk.monitors[i]) \cap MonitorWindows(desk.monitors[j]) = {}

\* The split trees stay whole, no window is in two groups, and each group
\* remembers as active a window it holds.
SoundGrid == \A i \in Monitors : SoundMonitor(desk.monitors[i])

\* An evicted id lingers nowhere the layout would still act on it
\* (remove_window_by_id), and no X11 window outlives its server: no event would
\* ever remove it (disconnected).
NoTrace ==
  /\ desk.fullscreen_windows \subseteq desk.windows \cup unmapped
  /\ desk.space \cup desk.iconified \cup desk.associated \subseteq desk.windows
  /\ xwayland.server = "ready" \/ desk.windows \subseteq Wayland

\* Between handlers what is on screen is what the model says, and what clients
\* were told: the tiles mapped are the visible bands, and an X11 client is iconic
\* exactly while its window is hidden.  No handler that changes the grid, the
\* focus or the fullscreen set forgets the layout pass.
ScreenFresh ==
  /\ desk.space \cap GridWindows(desk) = UNION {VisibleWindows(desk.monitors[i]) : i \in Monitors}
  /\ desk.iconified = (X11 \cap desk.windows) \ desk.space

\* focused-window chords act on the active monitor, which is sound because a
\* focused tile is always on it.
FocusOnActiveMonitor ==
  FocusedWindow(desk) \in GridWindows(desk) =>
    FocusedWindow(desk) \in MonitorWindows(Cursor(desk))

Raise(w) == FirstBuffer(w) \/ Activate(w) \/ ActiveWindowRequest(w) \/ Click(w)

InFront(w) == desk.focus = w /\ (FocusedWindow(desk) = w => w \in desk.space)

\* A window that is told to come forward (mapped, activated, clicked) has the
\* keyboard and is on screen when the handler returns, wherever it was: no step
\* leaves behind the window it raises.
ComesForward == [][\A w \in Window : InFront(w)' \/ ~Raise(w)]_vars

\* Nothing is left of the focus before w's: maximize is off unless it is the
\* focused window's, and no Wayland window but w is fullscreen.
Exclusive(w) ==
  /\ desk.maximized.window \in {NoWindow, FocusedWindow(desk)}
  /\ desk.fullscreen_windows \cap desk.windows \cap Wayland \subseteq {w}

\* Moving the focus to a window settles what depended on the old one, however
\* many windows were fullscreen before (reconcile_focus_state).
FocusIsExclusive == [][\A w \in Window : Exclusive(w)' \/ ~(Raise(w) \/ Hover(w))]_vars

\* The tile that has the keyboard is in the slot the cursor is on.
FocusInActiveSlot ==
  desk.focus \in GridWindows(desk) =>
    desk.focus \in GroupWindows(GroupAt(Cursor(desk), ActiveSlot(Cursor(desk))))

\* The chords that pull the cursor into the band from a column beyond it
\* (increment_visible_columns), and do not refocus.
Clamps ==
  LET m == Cursor(desk)
  IN  \/ \E change \in {-1, 1} : /\ ChangeVisibleColumns(change)
                                 /\ m.active_column > Max2(1, m.visible_columns + change)
      \/ \E to_left \in BOOLEAN : /\ MoveToNewColumn(to_left)
                                  /\ m.active_column > m.visible_columns

\* "Motion chords reposition the active column/group, so keyboard focus should
\* follow" (dispatch_nav): no step parts the cursor from the tile with the
\* keyboard but one that clamps it, and any step that moves the focus to another
\* tile brings them together again.
KeepsSlot == [][FocusInActiveSlot \/ desk'.focus # desk.focus => FocusInActiveSlot' \/ Clamps]_vars
=============================================================================
