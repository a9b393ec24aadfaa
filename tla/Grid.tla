-------------------------------- MODULE Grid --------------------------------
(***************************************************************************)
(* Group, Column and Monitor of src/src/model/grid.rs as records, and      *)
(* their methods as operators from a value to its successor.  The methods  *)
(* run to completion on the compositor's one thread; Desktop chains them   *)
(* the way the handlers do.                                                *)
(*                                                                         *)
(* Columns and rows are numbered from 1 (the code: from 0).  Id 0 is       *)
(* "no window": next_window_id starts at 1 and the code itself passes 0    *)
(* for "nothing focused".  Column::width is written and never read, and is *)
(* left out; Monitor::id is the index of the monitor in Desktop.           *)
(***************************************************************************)
EXTENDS Tiling, FiniteSets

NoWindow == 0

Group   == [layout : Tree, active_window : Nat]
Column  == [active_row : Nat, groups : Seq(Group)]
Monitor == [visible_columns : Nat, active_column : Nat, columns : Seq(Column)]

Min2(a, b) == IF a <= b THEN a ELSE b
Max2(a, b) == IF a >= b THEN a ELSE b

----------------------------------------------------------------------------
(* Group *)

EmptyGroup == [layout |-> {}, active_window |-> NoWindow]

GroupWindows(g) == TreeWindows(g.layout)

\* Mutant of GroupRemove: the memory of the removed window stays.
GroupRemoveForgetful(g, w) ==
  IF w \notin GroupWindows(g) THEN g
  ELSE [g EXCEPT !.layout = RemoveLeaf(g.layout, LeafOf(g.layout, w))]

\* remove_window: the memory of the active window moves to the survivor, and
\* is cleared with the last window.
GroupRemove(g, w) ==
  IF w \notin GroupWindows(g) THEN g
  ELSE LET l == LeafOf(g.layout, w)
       IN  [layout |-> RemoveLeaf(g.layout, l),
            active_window |-> IF l.path = <<>> THEN NoWindow
                              ELSE IF g.active_window = w
                                   THEN Survivor(g.layout, l)
                                   ELSE g.active_window]

\* remove_window for each window of the set ws.
GroupPrune(g, ws) ==
  IF ws \cap GroupWindows(g) = {} THEN g
  ELSE [layout |-> Prune(g.layout, ws),
        active_window |->
          IF GroupWindows(g) \subseteq ws THEN NoWindow
          ELSE IF g.active_window \in ws
               THEN PruneSurvivor(g.layout, LeafOf(g.layout, g.active_window), ws)
               ELSE g.active_window]

\* add_window for each window of the nonempty ws in turn: split the focused
\* leaf, else the first leaf; an empty group is seeded with the first window.
GroupAddAll(g, ws, focused) ==
  LET seeded == g.layout = {}
      t    == IF seeded THEN NewTree(Head(ws)) ELSE g.layout
      rest == IF seeded THEN Tail(ws) ELSE ws
      l    == IF focused \in TreeWindows(t) THEN LeafOf(t, focused) ELSE FirstLeaf(t)
  IN  [layout |-> SplitLeaf(t, l, rest), active_window |-> Last(ws)]

GroupAdd(g, w, focused) == GroupAddAll(g, <<w>>, focused)

----------------------------------------------------------------------------
(* Column *)

NewColumn == [active_row |-> 1, groups |-> <<EmptyGroup>>]

ActiveGroupOf(col) == col.groups[col.active_row]

SetGroup(col, r, g) == [col EXCEPT !.groups = ReplaceAt(col.groups, r, g)]

\* scroll_column: rem_euclid over the rows.
ScrollColumn(col, motion) ==
  [col EXCEPT !.active_row = ((col.active_row - 1 + motion) % Len(col.groups)) + 1]

----------------------------------------------------------------------------
(* Monitor: access *)

NewMonitor(visible) ==
  [visible_columns |-> visible, active_column |-> 1,
   columns |-> [c \in 1..visible |-> NewColumn]]

SetColumn(m, c, col) == [m EXCEPT !.columns = ReplaceAt(m.columns, c, col)]

Slots(m) == UNION {{<<c, r>> : r \in 1..Len(m.columns[c].groups)}
                     : c \in 1..Len(m.columns)}

GroupAt(m, s) == m.columns[s[1]].groups[s[2]]

SetGroupAt(m, s, g) == SetColumn(m, s[1], SetGroup(m.columns[s[1]], s[2], g))

MonitorWindows(m) == UNION {GroupWindows(GroupAt(m, s)) : s \in Slots(m)}

\* find_column_and_row_by_window_id and locate: the first slot that holds the
\* window, and the only one (SoundMonitor).
Locate(m, w) == CHOOSE s \in Slots(m) : w \in GroupWindows(GroupAt(m, s))

ActiveSlot(m) == <<m.active_column, m.columns[m.active_column].active_row>>

\* Monitor::active_window: the remembered window of the active group if the
\* tree still holds it, else its first leaf; NoWindow for an empty group.
ActiveWindow(m) ==
  LET g == GroupAt(m, ActiveSlot(m))
  IN  IF g.layout = {} THEN NoWindow
      ELSE IF g.active_window \in GroupWindows(g) THEN g.active_window
      ELSE FirstLeaf(g.layout).window_id

\* The windows Monitor::compute_layout emits: the active group of each of the
\* first visible_columns columns.
VisibleWindows(m) ==
  UNION {GroupWindows(ActiveGroupOf(m.columns[c]))
           : c \in 1..Min2(m.visible_columns, Len(m.columns))}

----------------------------------------------------------------------------
(* Monitor: the cursor and the visible band *)

\* Mutant of IncrementVisibleColumns: widened past the last column.
WidenedUnclamped(m, change) == [m EXCEPT !.visible_columns = Max2(1, m.visible_columns + change)]

IncrementVisibleColumns(m, change) ==
  LET visible == Max2(1, Min2(m.visible_columns + change, Max2(Len(m.columns), 1)))
  IN  [m EXCEPT !.visible_columns = visible,
                !.active_column = Min2(m.active_column, visible)]

\* move_active_column: rem_euclid over the visible band.
MoveActiveColumn(m, motion) ==
  [m EXCEPT !.active_column = ((m.active_column - 1 + motion) % m.visible_columns) + 1]

ScrollActiveColumn(m, motion) ==
  SetColumn(m, m.active_column, ScrollColumn(m.columns[m.active_column], motion))

\* set_active_slot: the cursor without a window; the group's memory stays.
SetActiveSlot(m, s) ==
  [SetColumn(m, s[1], [m.columns[s[1]] EXCEPT !.active_row = s[2]])
     EXCEPT !.active_column = s[1]]

\* focus_window: all three pointers, with no bound on the column.
FocusWindow(m, w) ==
  IF w \notin MonitorWindows(m) THEN m
  ELSE LET s == Locate(m, w)
       IN  SetGroupAt(SetActiveSlot(m, s), s,
                      [GroupAt(m, s) EXCEPT !.active_window = w])

----------------------------------------------------------------------------
(* Monitor: windows *)

\* remove_window and detach_window: the first group that holds the id.
RemoveWindow(m, w) ==
  IF w \notin MonitorWindows(m) THEN m
  ELSE LET s == Locate(m, w) IN SetGroupAt(m, s, GroupRemove(GroupAt(m, s), w))

\* remove_window for each window of the set ws.
PruneWindows(m, ws) ==
  [m EXCEPT !.columns = [c \in 1..Len(m.columns) |->
     [m.columns[c] EXCEPT !.groups = [r \in 1..Len(@) |-> GroupPrune(@[r], ws)]]]]

\* Monitor::add_window for each of ws: beside the focused window wherever this
\* monitor holds it, else in the active group.
AddWindows(m, ws, focused) ==
  LET s == IF focused \in MonitorWindows(m) THEN Locate(m, focused) ELSE ActiveSlot(m)
  IN  SetGroupAt(m, s, GroupAddAll(GroupAt(m, s), ws, focused))

\* move_window_to_group: detach, then join the target group, on screen or not.
MoveWindowToGroup(m, w, s) ==
  LET d == SetActiveSlot(RemoveWindow(m, w), s)
  IN  SetGroupAt(d, s, GroupAdd(GroupAt(d, s), w, NoWindow))

\* grow_columns: a column with one empty group at the index.
GrowColumns(m, index) ==
  [m EXCEPT !.columns = InsertAt(m.columns, Min2(index, Len(m.columns) + 1), NewColumn)]

\* move_window_to_new_column: beside the active column, which the cursor
\* leaves for the new one; the visible band widens by one.
MoveWindowToNewColumn(m, w, to_left) ==
  LET d     == RemoveWindow(m, w)
      index == IF to_left THEN m.active_column ELSE m.active_column + 1
      grown == GrowColumns(d, index)
      at    == Min2(index, Len(grown.columns))
      moved == SetGroupAt(grown, <<at, 1>>, GroupAdd(EmptyGroup, w, NoWindow))
  IN  IncrementVisibleColumns([moved EXCEPT !.active_column = at], 1)

----------------------------------------------------------------------------
(* Monitor: groups *)

\* grow_active_column: an empty group below the active one, scrolled to.
GrowActiveColumn(m) ==
  LET col == m.columns[m.active_column]
  IN  SetColumn(m, m.active_column,
        ScrollColumn([col EXCEPT !.groups = InsertAt(col.groups, col.active_row + 1, EmptyGroup)], 1))

\* remove_active_group: only an empty group, never the last one of the last
\* column; the column goes with its last group.
CanRemoveActiveGroup(m) ==
  /\ GroupAt(m, ActiveSlot(m)).layout = {}
  /\ ~(Len(m.columns) = 1 /\ Len(m.columns[m.active_column].groups) = 1)

RemoveActiveGroup(m) ==
  LET c    == m.active_column
      col  == m.columns[c]
      left == RemoveAt(col.groups, col.active_row)
  IN  IF ~CanRemoveActiveGroup(m) THEN m
      ELSE IncrementVisibleColumns(
             IF left = <<>> THEN [m EXCEPT !.columns = RemoveAt(m.columns, c)]
             ELSE SetColumn(m, c, [active_row |-> Min2(col.active_row, Len(left)),
                                   groups |-> left]),
             0)

(***************************************************************************)
(* rotate_columns.  One step swaps the active group of column 1 with that  *)
(* of column 2, 3, ... in turn, which carries every active group one       *)
(* column to the right and the last one round to the front; the active     *)
(* rows stay.  The code repeats the step (motion rem_euclid columns) times.*)
(* seed_empty_columns first gives a column without groups an empty one.    *)
(* (Appending <<>> makes the function a tuple to TLC.)                     *)
(***************************************************************************)
SeedEmpty(col) == IF col.groups = <<>> THEN NewColumn ELSE col

RotateColumns(m, motion) ==
  LET n == Len(m.columns)
      seeded == [c \in 1..n |-> SeedEmpty(m.columns[c])]
      From(c) == ((c - 1 - motion) % n) + 1
  IN  [m EXCEPT !.columns =
         [c \in 1..n |-> SetGroup(seeded[c], seeded[c].active_row,
                                  ActiveGroupOf(seeded[From(c)]))] \o <<>>]

\* Two groups trade places (std::mem::swap through split_at_mut).
SwapGroups(m, s, t) ==
  SetGroupAt(SetGroupAt(m, s, GroupAt(m, t)), t, GroupAt(m, s))

Directions == {"Up", "Down", "Left", "Right"}

(***************************************************************************)
(* neighbour_slot, as the set of at most one slot: vertical steps stay in  *)
(* the column, horizontal ones land on the active row of the column beside *)
(* it, up to the column bound.                                             *)
(***************************************************************************)
NeighbourSlots(m, s, direction, bound) ==
  LET beside(c) == {<<c, m.columns[c].active_row>>}
  IN  CASE direction = "Up"    -> IF s[2] > 1 THEN {<<s[1], s[2] - 1>>} ELSE {}
        [] direction = "Down"  -> IF s[2] < Len(m.columns[s[1]].groups)
                                  THEN {<<s[1], s[2] + 1>>} ELSE {}
        [] direction = "Left"  -> IF s[1] > 1 THEN beside(s[1] - 1) ELSE {}
        [] direction = "Right" -> IF s[1] < Min2(bound, Len(m.columns))
                                  THEN beside(s[1] + 1) ELSE {}

\* swap_active_group: with the neighbour in the visible band, cursor following.
SwapActiveGroup(m, direction) ==
  LET here == ActiveSlot(m)
      dest == NeighbourSlots(m, here, direction, Max2(m.visible_columns, 1))
  IN  IF dest = {} THEN m
      ELSE LET to == CHOOSE s \in dest : TRUE
           IN  SetActiveSlot(SwapGroups(m, here, to), to)

----------------------------------------------------------------------------
(* Monitor: reveal *)

Reveal(m, kind, s) == [monitor |-> m, kind |-> kind, slot |-> s]

\* swap_slot_into_view: the far jump, into the active slot or the last visible one.
SwapSlotIntoView(m, s) ==
  LET to == <<Min2(m.active_column, m.visible_columns),
              m.columns[Min2(m.active_column, m.visible_columns)].active_row>>
  IN  Reveal(SwapGroups(m, s, to), "Swapped", to)

(***************************************************************************)
(* reveal_slot: bring the group at slot s on screen.  travel is the        *)
(* direction of the press, or "None" for a jump.  A visible column scrolls *)
(* to the row.  An off-screen one is first set to the row (a rotation      *)
(* carries active groups only) and then rotated in, to the left edge or    *)
(* the right edge of the band, or swapped in when that takes several steps.*)
(***************************************************************************)
RevealSlot(m, s, travel) ==
  LET col == m.columns[s[1]]
      scrolled == SetColumn(m, s[1], [col EXCEPT !.active_row = s[2]])
      right_edge == Min2(m.visible_columns, s[1])
      left_steps == s[1] - right_edge
      right_steps == Len(m.columns) - s[1] + 1
      rotate_right == \/ travel = "Left"
                      \/ travel # "Right" /\ right_steps < left_steps
      steps == IF rotate_right THEN right_steps ELSE left_steps
      dest_col == IF rotate_right THEN 1 ELSE right_edge
      rotated == RotateColumns(scrolled, IF rotate_right THEN steps ELSE -steps)
  IN  IF s[1] <= m.visible_columns
      THEN IF col.active_row = s[2] THEN Reveal(m, "AlreadyVisible", s)
           ELSE Reveal(scrolled, "Scrolled", s)
      ELSE IF steps > 1 THEN SwapSlotIntoView(scrolled, s)
      ELSE Reveal(rotated, "Rotated", <<dest_col, rotated.columns[dest_col].active_row>>)

RevealWindow(m, w) == RevealSlot(m, Locate(m, w), "None")

----------------------------------------------------------------------------
(* What must hold of a monitor *)

(***************************************************************************)
(* No index the methods use is out of range: the cursor names a column,    *)
(* every column has a group and its active row names one, and the band is  *)
(* a nonempty prefix of the columns.                                       *)
(***************************************************************************)
IndexSafeMonitor(m) ==
  /\ m.visible_columns \in 1..Len(m.columns)
  /\ m.active_column \in 1..Len(m.columns)
  /\ \A c \in 1..Len(m.columns) :
       m.columns[c].active_row \in 1..Len(m.columns[c].groups)

\* No window has two leaves on the monitor, and a group remembers a window it
\* holds, or none exactly when it is empty.
SoundMonitor(m) ==
  /\ \A s, t \in Slots(m) : s # t =>
       GroupWindows(GroupAt(m, s)) \cap GroupWindows(GroupAt(m, t)) = {}
  /\ \A s \in Slots(m) : LET g == GroupAt(m, s) IN
       /\ IsSplitTree(g.layout)
       /\ IF g.layout = {} THEN g.active_window = NoWindow
          ELSE g.active_window \in GroupWindows(g)
=============================================================================
