--------------------------- MODULE GridReference ---------------------------
(***************************************************************************)
(* The closed forms of Tiling and Grid against the code's own recursions   *)
(* and loops.  The same operations run in lockstep on a monitor of Grid    *)
(* and on literal trees, written branch for branch from model/tiling.rs    *)
(* and model/grid.rs; the two must stay images of each other.              *)
(*                                                                         *)
(* The literal monitor is one row of groups, one for each column.          *)
(***************************************************************************)
EXTENDS Grid

CONSTANTS Ids,    \* the windows
          Columns \* how many columns

ASSUME GridReferenceAssumption == Ids \subseteq Nat \ {0} /\ Columns \in Nat \ {0}

VARIABLES groups,  \* the literal groups
          monitor  \* the monitor of Grid

vars == <<groups, monitor>>

----------------------------------------------------------------------------
(* TilingNode, literally *)

NoNode == [node |-> "None"]
LeafNode(w) == [node |-> "Leaf", window_id |-> w]
SplitNode(l, r) == [node |-> "Split", left_child |-> l, right_child |-> r]

RECURSIVE LeavesBelow(_, _)
LeavesBelow(n, path) ==
  CASE n.node = "None"  -> {}
    [] n.node = "Leaf"  -> {[path |-> path, window_id |-> n.window_id]}
    [] n.node = "Split" -> LeavesBelow(n.left_child, Append(path, 0))
                             \cup LeavesBelow(n.right_child, Append(path, 1))

Leaves(n) == LeavesBelow(n, <<>>)
Holds(n, w) == w \in TreeWindows(Leaves(n))

RECURSIVE FirstLeafId(_)
FirstLeafId(n) == IF n.node = "Leaf" THEN n.window_id ELSE FirstLeafId(n.left_child)

\* split_window on the leaf find_window_mut finds.
RECURSIVE SplitAt(_, _, _)
SplitAt(n, at, w) ==
  IF n.node = "Leaf"
  THEN IF n.window_id = at THEN SplitNode(LeafNode(at), LeafNode(w)) ELSE n
  ELSE SplitNode(SplitAt(n.left_child, at, w), SplitAt(n.right_child, at, w))

\* remove_window, with the node it leaves and the survivor it reports.
Result(r, n, survivor) == [result |-> r, node |-> n, survivor |-> survivor]

RECURSIVE RemoveNode(_, _)
RemoveNode(n, w) ==
  IF n.node = "Leaf"
  THEN Result(IF n.window_id = w THEN "RemoveMe" ELSE "NotFound", n, NoWindow)
  ELSE LET left == RemoveNode(n.left_child, w)
           right == RemoveNode(n.right_child, w)
       IN  CASE left.result = "Removed" ->
                  Result("Removed", SplitNode(left.node, n.right_child), left.survivor)
             [] left.result = "RemoveMe" ->
                  Result("Removed", n.right_child, FirstLeafId(n.right_child))
             [] left.result = "NotFound" /\ right.result = "Removed" ->
                  Result("Removed", SplitNode(n.left_child, right.node), right.survivor)
             [] left.result = "NotFound" /\ right.result = "RemoveMe" ->
                  Result("Removed", n.left_child, FirstLeafId(n.left_child))
             [] OTHER -> Result("NotFound", n, NoWindow)

----------------------------------------------------------------------------
(* Group and Monitor, literally *)

LiteralAdd(g, w, focused) ==
  [layout |-> IF g.layout = NoNode THEN LeafNode(w)
              ELSE SplitAt(g.layout, IF Holds(g.layout, focused) THEN focused
                                     ELSE FirstLeafId(g.layout), w),
   active_window |-> w]

LiteralRemove(g, w) ==
  LET r == RemoveNode(g.layout, w)
  IN  IF g.layout = NoNode \/ r.result = "NotFound" THEN g
      ELSE IF r.result = "RemoveMe" THEN [layout |-> NoNode, active_window |-> NoWindow]
      ELSE [layout |-> r.node,
            active_window |-> IF g.active_window = w THEN r.survivor ELSE g.active_window]

RECURSIVE LiteralRemoveAll(_, _)
LiteralRemoveAll(gs, ws) ==
  IF ws = <<>> THEN gs
  ELSE LiteralRemoveAll([c \in 1..Columns |-> LiteralRemove(gs[c], Head(ws))], Tail(ws))

RECURSIVE LiteralAddAll(_, _, _)
LiteralAddAll(g, ws, focused) ==
  IF ws = <<>> THEN g ELSE LiteralAddAll(LiteralAdd(g, Head(ws), focused), Tail(ws), focused)

\* The inner loop of rotate_columns: column_a[0] is column 1 at every j.
RECURSIVE SwapThroughFirst(_, _)
SwapThroughFirst(gs, j) ==
  IF j > Columns THEN gs
  ELSE SwapThroughFirst([gs EXCEPT ![1] = gs[j], ![j] = gs[1]], j + 1)

RECURSIVE LiteralRotate(_, _)
LiteralRotate(gs, k) == IF k = 0 THEN gs ELSE LiteralRotate(SwapThroughFirst(gs, 2), k - 1)

----------------------------------------------------------------------------
(* The lockstep *)

Init ==
  /\ groups = [c \in 1..Columns |-> [layout |-> NoNode, active_window |-> NoWindow]]
  /\ monitor = NewMonitor(Columns)

Held == MonitorWindows(monitor)

\* Some windows come in, into the first column or beside a focused one.
Add(ws, focused) ==
  LET c == IF focused \in Held THEN Locate(monitor, focused)[1] ELSE 1
  IN  /\ groups' = [groups EXCEPT ![c] = LiteralAddAll(@, ws, focused)]
      /\ monitor' = AddWindows(monitor, ws, focused)

RemoveOne(w) ==
  /\ groups' = LiteralRemoveAll(groups, <<w>>)
  /\ monitor' = RemoveWindow(monitor, w)

\* A batch goes, in the order a HashMap happens to yield.
RemoveBatch(ws) ==
  /\ groups' = LiteralRemoveAll(groups, ws)
  /\ monitor' = PruneWindows(monitor, {ws[i] : i \in 1..Len(ws)})

Rotate(motion) ==
  /\ groups' = LiteralRotate(groups, motion % Columns)
  /\ monitor' = RotateColumns(monitor, motion)

\* focus_window remembers w in its group.
Remember(w) ==
  LET c == Locate(monitor, w)[1]
  IN  /\ groups' = [groups EXCEPT ![c].active_window = w]
      /\ monitor' = [FocusWindow(monitor, w) EXCEPT !.active_column = 1]

Next ==
  \/ \E ws \in SetToAllKPermutations(Ids \ Held) \ {<<>>} : \E f \in Held \cup {NoWindow} : Add(ws, f)
  \/ \E w \in Held : RemoveOne(w) \/ Remember(w)
  \/ \E ws \in SetToAllKPermutations(Held) : RemoveBatch(ws)
  \/ \E motion \in {-1, 1} : Rotate(motion)

Spec == Init /\ [][Next]_vars

\* The closed forms compute what the code computes: the same trees with the
\* same remembered windows, in the same columns, after any run of operations.
SameGrid ==
  [c \in 1..Columns |-> ActiveGroupOf(monitor.columns[c])]
    = [c \in 1..Columns |-> [layout |-> Leaves(groups[c].layout),
                             active_window |-> groups[c].active_window]]
=============================================================================
