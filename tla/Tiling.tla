------------------------------- MODULE Tiling -------------------------------
(***************************************************************************)
(* The split tree of one group (src/src/model/tiling.rs).                  *)
(*                                                                         *)
(* A TilingNode is a binary tree whose leaves carry window ids.  Here the  *)
(* tree is the set of its leaves, each with the path that leads to it:     *)
(* 0 descends into left_child, 1 into right_child.  The inner nodes are    *)
(* the proper prefixes of the paths.  The direction and the ratio of a     *)
(* split only size the tiles, and are left out.                            *)
(*                                                                         *)
(* The empty set is Option::None, a group without a tree.                  *)
(***************************************************************************)
EXTENDS Integers, Sequences, SequencesExt

Side == {0, 1}
Path == Seq(Side)
Leaf == [path : Path, window_id : Nat]
Tree == SUBSET Leaf

\* The ids a tree holds: TilingNode::find_window succeeds on exactly these.
TreeWindows(t) == {l.window_id : l \in t}

\* TilingNode::new: the tree of a single window.
NewTree(w) == {[path |-> <<>>, window_id |-> w]}

\* The leaf find_window_mut returns for an id the tree holds.
LeafOf(t, w) == CHOOSE l \in t : l.window_id = w

\* find_first_leaf_mut below the node at path p: always to the left.
FirstLeafBelow(t, p) ==
  CHOOSE l \in t : /\ IsPrefix(p, l.path)
                   /\ \A i \in Len(p) + 1 .. Len(l.path) : l.path[i] = 0

FirstLeaf(t) == FirstLeafBelow(t, <<>>)

Zeros(n) == [i \in 1..n |-> 0]

(***************************************************************************)
(* split_window on leaf l, once for every window of the sequence ws: each  *)
(* call turns the leaf into a split whose left child is the old window and *)
(* whose right child is the new one, so after them all the old window is   *)
(* Len(ws) levels further down on the left and ws[i] hangs off the i-th of *)
(* those levels.  One call is SplitLeaf(t, l, <<w>>).                      *)
(***************************************************************************)
SplitLeaf(t, l, ws) ==
  (t \ {l})
    \cup {[l EXCEPT !.path = @ \o Zeros(Len(ws))]}
    \cup {[path |-> Append(l.path \o Zeros(i - 1), 1), window_id |-> ws[i]]
            : i \in 1..Len(ws)}

\* The path of the sibling of the node at path p, and of their parent.
Parent(p)  == Front(p)
Sibling(p) == Append(Parent(p), 1 - Last(p))

(***************************************************************************)
(* remove_window: the root leaf leaves nothing (RemoveMe), any other leaf  *)
(* has its sibling subtree take the place of their parent (Removed).       *)
(***************************************************************************)
RemoveLeaf(t, l) ==
  LET sib == Sibling(l.path)
      Lift(k) == IF IsPrefix(sib, k.path)
                 THEN [k EXCEPT !.path = Parent(l.path)
                                   \o SubSeq(@, Len(sib) + 1, Len(@))]
                 ELSE k
  IN  IF l.path = <<>> THEN {} ELSE {Lift(k) : k \in t \ {l}}

\* Mutant of Survivor: the first leaf of the whole tree.
FirstOfTheRest(t, l) == FirstLeaf(RemoveLeaf(t, l)).window_id

\* The survivor_id of RemoveResult::Removed: first leaf of the sibling subtree.
Survivor(t, l) == FirstLeafBelow(t, Sibling(l.path)).window_id

(***************************************************************************)
(* remove_window for every window of the set ws, in whatever order: a leaf *)
(* that stays loses the turns below which nothing else is left.  The       *)
(* survivor of a removed leaf is the leftmost leaf that stays in the       *)
(* smallest subtree around it where one does.                              *)
(***************************************************************************)
Kept(t, ws) == {l \in t : l.window_id \notin ws}

\* The turns of a path that still part it from one of the leaves ks.
Turns(ks, p) == {n \in 1..Len(p) : \E k \in ks : IsPrefix(Sibling(SubSeq(p, 1, n)), k.path)}

Nth(ns, i) == CHOOSE n \in ns : Cardinality({k \in ns : k <= n}) = i

Shortened(ks, p) == LET ns == Turns(ks, p) IN [i \in 1..Cardinality(ns) |-> p[Nth(ns, i)]]

Prune(t, ws) == {[l EXCEPT !.path = Shortened(Kept(t, ws), @)] : l \in Kept(t, ws)}

LeftOf(j, k) ==
  \E n \in 1..Len(j.path) :
    IsStrictPrefix(SubSeq(j.path, 1, n - 1), k.path) /\ j.path[n] < k.path[n]

\* Of the leaves ks, those that share most of the path p.
Nearest(ks, p) ==
  {k \in ks : \A j \in ks, n \in 1..Len(p) :
     IsPrefix(SubSeq(p, 1, n), j.path) => IsPrefix(SubSeq(p, 1, n), k.path)}

PruneSurvivor(t, l, ws) ==
  LET near == Nearest(Kept(t, ws), l.path)
  IN  (CHOOSE k \in near : \A j \in near \ {k} : LeftOf(k, j)).window_id

(***************************************************************************)
(* What every tree the operations build is: ids occur once, no leaf lies   *)
(* below another, and every split has both its children.                   *)
(***************************************************************************)
UniqueIds(t) == \A k, l \in t : k.window_id = l.window_id => k = l

IsSplitTree(t) ==
  /\ UniqueIds(t)
  /\ \A k, l \in t : IsPrefix(k.path, l.path) => k = l
  /\ \A k \in t : \A n \in 1..Len(k.path) :
       LET p == SubSeq(k.path, 1, n)
       IN  \E l \in t : IsPrefix(Sibling(p), l.path)
=============================================================================
