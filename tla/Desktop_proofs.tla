--------------------------- MODULE Desktop_proofs ---------------------------
(***************************************************************************)
(* The invariants of Desktop for every number of monitors, columns and     *)
(* windows, every keymap and every kind of client.                         *)
(*                                                                         *)
(* First the split trees: splitting and removing leaves lead from trees to *)
(* trees, and change the windows of the tree as the methods promise. What  *)
(* the code does by recursion on the tree is here about paths, where two   *)
(* leaves part at some turn and there is a first one; a least number is    *)
(* all the induction the lemmas need.                                      *)
(*                                                                         *)
(* Then the shape of a grid: every index stays in range. That does not     *)
(* depend on what a group contains, so the groups are the members of an    *)
(* arbitrary set G, and a grid is shaped if it is one over some G.         *)
(*                                                                         *)
(* Then a sound grid: its groups hold trees, and no two of them the same   *)
(* window. Every method is shown to keep the windows of the monitor, but   *)
(* for those that come or go, and to leave each in one group.              *)
(*                                                                         *)
(* Then the desk, one at a time: every method is shown to lead from a desk *)
(* with a property to a desk with it, and every handler is a composition   *)
(* of methods. There are two inductive invariants.                         *)
(*                                                                         *)
(* IInv: the monitors are shaped, and the other fields are sets of tracked *)
(* windows. It is enough for IndexSafe and NoTrace.                        *)
(*                                                                         *)
(* Tidy: besides, every managed window has a tile or the whole screen and  *)
(* the grid is sound (IsPlaced), a focused tile is on the cursor's monitor *)
(* (AtHome), and the screen is what the last layout pass would leave       *)
(* (IsFresh). In the middle of a handler each of them may be broken: a     *)
(* window is tracked before it is placed, which IsPlacedBut allows for,    *)
(* and only the tail of the handler restores the other two.                *)
(*                                                                         *)
(* AtHome has a parameter, old: a focused tile is in the cursor's slot,    *)
(* unless it is old, which is on the cursor's monitor. Every handler keeps *)
(* it for any old, but the chords that clamp the cursor (Clamps) only for  *)
(* the window that has the focus: so the invariant has old = desk.focus,   *)
(* and any other step, with old = NoWindow or the focus before it, shows   *)
(* KeepsSlot.                                                              *)
(***************************************************************************)
EXTENDS Desktop, SequenceTheorems, FiniteSetTheorems, WellFoundedInduction, TLAPS

----------------------------------------------------------------------------
(* Least and greatest numbers *)

\* A nonempty set of naturals has a least element.
LEMMA LeastNatural ==
  ASSUME NEW T, T \subseteq Nat, T # {}
  PROVE  \E n \in T : \A k \in T : n <= k
<1> DEFINE R == OpToRel(<, Nat)
<1>1. IsWellFoundedOn(R, Nat)
  BY NatLessThanWellFounded
<1>2. \A x, y \in Nat : x < y => <<x, y>> \in R
  BY DEF OpToRel
<1> HIDE DEF R
<1>3. PICK n \in T : \A k \in T : ~(<<k, n>> \in R)
  BY <1>1, WFMin
<1>4. ASSUME NEW k \in T PROVE n <= k
  <2>1. k \in Nat /\ n \in Nat /\ ~(k < n)
    BY <1>2, <1>3
  <2> QED
    BY <2>1
<1> QED
  BY <1>4

\* A nonempty bounded set of naturals has a greatest element.
LEMMA GreatestNatural ==
  ASSUME NEW T, T \subseteq Nat, T # {}, NEW b \in Nat, \A n \in T : n <= b
  PROVE  \E n \in T : \A k \in T : k <= n
<1> DEFINE S == {x \in Nat : \E n \in T : x = b - n}
<1>1. S \subseteq Nat /\ S # {}
  <2>1. PICK n \in T : TRUE
    OBVIOUS
  <2>2. b - n \in S
    BY <2>1
  <2> QED
    BY <2>2
<1>2. PICK x \in S : \A y \in S : x <= y
  <2> HIDE DEF S
  <2> QED
    BY <1>1, LeastNatural
<1>3. PICK n \in T : x = b - n
  BY <1>2
<1>4. ASSUME NEW k \in T PROVE k <= n
  <2>1. b - k \in S
    OBVIOUS
  <2> QED
    BY <1>2, <1>3, <2>1
<1> QED
  BY <1>4

----------------------------------------------------------------------------
(* Paths, turn by turn *)

\* q begins with p.
Under(q, p) == Len(p) <= Len(q) /\ \A i \in 1..Len(p) : q[i] = p[i]

\* q goes along p and leaves it at the n-th turn.
Parts(q, p, n) ==
  /\ n <= Len(q)
  /\ \A i \in 1..n - 1 : q[i] = p[i]
  /\ q[n] # p[n]

\* A path is a sequence of turns.
LEMMA PathType ==
  ASSUME NEW p \in Path
  PROVE  Len(p) \in Nat /\ p \in [1..Len(p) -> Side] /\ \A i \in 1..Len(p) : p[i] \in {0, 1}
BY ElementOfSeq DEF Path, Side

\* Paths with the same turns are the same.
LEMMA SamePath ==
  ASSUME NEW p \in Path, NEW q \in Path, Len(p) = Len(q), \A i \in 1..Len(p) : p[i] = q[i]
  PROVE  p = q
BY SeqEqual DEF Path

\* The first turns of a path are a path.
LEMMA FrontPath ==
  ASSUME NEW p \in Path, NEW n \in 0..Len(p)
  PROVE  /\ SubSeq(p, 1, n) \in Path
         /\ Len(SubSeq(p, 1, n)) = n
         /\ \A i \in 1..n : SubSeq(p, 1, n)[i] = p[i]
<1>1. n \in Int /\ Len(p) \in Nat /\ \A i \in 1..n : p[i] \in Side
  BY PathType DEF Side
<1>2. /\ SubSeq(p, 1, n) \in Seq(Side)
      /\ Len(SubSeq(p, 1, n)) = IF 1 <= n THEN n - 1 + 1 ELSE 0
      /\ \A i \in 1..n - 1 + 1 : SubSeq(p, 1, n)[i] = p[1 + i - 1]
  BY <1>1, SubSeqProperties
<1>3. n - 1 + 1 = n /\ n \in Nat
  BY <1>1
<1>4. \A i \in 1..n : 1 + i - 1 = i
  OBVIOUS
<1> QED
  BY <1>2, <1>3, <1>4 DEF Path

\* A prefix of a path is what the path begins with.
LEMMA PrefixIsUnder ==
  ASSUME NEW p \in Path, NEW q \in Path
  PROVE  IsPrefix(p, q) <=> Under(q, p)
<1>1. Len(p) \in Nat /\ Len(q) \in Nat
  BY PathType
<1>2. SubSeq(p, 1, Len(p)) \in Path /\ Len(SubSeq(p, 1, Len(p))) = Len(p)
      /\ \A i \in 1..Len(p) : SubSeq(p, 1, Len(p))[i] = p[i]
  BY <1>1, FrontPath
<1>3. CASE Len(p) <= Len(q)
  <2>1. SubSeq(q, 1, Len(p)) \in Path /\ Len(SubSeq(q, 1, Len(p))) = Len(p)
        /\ \A i \in 1..Len(p) : SubSeq(q, 1, Len(p))[i] = q[i]
    BY <1>1, <1>3, FrontPath
  <2>2. SubSeq(p, 1, Len(p)) = SubSeq(q, 1, Len(p)) <=> \A i \in 1..Len(p) : q[i] = p[i]
    BY <1>2, <2>1, SamePath
  <2> QED
    BY <1>3, <2>2 DEF IsPrefix, Under
<1>4. CASE ~(Len(p) <= Len(q))
  BY <1>4 DEF IsPrefix, Under
<1> QED
  BY <1>3, <1>4

\* The sibling of the node below the n-th turn of a path: the paths through it part
\* from this one at that turn.
LEMMA SiblingParts ==
  ASSUME NEW p \in Path, NEW n \in 1..Len(p)
  PROVE  LET s == Sibling(SubSeq(p, 1, n))
         IN  /\ s \in Path /\ Len(s) = n
             /\ \A i \in 1..n - 1 : s[i] = p[i]
             /\ s[n] = 1 - p[n]
             /\ \A q \in Path : IsPrefix(s, q) <=> Parts(q, p, n)
<1> DEFINE a == SubSeq(p, 1, n)
           f == SubSeq(a, 1, n - 1)
           s == Sibling(a)
<1>1. n \in Nat /\ n >= 1 /\ Len(p) \in Nat
  BY PathType
<1>2. a \in Path /\ Len(a) = n /\ \A i \in 1..n : a[i] = p[i]
  BY <1>1, FrontPath
<1> HIDE DEF a
<1>3. f \in Path /\ Len(f) = n - 1 /\ \A i \in 1..n - 1 : f[i] = a[i]
  BY <1>1, <1>2, FrontPath
<1>4. 1 - a[n] \in Side /\ p[n] \in {0, 1} /\ a[n] = p[n]
  BY <1>1, <1>2, PathType DEF Side
<1>5. s = Append(f, 1 - a[n])
  BY <1>2 DEF Sibling, Parent, Front, Last
<1> HIDE DEF f
<1>6. /\ s \in Path /\ Len(s) = n
      /\ \A i \in 1..n - 1 : s[i] = p[i]
      /\ s[n] = 1 - p[n]
  <2>1. f \in Seq(Side)
    BY <1>3 DEF Path
  <2>2. /\ Append(f, 1 - a[n]) \in Seq(Side)
        /\ Len(Append(f, 1 - a[n])) = Len(f) + 1
        /\ \A i \in 1..Len(f) : Append(f, 1 - a[n])[i] = f[i]
        /\ Append(f, 1 - a[n])[Len(f) + 1] = 1 - a[n]
    BY <1>4, <2>1, AppendProperties
  <2> QED
    BY <1>1, <1>2, <1>3, <1>4, <1>5, <2>2 DEF Path
<1> HIDE DEF s
<1>7. ASSUME NEW q \in Path PROVE IsPrefix(s, q) <=> Parts(q, p, n)
  <2>1. IsPrefix(s, q) <=> Under(q, s)
    BY <1>6, <1>7, PrefixIsUnder
  <2>2. Len(q) \in Nat
    BY PathType
  <2>3. n <= Len(q) => q[n] \in {0, 1}
    BY <1>1, <2>2, PathType
  <2> QED
    BY <1>1, <1>4, <1>6, <2>1, <2>2, <2>3 DEF Under, Parts
<1> QED
  BY <1>6, <1>7 DEF s, a

----------------------------------------------------------------------------
(* Trees *)

\* No leaf lies below another.
PrefixFree(t) == \A k, l \in t : Under(l.path, k.path) => k = l

\* Every turn of a path parts it from a leaf.
BothSides(t) == \A k \in t : \A n \in 1..Len(k.path) : \E l \in t : Parts(l.path, k.path, n)

\* No path is longer than a bound.
Bounded(t) == \E b \in Nat : \A l \in t : Len(l.path) <= b

\* The trees the operations build.
IsTree(t) ==
  /\ t \in SUBSET Leaf
  /\ UniqueIds(t)
  /\ PrefixFree(t)
  /\ BothSides(t)
  /\ Bounded(t)

\* A leaf is a path and a window.
LEMMA LeafType ==
  ASSUME NEW l \in Leaf
  PROVE  /\ l.path \in Path /\ l.window_id \in Nat
         /\ l = [path |-> l.path, window_id |-> l.window_id]
         /\ Len(l.path) \in Nat
BY PathType DEF Leaf

\* Two paths that part at a turn do not lie one below the other.
LEMMA PartedNotUnder ==
  ASSUME NEW p \in Path, NEW q \in Path, NEW n \in 1..Len(p), Parts(q, p, n)
  PROVE  ~Under(p, q) /\ ~Under(q, p) /\ Parts(p, q, n) /\ n <= Len(q)
BY PathType DEF Parts, Under

\* Two paths neither of which lies below the other part somewhere.
LEMMA NotUnderParts ==
  ASSUME NEW p \in Path, NEW q \in Path, ~Under(p, q), ~Under(q, p)
  PROVE  \E n \in 1..Len(p) : Parts(q, p, n)
<1> DEFINE T == {n \in 1..Len(p) : n <= Len(q) /\ q[n] # p[n]}
<1>1. Len(p) \in Nat /\ Len(q) \in Nat
  BY PathType
<1>2. T # {} /\ T \subseteq Nat
  BY <1>1 DEF Under
<1>3. PICK n \in T : \A k \in T : n <= k
  <2> HIDE DEF T
  <2> QED
    BY <1>2, LeastNatural
<1>4. \A i \in 1..n - 1 : q[i] = p[i]
  <2> TAKE i \in 1..n - 1
  <2>1. i \in 1..Len(p) /\ i <= Len(q) /\ i < n
    BY <1>1
  <2> QED
    BY <1>3, <2>1
<1> QED
  BY <1>4 DEF Parts

\* The named part of SoundGrid that is about trees.
LEMMA TreeIsSplitTree ==
  ASSUME NEW t, IsTree(t)
  PROVE  IsSplitTree(t)
<1>1. t \subseteq Leaf
  BY DEF IsTree
<1>2. \A k, l \in t : IsPrefix(k.path, l.path) => k = l
  BY <1>1, LeafType, PrefixIsUnder DEF IsTree, PrefixFree
<1>3. ASSUME NEW k \in t, NEW n \in 1..Len(k.path)
      PROVE  \E l \in t : IsPrefix(Sibling(SubSeq(k.path, 1, n)), l.path)
  <2>1. PICK l \in t : Parts(l.path, k.path, n)
    BY DEF IsTree, BothSides
  <2>2. k.path \in Path /\ l.path \in Path
    BY <1>1, LeafType
  <2> QED
    BY <2>1, <2>2, SiblingParts
<1> QED
  BY <1>2, <1>3 DEF IsSplitTree, IsTree

\* There is a leftmost leaf below every node.
LEMMA FirstLeafExists ==
  ASSUME NEW t, IsTree(t), NEW p \in Path, NEW k \in t, Under(k.path, p)
  PROVE  \E l \in t : Under(l.path, p) /\ \A i \in Len(p) + 1..Len(l.path) : l.path[i] = 0
<1> DEFINE Left(l, n) == /\ Under(l.path, p)
                         /\ Len(p) + n <= Len(l.path)
                         /\ \A i \in Len(p) + 1..Len(p) + n : l.path[i] = 0
           T == {n \in Nat : \E l \in t : Left(l, n)}
<1>1. PICK b \in Nat : \A l \in t : Len(l.path) <= b
  BY DEF IsTree, Bounded
<1>2. \A l \in t : l.path \in Path /\ Len(l.path) \in Nat
  BY LeafType DEF IsTree
<1>3. Len(p) \in Nat
  BY PathType
<1>4. T \subseteq Nat /\ \A n \in T : n <= b
  BY <1>1, <1>2, <1>3
<1>5. 0 \in T
  BY <1>2, <1>3 DEF Under
<1>6. PICK n \in T : \A j \in T : j <= n
  <2> HIDE DEF T
  <2> QED
    BY <1>4, <1>5, GreatestNatural
<1>7. PICK l \in t : Left(l, n)
  BY <1>6
<1>8. n \in Nat /\ n + 1 \notin T
  BY <1>6
<1>9. Len(l.path) = Len(p) + n
  <2> SUFFICES ASSUME Len(l.path) # Len(p) + n PROVE FALSE
    OBVIOUS
  <2> DEFINE m == Len(p) + n + 1
  <2>1. m \in 1..Len(l.path)
    BY <1>2, <1>3, <1>7, <1>8
  <2>2. l.path[m] \in {0, 1}
    BY <1>2, <2>1, PathType
  <2>3. PICK s \in t : Parts(s.path, l.path, m)
    BY <2>1 DEF IsTree, BothSides
  <2>4. s.path[m] \in {0, 1} /\ s.path[m] # l.path[m] /\ m <= Len(s.path)
    BY <1>2, <2>1, <2>3, PathType DEF Parts
  <2>5. CASE l.path[m] = 0
    <3>1. Left(l, n + 1)
      BY <1>2, <1>3, <1>7, <1>8, <2>1, <2>5
    <3> QED
      BY <1>8, <3>1
  <2>6. CASE l.path[m] = 1
    <3>1. s.path[m] = 0 /\ \A i \in 1..m - 1 : s.path[i] = l.path[i]
      BY <2>3, <2>4, <2>6 DEF Parts
    <3>2. Len(p) <= Len(s.path) /\ Len(p) + (n + 1) <= Len(s.path)
      BY <1>2, <1>3, <1>8, <2>4
    <3>3. \A i \in 1..Len(p) : s.path[i] = p[i]
      BY <1>3, <1>7, <1>8, <3>1 DEF Under
    <3>4. \A i \in Len(p) + 1..Len(p) + (n + 1) : s.path[i] = 0
      <4> TAKE i \in Len(p) + 1..Len(p) + (n + 1)
      <4>1. (i \in Len(p) + 1..Len(p) + n /\ i \in 1..m - 1) \/ i = m
        BY <1>3, <1>8
      <4>2. \A j \in Len(p) + 1..Len(p) + n : l.path[j] = 0
        BY <1>7
      <4> HIDE DEF m
      <4> QED
        BY <3>1, <4>1, <4>2
    <3>5. Left(s, n + 1)
      BY <3>2, <3>3, <3>4 DEF Under
    <3> QED
      BY <1>8, <3>5
  <2> QED
    BY <2>2, <2>5, <2>6
<1> QED
  BY <1>7, <1>9

\* So the search below a node finds a leaf of the tree, below the node.
LEMMA FirstLeafFound ==
  ASSUME NEW t, IsTree(t), NEW p \in Path, NEW k \in t, Under(k.path, p)
  PROVE  FirstLeafBelow(t, p) \in t /\ Under(FirstLeafBelow(t, p).path, p)
<1>1. \A l \in t : l.path \in Path
  BY LeafType DEF IsTree
<1>2. \E l \in t : IsPrefix(p, l.path) /\ \A i \in Len(p) + 1..Len(l.path) : l.path[i] = 0
  BY <1>1, FirstLeafExists, PrefixIsUnder
<1>3. FirstLeafBelow(t, p) \in t /\ IsPrefix(p, FirstLeafBelow(t, p).path)
  BY <1>2 DEF FirstLeafBelow
<1> QED
  BY <1>1, <1>3, PrefixIsUnder

\* The first leaf of a tree is one of its leaves.
LEMMA FirstLeafInTree ==
  ASSUME NEW t, IsTree(t), t # {}
  PROVE  FirstLeaf(t) \in t
<1>1. PICK k \in t : TRUE
  OBVIOUS
<1>2. k.path \in Path
  BY LeafType DEF IsTree
<1>3. <<>> \in Path /\ Under(k.path, <<>>)
  BY <1>2, PathType DEF Path, Under
<1> QED
  BY <1>3, FirstLeafFound DEF FirstLeaf

\* The leaf of a window of the tree.
LEMMA LeafOfInTree ==
  ASSUME NEW t, NEW w \in TreeWindows(t)
  PROVE  LeafOf(t, w) \in t /\ LeafOf(t, w).window_id = w
BY DEF TreeWindows, LeafOf

\* The empty tree, and the tree of one window.
LEMMA SmallTrees ==
  /\ IsTree({}) /\ TreeWindows({}) = {}
  /\ \A w \in Nat : IsTree(NewTree(w)) /\ TreeWindows(NewTree(w)) = {w}
<1>1. IsTree({}) /\ TreeWindows({}) = {}
  BY DEF IsTree, TreeWindows, UniqueIds, PrefixFree, BothSides, Bounded
<1>2. ASSUME NEW w \in Nat
      PROVE  IsTree(NewTree(w)) /\ TreeWindows(NewTree(w)) = {w}
  <2> DEFINE l == [path |-> <<>>, window_id |-> w]
  <2>1. l \in Leaf /\ l.path = <<>> /\ Len(l.path) = 0 /\ l.window_id = w
    BY EmptySeq DEF Leaf, Path
  <2>2. NewTree(w) = {l}
    BY DEF NewTree
  <2> HIDE DEF l
  <2> QED
    BY <2>1, <2>2 DEF IsTree, TreeWindows, UniqueIds, PrefixFree, BothSides, Bounded
<1> QED
  BY <1>1, <1>2

----------------------------------------------------------------------------
(* Splitting a leaf *)

\* The windows of a sequence.
Listed(ws) == {ws[i] : i \in 1..Len(ws)}

\* A sequence of window ids that names none twice and none of the set vs.
IsNew(ws, vs) ==
  /\ ws \in Seq(Nat)
  /\ \A i, j \in 1..Len(ws) : ws[i] = ws[j] => i = j
  /\ \A i \in 1..Len(ws) : ws[i] \notin vs

\* A path that goes on to the left for n turns, and then may turn right.
LEMMA LeftwardPath ==
  ASSUME NEW p \in Path, NEW n \in Nat
  PROVE  /\ p \o Zeros(n) \in Path
         /\ Len(p \o Zeros(n)) = Len(p) + n
         /\ \A i \in 1..Len(p) : (p \o Zeros(n))[i] = p[i]
         /\ \A i \in Len(p) + 1..Len(p) + n : (p \o Zeros(n))[i] = 0
<1>1. Zeros(n) \in Seq(Side) /\ Len(Zeros(n)) = n /\ \A i \in 1..n : Zeros(n)[i] = 0
  BY DEF Zeros, Side
<1>2. p \in Seq(Side) /\ Len(p) \in Nat
  BY PathType DEF Path
<1>3. /\ p \o Zeros(n) \in Seq(Side)
      /\ Len(p \o Zeros(n)) = Len(p) + Len(Zeros(n))
      /\ \A i \in 1..Len(p) + Len(Zeros(n)) :
           (p \o Zeros(n))[i] = IF i <= Len(p) THEN p[i] ELSE Zeros(n)[i - Len(p)]
  BY <1>1, <1>2, ConcatProperties
<1>4. \A i \in Len(p) + 1..Len(p) + n : i - Len(p) \in 1..n /\ ~(i <= Len(p))
                                        /\ i \in 1..Len(p) + n
  BY <1>2
<1>5. \A i \in 1..Len(p) : i <= Len(p) /\ i \in 1..Len(p) + n
  BY <1>2
<1> QED
  BY <1>1, <1>3, <1>4, <1>5 DEF Path

\* The path of the window a split hangs off the n-th level.
LEMMA RightwardPath ==
  ASSUME NEW p \in Path, NEW n \in Nat
  PROVE  LET q == Append(p \o Zeros(n), 1)
         IN  /\ q \in Path
             /\ Len(q) = Len(p) + n + 1
             /\ \A i \in 1..Len(p) : q[i] = p[i]
             /\ \A i \in Len(p) + 1..Len(p) + n : q[i] = 0
             /\ q[Len(p) + n + 1] = 1
<1> DEFINE z == p \o Zeros(n)
           q == Append(z, 1)
<1>1. /\ z \in Path /\ Len(z) = Len(p) + n
      /\ \A i \in 1..Len(p) : z[i] = p[i]
      /\ \A i \in Len(p) + 1..Len(p) + n : z[i] = 0
  BY LeftwardPath
<1> HIDE DEF z
<1>2. /\ q \in Path /\ Len(q) = Len(z) + 1
      /\ \A i \in 1..Len(z) : q[i] = z[i]
      /\ q[Len(z) + 1] = 1
  BY <1>1, AppendProperties DEF Path, Side
<1>3. Len(p) \in Nat
  BY PathType
<1> HIDE DEF q
<1>4. \A i \in 1..Len(p) : i \in 1..Len(z)
  BY <1>1, <1>3
<1>5. \A i \in Len(p) + 1..Len(p) + n : i \in 1..Len(z)
  BY <1>1, <1>3
<1>6. /\ q \in Path
      /\ Len(q) = Len(p) + n + 1
      /\ \A i \in 1..Len(p) : q[i] = p[i]
      /\ \A i \in Len(p) + 1..Len(p) + n : q[i] = 0
      /\ q[Len(p) + n + 1] = 1
  BY <1>1, <1>2, <1>4, <1>5
<1> QED
  BY <1>6 DEF q, z

\* Splitting a leaf: the tree holds the new windows besides.
LEMMA SplitLeafTree ==
  ASSUME NEW t, IsTree(t), NEW l \in t, NEW ws, IsNew(ws, TreeWindows(t))
  PROVE  /\ IsTree(SplitLeaf(t, l, ws))
         /\ TreeWindows(SplitLeaf(t, l, ws)) = TreeWindows(t) \cup Listed(ws)
<1> DEFINE n == Len(ws)
           L == Len(l.path)
           z == [path |-> l.path \o Zeros(n), window_id |-> l.window_id]
           x == [i \in 1..n |-> [path |-> Append(l.path \o Zeros(i - 1), 1), window_id |-> ws[i]]]
           s == SplitLeaf(t, l, ws)
<1>1. /\ l \in Leaf /\ l.path \in Path /\ L \in Nat /\ l.window_id \in Nat
      /\ t \subseteq Leaf /\ \A k \in t : k.path \in Path /\ Len(k.path) \in Nat
  BY LeafType DEF IsTree
<1>2. n \in Nat /\ \A i \in 1..n : ws[i] \in Nat
  BY ElementOfSeq DEF IsNew
<1>3. s = (t \ {l}) \cup {z} \cup {x[i] : i \in 1..n}
  <2>1. [l EXCEPT !.path = @ \o Zeros(n)] = z
    <3> DEFINE q == l.path \o Zeros(n)
    <3>1. l = [path |-> l.path, window_id |-> l.window_id]
      BY <1>1, LeafType
    <3> HIDE DEF q, n
    <3>2. [l EXCEPT !.path = q] = [path |-> q, window_id |-> l.window_id]
      BY <3>1
    <3> QED
      BY <3>2 DEF q
  <2>2. {[path |-> Append(l.path \o Zeros(i - 1), 1), window_id |-> ws[i]] : i \in 1..n}
          = {x[i] : i \in 1..n}
    OBVIOUS
  <2> HIDE DEF z, x
  <2> QED
    BY <2>1, <2>2 DEF SplitLeaf
<1>4. /\ z \in Leaf /\ z.window_id = l.window_id
      /\ z.path \in Path /\ Len(z.path) = L + n
      /\ \A i \in 1..L : z.path[i] = l.path[i]
      /\ \A i \in L + 1..L + n : z.path[i] = 0
  BY <1>1, <1>2, LeftwardPath DEF Leaf
<1>5. ASSUME NEW i \in 1..n
      PROVE  /\ x[i] \in Leaf /\ x[i].window_id = ws[i]
             /\ x[i].path \in Path /\ Len(x[i].path) = L + i
             /\ \A j \in 1..L : x[i].path[j] = l.path[j]
             /\ \A j \in L + 1..L + i - 1 : x[i].path[j] = 0
             /\ x[i].path[L + i] = 1
  <2> DEFINE q == Append(l.path \o Zeros(i - 1), 1)
  <2>1. i \in Nat /\ i - 1 \in Nat
    BY <1>2
  <2>2. /\ q \in Path /\ Len(q) = L + (i - 1) + 1
        /\ \A j \in 1..L : q[j] = l.path[j]
        /\ \A j \in L + 1..L + (i - 1) : q[j] = 0
        /\ q[L + (i - 1) + 1] = 1
    BY <1>1, <2>1, RightwardPath
  <2>3. L + (i - 1) + 1 = L + i /\ L + (i - 1) = L + i - 1
    BY <1>1, <2>1
  <2>4. x[i] = [path |-> q, window_id |-> ws[i]]
    OBVIOUS
  <2> HIDE DEF q, x
  <2> QED
    BY <1>2, <2>2, <2>3, <2>4 DEF Leaf
<1> HIDE DEF s, z, x, n, L
<1>6. /\ \A k \in s : k \in t \ {l} \/ k = z \/ \E i \in 1..n : k = x[i]
      /\ t \ {l} \subseteq s /\ z \in s /\ \A i \in 1..n : x[i] \in s
  BY <1>3
<1>7. s \subseteq Leaf /\ \A k \in s : k.path \in Path /\ Len(k.path) \in Nat
  BY <1>1, <1>4, <1>5, <1>6, LeafType
<1>8. TreeWindows(s) = TreeWindows(t) \cup Listed(ws)
  <2>1. ASSUME NEW w \in TreeWindows(s) PROVE w \in TreeWindows(t) \cup Listed(ws)
    <3>1. PICK k \in s : w = k.window_id
      BY DEF TreeWindows
    <3> QED
      BY <1>4, <1>5, <1>6, <3>1 DEF TreeWindows, Listed, n
  <2>2. ASSUME NEW w \in TreeWindows(t) PROVE w \in TreeWindows(s)
    <3>1. PICK k \in t : w = k.window_id
      BY DEF TreeWindows
    <3> QED
      BY <1>4, <1>6, <3>1 DEF TreeWindows
  <2>3. ASSUME NEW w \in Listed(ws) PROVE w \in TreeWindows(s)
    <3>1. PICK i \in 1..n : w = ws[i]
      BY DEF Listed, n
    <3> QED
      BY <1>5, <1>6, <3>1 DEF TreeWindows
  <2> QED
    BY <2>1, <2>2, <2>3
<1>9. UniqueIds(s)
  <2> SUFFICES ASSUME NEW j \in s, NEW k \in s, j.window_id = k.window_id PROVE j = k
    BY DEF UniqueIds
  <2>1. \A a \in t : a.window_id \in TreeWindows(t)
    BY DEF TreeWindows
  <2>2. \A a, b \in t : a.window_id = b.window_id => a = b
    BY DEF IsTree, UniqueIds
  <2>3. \A i \in 1..n : x[i].window_id \notin TreeWindows(t)
    BY <1>5 DEF IsNew, n
  <2>4. \A i, h \in 1..n : x[i].window_id = x[h].window_id => i = h
    BY <1>5 DEF IsNew, n
  <2> QED
    BY <1>4, <1>6, <2>1, <2>2, <2>3, <2>4
<1>10. PrefixFree(s)
  <2> DEFINE Below(k) == Under(k.path, l.path)
  <2>1. Below(z) /\ \A i \in 1..n : Below(x[i])
    <3>1. Below(z)
      BY <1>1, <1>2, <1>4 DEF Under, L
    <3>2. ASSUME NEW i \in 1..n PROVE Below(x[i])
      <4>1. Len(x[i].path) >= L /\ \A j \in 1..L : x[i].path[j] = l.path[j]
        BY <1>1, <1>2, <1>5
      <4> QED
        BY <4>1 DEF Under, L
    <3> QED
      BY <3>1, <3>2
  <2>2. \A j, k \in t : Under(k.path, j.path) => j = k
    BY DEF IsTree, PrefixFree
  <2>3. ASSUME NEW j \in t \ {l}, NEW k \in s, Below(k)
        PROVE  ~Under(j.path, k.path) /\ ~Under(k.path, j.path)
    <3>1. ~Under(j.path, l.path) /\ ~Under(l.path, j.path)
      BY <2>2
    <3>2. PICK m \in 1..Len(l.path) : Parts(j.path, l.path, m)
      BY <1>1, <3>1, NotUnderParts
    <3>3. /\ Len(l.path) <= Len(k.path) /\ Len(l.path) \in Nat /\ Len(k.path) \in Nat
          /\ \A i \in 1..Len(l.path) : l.path[i] = k.path[i]
      BY <1>1, <1>7, <2>3 DEF Under
    <3>4. \A i \in 1..m - 1 : i \in 1..Len(l.path)
      BY <3>3
    <3>5. m \in 1..Len(k.path) /\ Parts(j.path, k.path, m)
      BY <3>2, <3>3, <3>4 DEF Parts
    <3> QED
      BY <1>1, <1>7, <3>5, PartedNotUnder
  <2>4. ASSUME NEW i \in 1..n, NEW h \in 1..n, i < h
        PROVE  ~Under(x[i].path, x[h].path) /\ ~Under(x[h].path, x[i].path)
    <3>0. L + i \in L + 1..L + h - 1 /\ i \in Nat /\ h \in Nat
      BY <1>1, <1>2, <2>4
    <3>1. x[i].path[L + i] = 1 /\ x[h].path[L + i] = 0
      BY <1>5, <3>0
    <3>2. L + i \in 1..Len(x[i].path) /\ L + i \in 1..Len(x[h].path)
      BY <1>1, <1>2, <1>5, <2>4
    <3> QED
      BY <3>1, <3>2 DEF Under
  <2>5. ASSUME NEW i \in 1..n
        PROVE  ~Under(x[i].path, z.path) /\ ~Under(z.path, x[i].path)
    <3>1. x[i].path[L + i] = 1 /\ z.path[L + i] = 0
      BY <1>1, <1>2, <1>4, <1>5
    <3>2. L + i \in 1..Len(x[i].path) /\ L + i \in 1..Len(z.path)
      BY <1>1, <1>2, <1>4, <1>5
    <3> QED
      BY <3>1, <3>2 DEF Under
  <2> HIDE DEF Below
  <2> SUFFICES ASSUME NEW j \in s, NEW k \in s, Under(k.path, j.path) PROVE j = k
    BY DEF PrefixFree
  <2>6. CASE j \in t \ {l}
    BY <1>6, <2>1, <2>2, <2>3, <2>6
  <2>7. CASE k \in t \ {l}
    BY <1>6, <2>1, <2>2, <2>3, <2>7
  <2>8. CASE (j = z \/ \E i \in 1..n : j = x[i]) /\ (k = z \/ \E i \in 1..n : k = x[i])
    <3>1. CASE j = z \/ k = z
      BY <2>5, <2>8, <3>1
    <3>2. CASE (\E i \in 1..n : j = x[i]) /\ (\E i \in 1..n : k = x[i])
      <4>1. PICK i \in 1..n, h \in 1..n : j = x[i] /\ k = x[h]
        BY <3>2
      <4>2. i \in Nat /\ h \in Nat
        BY <1>2
      <4>3. i < h \/ h < i \/ i = h
        BY <4>2
      <4> QED
        BY <2>4, <4>1, <4>3
    <3> QED
      BY <2>8, <3>1, <3>2
  <2> QED
    BY <1>6, <2>6, <2>7, <2>8
<1>11. BothSides(s)
  <2> SUFFICES ASSUME NEW k \in s, NEW m \in 1..Len(k.path)
               PROVE  \E j \in s : Parts(j.path, k.path, m)
    BY DEF BothSides
  <2>1. \A j, q \in t : Under(q.path, j.path) => j = q
    BY DEF IsTree, PrefixFree
  <2>2. CASE k \in t \ {l}
    <3>1. PICK j \in t : Parts(j.path, k.path, m)
      BY <2>2 DEF IsTree, BothSides
    <3>2. CASE j = l
      <4>0. m \in 1..L /\ \A i \in 1..m - 1 : i \in 1..L /\ l.path[i] = k.path[i]
        BY <1>1, <3>1, <3>2 DEF Parts, L
      <4>1. m <= Len(z.path) /\ z.path[m] = l.path[m] /\ \A i \in 1..m - 1 : z.path[i] = k.path[i]
        BY <1>1, <1>2, <1>4, <4>0
      <4>2. Parts(z.path, k.path, m)
        BY <3>1, <3>2, <4>1 DEF Parts
      <4> QED
        BY <1>6, <4>2
    <3> QED
      BY <1>6, <3>1, <3>2
  <2>3. CASE (k = z \/ \E i \in 1..n : k = x[i]) /\ m <= L
    <3>1. m \in 1..L /\ \A i \in 1..m : k.path[i] = l.path[i]
      BY <1>1, <1>4, <1>5, <2>3
    <3>2. PICK j \in t : Parts(j.path, l.path, m)
      BY <3>1 DEF IsTree, BothSides, L
    <3>3. j # l /\ Parts(j.path, k.path, m)
      BY <1>1, <3>1, <3>2 DEF Parts
    <3> QED
      BY <1>6, <3>3
  <2>4. CASE k = z /\ m > L
    <3> DEFINE i == m - L
    <3>1. i \in 1..n /\ m = L + i
      BY <1>1, <1>2, <1>4, <2>4
    <3> HIDE DEF i
    <3>2. Parts(x[i].path, k.path, m)
      <4>1. m <= Len(x[i].path) /\ x[i].path[m] = 1 /\ k.path[m] = 0
        BY <1>1, <1>2, <1>4, <1>5, <2>4, <3>1
      <4>2. \A j \in 1..m - 1 : x[i].path[j] = k.path[j]
        <5> TAKE j \in 1..m - 1
        <5>1. j \in 1..L \/ (j \in L + 1..L + i - 1 /\ j \in L + 1..L + n)
          BY <1>1, <1>2, <3>1
        <5> QED
          BY <1>4, <1>5, <2>4, <3>1, <5>1
      <4> QED
        BY <4>1, <4>2 DEF Parts
    <3> QED
      BY <1>6, <3>1, <3>2
  <2>5. ASSUME NEW h \in 1..n, k = x[h], m > L
        PROVE  \E j \in s : Parts(j.path, k.path, m)
    <3> DEFINE i == m - L
    <3>1. i \in 1..h /\ i \in 1..n /\ m = L + i
      BY <1>1, <1>2, <1>5, <2>5
    <3> HIDE DEF i
    <3>2. CASE i = h
      <4>0. m \in L + 1..L + n /\ h \in Nat
        BY <1>1, <1>2, <3>1
      <4>1. m <= Len(z.path) /\ z.path[m] = 0 /\ k.path[m] = 1
        BY <1>1, <1>2, <1>4, <1>5, <2>5, <3>1, <3>2, <4>0
      <4>2. \A j \in 1..m - 1 : z.path[j] = k.path[j]
        <5> TAKE j \in 1..m - 1
        <5>1. j \in 1..L \/ (j \in L + 1..L + h - 1 /\ j \in L + 1..L + n)
          BY <1>1, <1>2, <3>1, <3>2
        <5> QED
          BY <1>4, <1>5, <2>5, <5>1
      <4> QED
        BY <1>6, <4>1, <4>2 DEF Parts
    <3>3. CASE i < h
      <4>0. m \in L + 1..L + h - 1 /\ i \in Nat /\ h \in Nat
        BY <1>1, <1>2, <3>1, <3>3
      <4>1. m <= Len(x[i].path) /\ x[i].path[m] = 1 /\ k.path[m] = 0
        <5>1. x[h].path[m] = 0 /\ x[i].path[L + i] = 1 /\ Len(x[i].path) = L + i
          BY <1>5, <3>1, <4>0
        <5> QED
          BY <1>1, <2>5, <3>1, <4>0, <5>1
      <4>2. \A j \in 1..m - 1 : x[i].path[j] = k.path[j]
        <5> TAKE j \in 1..m - 1
        <5>1. j \in 1..L \/ (j \in L + 1..L + i - 1 /\ j \in L + 1..L + h - 1)
          BY <1>1, <1>2, <3>1, <3>3
        <5> QED
          BY <1>5, <2>5, <3>1, <5>1
      <4> QED
        BY <1>6, <3>1, <4>1, <4>2 DEF Parts
    <3> QED
      BY <1>2, <3>1, <3>2, <3>3
  <2> QED
    BY <1>1, <1>6, <1>7, <2>2, <2>3, <2>4, <2>5
<1>12. Bounded(s)
  <2>1. PICK b \in Nat : \A k \in t : Len(k.path) <= b
    BY DEF IsTree, Bounded
  <2>2. ASSUME NEW k \in s PROVE Len(k.path) <= b + n
    <3>1. L <= b
      BY <2>1 DEF L
    <3>2. CASE k \in t
      BY <1>1, <1>2, <2>1, <3>2
    <3>3. CASE k = z
      BY <1>1, <1>2, <1>4, <3>1, <3>3
    <3>4. CASE \E i \in 1..n : k = x[i]
      BY <1>1, <1>2, <1>5, <3>1, <3>4
    <3> QED
      BY <1>6, <3>2, <3>3, <3>4
  <2>3. b + n \in Nat
    BY <1>2
  <2> QED
    BY <2>2, <2>3 DEF Bounded
<1> QED
  BY <1>7, <1>8, <1>9, <1>10, <1>11, <1>12 DEF IsTree, s

----------------------------------------------------------------------------
(* Taking leaves off a tree *)

\* e[k] lists the turns at which some leaf of ks parts from the leaf k of ks.
Lists(ks, e) ==
  \A k \in ks :
    /\ e[k] \in Seq(Nat) /\ Len(e[k]) <= Len(k.path)
    /\ \A i \in DOMAIN e[k] : /\ e[k][i] \in 1..Len(k.path)
                              /\ \E j \in ks : Parts(j.path, k.path, e[k][i])
    /\ \A i, h \in DOMAIN e[k] : i < h => e[k][i] < e[k][h]
    /\ \A j \in ks, m \in 1..Len(k.path) :
         Parts(j.path, k.path, m) => \E i \in DOMAIN e[k] : e[k][i] = m

\* The leaf with only these turns left, and the leaves.
Short(k, e) ==
  [path |-> [i \in DOMAIN e[k] |-> k.path[e[k][i]]], window_id |-> k.window_id]

\* The leaves ks, each with the turns e lists.
Shorts(ks, e) == {Short(k, e) : k \in ks}

\* The first i turns of j and of k are the same.
ShareTurns(e, j, k, i) == i \in DOMAIN e[j] /\ \A h \in 1..i : e[j][h] = e[k][h]

\* Leaves that part at a turn have the same turns up to it.
LEMMA SameTurns ==
  ASSUME NEW ks, ks \subseteq Leaf, NEW e, Lists(ks, e),
         NEW j \in ks, NEW k \in ks, NEW i \in DOMAIN e[k], Parts(j.path, k.path, e[k][i])
  PROVE  ShareTurns(e, j, k, i)
<1> DEFINE n == [l \in ks |-> Len(e[l])]
<1>0. /\ n[j] \in Nat /\ DOMAIN e[j] = 1..n[j]
      /\ n[k] \in Nat /\ DOMAIN e[k] = 1..n[k]
      /\ i \in 1..n[k]
  BY DEF Lists
<1> HIDE DEF n
<1> DEFINE m == e[k][i]
           T == {h \in 1..i : ~(h <= n[j] /\ e[j][h] = e[k][h])}
<1>1. /\ j \in Leaf /\ k \in Leaf
      /\ j.path \in Path /\ k.path \in Path /\ Len(j.path) \in Nat /\ Len(k.path) \in Nat
      /\ n[j] \in Nat /\ n[k] \in Nat /\ i \in 1..n[k]
  BY <1>0, LeafType
<1>2. /\ \A h \in 1..n[j] : e[j][h] \in 1..Len(j.path)
      /\ \A h \in 1..n[k] : e[k][h] \in 1..Len(k.path)
  BY <1>0 DEF Lists
<1>3. /\ \A x, y \in 1..n[j] : x < y => e[j][x] < e[j][y]
      /\ \A x, y \in 1..n[k] : x < y => e[k][x] < e[k][y]
  BY <1>0 DEF Lists
<1>4. m \in 1..Len(k.path) /\ Parts(k.path, j.path, m) /\ m \in 1..Len(j.path)
      /\ \A x \in 1..m - 1 : j.path[x] = k.path[x]
  <2>1. m \in 1..Len(k.path)
    BY <1>1, <1>2
  <2> HIDE DEF m
  <2>2. Parts(j.path, k.path, m)
    BY DEF m
  <2>3. Parts(k.path, j.path, m) /\ m <= Len(j.path)
    BY <1>1, <2>1, <2>2, PartedNotUnder
  <2> QED
    BY <1>1, <2>1, <2>2, <2>3 DEF Parts
<1> HIDE DEF m
<1>5. ASSUME NEW x \in 1..n[k], e[k][x] <= m PROVE \E y \in 1..n[j] : e[j][y] = e[k][x]
  <2>1. e[k][x] \in 1..Len(j.path) /\ e[k][x] \in 1..Len(k.path)
    BY <1>1, <1>2, <1>4, <1>5
  <2>2. \E l \in ks : Parts(l.path, j.path, e[k][x])
    <3>1. CASE e[k][x] = m
      BY <1>4, <3>1
    <3>2. CASE e[k][x] < m
      <4>1. PICK l \in ks : Parts(l.path, k.path, e[k][x])
        BY <1>0 DEF Lists
      <4>2. \A y \in 1..e[k][x] : y \in 1..m - 1
        BY <1>4, <2>1, <3>2
      <4> DEFINE z == e[k][x]
      <4>3. z \in 1..z /\ \A y \in 1..z - 1 : y \in 1..z
        BY <2>1
      <4>4. \A y \in 1..z : j.path[y] = k.path[y]
        BY <1>4, <4>2
      <4>5. Parts(l.path, k.path, z)
        BY <4>1
      <4> HIDE DEF z
      <4>6. Parts(l.path, j.path, z)
        BY <4>3, <4>4, <4>5 DEF Parts
      <4> QED
        BY <4>6 DEF z
    <3> QED
      BY <1>2, <1>4, <1>5, <2>1, <3>1, <3>2
  <2> QED
    BY <1>0, <2>1, <2>2 DEF Lists
<1>6. ASSUME NEW x \in 1..n[j], e[j][x] < m PROVE \E y \in 1..n[k] : e[k][y] = e[j][x]
  <2> DEFINE z == e[j][x]
  <2>1. z \in 1..Len(j.path) /\ z \in 1..Len(k.path) /\ z \in Nat
    BY <1>1, <1>2, <1>4, <1>6
  <2>2. PICK l \in ks : Parts(l.path, j.path, z)
    BY <1>0 DEF Lists
  <2>3. z < m
    BY <1>6
  <2> HIDE DEF z
  <2>4. z \in 1..z /\ \A y \in 1..z - 1 : y \in 1..z
    BY <2>1
  <2>5. \A y \in 1..z : y \in 1..m - 1
    BY <1>4, <2>1, <2>3
  <2>6. \A y \in 1..z : j.path[y] = k.path[y]
    BY <1>4, <2>5
  <2>7. Parts(l.path, k.path, z)
    BY <2>2, <2>4, <2>6 DEF Parts
  <2> QED
    BY <1>0, <2>1, <2>7 DEF Lists, z
<1>7. T = {}
  <2> SUFFICES ASSUME T # {} PROVE FALSE
    OBVIOUS
  <2>1. T \subseteq Nat
    BY <1>1
  <2>2. PICK h \in T : \A y \in T : h <= y
    <3> HIDE DEF T
    <3> QED
      BY <2>1, LeastNatural
  <2>3. h \in 1..i /\ h \in Nat /\ i \in Nat /\ h \in 1..n[k]
    BY <1>1, <2>2
  <2>4. \A y \in 1..h - 1 : y <= n[j] /\ e[j][y] = e[k][y]
    BY <1>1, <2>2, <2>3
  <2>5. e[k][h] <= m
    BY <1>1, <1>2, <1>3, <2>3 DEF m
  <2>6. PICK x \in 1..n[j] : e[j][x] = e[k][h]
    BY <1>5, <2>3, <2>5
  <2>7. ~(x < h)
    <3> SUFFICES ASSUME x < h PROVE FALSE
      OBVIOUS
    <3>1. x \in 1..h - 1 /\ x \in 1..n[k]
      BY <1>1, <2>3
    <3>2. e[j][x] = e[k][x] /\ e[k][x] < e[k][h]
      BY <1>3, <2>3, <2>4, <3>1
    <3> QED
      BY <1>2, <2>3, <2>6, <3>1, <3>2
  <2>8. ~(x > h)
    <3> SUFFICES ASSUME x > h PROVE FALSE
      OBVIOUS
    <3>1. h \in 1..n[j] /\ h < x
      BY <1>1, <2>3
    <3>2. e[j][h] < e[j][x]
      BY <1>3, <3>1
    <3>3. e[j][h] < m /\ e[j][h] < e[k][h]
      BY <1>2, <1>4, <2>3, <2>5, <2>6, <3>1, <3>2
    <3>4. PICK y \in 1..n[k] : e[k][y] = e[j][h]
      BY <1>6, <3>1, <3>3
    <3>5. y < h
      <4>1. ~(h < y) /\ h # y
        BY <1>2, <1>3, <2>3, <3>3, <3>4
      <4> QED
        BY <1>1, <2>3, <4>1
    <3>6. y \in 1..h - 1 /\ y \in 1..n[j]
      BY <1>1, <2>3, <3>1, <3>5
    <3>7. e[j][y] = e[j][h] /\ e[j][y] < e[j][h]
      BY <1>3, <2>4, <3>1, <3>4, <3>5, <3>6
    <3> QED
      BY <1>2, <3>1, <3>7
  <2>9. x = h
    BY <1>1, <2>3, <2>7, <2>8
  <2> QED
    BY <1>1, <2>2, <2>3, <2>6, <2>9
<1>8. i \in 1..i /\ i \in Nat
  BY <1>1
<1> QED
  BY <1>0, <1>7, <1>8 DEF ShareTurns

\* So the shortened leaves part at the place of the turn.
LEMMA ShortsPart ==
  ASSUME NEW ks, ks \subseteq Leaf, NEW e, Lists(ks, e),
         NEW j \in ks, NEW k \in ks, NEW i \in DOMAIN e[k], Parts(j.path, k.path, e[k][i])
  PROVE  Parts(Short(j, e).path, Short(k, e).path, i)
<1> DEFINE n == [l \in ks |-> Len(e[l])]
<1>0. /\ n[j] \in Nat /\ DOMAIN e[j] = 1..n[j]
      /\ n[k] \in Nat /\ DOMAIN e[k] = 1..n[k]
      /\ i \in 1..n[k]
  BY DEF Lists
<1> HIDE DEF n
<1>1. i \in 1..n[j] /\ \A h \in 1..i : e[j][h] = e[k][h]
  <2>1. ShareTurns(e, j, k, i)
    BY SameTurns
  <2> QED
    BY <1>0, <2>1 DEF ShareTurns
<1>2. Len(k.path) \in Nat /\ i \in 1..n[k]
  BY <1>0, LeafType
<1> DEFINE a == Short(j, e).path
           b == Short(k, e).path
<1>3. /\ Len(a) = n[j] /\ \A h \in 1..n[j] : a[h] = j.path[e[j][h]]
      /\ \A h \in 1..n[k] : b[h] = k.path[e[k][h]]
  BY <1>0 DEF Short
<1> HIDE DEF a, b
<1>4. ASSUME NEW h \in 1..i - 1 PROVE a[h] = b[h]
  <2>1. h \in 1..i /\ h \in 1..n[j] /\ h \in 1..n[k] /\ h < i
    BY <1>0, <1>1, <1>2
  <2>2. e[k][h] < e[k][i] /\ e[k][h] \in 1..Len(k.path) /\ e[k][i] \in 1..Len(k.path)
    BY <1>0, <2>1 DEF Lists
  <2>3. e[k][h] \in 1..e[k][i] - 1
    BY <1>2, <2>2
  <2>4. j.path[e[k][h]] = k.path[e[k][h]]
    BY <2>3 DEF Parts
  <2> QED
    BY <1>1, <1>3, <2>1, <2>4
<1>5. a[i] # b[i]
  <2>1. i \in 1..i /\ i \in 1..n[j]
    BY <1>0, <1>1, <1>2
  <2>2. j.path[e[k][i]] # k.path[e[k][i]]
    BY DEF Parts
  <2> QED
    BY <1>1, <1>2, <1>3, <2>1, <2>2
<1> QED
  BY <1>0, <1>1, <1>3, <1>4, <1>5 DEF Parts, a, b

\* The shortened leaves are a tree of the same windows.
LEMMA ShortsAreTree ==
  ASSUME NEW ks, ks \subseteq Leaf, UniqueIds(ks), PrefixFree(ks), Bounded(ks),
         NEW e, Lists(ks, e)
  PROVE  /\ IsTree(Shorts(ks, e))
         /\ TreeWindows(Shorts(ks, e)) = TreeWindows(ks)
<1> DEFINE s == Shorts(ks, e)
<1>1. ASSUME NEW k \in ks
      PROVE  /\ Short(k, e) \in Leaf
             /\ Short(k, e).window_id = k.window_id
             /\ Short(k, e).path \in Path
             /\ Len(Short(k, e).path) \in Nat
             /\ DOMAIN e[k] = 1..Len(Short(k, e).path)
             /\ Len(Short(k, e).path) <= Len(k.path) /\ Len(k.path) \in Nat
  <2> DEFINE q == [i \in DOMAIN e[k] |-> k.path[e[k][i]]]
             n == Len(e[k])
  <2>1. k.path \in Path /\ k.window_id \in Nat /\ Len(k.path) \in Nat
    BY LeafType
  <2>0. n \in Nat /\ n <= Len(k.path) /\ DOMAIN e[k] = 1..n
    BY DEF Lists
  <2> HIDE DEF n
  <2>2. \A i \in 1..n : k.path[e[k][i]] \in Side
    BY <2>0, <2>1, PathType DEF Lists, Side
  <2>3. q \in Path /\ Len(q) = n
    BY <2>0, <2>2 DEF Path
  <2> HIDE DEF q
  <2>4. Short(k, e) = [path |-> q, window_id |-> k.window_id]
    BY DEF Short, q
  <2> QED
    BY <2>0, <2>1, <2>3, <2>4 DEF Leaf
<1>2. /\ \A l \in s : \E k \in ks : l = Short(k, e)
      /\ \A k \in ks : Short(k, e) \in s
  BY DEF Shorts
<1> HIDE DEF s
<1>3. s \subseteq Leaf
  BY <1>1, <1>2
<1>4. TreeWindows(s) = TreeWindows(ks)
  <2>1. ASSUME NEW w \in TreeWindows(s) PROVE w \in TreeWindows(ks)
    <3>1. PICK l \in s : w = l.window_id
      BY DEF TreeWindows
    <3> QED
      BY <1>1, <1>2, <3>1 DEF TreeWindows
  <2>2. ASSUME NEW w \in TreeWindows(ks) PROVE w \in TreeWindows(s)
    <3>1. PICK k \in ks : w = k.window_id
      BY DEF TreeWindows
    <3> QED
      BY <1>1, <1>2, <3>1 DEF TreeWindows
  <2> QED
    BY <2>1, <2>2
<1>5. UniqueIds(s)
  BY <1>1, <1>2 DEF UniqueIds
<1>6. PrefixFree(s)
  <2> SUFFICES ASSUME NEW a \in s, NEW b \in s, a # b PROVE ~Under(b.path, a.path)
    BY DEF PrefixFree
  <2>1. PICK j \in ks, k \in ks : a = Short(j, e) /\ b = Short(k, e)
    BY <1>2
  <2>2. ~Under(k.path, j.path) /\ ~Under(j.path, k.path)
    BY <2>1 DEF PrefixFree
  <2>3. PICK m \in 1..Len(k.path) : Parts(j.path, k.path, m)
    BY <2>2, NotUnderParts, LeafType
  <2>4. PICK i \in DOMAIN e[k] : e[k][i] = m
    BY <2>3 DEF Lists
  <2>5. Parts(a.path, b.path, i)
    BY <2>1, <2>3, <2>4, ShortsPart
  <2>6. a.path \in Path /\ b.path \in Path /\ i \in 1..Len(b.path)
    BY <1>1, <2>1
  <2> QED
    BY <2>5, <2>6, PartedNotUnder
<1>7. BothSides(s)
  <2> SUFFICES ASSUME NEW b \in s, NEW i \in 1..Len(b.path)
               PROVE  \E a \in s : Parts(a.path, b.path, i)
    BY DEF BothSides
  <2>1. PICK k \in ks : b = Short(k, e)
    BY <1>2
  <2>2. i \in DOMAIN e[k]
    BY <1>1, <2>1
  <2>3. PICK j \in ks : Parts(j.path, k.path, e[k][i])
    BY <2>2 DEF Lists
  <2> QED
    BY <1>2, <2>1, <2>2, <2>3, ShortsPart
<1>8. Bounded(s)
  <2>1. PICK b \in Nat : \A k \in ks : Len(k.path) <= b
    BY DEF Bounded
  <2>2. ASSUME NEW l \in s PROVE Len(l.path) <= b
    <3>1. PICK k \in ks : l = Short(k, e)
      BY <1>2
    <3> QED
      BY <1>1, <2>1, <3>1
  <2> QED
    BY <2>2 DEF Bounded
<1> QED
  BY <1>3, <1>4, <1>5, <1>6, <1>7, <1>8 DEF IsTree, s

----------------------------------------------------------------------------
(* Removing one leaf *)

\* The last turn of a path is one of its turns.
LEMMA WholePath ==
  ASSUME NEW p \in Path, p # <<>>
  PROVE  Len(p) \in 1..Len(p) /\ SubSeq(p, 1, Len(p)) = p
<1> DEFINE n == Len(p)
           q == SubSeq(p, 1, n)
<1>1. n \in Nat /\ n # 0 /\ n \in 0..Len(p)
  BY PathType, EmptySeq DEF Path
<1>2. q \in Path /\ Len(q) = n /\ \A i \in 1..n : q[i] = p[i]
  BY <1>1, FrontPath
<1> HIDE DEF q
<1>3. q = p
  BY <1>1, <1>2, SamePath
<1> QED
  BY <1>1, <1>3 DEF q

\* Taking one leaf off: its sibling subtree moves up, and no other window goes.
LEMMA RemoveLeafTree ==
  ASSUME NEW t, IsTree(t), NEW l \in t
  PROVE  /\ IsTree(RemoveLeaf(t, l))
         /\ TreeWindows(RemoveLeaf(t, l)) = TreeWindows(t) \ {l.window_id}
         /\ l.path = <<>> <=> TreeWindows(t) = {l.window_id}
<1> DEFINE N == Len(l.path)
           ks == t \ {l}
           sib == Sibling(l.path)
           Lift(k) == IF IsPrefix(sib, k.path)
                      THEN [k EXCEPT !.path = Parent(l.path) \o SubSeq(@, Len(sib) + 1, Len(@))]
                      ELSE k
           lifted(k) == Parts(k.path, l.path, N)
           e == [k \in ks |-> IF lifted(k) THEN [i \in 1..Len(k.path) - 1 |-> IF i < N THEN i ELSE i + 1]
                              ELSE [i \in 1..Len(k.path) |-> i]]
<1>1. /\ t \subseteq Leaf /\ l \in Leaf /\ l.path \in Path /\ N \in Nat
      /\ \A k \in t : k \in Leaf /\ k.path \in Path /\ Len(k.path) \in Nat
      /\ \A k \in t : k.window_id = l.window_id => k = l
  BY LeafType DEF IsTree, UniqueIds
<1>2. TreeWindows(ks) = TreeWindows(t) \ {l.window_id}
  BY <1>1 DEF TreeWindows
<1>3. \A j, k \in t : Under(j.path, k.path) => j = k
  BY DEF IsTree, PrefixFree
<1>4. CASE l.path = <<>>
  <2>1. \A k \in t : Under(k.path, l.path)
    BY <1>1, <1>4 DEF Under
  <2>2. t = {l} /\ RemoveLeaf(t, l) = {}
    BY <1>3, <1>4, <2>1 DEF RemoveLeaf
  <2>3. TreeWindows(t) = {l.window_id} /\ TreeWindows({}) = {}
    BY <2>2 DEF TreeWindows
  <2> QED
    BY <1>4, <2>2, <2>3, SmallTrees
<1>5. ASSUME l.path # <<>>
      PROVE  /\ IsTree(RemoveLeaf(t, l))
             /\ TreeWindows(RemoveLeaf(t, l)) = TreeWindows(ks)
             /\ TreeWindows(t) # {l.window_id}
  <2>1. N \in 1..N /\ SubSeq(l.path, 1, N) = l.path
    BY <1>1, <1>5, WholePath
  <2>2. /\ sib \in Path /\ Len(sib) = N
        /\ \A q \in Path : IsPrefix(sib, q) <=> Parts(q, l.path, N)
    BY <1>1, <2>1, SiblingParts
  <2>3. PICK b \in t : Parts(b.path, l.path, N)
    BY <2>1 DEF IsTree, BothSides
  <2>4. b \in ks /\ b.window_id \in TreeWindows(t) /\ b.window_id # l.window_id
    BY <1>1, <2>3 DEF Parts, TreeWindows
  <2>5. RemoveLeaf(t, l) = {Lift(k) : k \in ks}
    BY <1>5 DEF RemoveLeaf
  <2>6. \A k \in ks : IsPrefix(sib, k.path) <=> lifted(k)
    BY <1>1, <2>2
  <2> HIDE DEF N
  <2>7. ASSUME NEW k \in ks, lifted(k)
        PROVE  /\ N <= Len(k.path) /\ N \in 1..Len(k.path)
               /\ \A i \in 1..N - 1 : k.path[i] = l.path[i]
               /\ k.path[N] # l.path[N]
               /\ e[k] = [i \in 1..Len(k.path) - 1 |-> IF i < N THEN i ELSE i + 1]
               /\ DOMAIN e[k] = 1..Len(k.path) - 1
               /\ Len(k.path) - 1 \in Nat
               /\ e[k] \in Seq(Nat) /\ Len(e[k]) = Len(k.path) - 1
    <3> DEFINE f == [i \in 1..Len(k.path) - 1 |-> IF i < N THEN i ELSE i + 1]
    <3>1. /\ N <= Len(k.path) /\ N \in 1..Len(k.path)
          /\ \A i \in 1..N - 1 : k.path[i] = l.path[i]
          /\ k.path[N] # l.path[N]
      BY <1>1, <2>1, <2>7 DEF Parts
    <3>2. e[k] = f
      BY <2>7
    <3>3. Len(k.path) - 1 \in Nat
      BY <1>1, <2>1, <3>1
    <3>4. f \in Seq(Nat) /\ Len(f) = Len(k.path) - 1 /\ DOMAIN f = 1..Len(k.path) - 1
      BY <3>3
    <3> HIDE DEF e, lifted
    <3> QED
      BY <3>1, <3>2, <3>3, <3>4
  <2>8. ASSUME NEW k \in ks, ~lifted(k)
        PROVE  /\ e[k] = [i \in 1..Len(k.path) |-> i]
               /\ DOMAIN e[k] = 1..Len(k.path)
               /\ e[k] \in Seq(Nat) /\ Len(e[k]) = Len(k.path)
    <3>1. e[k] = [i \in 1..Len(k.path) |-> i]
      BY <2>8
    <3>2. Len(k.path) \in Nat
      BY <1>1
    <3> HIDE DEF e
    <3> QED
      BY <3>1, <3>2
  <2> HIDE DEF e
  \* Every turn of a leaf that stays but the one towards l still parts it from a leaf.
  <2>9. ASSUME NEW k \in ks, NEW m \in 1..Len(k.path), ~(lifted(k) /\ m = N)
        PROVE  \E j \in ks : Parts(j.path, k.path, m)
    <3>1. PICK j \in t : Parts(j.path, k.path, m)
      BY DEF IsTree, BothSides
    <3>2. CASE j # l
      BY <3>1, <3>2
    <3>3. CASE j = l
      <4>1. /\ m <= N /\ m \in Nat /\ m \in 1..Len(k.path) /\ k.path[m] # l.path[m]
            /\ \A i \in 1..m - 1 : l.path[i] = k.path[i]
        BY <1>1, <3>1, <3>3 DEF Parts, N
      <4>2. m # N
        <5> SUFFICES ASSUME m = N PROVE FALSE
          OBVIOUS
        <5>1. Parts(k.path, l.path, N)
          BY <1>1, <4>1 DEF Parts
        <5> QED
          BY <2>9, <5>1
      <4>3. m \in 1..N - 1 /\ \A i \in 1..m - 1 : i \in 1..N - 1
        BY <1>1, <4>1, <4>2
      <4>4. Parts(b.path, k.path, m)
        BY <1>1, <2>3, <4>1, <4>3 DEF Parts
      <4> QED
        BY <2>4, <4>4
    <3> QED
      BY <3>2, <3>3
  <2>10. ASSUME NEW k \in ks, lifted(k), NEW j \in ks, NEW m \in 1..Len(k.path),
                Parts(j.path, k.path, m)
         PROVE  m # N
    <3> SUFFICES ASSUME m = N PROVE FALSE
      OBVIOUS
    <3>1. /\ j.path[N] \in {0, 1} /\ l.path[N] \in {0, 1} /\ k.path[N] \in {0, 1}
          /\ N <= Len(j.path)
      <4>1. N <= Len(j.path) /\ N \in 1..Len(j.path)
        BY <1>1, <2>1, <2>10 DEF Parts
      <4>2. N \in 1..Len(l.path) /\ N \in 1..Len(k.path)
        BY <2>1, <2>7, <2>10 DEF N
      <4> QED
        BY <1>1, <4>1, <4>2, PathType
    <3>2. j.path[N] # k.path[N] /\ k.path[N] # l.path[N] /\ \A i \in 1..N - 1 : j.path[i] = l.path[i]
      BY <2>7, <2>10 DEF Parts
    <3>3. \A i \in 1..N : j.path[i] = l.path[i]
      BY <1>1, <3>1, <3>2
    <3>4. Under(j.path, l.path)
      BY <3>1, <3>3 DEF Under, N
    <3> QED
      BY <1>3, <3>4
  <2> HIDE DEF lifted, Lift
  <2>11. Lists(ks, e)
    <3> SUFFICES ASSUME NEW k \in ks
                 PROVE  /\ e[k] \in Seq(Nat) /\ Len(e[k]) <= Len(k.path)
                        /\ \A i \in DOMAIN e[k] : /\ e[k][i] \in 1..Len(k.path)
                                                  /\ \E j \in ks : Parts(j.path, k.path, e[k][i])
                        /\ \A i, h \in DOMAIN e[k] : i < h => e[k][i] < e[k][h]
                        /\ \A j \in ks, m \in 1..Len(k.path) :
                             Parts(j.path, k.path, m) => \E i \in DOMAIN e[k] : e[k][i] = m
      BY DEF Lists
    <3> DEFINE L == Len(k.path)
    <3>1. L \in Nat
      BY <1>1
    <3>2. CASE lifted(k)
      <4>1. /\ e[k] = [i \in 1..L - 1 |-> IF i < N THEN i ELSE i + 1]
            /\ DOMAIN e[k] = 1..L - 1 /\ N \in 1..L
            /\ e[k] \in Seq(Nat) /\ Len(e[k]) = L - 1
        BY <2>7, <3>2
      <4> HIDE DEF L
      <4>2. \A i \in DOMAIN e[k] : e[k][i] \in 1..L /\ e[k][i] # N
        BY <1>1, <3>1, <4>1
      <4>3. \A i, h \in DOMAIN e[k] : i < h => e[k][i] < e[k][h]
        BY <1>1, <3>1, <4>1
      <4>4. ASSUME NEW m \in 1..L, m # N PROVE \E i \in DOMAIN e[k] : e[k][i] = m
        <5> DEFINE i == IF m < N THEN m ELSE m - 1
        <5>1. i \in 1..L - 1 /\ e[k][i] = m
          BY <1>1, <3>1, <4>1, <4>4
        <5> QED
          BY <4>1, <5>1
      <4> USE DEF L
      <4>5. \A i \in DOMAIN e[k] : \E j \in ks : Parts(j.path, k.path, e[k][i])
        BY <2>9, <4>2
      <4>6. Len(e[k]) <= Len(k.path)
        BY <3>1, <4>1
      <4> QED
        BY <2>10, <3>2, <4>1, <4>2, <4>3, <4>4, <4>5, <4>6
    <3>3. CASE ~lifted(k)
      <4>1. /\ e[k] = [i \in 1..L |-> i] /\ DOMAIN e[k] = 1..L
            /\ e[k] \in Seq(Nat) /\ Len(e[k]) = L
        BY <2>8, <3>3
      <4>2. \A i \in DOMAIN e[k] : \E j \in ks : Parts(j.path, k.path, e[k][i])
        BY <2>9, <3>3, <4>1
      <4>3. L <= L
        BY <3>1
      <4> QED
        BY <4>1, <4>2, <4>3
    <3> QED
      BY <3>2, <3>3
  <2>12. ASSUME NEW k \in ks PROVE Lift(k) = Short(k, e)
    <3>1. k = [path |-> k.path, window_id |-> k.window_id]
      BY <1>1, LeafType
    <3>2. CASE lifted(k)
      <4> DEFINE q == Parent(l.path) \o SubSeq(k.path, Len(sib) + 1, Len(k.path))
                 s == [i \in DOMAIN e[k] |-> k.path[e[k][i]]]
                 p == Parent(l.path)
                 r == SubSeq(k.path, N + 1, Len(k.path))
                 L == Len(k.path)
      <4>1. Lift(k) = [k EXCEPT !.path = q]
        BY <2>6, <3>2 DEF Lift
      <4>2. /\ p \in Path /\ Len(p) = N - 1 /\ \A i \in 1..N - 1 : p[i] = l.path[i]
        <5>1. p = SubSeq(l.path, 1, N - 1) /\ N - 1 \in 0..Len(l.path)
          BY <1>1, <2>1 DEF Parent, Front, N
        <5> QED
          BY <1>1, <5>1, FrontPath
      <4>3. q = p \o r
        BY <2>2
      <4>4. /\ e[k] = [i \in 1..L - 1 |-> IF i < N THEN i ELSE i + 1]
            /\ DOMAIN e[k] = 1..L - 1 /\ N \in 1..L /\ L \in Nat
            /\ \A i \in 1..N - 1 : k.path[i] = l.path[i]
        BY <1>1, <2>7, <3>2
      <4> HIDE DEF L, p, q
      <4>5. \A i \in 1..L : k.path[i] \in Side
        BY <1>1, PathType DEF Side, L
      <4>6. /\ r \in Seq(Side) /\ Len(r) = L - N
            /\ \A i \in 1..L - N : r[i] = k.path[N + i]
        <5>1. N + 1 \in Int /\ L \in Int /\ \A i \in N + 1..L : k.path[i] \in Side
          BY <1>1, <4>4, <4>5
        <5>2. /\ SubSeq(k.path, N + 1, L) \in Seq(Side)
              /\ Len(SubSeq(k.path, N + 1, L)) = IF N + 1 <= L THEN L - (N + 1) + 1 ELSE 0
              /\ \A i \in 1..L - (N + 1) + 1 : SubSeq(k.path, N + 1, L)[i] = k.path[N + 1 + i - 1]
          BY <5>1, SubSeqProperties
        <5>3. r = SubSeq(k.path, N + 1, L)
          BY DEF L
        <5> HIDE DEF r
        <5>4. L - (N + 1) + 1 = L - N /\ L - N \in Nat /\ (~(N + 1 <= L) => L - N = 0)
          BY <1>1, <4>4
        <5>5. \A i \in 1..L - N : N + 1 + i - 1 = N + i
          BY <1>1, <4>4
        <5> QED
          BY <5>2, <5>3, <5>4, <5>5
      <4> HIDE DEF r
      <4>7. /\ q \in Seq(Side) /\ Len(q) = Len(p) + Len(r)
            /\ \A i \in 1..Len(p) + Len(r) : q[i] = IF i <= Len(p) THEN p[i] ELSE r[i - Len(p)]
        BY <4>2, <4>3, <4>6, ConcatProperties DEF Path
      <4>8. Len(q) = L - 1
        BY <1>1, <4>2, <4>4, <4>6, <4>7
      <4>9. ASSUME NEW i \in 1..L - 1 PROVE q[i] = s[i]
        <5>1. q[i] = IF i <= N - 1 THEN p[i] ELSE r[i - (N - 1)]
          BY <1>1, <4>2, <4>4, <4>6, <4>7
        <5>2. CASE i < N
          <6>1. i \in 1..N - 1 /\ i <= N - 1
            BY <1>1, <4>4, <5>2
          <6> QED
            BY <4>2, <4>4, <5>1, <5>2, <6>1
        <5>3. CASE ~(i < N)
          <6>1. i - (N - 1) \in 1..L - N /\ N + (i - (N - 1)) = i + 1 /\ ~(i <= N - 1)
            BY <1>1, <4>4, <5>3
          <6>2. q[i] = r[i - (N - 1)]
            BY <5>1, <6>1
          <6>3. s[i] = k.path[i + 1]
            BY <4>4, <5>3
          <6> QED
            BY <4>6, <6>1, <6>2, <6>3
        <5> QED
          BY <5>2, <5>3
      <4>10. s \in Seq(Side) /\ Len(s) = L - 1
        <5>1. L - 1 \in Nat /\ s = [i \in 1..L - 1 |-> k.path[e[k][i]]]
          BY <4>4
        <5>2. \A i \in 1..L - 1 : s[i] \in Side
          <6> TAKE i \in 1..L - 1
          <6>1. e[k][i] \in 1..L
            BY <1>1, <4>4
          <6> QED
            BY <4>5, <5>1, <6>1
        <5> HIDE DEF s
        <5>3. s \in [1..L - 1 -> Side]
          BY <5>1, <5>2
        <5> QED
          BY <5>1, <5>3
      <4> HIDE DEF s
      <4>11. q = s
        BY <4>7, <4>8, <4>9, <4>10, SeqEqual
      <4>12. Short(k, e) = [path |-> s, window_id |-> k.window_id]
        BY DEF Short, s
      <4> QED
        BY <3>1, <4>1, <4>11, <4>12
    <3>3. CASE ~lifted(k)
      <4> DEFINE s == [i \in DOMAIN e[k] |-> k.path[e[k][i]]]
                 L == Len(k.path)
      <4>1. e[k] = [i \in 1..L |-> i] /\ DOMAIN e[k] = 1..L
        BY <2>8, <3>3
      <4>2. s = [i \in 1..L |-> k.path[i]]
        BY <4>1
      <4> HIDE DEF s
      <4>3. k.path = [i \in 1..L |-> k.path[i]]
        BY <1>1, PathType
      <4>4. Short(k, e) = [path |-> s, window_id |-> k.window_id]
        BY DEF Short, s
      <4>5. Lift(k) = k
        BY <2>6, <3>3 DEF Lift
      <4> QED
        BY <3>1, <4>2, <4>3, <4>4, <4>5
    <3> QED
      BY <3>2, <3>3
  <2>13. RemoveLeaf(t, l) = Shorts(ks, e)
    BY <2>5, <2>12 DEF Shorts
  <2>14. UniqueIds(ks) /\ PrefixFree(ks) /\ Bounded(ks) /\ ks \subseteq Leaf
    BY <1>1 DEF IsTree, UniqueIds, PrefixFree, Bounded
  <2> QED
    BY <2>4, <2>11, <2>13, <2>14, ShortsAreTree
<1> QED
  BY <1>2, <1>4, <1>5

\* The window that inherits the memory of a removed one is still in the tree.
LEMMA SurvivorInTree ==
  ASSUME NEW t, IsTree(t), NEW l \in t, l.path # <<>>
  PROVE  Survivor(t, l) \in TreeWindows(t) \ {l.window_id}
<1> DEFINE N == Len(l.path)
           sib == Sibling(l.path)
<1>1. l.path \in Path /\ N \in Nat /\ \A k \in t : k.path \in Path
  BY LeafType DEF IsTree
<1>2. N \in 1..N /\ SubSeq(l.path, 1, N) = l.path
  BY <1>1, WholePath
<1>3. sib \in Path /\ \A q \in Path : IsPrefix(sib, q) <=> Parts(q, l.path, N)
  BY <1>1, <1>2, SiblingParts
<1>4. PICK b \in t : Parts(b.path, l.path, N)
  BY <1>2 DEF IsTree, BothSides
<1>5. Under(b.path, sib)
  BY <1>1, <1>3, <1>4, PrefixIsUnder
<1> HIDE DEF N, sib
<1> DEFINE s == FirstLeafBelow(t, sib)
<1>6. s \in t /\ Under(s.path, sib)
  BY <1>3, <1>5, FirstLeafFound
<1> HIDE DEF s
<1>7. Parts(s.path, l.path, N)
  BY <1>1, <1>3, <1>6, PrefixIsUnder
<1>8. s # l
  BY <1>7 DEF Parts
<1>9. s.window_id # l.window_id
  BY <1>6, <1>8 DEF IsTree, UniqueIds
<1> QED
  BY <1>6, <1>9 DEF Survivor, TreeWindows, s, sib

----------------------------------------------------------------------------
(* Removing any leaves *)

\* The rank of a number in a finite set of numbers.
Rank(ns, n) == Cardinality({k \in ns : k <= n})

\* Nth counts a finite set of naturals through in its order.
LEMMA NthCounts ==
  ASSUME NEW b \in Nat, NEW ns \in SUBSET (1..b)
  PROVE  /\ Cardinality(ns) \in 0..b
         /\ \A i \in 1..Cardinality(ns) : Nth(ns, i) \in ns
         /\ \A i, h \in 1..Cardinality(ns) : i < h => Nth(ns, i) < Nth(ns, h)
         /\ \A n \in ns : \E i \in 1..Cardinality(ns) : Nth(ns, i) = n
<1> DEFINE c == Cardinality(ns)
           f == [n \in ns |-> Rank(ns, n)]
<1>1. IsFiniteSet(ns) /\ c \in Nat /\ c <= b
  <2>1. IsFiniteSet(1..b) /\ Cardinality(1..b) = b
    BY FS_Interval
  <2> QED
    BY <2>1, FS_Subset, FS_CardinalityType
<1>2. ASSUME NEW n \in ns
      PROVE  Rank(ns, n) \in 1..c
  <2> DEFINE s == {k \in ns : k <= n}
  <2>1. s \in SUBSET ns /\ n \in s
    OBVIOUS
  <2> HIDE DEF s
  <2>2. IsFiniteSet(s) /\ Cardinality(s) <= c /\ Cardinality(s) \in Nat
    BY <1>1, <2>1, FS_Subset, FS_CardinalityType
  <2>3. Cardinality(s) # 0
    BY <2>1, <2>2, FS_EmptySet
  <2>4. Cardinality(s) \in 1..c
    BY <1>1, <2>2, <2>3
  <2> QED
    BY <2>4 DEF Rank, s
<1>3. ASSUME NEW n \in ns, NEW m \in ns, n < m
      PROVE  Rank(ns, n) < Rank(ns, m)
  <2> DEFINE s == {k \in ns : k <= n}
             u == {k \in ns : k <= m}
  <2>0. \A k \in ns : k \in Nat
    OBVIOUS
  <2>1. s \in SUBSET u /\ u \in SUBSET ns /\ m \in u /\ m \notin s
    <3>1. \A k \in ns : k <= n => k <= m
      BY <1>3, <2>0
    <3>2. m <= m /\ ~(m <= n)
      BY <1>3, <2>0
    <3> QED
      BY <3>1, <3>2
  <2> HIDE DEF s, u
  <2>2. IsFiniteSet(u) /\ IsFiniteSet(s) /\ Cardinality(s) <= Cardinality(u)
        /\ (Cardinality(u) = Cardinality(s) => u = s)
    BY <1>1, <2>1, FS_Subset
  <2>3. Cardinality(s) \in Nat /\ Cardinality(u) \in Nat
    BY <2>2, FS_CardinalityType
  <2> QED
    BY <2>1, <2>2, <2>3 DEF Rank, s, u
<1>4. f \in Injection(ns, 1..c)
  <2>1. f \in [ns -> 1..c]
    BY <1>2
  <2>2. \A n, m \in ns : f[n] = f[m] => n = m
    <3> SUFFICES ASSUME NEW n \in ns, NEW m \in ns, f[n] = f[m] PROVE n = m
      OBVIOUS
    <3>1. Rank(ns, n) = Rank(ns, m) /\ Rank(ns, n) \in Nat
      BY <1>2
    <3>2. ~(n < m) /\ ~(m < n)
      BY <1>2, <1>3, <3>1
    <3> QED
      BY <3>2
  <2> QED
    BY <2>1, <2>2 DEF Injection, IsInjective
<1>5. f \in Surjection(ns, 1..c)
  <2>1. IsFiniteSet(1..c) /\ Cardinality(1..c) = c
    BY <1>1, FS_Interval
  <2> HIDE DEF f
  <2> QED
    BY <1>4, <2>1, FS_Injection
<1>6. ASSUME NEW i \in 1..c
      PROVE  Nth(ns, i) \in ns /\ Rank(ns, Nth(ns, i)) = i
  <2>1. \E n \in ns : Rank(ns, n) = i
    BY <1>5 DEF Surjection
  <2> QED
    BY <2>1 DEF Nth, Rank
<1>7. ASSUME NEW i \in 1..c, NEW h \in 1..c, i < h
      PROVE  Nth(ns, i) < Nth(ns, h)
  <2> DEFINE x == Nth(ns, i)
             y == Nth(ns, h)
  <2>1. x \in ns /\ y \in ns /\ Rank(ns, x) = i /\ Rank(ns, y) = h
    BY <1>6
  <2> HIDE DEF x, y
  <2>2. ~(y < x) /\ x # y
    BY <1>1, <1>3, <1>7, <2>1
  <2>3. x < y
    BY <2>1, <2>2
  <2> QED
    BY <2>3 DEF x, y
<1>8. ASSUME NEW n \in ns PROVE \E i \in 1..c : Nth(ns, i) = n
  <2> DEFINE i == Rank(ns, n)
             x == Nth(ns, i)
  <2>1. i \in 1..c
    BY <1>2
  <2>2. x \in ns /\ Rank(ns, x) = i
    BY <1>6, <2>1
  <2> HIDE DEF x
  <2>3. ~(n < x) /\ ~(x < n)
    BY <1>2, <1>3, <2>2
  <2>4. x = n
    BY <2>2, <2>3
  <2> QED
    BY <2>1, <2>4 DEF x
<1> QED
  BY <1>1, <1>6, <1>7, <1>8

\* Taking any set of leaves off leaves a tree of the other windows.
LEMMA PruneTree ==
  ASSUME NEW t, IsTree(t), NEW ws
  PROVE  /\ IsTree(Prune(t, ws))
         /\ TreeWindows(Prune(t, ws)) = TreeWindows(t) \ ws
<1> DEFINE ks == Kept(t, ws)
           T(k) == Turns(ks, k.path)
           e == [k \in ks |-> [i \in 1..Cardinality(T(k)) |-> Nth(T(k), i)]]
<1>1. /\ ks \subseteq t /\ ks \subseteq Leaf
      /\ \A k \in ks : k.path \in Path /\ Len(k.path) \in Nat /\ k \in Leaf
  BY LeafType DEF IsTree, Kept
<1>2. TreeWindows(ks) = TreeWindows(t) \ ws
  BY DEF TreeWindows, Kept
<1> HIDE DEF ks
<1>3. UniqueIds(ks) /\ PrefixFree(ks) /\ Bounded(ks)
  BY <1>1 DEF IsTree, UniqueIds, PrefixFree, Bounded
<1>4. ASSUME NEW k \in ks
      PROVE  /\ T(k) \in SUBSET (1..Len(k.path))
             /\ \A n \in 1..Len(k.path) : n \in T(k) <=> \E j \in ks : Parts(j.path, k.path, n)
  <2>1. \A n \in 1..Len(k.path), j \in ks :
          IsPrefix(Sibling(SubSeq(k.path, 1, n)), j.path) <=> Parts(j.path, k.path, n)
    BY <1>1, SiblingParts
  <2> QED
    BY <2>1 DEF Turns
<1> HIDE DEF T
<1>5. ASSUME NEW k \in ks
      PROVE  /\ Cardinality(T(k)) \in 0..Len(k.path)
             /\ \A i \in 1..Cardinality(T(k)) : Nth(T(k), i) \in T(k)
             /\ \A i, h \in 1..Cardinality(T(k)) : i < h => Nth(T(k), i) < Nth(T(k), h)
             /\ \A n \in T(k) : \E i \in 1..Cardinality(T(k)) : Nth(T(k), i) = n
  <2> DEFINE ns == T(k)
  <2>1. Len(k.path) \in Nat /\ ns \in SUBSET (1..Len(k.path))
    BY <1>1, <1>4
  <2> HIDE DEF ns
  <2>2. /\ Cardinality(ns) \in 0..Len(k.path)
        /\ \A i \in 1..Cardinality(ns) : Nth(ns, i) \in ns
        /\ \A i, h \in 1..Cardinality(ns) : i < h => Nth(ns, i) < Nth(ns, h)
        /\ \A n \in ns : \E i \in 1..Cardinality(ns) : Nth(ns, i) = n
    BY <2>1, NthCounts
  <2> QED
    BY <2>2 DEF ns
<1>6. ASSUME NEW k \in ks
      PROVE  e[k] = [i \in 1..Cardinality(T(k)) |-> Nth(T(k), i)]
  OBVIOUS
<1> HIDE DEF e
<1>7. Lists(ks, e)
  <2> SUFFICES ASSUME NEW k \in ks
               PROVE  /\ e[k] \in Seq(Nat) /\ Len(e[k]) <= Len(k.path)
                      /\ \A i \in DOMAIN e[k] : /\ e[k][i] \in 1..Len(k.path)
                                                /\ \E j \in ks : Parts(j.path, k.path, e[k][i])
                      /\ \A i, h \in DOMAIN e[k] : i < h => e[k][i] < e[k][h]
                      /\ \A j \in ks, m \in 1..Len(k.path) :
                           Parts(j.path, k.path, m) => \E i \in DOMAIN e[k] : e[k][i] = m
    BY DEF Lists
  <2> DEFINE f == e[k]
             c == Cardinality(T(k))
  <2>1. c \in Nat /\ c <= Len(k.path) /\ Len(k.path) \in Nat
    BY <1>1, <1>5
  <2>2. f = [i \in 1..c |-> Nth(T(k), i)]
    BY <1>6
  <2>3. \A i \in 1..c : f[i] = Nth(T(k), i) /\ f[i] \in T(k) /\ f[i] \in 1..Len(k.path)
    BY <1>4, <1>5, <2>2
  <2>4. \A i, h \in 1..c : i < h => f[i] < f[h]
    BY <1>5, <2>3
  <2>5. \A n \in T(k) : \E i \in 1..c : f[i] = n
    BY <1>5, <2>3
  <2> HIDE DEF f, c
  <2>6. f \in Seq(Nat) /\ Len(f) = c /\ DOMAIN f = 1..c
    <3>1. f \in [1..c -> Nat]
      BY <2>1, <2>2, <2>3
    <3> QED
      BY <2>1, <3>1
  <2>7. /\ f \in Seq(Nat) /\ Len(f) <= Len(k.path)
        /\ \A i \in DOMAIN f : f[i] \in 1..Len(k.path)
        /\ \A i \in DOMAIN f : \E j \in ks : Parts(j.path, k.path, f[i])
        /\ \A i, h \in DOMAIN f : i < h => f[i] < f[h]
        /\ \A j \in ks, m \in 1..Len(k.path) :
             Parts(j.path, k.path, m) => \E i \in DOMAIN f : f[i] = m
    <3>1. \A i \in 1..c : \E j \in ks : Parts(j.path, k.path, f[i])
      BY <1>4, <2>3
    <3>2. \A j \in ks, m \in 1..Len(k.path) :
            Parts(j.path, k.path, m) => \E i \in 1..c : f[i] = m
      BY <1>4, <2>5
    <3> QED
      BY <2>1, <2>3, <2>4, <2>6, <3>1, <3>2
  <2> QED
    BY <2>7 DEF f
<1>8. ASSUME NEW k \in ks
      PROVE  [k EXCEPT !.path = Shortened(ks, @)] = Short(k, e)
  <2> DEFINE c == Cardinality(T(k))
             q == Shortened(ks, k.path)
             s == [i \in DOMAIN e[k] |-> k.path[e[k][i]]]
  <2>1. k = [path |-> k.path, window_id |-> k.window_id]
    BY <1>1, LeafType
  <2>2. q = [i \in 1..c |-> k.path[Nth(T(k), i)]]
    BY DEF Shortened, T
  <2>3. s = [i \in 1..c |-> k.path[Nth(T(k), i)]]
    BY <1>6
  <2>4. Short(k, e) = [path |-> s, window_id |-> k.window_id]
    BY DEF Short
  <2> HIDE DEF q, s
  <2>5. [k EXCEPT !.path = q] = [path |-> q, window_id |-> k.window_id]
    BY <2>1
  <2> QED
    BY <2>2, <2>3, <2>4, <2>5 DEF q
<1>9. Prune(t, ws) = Shorts(ks, e)
  BY <1>8 DEF Prune, Shorts, ks
<1> QED
  BY <1>1, <1>2, <1>3, <1>7, <1>9, ShortsAreTree

\* Among leaves none of which lies below another, one is the leftmost.
LEMMA LeftmostExists ==
  ASSUME NEW ks, ks \subseteq Leaf, PrefixFree(ks), Bounded(ks), ks # {}
  PROVE  \E k \in ks : \A j \in ks \ {k} : LeftOf(k, j)
<1> DEFINE Left(k, n) ==
             /\ n <= Len(k.path)
             /\ \A i \in 1..n, j \in ks :
                  i <= Len(j.path) /\ (\A h \in 1..i - 1 : j.path[h] = k.path[h])
                    => j.path[i] = 1 \/ k.path[i] = 0
           T == {n \in Nat : \E k \in ks : Left(k, n)}
<1>1. \A k \in ks : k.path \in Path /\ Len(k.path) \in Nat
                    /\ \A i \in 1..Len(k.path) : k.path[i] \in {0, 1}
  BY LeafType, PathType
<1>2. PICK b \in Nat : \A k \in ks : Len(k.path) <= b
  BY DEF Bounded
<1>3. 0 \in T
  BY <1>1
<1>4. T \subseteq Nat /\ \A n \in T : n <= b
  BY <1>1, <1>2
<1>5. PICK n \in T : \A j \in T : j <= n
  <2> HIDE DEF T
  <2> QED
    BY <1>3, <1>4, GreatestNatural
<1>6. PICK k \in ks : Left(k, n)
  BY <1>5
<1>7. n \in Nat /\ ~ \E j \in ks : Left(j, n + 1)
  <2>1. n \in Nat /\ n + 1 \notin T
    BY <1>5
  <2> QED
    BY <2>1
<1>8. n = Len(k.path)
  <2> SUFFICES ASSUME n # Len(k.path) PROVE FALSE
    OBVIOUS
  <2>1. n + 1 \in 1..Len(k.path) /\ n + 1 <= Len(k.path) /\ k.path[n + 1] \in {0, 1}
    BY <1>1, <1>6, <1>7
  <2>2. PICK i \in 1..n + 1, j \in ks :
          /\ i <= Len(j.path) /\ \A h \in 1..i - 1 : j.path[h] = k.path[h]
          /\ j.path[i] # 1 /\ k.path[i] # 0
    BY <1>7, <2>1
  <2>3. i = n + 1
    <3>1. i \notin 1..n
      BY <1>6, <2>2
    <3> QED
      BY <1>7, <3>1
  <2>4. j.path[n + 1] = 0 /\ n + 1 <= Len(j.path) /\ \A h \in 1..n : j.path[h] = k.path[h]
    <3>1. i \in 1..Len(j.path)
      BY <1>1, <1>7, <2>2, <2>3
    <3>2. n + 1 - 1 = n
      BY <1>7
    <3> QED
      BY <1>1, <2>2, <2>3, <3>1, <3>2
  <2>5. Left(j, n + 1)
    <3> SUFFICES ASSUME NEW x \in 1..n + 1, NEW y \in ks,
                        x <= Len(y.path), \A h \in 1..x - 1 : y.path[h] = j.path[h]
                 PROVE  y.path[x] = 1 \/ j.path[x] = 0
      BY <2>4
    <3>1. CASE x = n + 1
      BY <2>4, <3>1
    <3>2. CASE x # n + 1
      <4>1. x \in 1..n /\ \A h \in 1..x - 1 : h \in 1..n
        BY <1>7, <3>2
      <4>2. \A h \in 1..x - 1 : y.path[h] = k.path[h]
        BY <2>4, <4>1
      <4>3. y.path[x] = 1 \/ k.path[x] = 0
        BY <1>6, <4>1, <4>2
      <4> QED
        BY <2>4, <4>1, <4>3
    <3> QED
      BY <3>1, <3>2
  <2> QED
    BY <1>7, <2>5
<1>9. ASSUME NEW j \in ks \ {k} PROVE LeftOf(k, j)
  <2>1. ~Under(j.path, k.path) /\ ~Under(k.path, j.path)
    BY DEF PrefixFree
  <2>2. PICK m \in 1..Len(k.path) : Parts(j.path, k.path, m)
    BY <1>1, <2>1, NotUnderParts
  <2>3. /\ m <= Len(j.path) /\ m \in 1..Len(j.path) /\ m - 1 \in 0..Len(k.path)
        /\ \A i \in 1..m - 1 : j.path[i] = k.path[i]
        /\ j.path[m] # k.path[m]
    BY <1>1, <2>2 DEF Parts
  <2>4. j.path[m] = 1 /\ k.path[m] = 0
    <3>1. j.path[m] = 1 \/ k.path[m] = 0
      BY <1>6, <1>8, <2>3
    <3> QED
      BY <1>1, <2>3, <3>1
  <2> DEFINE f == SubSeq(k.path, 1, m - 1)
  <2>5. f \in Path /\ Len(f) = m - 1 /\ \A i \in 1..m - 1 : f[i] = k.path[i]
    BY <1>1, <2>3, FrontPath
  <2> HIDE DEF f
  <2>6. Under(j.path, f) /\ f # j.path
    BY <1>1, <2>3, <2>5 DEF Under
  <2>7. IsStrictPrefix(f, j.path)
    BY <1>1, <2>5, <2>6, PrefixIsUnder DEF IsStrictPrefix
  <2> QED
    BY <2>4, <2>7 DEF LeftOf, f
<1> QED
  BY <1>9

\* Some leaf shares as much of a path as any does.
LEMMA NearestExists ==
  ASSUME NEW ks, ks \subseteq Leaf, ks # {}, NEW p \in Path
  PROVE  Nearest(ks, p) # {} /\ Nearest(ks, p) \subseteq ks
<1> DEFINE T == {n \in 0..Len(p) : n = 0 \/ \E k \in ks : IsPrefix(SubSeq(p, 1, n), k.path)}
<1>1. Len(p) \in Nat /\ \A k \in ks : k.path \in Path
  BY LeafType, PathType
<1>2. T \subseteq Nat /\ 0 \in T /\ \A n \in T : n <= Len(p)
  BY <1>1
<1>3. PICK n \in T : \A m \in T : m <= n
  <2> HIDE DEF T
  <2> QED
    BY <1>1, <1>2, GreatestNatural
<1>4. n \in 0..Len(p)
  BY <1>3
<1>5. PICK k \in ks : n = 0 \/ IsPrefix(SubSeq(p, 1, n), k.path)
  BY <1>3
<1>6. ASSUME NEW j \in ks, NEW m \in 1..Len(p), IsPrefix(SubSeq(p, 1, m), j.path)
      PROVE  IsPrefix(SubSeq(p, 1, m), k.path)
  <2>1. m \in T /\ m \in 0..Len(p)
    BY <1>1, <1>6
  <2>2. m <= n /\ n # 0
    BY <1>1, <1>3, <1>4, <2>1
  <2> DEFINE a == SubSeq(p, 1, n)
             c == SubSeq(p, 1, m)
  <2>3. /\ a \in Path /\ Len(a) = n /\ \A i \in 1..n : a[i] = p[i]
        /\ c \in Path /\ Len(c) = m /\ \A i \in 1..m : c[i] = p[i]
    BY <1>4, <2>1, FrontPath
  <2> HIDE DEF a, c
  <2>4. Under(k.path, a)
    BY <1>1, <1>5, <2>2, <2>3, PrefixIsUnder DEF a
  <2>5. Under(k.path, c)
    <3>1. \A i \in 1..m : i \in 1..n
      BY <1>1, <1>4, <2>2
    <3>2. Len(k.path) \in Nat
      BY <1>1, PathType
    <3> QED
      BY <1>1, <1>4, <2>2, <2>3, <2>4, <3>1, <3>2 DEF Under
  <2> QED
    BY <1>1, <2>3, <2>5, PrefixIsUnder DEF c
<1>7. k \in Nearest(ks, p)
  BY <1>6 DEF Nearest
<1> QED
  BY <1>7 DEF Nearest

\* The window that inherits the memory of several removed ones is one that stays.
LEMMA PruneSurvivorInTree ==
  ASSUME NEW t, IsTree(t), NEW l \in t, NEW ws, ~(TreeWindows(t) \subseteq ws)
  PROVE  PruneSurvivor(t, l, ws) \in TreeWindows(t) \ ws
<1> DEFINE ks == Kept(t, ws)
           near == Nearest(ks, l.path)
<1>1. ks # {} /\ ks \subseteq t /\ \A k \in ks : k.window_id \in TreeWindows(t) \ ws
  BY DEF Kept, TreeWindows
<1>2. ks \subseteq Leaf /\ l.path \in Path
  BY <1>1, LeafType DEF IsTree
<1> HIDE DEF ks
<1>3. near # {} /\ near \subseteq ks
  BY <1>1, <1>2, NearestExists
<1> HIDE DEF near
<1>4. near \subseteq Leaf /\ PrefixFree(near) /\ Bounded(near)
  BY <1>1, <1>2, <1>3 DEF IsTree, PrefixFree, Bounded
<1>5. \E k \in near : \A j \in near \ {k} : LeftOf(k, j)
  BY <1>3, <1>4, LeftmostExists
<1> DEFINE s == CHOOSE k \in near : \A j \in near \ {k} : LeftOf(k, j)
<1>6. s \in near
  BY <1>5
<1>7. PruneSurvivor(t, l, ws) = s.window_id
  BY DEF PruneSurvivor, near, ks
<1> HIDE DEF s
<1> QED
  BY <1>1, <1>3, <1>6, <1>7

----------------------------------------------------------------------------
(* The shape of a grid *)

\* A column of groups of G, and a monitor of such columns.
ColumnOver(G) == {col \in [active_row : Nat, groups : Seq(G)] :
                    col.active_row \in 1..Len(col.groups)}

Shaped(G) == {m \in [visible_columns : Nat, active_column : Nat, columns : Seq(ColumnOver(G))] :
                /\ m.visible_columns \in 1..Len(m.columns)
                /\ m.active_column \in 1..Len(m.columns)}

\* A monitor with every index in range, whatever its groups are.
IsShaped(m) == \E G : m \in Shaped(G)

----------------------------------------------------------------------------
(* Sequences *)

\* ReplaceAt keeps the length and the type of a sequence.
LEMMA ReplaceAtType ==
  ASSUME NEW S, NEW s \in Seq(S), NEW i \in 1..Len(s), NEW e \in S
  PROVE  /\ ReplaceAt(s, i, e) \in Seq(S)
         /\ Len(ReplaceAt(s, i, e)) = Len(s)
BY DEF ReplaceAt

\* InsertAt makes a sequence one longer.
LEMMA InsertAtType ==
  ASSUME NEW S, NEW s \in Seq(S), NEW i \in 1..Len(s) + 1, NEW e \in S
  PROVE  /\ InsertAt(s, i, e) \in Seq(S)
         /\ Len(InsertAt(s, i, e)) = Len(s) + 1
<1>1. /\ SubSeq(s, 1, i - 1) \in Seq(S) /\ Len(SubSeq(s, 1, i - 1)) = i - 1
      /\ SubSeq(s, i, Len(s)) \in Seq(S) /\ Len(SubSeq(s, i, Len(s))) = Len(s) - i + 1
  BY SubSeqProperties
<1>2. <<e>> \in Seq(S) /\ Len(<<e>>) = 1
  OBVIOUS
<1>3. /\ SubSeq(s, 1, i - 1) \o <<e>> \in Seq(S)
      /\ Len(SubSeq(s, 1, i - 1) \o <<e>>) = i
  BY <1>1, <1>2, ConcatProperties
<1> DEFINE a == SubSeq(s, 1, i - 1) \o <<e>>
           b == SubSeq(s, i, Len(s))
<1>4. /\ a \in Seq(S) /\ Len(a) = i
      /\ b \in Seq(S) /\ Len(b) = Len(s) - i + 1
  BY <1>1, <1>3
<1>5. InsertAt(s, i, e) = a \o b
  BY DEF InsertAt
<1> HIDE DEF a, b
<1>6. a \o b \in Seq(S) /\ Len(a \o b) = Len(a) + Len(b)
  BY <1>4, ConcatProperties
<1>7. Len(s) \in Nat /\ i \in Nat
  OBVIOUS
<1> QED
  BY <1>4, <1>5, <1>6, <1>7

\* RemoveAt makes a sequence one shorter.
LEMMA RemoveAtType ==
  ASSUME NEW S, NEW s \in Seq(S), NEW i \in 1..Len(s)
  PROVE  /\ RemoveAt(s, i) \in Seq(S)
         /\ Len(RemoveAt(s, i)) = Len(s) - 1
<1>1. /\ SubSeq(s, 1, i - 1) \in Seq(S) /\ Len(SubSeq(s, 1, i - 1)) = i - 1
      /\ SubSeq(s, i + 1, Len(s)) \in Seq(S) /\ Len(SubSeq(s, i + 1, Len(s))) = Len(s) - i
  BY SubSeqProperties
<1> DEFINE a == SubSeq(s, 1, i - 1)
           b == SubSeq(s, i + 1, Len(s))
<1>2. RemoveAt(s, i) = a \o b
  BY DEF RemoveAt
<1>3. /\ a \in Seq(S) /\ Len(a) = i - 1
      /\ b \in Seq(S) /\ Len(b) = Len(s) - i
  BY <1>1
<1> HIDE DEF a, b
<1>4. a \o b \in Seq(S) /\ Len(a \o b) = Len(a) + Len(b)
  BY <1>3, ConcatProperties
<1>5. Len(s) \in Nat /\ i \in Nat
  OBVIOUS
<1> QED
  BY <1>2, <1>3, <1>4, <1>5

\* A sequence over a set is one over every larger set.
LEMMA SeqWiden ==
  ASSUME NEW S, NEW T, S \subseteq T, NEW s \in Seq(S)
  PROVE  s \in Seq(T)
OBVIOUS

\* Columns and monitors over a set of groups are ones over every larger set.
LEMMA ShapedWiden ==
  ASSUME NEW G, NEW H, G \subseteq H
  PROVE  /\ ColumnOver(G) \subseteq ColumnOver(H)
         /\ Shaped(G) \subseteq Shaped(H)
<1>1. ColumnOver(G) \subseteq ColumnOver(H)
  BY SeqWiden DEF ColumnOver
<1>2. Shaped(G) \subseteq Shaped(H)
  BY <1>1, SeqWiden DEF Shaped
<1> QED
  BY <1>1, <1>2

\* A function on 1..n is a sequence.
LEMMA FunctionIsSeq ==
  ASSUME NEW S, NEW n \in Nat, NEW f \in [1..n -> S]
  PROVE  f \in Seq(S) /\ Len(f) = n
OBVIOUS

----------------------------------------------------------------------------
(* One slot at a time *)

\* A slot names a column and a group in it.
LEMMA SlotIndices ==
  ASSUME NEW G, NEW m \in Shaped(G), NEW s \in Slots(m)
  PROVE  /\ s = <<s[1], s[2]>>
         /\ s[1] \in 1..Len(m.columns)
         /\ s[2] \in 1..Len(m.columns[s[1]].groups)
BY DEF Slots

\* The indices of a column and of a group in it name a slot.
LEMMA IndicesSlot ==
  ASSUME NEW m, NEW c \in 1..Len(m.columns), NEW r \in 1..Len(m.columns[c].groups)
  PROVE  <<c, r>> \in Slots(m)
BY DEF Slots

\* Monitors with the same number of columns and of groups have the same slots.
LEMMA SameSlots ==
  ASSUME NEW m, NEW k, Len(m.columns) = Len(k.columns),
         \A c \in 1..Len(m.columns) : Len(m.columns[c].groups) = Len(k.columns[c].groups)
  PROVE  Slots(m) = Slots(k)
<1>1. ASSUME NEW s \in Slots(m)
      PROVE  s \in Slots(k)
  <2>1. PICK c \in 1..Len(m.columns) : \E r \in 1..Len(m.columns[c].groups) : s = <<c, r>>
    BY <1>1 DEF Slots
  <2> QED BY <2>1, IndicesSlot
<1>2. ASSUME NEW s \in Slots(k)
      PROVE  s \in Slots(m)
  <2>1. PICK c \in 1..Len(k.columns) : \E r \in 1..Len(k.columns[c].groups) : s = <<c, r>>
    BY <1>2 DEF Slots
  <2> QED BY <2>1, IndicesSlot
<1> QED
  BY <1>1, <1>2

\* The cursor is on a slot, and so is the active row of every column.
LEMMA ActiveSlotIsSlot ==
  ASSUME NEW G, NEW m \in Shaped(G)
  PROVE  /\ ActiveSlot(m) \in Slots(m)
         /\ \A c \in 1..Len(m.columns) : <<c, m.columns[c].active_row>> \in Slots(m)
<1>1. \A c \in 1..Len(m.columns) : m.columns[c] \in ColumnOver(G)
  BY ElementOfSeq DEF Shaped
<1>2. \A c \in 1..Len(m.columns) : <<c, m.columns[c].active_row>> \in Slots(m)
  BY <1>1, IndicesSlot DEF ColumnOver
<1>3. m.active_column \in 1..Len(m.columns)
  BY DEF Shaped
<1> QED
  BY <1>2, <1>3 DEF ActiveSlot

\* The group of a slot is one of the groups.
LEMMA GroupAtType ==
  ASSUME NEW G, NEW m \in Shaped(G), NEW s \in Slots(m)
  PROVE  GroupAt(m, s) \in G
<1>1. m.columns[s[1]] \in ColumnOver(G)
  BY SlotIndices, ElementOfSeq DEF Shaped
<1> QED
  BY <1>1, SlotIndices, ElementOfSeq DEF GroupAt, ColumnOver

\* Replacing a column by another keeps the monitor in shape.
LEMMA SetColumnShape ==
  ASSUME NEW G, NEW m \in Shaped(G), NEW c \in 1..Len(m.columns), NEW col \in ColumnOver(G)
  PROVE  /\ SetColumn(m, c, col) \in Shaped(G)
         /\ Len(SetColumn(m, c, col).columns) = Len(m.columns)
         /\ SetColumn(m, c, col).visible_columns = m.visible_columns
         /\ SetColumn(m, c, col).active_column = m.active_column
         /\ \A k \in 1..Len(m.columns) :
              SetColumn(m, c, col).columns[k] = IF k = c THEN col ELSE m.columns[k]
<1>1. m.columns \in Seq(ColumnOver(G))
  BY DEF Shaped
<1>2. /\ ReplaceAt(m.columns, c, col) \in Seq(ColumnOver(G))
      /\ Len(ReplaceAt(m.columns, c, col)) = Len(m.columns)
      /\ \A k \in 1..Len(m.columns) :
           ReplaceAt(m.columns, c, col)[k] = IF k = c THEN col ELSE m.columns[k]
  BY <1>1, ExceptSeq DEF ReplaceAt
<1> QED
  BY <1>2 DEF SetColumn, Shaped

\* Replacing a group keeps the column in shape.
LEMMA SetGroupShape ==
  ASSUME NEW G, NEW col \in ColumnOver(G), NEW r \in 1..Len(col.groups), NEW g \in G
  PROVE  /\ SetGroup(col, r, g) \in ColumnOver(G)
         /\ Len(SetGroup(col, r, g).groups) = Len(col.groups)
         /\ SetGroup(col, r, g).active_row = col.active_row
<1>1. /\ col \in [active_row : Nat, groups : Seq(G)]
      /\ col.active_row \in 1..Len(col.groups)
  BY DEF ColumnOver
<1>2. /\ ReplaceAt(col.groups, r, g) \in Seq(G)
      /\ Len(ReplaceAt(col.groups, r, g)) = Len(col.groups)
  BY <1>1, ReplaceAtType
<1>3. /\ SetGroup(col, r, g) \in [active_row : Nat, groups : Seq(G)]
      /\ SetGroup(col, r, g).active_row = col.active_row
      /\ SetGroup(col, r, g).groups = ReplaceAt(col.groups, r, g)
  BY <1>1, <1>2 DEF SetGroup
<1> QED
  BY <1>1, <1>2, <1>3 DEF ColumnOver

\* Replacing the group of a slot keeps the monitor in shape, and its slots.
LEMMA SetGroupAtShape ==
  ASSUME NEW G, NEW m \in Shaped(G), NEW s \in Slots(m), NEW g \in G
  PROVE  /\ SetGroupAt(m, s, g) \in Shaped(G)
         /\ Slots(SetGroupAt(m, s, g)) = Slots(m)
         /\ Len(SetGroupAt(m, s, g).columns) = Len(m.columns)
         /\ SetGroupAt(m, s, g).visible_columns = m.visible_columns
         /\ SetGroupAt(m, s, g).active_column = m.active_column
         /\ \A c \in 1..Len(m.columns) :
              SetGroupAt(m, s, g).columns[c].active_row = m.columns[c].active_row
<1> DEFINE col == SetGroup(m.columns[s[1]], s[2], g)
<1>1. s[1] \in 1..Len(m.columns) /\ s[2] \in 1..Len(m.columns[s[1]].groups)
  BY SlotIndices
<1>2. m.columns[s[1]] \in ColumnOver(G)
  BY <1>1, ElementOfSeq DEF Shaped
<1>3. /\ col \in ColumnOver(G)
      /\ Len(col.groups) = Len(m.columns[s[1]].groups)
      /\ col.active_row = m.columns[s[1]].active_row
  BY <1>1, <1>2, SetGroupShape
<1>4. SetGroupAt(m, s, g) = SetColumn(m, s[1], col)
  BY DEF SetGroupAt
<1> HIDE DEF col
<1>5. \A c \in 1..Len(m.columns) :
        /\ Len(SetGroupAt(m, s, g).columns[c].groups) = Len(m.columns[c].groups)
        /\ SetGroupAt(m, s, g).columns[c].active_row = m.columns[c].active_row
  BY <1>1, <1>3, <1>4, SetColumnShape
<1>6. Slots(SetGroupAt(m, s, g)) = Slots(m)
  BY <1>1, <1>3, <1>4, <1>5, SetColumnShape, SameSlots
<1> QED
  BY <1>1, <1>3, <1>4, <1>5, <1>6, SetColumnShape

\* The same with any group, and no mention of G.
LEMMA SetGroupAtIsShaped ==
  ASSUME NEW m, IsShaped(m), NEW s \in Slots(m), NEW g
  PROVE  /\ IsShaped(SetGroupAt(m, s, g))
         /\ Slots(SetGroupAt(m, s, g)) = Slots(m)
         /\ Len(SetGroupAt(m, s, g).columns) = Len(m.columns)
         /\ SetGroupAt(m, s, g).visible_columns = m.visible_columns
<1>1. PICK G : m \in Shaped(G)
  BY DEF IsShaped
<1> DEFINE H == G \cup {g}
<1>2. m \in Shaped(H) /\ g \in H
  BY <1>1, ShapedWiden
<1> HIDE DEF H
<1>3. /\ SetGroupAt(m, s, g) \in Shaped(H)
      /\ Slots(SetGroupAt(m, s, g)) = Slots(m)
      /\ Len(SetGroupAt(m, s, g).columns) = Len(m.columns)
      /\ SetGroupAt(m, s, g).visible_columns = m.visible_columns
  BY <1>2, SetGroupAtShape
<1> QED
  BY <1>3 DEF IsShaped

\* A shaped monitor has its cursor on a slot and a band of its columns.
LEMMA ShapeFacts ==
  ASSUME NEW m, IsShaped(m)
  PROVE  /\ ActiveSlot(m) \in Slots(m)
         /\ \A c \in 1..Len(m.columns) : <<c, m.columns[c].active_row>> \in Slots(m)
         /\ Len(m.columns) \in Nat \ {0}
         /\ m.visible_columns \in 1..Len(m.columns)
         /\ m.active_column \in 1..Len(m.columns)
         /\ \A s \in Slots(m) : /\ s = <<s[1], s[2]>>
                                /\ s[1] \in 1..Len(m.columns)
                                /\ s[2] \in 1..Len(m.columns[s[1]].groups)
<1>1. PICK G : m \in Shaped(G)
  BY DEF IsShaped
<1>2. /\ m.visible_columns \in 1..Len(m.columns)
      /\ m.active_column \in 1..Len(m.columns)
      /\ m.columns \in Seq(ColumnOver(G))
  BY <1>1 DEF Shaped
<1>3. Len(m.columns) \in Nat
  BY <1>2
<1> QED
  BY <1>1, <1>2, <1>3, ActiveSlotIsSlot, SlotIndices

\* The slot of a window the monitor holds.
LEMMA LocateSlot ==
  ASSUME NEW m, NEW w \in MonitorWindows(m)
  PROVE  Locate(m, w) \in Slots(m)
<1>1. \E s \in Slots(m) : w \in GroupWindows(GroupAt(m, s))
  BY DEF MonitorWindows
<1> QED
  BY <1>1 DEF Locate

----------------------------------------------------------------------------
(* The cursor *)

\* The remainders of the wrapping motions.
LEMMA ModRange ==
  ASSUME NEW a \in Int, NEW n \in Nat \ {0}
  PROVE  a % n \in 0..n - 1
OBVIOUS

\* A column can be scrolled to any of its rows.
LEMMA ScrolledShape ==
  ASSUME NEW G, NEW m \in Shaped(G), NEW s \in Slots(m)
  PROVE  LET k == SetColumn(m, s[1], [m.columns[s[1]] EXCEPT !.active_row = s[2]])
         IN  /\ k \in Shaped(G)
             /\ Slots(k) = Slots(m)
             /\ Len(k.columns) = Len(m.columns)
             /\ k.visible_columns = m.visible_columns
<1> DEFINE col == [m.columns[s[1]] EXCEPT !.active_row = s[2]]
<1>1. s[1] \in 1..Len(m.columns) /\ s[2] \in 1..Len(m.columns[s[1]].groups)
  BY SlotIndices
<1>2. m.columns[s[1]] \in ColumnOver(G)
  BY <1>1, ElementOfSeq DEF Shaped
<1>3. m.columns[s[1]] \in [active_row : Nat, groups : Seq(G)]
  BY <1>2 DEF ColumnOver
<1>4. col \in ColumnOver(G) /\ col.groups = m.columns[s[1]].groups
  BY <1>1, <1>3 DEF ColumnOver
<1> HIDE DEF col
<1> DEFINE k == SetColumn(m, s[1], col)
<1>5. /\ k \in Shaped(G)
      /\ Len(k.columns) = Len(m.columns)
      /\ k.visible_columns = m.visible_columns
      /\ \A c \in 1..Len(m.columns) : k.columns[c] = IF c = s[1] THEN col ELSE m.columns[c]
  BY <1>1, <1>4, SetColumnShape
<1>6. Slots(k) = Slots(m)
  BY <1>4, <1>5, SameSlots
<1> QED
  BY <1>5, <1>6 DEF k, col

\* The cursor can be moved to any column.
LEMMA SetActiveColumnShape ==
  ASSUME NEW G, NEW m \in Shaped(G), NEW c \in 1..Len(m.columns)
  PROVE  /\ [m EXCEPT !.active_column = c] \in Shaped(G)
         /\ Slots([m EXCEPT !.active_column = c]) = Slots(m)
         /\ [m EXCEPT !.active_column = c].columns = m.columns
<1> DEFINE k == [m EXCEPT !.active_column = c]
<1>1. /\ m \in [visible_columns : Nat, active_column : Nat, columns : Seq(ColumnOver(G))]
      /\ m.visible_columns \in 1..Len(m.columns)
  BY DEF Shaped
<1>2. /\ k \in [visible_columns : Nat, active_column : Nat, columns : Seq(ColumnOver(G))]
      /\ k.visible_columns = m.visible_columns
      /\ k.active_column = c
      /\ k.columns = m.columns
  BY <1>1
<1> HIDE DEF k
<1>3. k \in Shaped(G) /\ Slots(k) = Slots(m)
  BY <1>1, <1>2 DEF Shaped, Slots
<1> QED
  BY <1>2, <1>3 DEF k

\* The cursor can be set to any slot.
LEMMA SetActiveSlotShape ==
  ASSUME NEW m, IsShaped(m), NEW s \in Slots(m)
  PROVE  /\ IsShaped(SetActiveSlot(m, s))
         /\ Slots(SetActiveSlot(m, s)) = Slots(m)
<1>1. PICK G : m \in Shaped(G)
  BY DEF IsShaped
<1> DEFINE k == SetColumn(m, s[1], [m.columns[s[1]] EXCEPT !.active_row = s[2]])
<1>2. /\ k \in Shaped(G)
      /\ Slots(k) = Slots(m)
      /\ Len(k.columns) = Len(m.columns)
  BY <1>1, ScrolledShape
<1>3. SetActiveSlot(m, s) = [k EXCEPT !.active_column = s[1]]
  BY DEF SetActiveSlot
<1> HIDE DEF k
<1>4. s[1] \in 1..Len(k.columns)
  BY <1>1, <1>2, SlotIndices
<1> QED
  BY <1>2, <1>3, <1>4, SetActiveColumnShape DEF IsShaped

\* The band stays a nonempty prefix and the cursor in it.
LEMMA IncrementVisibleColumnsShape ==
  ASSUME NEW G, NEW m \in [visible_columns : Nat, active_column : Nat, columns : Seq(ColumnOver(G))],
         m.columns # <<>>, m.active_column >= 1, NEW change \in Int
  PROVE  IncrementVisibleColumns(m, change) \in Shaped(G)
<1> DEFINE visible == Max2(1, Min2(m.visible_columns + change, Max2(Len(m.columns), 1)))
<1>1. Len(m.columns) \in Nat \ {0}
  BY EmptySeq
<1>2. visible \in 1..Len(m.columns)
  BY <1>1 DEF Min2, Max2
<1> HIDE DEF visible
<1> DEFINE c == Min2(m.active_column, visible)
<1>3. c \in 1..Len(m.columns)
  BY <1>1, <1>2 DEF Min2
<1> DEFINE k == [m EXCEPT !.visible_columns = visible]
<1>4. IncrementVisibleColumns(m, change) = [k EXCEPT !.active_column = c]
  BY DEF IncrementVisibleColumns, visible
<1> HIDE DEF c
<1>5. /\ k \in [visible_columns : Nat, active_column : Nat, columns : Seq(ColumnOver(G))]
      /\ k.visible_columns = visible
      /\ k.columns = m.columns
  BY <1>1, <1>2
<1> HIDE DEF k
<1>6. /\ [k EXCEPT !.active_column = c] \in
           [visible_columns : Nat, active_column : Nat, columns : Seq(ColumnOver(G))]
      /\ [k EXCEPT !.active_column = c].visible_columns = visible
      /\ [k EXCEPT !.active_column = c].active_column = c
      /\ [k EXCEPT !.active_column = c].columns = m.columns
  BY <1>1, <1>3, <1>5
<1> QED
  BY <1>2, <1>3, <1>4, <1>6 DEF Shaped

\* The cursor wraps inside the band.
LEMMA MoveActiveColumnShape ==
  ASSUME NEW m, IsShaped(m), NEW motion \in Int
  PROVE  IsShaped(MoveActiveColumn(m, motion))
<1>1. PICK G : m \in Shaped(G)
  BY DEF IsShaped
<1> DEFINE n == m.visible_columns
           a == m.active_column - 1 + motion
           c == (a % n) + 1
<1>2. /\ m \in [visible_columns : Nat, active_column : Nat, columns : Seq(ColumnOver(G))]
      /\ n \in 1..Len(m.columns)
      /\ m.active_column \in Int /\ Len(m.columns) \in Nat
  BY <1>1 DEF Shaped
<1>3. a \in Int /\ n \in Nat \ {0}
  BY <1>2
<1>4. MoveActiveColumn(m, motion) = [m EXCEPT !.active_column = c]
  BY DEF MoveActiveColumn
<1> HIDE DEF a, n
<1>5. a % n \in 0..n - 1
  BY <1>3, ModRange
<1>6. c \in 1..Len(m.columns)
  BY <1>2, <1>3, <1>5
<1> HIDE DEF c
<1>7. MoveActiveColumn(m, motion) \in Shaped(G)
  BY <1>2, <1>4, <1>6 DEF Shaped, n
<1> QED
  BY <1>7 DEF IsShaped

\* A column scrolls to one of its rows.
LEMMA ScrollColumnShape ==
  ASSUME NEW G, NEW col \in [active_row : Nat, groups : Seq(G)], col.groups # <<>>,
         NEW motion \in Int
  PROVE  /\ ScrollColumn(col, motion) \in ColumnOver(G)
         /\ ScrollColumn(col, motion).groups = col.groups
<1> DEFINE n == Len(col.groups)
           a == col.active_row - 1 + motion
           r == (a % n) + 1
<1>1. n \in Nat \ {0} /\ a \in Int
  BY EmptySeq
<1>2. ScrollColumn(col, motion) = [col EXCEPT !.active_row = r]
  BY DEF ScrollColumn
<1> HIDE DEF a, n
<1>3. a % n \in 0..n - 1
  BY <1>1, ModRange
<1>4. r \in 1..n
  BY <1>1, <1>3
<1> HIDE DEF r
<1>5. /\ ScrollColumn(col, motion) \in [active_row : Nat, groups : Seq(G)]
      /\ ScrollColumn(col, motion).active_row = r
      /\ ScrollColumn(col, motion).groups = col.groups
  BY <1>1, <1>2, <1>4
<1> QED
  BY <1>4, <1>5 DEF ColumnOver, n

\* So the active column can be scrolled.
LEMMA ScrollActiveColumnShape ==
  ASSUME NEW m, IsShaped(m), NEW motion \in Int
  PROVE  IsShaped(ScrollActiveColumn(m, motion))
<1>1. PICK G : m \in Shaped(G)
  BY DEF IsShaped
<1>2. m.active_column \in 1..Len(m.columns) /\ m.columns \in Seq(ColumnOver(G))
  BY <1>1 DEF Shaped
<1>3. m.columns[m.active_column] \in ColumnOver(G)
  BY <1>2, ElementOfSeq
<1>4. /\ m.columns[m.active_column] \in [active_row : Nat, groups : Seq(G)]
      /\ m.columns[m.active_column].groups # <<>>
  BY <1>3 DEF ColumnOver
<1>5. ScrollColumn(m.columns[m.active_column], motion) \in ColumnOver(G)
  BY <1>4, ScrollColumnShape
<1> QED
  BY <1>1, <1>2, <1>5, SetColumnShape DEF ScrollActiveColumn, IsShaped

\* The cursor moves to a window.
LEMMA FocusWindowShape ==
  ASSUME NEW m, IsShaped(m), NEW w
  PROVE  IsShaped(FocusWindow(m, w))
<1>1. CASE w \notin MonitorWindows(m)
  BY <1>1 DEF FocusWindow
<1>2. CASE w \in MonitorWindows(m)
  <2> DEFINE s == Locate(m, w)
  <2>1. s \in Slots(m)
    BY <1>2, LocateSlot
  <2>2. IsShaped(SetActiveSlot(m, s)) /\ s \in Slots(SetActiveSlot(m, s))
    BY <2>1, SetActiveSlotShape
  <2>3. FocusWindow(m, w) = SetGroupAt(SetActiveSlot(m, s), s,
                              [GroupAt(m, s) EXCEPT !.active_window = w])
    BY <1>2 DEF FocusWindow
  <2> HIDE DEF s
  <2> QED
    BY <2>2, <2>3, SetGroupAtIsShaped
<1> QED
  BY <1>1, <1>2

----------------------------------------------------------------------------
(* Windows *)

\* A monitor starts out with a column for each place in the band.
LEMMA NewMonitorShape ==
  ASSUME NEW v \in Nat \ {0}
  PROVE  IsShaped(NewMonitor(v))
<1> DEFINE G == {EmptyGroup}
           columns == [c \in 1..v |-> NewColumn]
<1>1. NewColumn \in ColumnOver(G)
  <2>1. <<EmptyGroup>> \in Seq(G) /\ Len(<<EmptyGroup>>) = 1
    OBVIOUS
  <2> QED
    BY <2>1 DEF NewColumn, ColumnOver
<1> HIDE DEF G
<1>2. columns \in Seq(ColumnOver(G)) /\ Len(columns) = v
  BY <1>1, FunctionIsSeq
<1>3. NewMonitor(v) = [visible_columns |-> v, active_column |-> 1, columns |-> columns]
  BY DEF NewMonitor
<1> HIDE DEF columns
<1>4. NewMonitor(v) \in Shaped(G)
  BY <1>2, <1>3 DEF Shaped
<1> QED
  BY <1>4 DEF IsShaped

\* A window leaves.
LEMMA RemoveWindowShape ==
  ASSUME NEW m, IsShaped(m), NEW w
  PROVE  /\ IsShaped(RemoveWindow(m, w))
         /\ Slots(RemoveWindow(m, w)) = Slots(m)
         /\ Len(RemoveWindow(m, w).columns) = Len(m.columns)
<1>1. CASE w \notin MonitorWindows(m)
  BY <1>1 DEF RemoveWindow
<1>2. CASE w \in MonitorWindows(m)
  <2> DEFINE s == Locate(m, w)
  <2>1. s \in Slots(m)
    BY <1>2, LocateSlot
  <2>2. RemoveWindow(m, w) = SetGroupAt(m, s, GroupRemove(GroupAt(m, s), w))
    BY <1>2 DEF RemoveWindow
  <2> HIDE DEF s
  <2> QED
    BY <2>1, <2>2, SetGroupAtIsShaped
<1> QED
  BY <1>1, <1>2

\* Any number of windows leave.
LEMMA PruneWindowsShape ==
  ASSUME NEW m, IsShaped(m), NEW ws
  PROVE  IsShaped(PruneWindows(m, ws))
<1>1. PICK G : m \in Shaped(G)
  BY DEF IsShaped
<1> DEFINE H == {GroupPrune(g, ws) : g \in G}
           Pruned(gs) == [r \in 1..Len(gs) |-> GroupPrune(gs[r], ws)]
           Col(c) == [m.columns[c] EXCEPT !.groups = Pruned(@)]
           columns == [c \in 1..Len(m.columns) |-> Col(c)]
<1>2. /\ m \in [visible_columns : Nat, active_column : Nat, columns : Seq(ColumnOver(G))]
      /\ m.visible_columns \in 1..Len(m.columns)
      /\ m.active_column \in 1..Len(m.columns)
  BY <1>1 DEF Shaped
<1>3. ASSUME NEW gs \in Seq(G)
      PROVE  Pruned(gs) \in Seq(H) /\ Len(Pruned(gs)) = Len(gs)
  <2>1. \A r \in 1..Len(gs) : GroupPrune(gs[r], ws) \in H
    BY <1>3, ElementOfSeq
  <2>2. Pruned(gs) \in [1..Len(gs) -> H] /\ Len(gs) \in Nat
    BY <1>3, <2>1
  <2> HIDE DEF Pruned, H
  <2> QED
    BY <2>2, FunctionIsSeq
<1> HIDE DEF Pruned, H
<1>4. ASSUME NEW c \in 1..Len(m.columns)
      PROVE  Col(c) \in ColumnOver(H)
  <2>1. m.columns[c] \in ColumnOver(G)
    BY <1>2, <1>4, ElementOfSeq
  <2>2. /\ m.columns[c] \in [active_row : Nat, groups : Seq(G)]
        /\ m.columns[c].active_row \in 1..Len(m.columns[c].groups)
    BY <2>1 DEF ColumnOver
  <2>3. /\ Pruned(m.columns[c].groups) \in Seq(H)
        /\ Len(Pruned(m.columns[c].groups)) = Len(m.columns[c].groups)
    BY <2>2, <1>3
  <2>4. /\ Col(c) \in [active_row : Nat, groups : Seq(H)]
        /\ Col(c).active_row = m.columns[c].active_row
        /\ Col(c).groups = Pruned(m.columns[c].groups)
    BY <2>2, <2>3
  <2> HIDE DEF Col
  <2> QED
    BY <2>2, <2>3, <2>4 DEF ColumnOver
<1>5. PruneWindows(m, ws) = [m EXCEPT !.columns = columns]
  BY DEF PruneWindows, Pruned
<1> HIDE DEF Col
<1>6. columns \in [1..Len(m.columns) -> ColumnOver(H)] /\ Len(m.columns) \in Nat
  BY <1>2, <1>4
<1> HIDE DEF columns
<1>7. columns \in Seq(ColumnOver(H)) /\ Len(columns) = Len(m.columns)
  BY <1>6, FunctionIsSeq
<1> DEFINE k == [m EXCEPT !.columns = columns]
<1>8. /\ k \in [visible_columns : Nat, active_column : Nat, columns : Seq(ColumnOver(H))]
      /\ k.visible_columns = m.visible_columns
      /\ k.active_column = m.active_column
      /\ k.columns = columns
  BY <1>2, <1>7
<1> HIDE DEF k
<1>9. k \in Shaped(H)
  BY <1>2, <1>7, <1>8 DEF Shaped
<1> QED
  BY <1>5, <1>9 DEF IsShaped, k

\* Windows come in, at the focused window's slot or at the cursor.
LEMMA AddWindowsShape ==
  ASSUME NEW m, IsShaped(m), NEW ws, NEW focused
  PROVE  IsShaped(AddWindows(m, ws, focused))
<1> DEFINE s == IF focused \in MonitorWindows(m) THEN Locate(m, focused) ELSE ActiveSlot(m)
<1>1. s \in Slots(m)
  BY LocateSlot, ShapeFacts
<1>2. AddWindows(m, ws, focused) = SetGroupAt(m, s, GroupAddAll(GroupAt(m, s), ws, focused))
  BY DEF AddWindows
<1> HIDE DEF s
<1> QED
  BY <1>1, <1>2, SetGroupAtIsShaped

\* A window moves to another group.
LEMMA MoveWindowToGroupShape ==
  ASSUME NEW m, IsShaped(m), NEW w, NEW s \in Slots(m)
  PROVE  IsShaped(MoveWindowToGroup(m, w, s))
<1> DEFINE d == SetActiveSlot(RemoveWindow(m, w), s)
<1>1. IsShaped(RemoveWindow(m, w)) /\ s \in Slots(RemoveWindow(m, w))
  BY RemoveWindowShape
<1>2. IsShaped(d) /\ s \in Slots(d)
  BY <1>1, SetActiveSlotShape
<1>3. MoveWindowToGroup(m, w, s) = SetGroupAt(d, s, GroupAdd(GroupAt(d, s), w, NoWindow))
  BY DEF MoveWindowToGroup
<1> HIDE DEF d
<1> QED
  BY <1>2, <1>3, SetGroupAtIsShaped

----------------------------------------------------------------------------
(* Columns and groups *)

\* The band can be widened and narrowed.
LEMMA ChangeBandShape ==
  ASSUME NEW m, IsShaped(m), NEW change \in Int
  PROVE  IsShaped(IncrementVisibleColumns(m, change))
<1>1. PICK G : m \in Shaped(G)
  BY DEF IsShaped
<1>2. /\ m \in [visible_columns : Nat, active_column : Nat, columns : Seq(ColumnOver(G))]
      /\ m.columns # <<>> /\ m.active_column >= 1
  BY <1>1 DEF Shaped
<1> QED
  BY <1>2, IncrementVisibleColumnsShape DEF IsShaped

\* An empty column comes in.
LEMMA GrowColumnsShape ==
  ASSUME NEW m, IsShaped(m), NEW index \in Nat \ {0}
  PROVE  /\ IsShaped(GrowColumns(m, index))
         /\ Len(GrowColumns(m, index).columns) = Len(m.columns) + 1
<1>1. PICK F : m \in Shaped(F)
  BY DEF IsShaped
<1> DEFINE G == F \cup {EmptyGroup}
<1>2. m \in Shaped(G) /\ EmptyGroup \in G
  BY <1>1, ShapedWiden
<1> HIDE DEF G
<1>3. NewColumn \in ColumnOver(G)
  <2>1. <<EmptyGroup>> \in Seq(G) /\ Len(<<EmptyGroup>>) = 1
    BY <1>2
  <2> QED
    BY <2>1 DEF NewColumn, ColumnOver
<1>4. /\ m \in [visible_columns : Nat, active_column : Nat, columns : Seq(ColumnOver(G))]
      /\ m.visible_columns \in 1..Len(m.columns)
      /\ m.active_column \in 1..Len(m.columns)
      /\ Len(m.columns) \in Nat
  BY <1>2 DEF Shaped
<1> DEFINE at == Min2(index, Len(m.columns) + 1)
           columns == InsertAt(m.columns, at, NewColumn)
<1>5. at \in 1..Len(m.columns) + 1
  BY <1>4 DEF Min2
<1>6. GrowColumns(m, index) = [m EXCEPT !.columns = columns]
  BY DEF GrowColumns
<1> HIDE DEF at
<1>7. columns \in Seq(ColumnOver(G)) /\ Len(columns) = Len(m.columns) + 1
  BY <1>3, <1>4, <1>5, InsertAtType
<1> HIDE DEF columns
<1> DEFINE k == [m EXCEPT !.columns = columns]
<1>8. /\ k \in [visible_columns : Nat, active_column : Nat, columns : Seq(ColumnOver(G))]
      /\ k.visible_columns = m.visible_columns
      /\ k.active_column = m.active_column
      /\ k.columns = columns
  BY <1>4, <1>7
<1> HIDE DEF k
<1>9. k \in Shaped(G)
  BY <1>4, <1>7, <1>8 DEF Shaped
<1> QED
  BY <1>6, <1>7, <1>8, <1>9 DEF IsShaped, k

\* A window moves to a column of its own.
LEMMA MoveWindowToNewColumnShape ==
  ASSUME NEW m, IsShaped(m), NEW w, NEW to_left \in BOOLEAN
  PROVE  IsShaped(MoveWindowToNewColumn(m, w, to_left))
<1> DEFINE d     == RemoveWindow(m, w)
           index == IF to_left THEN m.active_column ELSE m.active_column + 1
           grown == GrowColumns(d, index)
           at    == Min2(index, Len(grown.columns))
           moved == SetGroupAt(grown, <<at, 1>>, GroupAdd(EmptyGroup, w, NoWindow))
<1>1. MoveWindowToNewColumn(m, w, to_left) =
        IncrementVisibleColumns([moved EXCEPT !.active_column = at], 1)
  BY DEF MoveWindowToNewColumn
<1>2. index \in Nat \ {0}
  BY ShapeFacts
<1>3. IsShaped(d)
  BY RemoveWindowShape
<1> HIDE DEF d, index
<1>4. IsShaped(grown)
  BY <1>2, <1>3, GrowColumnsShape
<1> HIDE DEF grown
<1>5. at \in 1..Len(grown.columns)
  BY <1>2, <1>4, ShapeFacts DEF Min2
<1> HIDE DEF at
<1>6. <<at, 1>> \in Slots(grown)
  <2> DEFINE s == <<at, grown.columns[at].active_row>>
  <2>1. s \in Slots(grown)
    BY <1>4, <1>5, ShapeFacts
  <2>2. s[2] \in 1..Len(grown.columns[s[1]].groups)
    BY <1>4, <2>1, ShapeFacts
  <2>3. grown.columns[at].active_row \in 1..Len(grown.columns[at].groups)
    BY <2>2
  <2>4. PICK F : grown \in Shaped(F)
    BY <1>4 DEF IsShaped
  <2>5. grown.columns[at] \in ColumnOver(F)
    BY <1>5, <2>4, ElementOfSeq DEF Shaped
  <2>6. 1 \in 1..Len(grown.columns[at].groups)
    BY <2>3, <2>5 DEF ColumnOver
  <2> QED
    BY <1>5, <2>6, IndicesSlot
<1>7. IsShaped(moved) /\ Len(moved.columns) = Len(grown.columns)
  BY <1>4, <1>6, SetGroupAtIsShaped
<1> HIDE DEF moved
<1>8. IsShaped([moved EXCEPT !.active_column = at])
  BY <1>5, <1>7, SetActiveColumnShape DEF IsShaped
<1> QED
  BY <1>1, <1>8, ChangeBandShape

\* A group comes in below the active one.
LEMMA GrowActiveColumnShape ==
  ASSUME NEW m, IsShaped(m)
  PROVE  IsShaped(GrowActiveColumn(m))
<1>1. PICK F : m \in Shaped(F)
  BY DEF IsShaped
<1> DEFINE G == F \cup {EmptyGroup}
<1>2. m \in Shaped(G) /\ EmptyGroup \in G
  BY <1>1, ShapedWiden
<1> HIDE DEF G
<1> DEFINE c == m.active_column
           col == m.columns[c]
           groups == InsertAt(col.groups, col.active_row + 1, EmptyGroup)
           grown == [col EXCEPT !.groups = groups]
<1>3. c \in 1..Len(m.columns) /\ col \in ColumnOver(G)
  BY <1>2, ElementOfSeq DEF Shaped
<1>4. GrowActiveColumn(m) = SetColumn(m, c, ScrollColumn(grown, 1))
  BY DEF GrowActiveColumn
<1> HIDE DEF col, c
<1>5. /\ col \in [active_row : Nat, groups : Seq(G)]
      /\ col.active_row + 1 \in 1..Len(col.groups) + 1
      /\ Len(col.groups) \in Nat
  BY <1>3 DEF ColumnOver
<1>6. groups \in Seq(G) /\ Len(groups) = Len(col.groups) + 1
  BY <1>2, <1>5, InsertAtType
<1> HIDE DEF groups
<1>7. grown \in [active_row : Nat, groups : Seq(G)] /\ grown.groups = groups
  BY <1>5, <1>6
<1> HIDE DEF grown
<1>8. grown.groups # <<>>
  BY <1>5, <1>6, <1>7
<1>9. ScrollColumn(grown, 1) \in ColumnOver(G)
  BY <1>7, <1>8, ScrollColumnShape
<1> QED
  BY <1>2, <1>3, <1>4, <1>9, SetColumnShape DEF IsShaped

\* The empty active group goes, and its column with the last group.
LEMMA RemoveActiveGroupShape ==
  ASSUME NEW m, IsShaped(m)
  PROVE  IsShaped(RemoveActiveGroup(m))
<1>1. PICK G : m \in Shaped(G)
  BY DEF IsShaped
<1> DEFINE c    == m.active_column
           col  == m.columns[c]
           left == RemoveAt(col.groups, col.active_row)
           without == [m EXCEPT !.columns = RemoveAt(m.columns, c)]
           shrunk == [active_row |-> Min2(col.active_row, Len(left)), groups |-> left]
<1>2. /\ m \in [visible_columns : Nat, active_column : Nat, columns : Seq(ColumnOver(G))]
      /\ c \in 1..Len(m.columns) /\ col \in ColumnOver(G)
      /\ Len(m.columns) \in Nat
  BY <1>1, ElementOfSeq DEF Shaped
<1>3. CASE ~CanRemoveActiveGroup(m)
  BY <1>3 DEF RemoveActiveGroup
<1>4. ASSUME CanRemoveActiveGroup(m) PROVE IsShaped(RemoveActiveGroup(m))
  <2>1. ~(Len(m.columns) = 1 /\ Len(col.groups) = 1)
    BY <1>4 DEF CanRemoveActiveGroup
  <2>2. RemoveActiveGroup(m) = IncrementVisibleColumns(
          IF left = <<>> THEN without ELSE SetColumn(m, c, shrunk), 0)
    BY <1>4 DEF RemoveActiveGroup
  <2> HIDE DEF c, col
  <2>3. col \in [active_row : Nat, groups : Seq(G)] /\ col.active_row \in 1..Len(col.groups)
    BY <1>2 DEF ColumnOver
  <2>4. left \in Seq(G) /\ Len(left) = Len(col.groups) - 1
    BY <2>3, RemoveAtType
  <2> HIDE DEF left
  <2>5. CASE left = <<>>
    <3>1. Len(m.columns) # 1
      BY <2>1, <2>3, <2>4, <2>5
    <3>2. /\ RemoveAt(m.columns, c) \in Seq(ColumnOver(G))
          /\ Len(RemoveAt(m.columns, c)) = Len(m.columns) - 1
      BY <1>2, RemoveAtType
    <3>3. RemoveAt(m.columns, c) # <<>>
      <4> DEFINE rest == RemoveAt(m.columns, c)
      <4>1. rest \in Seq(ColumnOver(G)) /\ Len(rest) # 0
        BY <1>2, <3>1, <3>2
      <4> HIDE DEF rest
      <4>2. rest # <<>>
        BY <4>1
      <4> QED
        BY <4>2 DEF rest
    <3>4. /\ without \in [visible_columns : Nat, active_column : Nat, columns : Seq(ColumnOver(G))]
          /\ without.columns = RemoveAt(m.columns, c)
          /\ without.active_column = m.active_column
      BY <1>2, <3>2
    <3>5. without.active_column >= 1
      BY <1>2, <3>4 DEF c
    <3> HIDE DEF without
    <3>6. IncrementVisibleColumns(without, 0) \in Shaped(G)
      BY <3>3, <3>4, <3>5, IncrementVisibleColumnsShape
    <3> QED
      BY <2>2, <2>5, <3>6 DEF IsShaped
  <2>6. CASE left # <<>>
    <3>1. Len(left) \in Nat \ {0}
      BY <2>4, <2>6, EmptySeq
    <3>2. Min2(col.active_row, Len(left)) \in 1..Len(left)
      BY <2>3, <3>1 DEF Min2
    <3>3. shrunk \in ColumnOver(G)
      BY <2>4, <3>2 DEF ColumnOver
    <3> HIDE DEF shrunk
    <3>4. IsShaped(SetColumn(m, c, shrunk))
      BY <1>1, <1>2, <3>3, SetColumnShape DEF IsShaped
    <3> QED
      BY <2>2, <2>6, <3>4, ChangeBandShape
  <2> QED
    BY <2>5, <2>6
<1> QED
  BY <1>3, <1>4

\* Rotation moves groups between the columns and no cursor.
LEMMA RotateColumnsShape ==
  ASSUME NEW m, IsShaped(m), NEW motion \in Int
  PROVE  /\ IsShaped(RotateColumns(m, motion))
         /\ Len(RotateColumns(m, motion).columns) = Len(m.columns)
<1>1. PICK G : m \in Shaped(G)
  BY DEF IsShaped
<1> DEFINE n == Len(m.columns)
           seeded == [c \in 1..n |-> SeedEmpty(m.columns[c])]
           From(c) == ((c - 1 - motion) % n) + 1
           Col(c) == SetGroup(seeded[c], seeded[c].active_row, ActiveGroupOf(seeded[From(c)]))
           columns == [c \in 1..n |-> Col(c)]
<1>2. /\ m \in [visible_columns : Nat, active_column : Nat, columns : Seq(ColumnOver(G))]
      /\ m.visible_columns \in 1..Len(m.columns)
      /\ m.active_column \in 1..Len(m.columns)
      /\ n \in Nat \ {0}
  BY <1>1 DEF Shaped
<1>3. RotateColumns(m, motion) = [m EXCEPT !.columns = columns \o <<>>]
  BY DEF RotateColumns
<1>4. \A c \in 1..n : seeded[c] \in ColumnOver(G)
  <2> TAKE c \in 1..n
  <2>1. m.columns[c] \in ColumnOver(G)
    BY <1>2, ElementOfSeq
  <2>2. m.columns[c].groups # <<>>
    BY <2>1 DEF ColumnOver
  <2> QED
    BY <2>1, <2>2 DEF SeedEmpty
<1>5. \A c \in 1..n : From(c) \in 1..n
  <2> TAKE c \in 1..n
  <2> DEFINE a == c - 1 - motion
  <2>1. a \in Int
    BY <1>2
  <2> HIDE DEF n, a
  <2>2. a % n \in 0..n - 1
    BY <1>2, <2>1, ModRange
  <2>3. (a % n) + 1 \in 1..n
    BY <1>2, <2>2
  <2> QED
    BY <2>3 DEF a
<1> HIDE DEF seeded, From
<1>6. \A c \in 1..n : ActiveGroupOf(seeded[c]) \in G
  BY <1>4, ElementOfSeq DEF ColumnOver, ActiveGroupOf
<1>7. \A c \in 1..n : Col(c) \in ColumnOver(G)
  <2> TAKE c \in 1..n
  <2>1. seeded[c] \in ColumnOver(G) /\ ActiveGroupOf(seeded[From(c)]) \in G
    BY <1>4, <1>5, <1>6
  <2>2. seeded[c].active_row \in 1..Len(seeded[c].groups)
    BY <2>1 DEF ColumnOver
  <2> QED
    BY <2>1, <2>2, SetGroupShape
<1> HIDE DEF Col
<1>8. columns \in [1..n -> ColumnOver(G)]
  BY <1>7
<1> HIDE DEF columns
<1>9. /\ columns \in Seq(ColumnOver(G)) /\ Len(columns) = n
      /\ columns \o <<>> = columns
  <2>1. columns \in Seq(ColumnOver(G)) /\ Len(columns) = n
    BY <1>2, <1>8, FunctionIsSeq
  <2> QED
    BY <2>1, ConcatEmptySeq
<1> DEFINE k == [m EXCEPT !.columns = columns]
<1>10. /\ k \in [visible_columns : Nat, active_column : Nat, columns : Seq(ColumnOver(G))]
       /\ k.visible_columns = m.visible_columns
       /\ k.active_column = m.active_column
       /\ k.columns = columns
  BY <1>2, <1>9
<1> HIDE DEF k
<1>11. k \in Shaped(G)
  BY <1>2, <1>9, <1>10 DEF Shaped
<1> QED
  BY <1>3, <1>9, <1>10, <1>11 DEF IsShaped, k

\* Two slots trade their groups.
LEMMA SwapGroupsShape ==
  ASSUME NEW m, IsShaped(m), NEW s \in Slots(m), NEW t \in Slots(m)
  PROVE  /\ IsShaped(SwapGroups(m, s, t))
         /\ Slots(SwapGroups(m, s, t)) = Slots(m)
<1> DEFINE k == SetGroupAt(m, s, GroupAt(m, t))
<1>1. IsShaped(k) /\ Slots(k) = Slots(m)
  BY SetGroupAtIsShaped
<1>2. SwapGroups(m, s, t) = SetGroupAt(k, t, GroupAt(m, s))
  BY DEF SwapGroups
<1> HIDE DEF k
<1> QED
  BY <1>1, <1>2, SetGroupAtIsShaped

\* A neighbour is a slot.
LEMMA NeighbourIsSlot ==
  ASSUME NEW m, IsShaped(m), NEW s \in Slots(m), NEW direction \in Directions, NEW bound \in Nat
  PROVE  NeighbourSlots(m, s, direction, bound) \subseteq Slots(m)
<1>1. /\ s[1] \in 1..Len(m.columns)
      /\ s[2] \in 1..Len(m.columns[s[1]].groups)
      /\ Len(m.columns) \in Nat
      /\ \A c \in 1..Len(m.columns) : <<c, m.columns[c].active_row>> \in Slots(m)
  BY ShapeFacts
<1>2. Len(m.columns[s[1]].groups) \in Nat
  <2>1. PICK G : m \in Shaped(G)
    BY DEF IsShaped
  <2>2. m.columns[s[1]] \in ColumnOver(G)
    BY <1>1, <2>1, ElementOfSeq DEF Shaped
  <2> QED
    BY <2>2 DEF ColumnOver
<1>3. CASE direction = "Up"
  <2>1. s[2] > 1 => <<s[1], s[2] - 1>> \in Slots(m)
    <3> HAVE s[2] > 1
    <3>1. s[2] - 1 \in 1..Len(m.columns[s[1]].groups)
      BY <1>1, <1>2
    <3> QED
      BY <1>1, <3>1, IndicesSlot
  <2> QED
    BY <1>3, <2>1 DEF NeighbourSlots
<1>4. CASE direction = "Down"
  <2>1. s[2] < Len(m.columns[s[1]].groups) => <<s[1], s[2] + 1>> \in Slots(m)
    <3> HAVE s[2] < Len(m.columns[s[1]].groups)
    <3>1. s[2] + 1 \in 1..Len(m.columns[s[1]].groups)
      BY <1>1, <1>2
    <3> QED
      BY <1>1, <3>1, IndicesSlot
  <2> QED
    BY <1>4, <2>1 DEF NeighbourSlots
<1>5. CASE direction = "Left"
  <2>1. s[1] > 1 => s[1] - 1 \in 1..Len(m.columns)
    BY <1>1
  <2> QED
    BY <1>1, <1>5, <2>1 DEF NeighbourSlots
<1>6. CASE direction = "Right"
  <2>1. s[1] < Min2(bound, Len(m.columns)) => s[1] + 1 \in 1..Len(m.columns)
    BY <1>1 DEF Min2
  <2> QED
    BY <1>1, <1>6, <2>1 DEF NeighbourSlots
<1> QED
  BY <1>3, <1>4, <1>5, <1>6 DEF Directions

\* The active group trades places with a neighbour.
LEMMA SwapActiveGroupShape ==
  ASSUME NEW m, IsShaped(m), NEW direction \in Directions
  PROVE  IsShaped(SwapActiveGroup(m, direction))
<1> DEFINE here == ActiveSlot(m)
           dest == NeighbourSlots(m, here, direction, Max2(m.visible_columns, 1))
           to   == CHOOSE s \in dest : TRUE
<1>1. here \in Slots(m) /\ Max2(m.visible_columns, 1) \in Nat
  BY ShapeFacts DEF Max2
<1>2. dest \subseteq Slots(m)
  BY <1>1, NeighbourIsSlot
<1>3. SwapActiveGroup(m, direction) =
        IF dest = {} THEN m ELSE SetActiveSlot(SwapGroups(m, here, to), to)
  BY DEF SwapActiveGroup
<1> HIDE DEF here, dest
<1>4. CASE dest = {}
  BY <1>3, <1>4
<1>5. CASE dest # {}
  <2>1. to \in Slots(m)
    BY <1>2, <1>5
  <2> HIDE DEF to
  <2>2. IsShaped(SwapGroups(m, here, to)) /\ to \in Slots(SwapGroups(m, here, to))
    BY <1>1, <2>1, SwapGroupsShape
  <2>3. IsShaped(SetActiveSlot(SwapGroups(m, here, to), to))
    BY <2>2, SetActiveSlotShape
  <2> QED
    BY <1>3, <1>5, <2>3
<1> QED
  BY <1>4, <1>5

----------------------------------------------------------------------------
(* Reveal *)

\* The far jump.
LEMMA SwapSlotIntoViewShape ==
  ASSUME NEW m, IsShaped(m), NEW s \in Slots(m)
  PROVE  /\ IsShaped(SwapSlotIntoView(m, s).monitor)
         /\ SwapSlotIntoView(m, s).slot \in Slots(SwapSlotIntoView(m, s).monitor)
<1> DEFINE c  == Min2(m.active_column, m.visible_columns)
           to == <<c, m.columns[c].active_row>>
<1>1. c \in 1..Len(m.columns)
  BY ShapeFacts DEF Min2
<1>2. SwapSlotIntoView(m, s) = Reveal(SwapGroups(m, s, to), "Swapped", to)
  BY DEF SwapSlotIntoView
<1> HIDE DEF c
<1>3. to \in Slots(m)
  BY <1>1, ShapeFacts
<1> HIDE DEF to
<1>4. IsShaped(SwapGroups(m, s, to)) /\ to \in Slots(SwapGroups(m, s, to))
  BY <1>3, SwapGroupsShape
<1> QED
  BY <1>2, <1>4 DEF Reveal

\* Whatever is revealed, the slot it names is one of the monitor it leaves.
LEMMA RevealSlotShape ==
  ASSUME NEW m, IsShaped(m), NEW s \in Slots(m), NEW travel
  PROVE  /\ IsShaped(RevealSlot(m, s, travel).monitor)
         /\ RevealSlot(m, s, travel).slot \in Slots(RevealSlot(m, s, travel).monitor)
<1>1. PICK G : m \in Shaped(G)
  BY DEF IsShaped
<1> DEFINE col == m.columns[s[1]]
           scrolled == SetColumn(m, s[1], [col EXCEPT !.active_row = s[2]])
           right_edge == Min2(m.visible_columns, s[1])
           left_steps == s[1] - right_edge
           right_steps == Len(m.columns) - s[1] + 1
           rotate_right == \/ travel = "Left"
                           \/ travel # "Right" /\ right_steps < left_steps
           steps == IF rotate_right THEN right_steps ELSE left_steps
           dest_col == IF rotate_right THEN 1 ELSE right_edge
           motion == IF rotate_right THEN steps ELSE -steps
           rotated == RotateColumns(scrolled, motion)
           jump == SwapSlotIntoView(scrolled, s)
           landed == Reveal(rotated, "Rotated", <<dest_col, rotated.columns[dest_col].active_row>>)
<1>2. RevealSlot(m, s, travel) =
        IF s[1] <= m.visible_columns
        THEN IF col.active_row = s[2] THEN Reveal(m, "AlreadyVisible", s)
             ELSE Reveal(scrolled, "Scrolled", s)
        ELSE IF steps > 1 THEN jump ELSE landed
  BY DEF RevealSlot
<1>3. /\ IsShaped(scrolled)
      /\ Slots(scrolled) = Slots(m)
      /\ Len(scrolled.columns) = Len(m.columns)
  BY <1>1, ScrolledShape DEF IsShaped
<1> HIDE DEF scrolled, col
<1>4. IsShaped(jump.monitor) /\ jump.slot \in Slots(jump.monitor)
  BY <1>3, SwapSlotIntoViewShape
<1>5. /\ right_edge \in 1..Len(m.columns)
      /\ left_steps \in Int /\ right_steps \in Int
  BY ShapeFacts DEF Min2
<1> HIDE DEF right_edge, left_steps, right_steps
<1>6. motion \in Int /\ dest_col \in 1..Len(m.columns)
  BY <1>5, ShapeFacts
<1> HIDE DEF motion, steps, dest_col, rotate_right, jump
<1>7. IsShaped(rotated) /\ dest_col \in 1..Len(rotated.columns)
  BY <1>3, <1>6, RotateColumnsShape
<1> HIDE DEF rotated
<1>8. <<dest_col, rotated.columns[dest_col].active_row>> \in Slots(rotated)
  BY <1>7, ShapeFacts
<1>9. IsShaped(landed.monitor) /\ landed.slot \in Slots(landed.monitor)
  BY <1>7, <1>8 DEF Reveal
<1>10. IsShaped(Reveal(m, "AlreadyVisible", s).monitor)
       /\ Reveal(m, "AlreadyVisible", s).slot \in Slots(Reveal(m, "AlreadyVisible", s).monitor)
  BY DEF Reveal
<1>11. IsShaped(Reveal(scrolled, "Scrolled", s).monitor)
       /\ Reveal(scrolled, "Scrolled", s).slot \in Slots(Reveal(scrolled, "Scrolled", s).monitor)
  BY <1>3 DEF Reveal
<1> HIDE DEF landed
<1> QED
  BY <1>2, <1>4, <1>9, <1>10, <1>11

\* A shaped monitor has every index in range.
LEMMA ShapedIsIndexSafe ==
  ASSUME NEW m, IsShaped(m)
  PROVE  IndexSafeMonitor(m)
<1>1. PICK G : m \in Shaped(G)
  BY DEF IsShaped
<1>2. \A c \in 1..Len(m.columns) : m.columns[c] \in ColumnOver(G)
  BY <1>1, ElementOfSeq DEF Shaped
<1> QED
  BY <1>1, <1>2 DEF IndexSafeMonitor, Shaped, ColumnOver

----------------------------------------------------------------------------
(* Groups *)

\* The groups the operations build: a whole tree, and the memory of a window
\* it holds, or of none when it is empty.
SoundGroups == {g \in Group :
  /\ IsTree(g.layout)
  /\ IF g.layout = {} THEN g.active_window = NoWindow
     ELSE g.active_window \in GroupWindows(g)}

\* A group is empty when it has no windows, and its windows are numbers.
LEMMA GroupFacts ==
  ASSUME NEW g \in SoundGroups
  PROVE  /\ g.layout = {} <=> GroupWindows(g) = {}
         /\ GroupWindows(g) \subseteq Nat
         /\ IsTree(g.layout)
         /\ g.layout = {} => g = EmptyGroup
         /\ g.layout # {} => g.active_window \in GroupWindows(g)
         /\ g.active_window \in Nat
<1>1. g \in [layout : Tree, active_window : Nat] /\ IsTree(g.layout)
  BY DEF SoundGroups, Group
<1>2. \A l \in g.layout : l.window_id \in Nat
  BY <1>1, LeafType DEF IsTree
<1> QED
  BY <1>1, <1>2 DEF SoundGroups, GroupWindows, TreeWindows, EmptyGroup, NoWindow

\* A group can be made of any tree and a window of it.
LEMMA MakeGroup ==
  ASSUME NEW t, IsTree(t), NEW w,
         IF t = {} THEN w = NoWindow ELSE w \in TreeWindows(t)
  PROVE  [layout |-> t, active_window |-> w] \in SoundGroups
<1> DEFINE g == [layout |-> t, active_window |-> w]
<1>1. g.layout = t /\ g.active_window = w
  OBVIOUS
<1>2. t \in Tree /\ w \in Nat
  <2>1. \A l \in t : l.window_id \in Nat
    BY LeafType DEF IsTree
  <2> QED
    BY <2>1 DEF IsTree, Tree, TreeWindows, NoWindow
<1>3. g \in Group
  BY <1>2 DEF Group
<1> HIDE DEF g
<1>4. g \in SoundGroups
  BY <1>1, <1>3 DEF SoundGroups, GroupWindows
<1> QED
  BY <1>4 DEF g

\* The empty group.
LEMMA EmptyGroupIsSound ==
  EmptyGroup \in SoundGroups /\ GroupWindows(EmptyGroup) = {} /\ EmptyGroup.layout = {}
<1>1. EmptyGroup \in SoundGroups
  BY SmallTrees, MakeGroup DEF EmptyGroup
<1>2. EmptyGroup.layout = {}
  BY DEF EmptyGroup
<1> QED
  BY <1>1, <1>2, GroupFacts

\* A group loses one window.
LEMMA GroupRemoveSound ==
  ASSUME NEW g \in SoundGroups, NEW w
  PROVE  /\ GroupRemove(g, w) \in SoundGroups
         /\ GroupWindows(GroupRemove(g, w)) = GroupWindows(g) \ {w}
<1>1. CASE w \notin GroupWindows(g)
  BY <1>1 DEF GroupRemove
<1>2. CASE w \in GroupWindows(g)
  <2> DEFINE t == g.layout
             l == LeafOf(t, w)
             u == RemoveLeaf(t, l)
             a == IF l.path = <<>> THEN NoWindow
                  ELSE IF g.active_window = w THEN Survivor(t, l) ELSE g.active_window
  <2>1. GroupRemove(g, w) = [layout |-> u, active_window |-> a]
    BY <1>2 DEF GroupRemove
  <2>2. IsTree(t) /\ GroupWindows(g) = TreeWindows(t)
        /\ (t # {} => g.active_window \in TreeWindows(t))
    BY GroupFacts DEF GroupWindows
  <2> HIDE DEF t
  <2>3. l \in t /\ l.window_id = w
    BY <1>2, <2>2, LeafOfInTree
  <2> HIDE DEF l
  <2>4. /\ IsTree(u) /\ TreeWindows(u) = TreeWindows(t) \ {w}
        /\ l.path = <<>> <=> TreeWindows(t) = {w}
    BY <2>2, <2>3, RemoveLeafTree
  <2> HIDE DEF u
  <2>5. u = {} <=> TreeWindows(u) = {}
    BY DEF TreeWindows
  <2>6. IF u = {} THEN a = NoWindow ELSE a \in TreeWindows(u)
    <3>1. CASE l.path = <<>>
      BY <2>4, <2>5, <3>1
    <3>2. CASE l.path # <<>>
      <4>1. u # {}
        BY <1>2, <2>2, <2>4, <2>5, <3>2
      <4>2. Survivor(t, l) \in TreeWindows(u)
        BY <2>2, <2>3, <2>4, <3>2, SurvivorInTree
      <4>3. g.active_window \in TreeWindows(t)
        BY <2>2, <2>3
      <4> QED
        BY <2>4, <3>2, <4>1, <4>2, <4>3
    <3> QED
      BY <3>1, <3>2
  <2> HIDE DEF a
  <2>7. [layout |-> u, active_window |-> a] \in SoundGroups
    BY <2>4, <2>6, MakeGroup
  <2> QED
    BY <2>1, <2>2, <2>4, <2>7 DEF GroupWindows
<1> QED
  BY <1>1, <1>2

\* A group loses any number of windows.
LEMMA GroupPruneSound ==
  ASSUME NEW g \in SoundGroups, NEW ws
  PROVE  /\ GroupPrune(g, ws) \in SoundGroups
         /\ GroupWindows(GroupPrune(g, ws)) = GroupWindows(g) \ ws
<1>1. CASE ws \cap GroupWindows(g) = {}
  BY <1>1 DEF GroupPrune
<1>2. CASE ws \cap GroupWindows(g) # {}
  <2> DEFINE t == g.layout
             l == LeafOf(t, g.active_window)
             u == Prune(t, ws)
             a == IF GroupWindows(g) \subseteq ws THEN NoWindow
                  ELSE IF g.active_window \in ws THEN PruneSurvivor(t, l, ws)
                  ELSE g.active_window
  <2>1. GroupPrune(g, ws) = [layout |-> u, active_window |-> a]
    BY <1>2 DEF GroupPrune
  <2>2. IsTree(t) /\ GroupWindows(g) = TreeWindows(t)
        /\ (t # {} => g.active_window \in TreeWindows(t))
    BY GroupFacts DEF GroupWindows
  <2>3. t # {}
    BY <1>2, <2>2 DEF TreeWindows
  <2> HIDE DEF t
  <2>4. l \in t
    BY <2>2, <2>3, LeafOfInTree
  <2> HIDE DEF l
  <2>5. IsTree(u) /\ TreeWindows(u) = TreeWindows(t) \ ws
    BY <2>2, PruneTree
  <2> HIDE DEF u
  <2>6. u = {} <=> TreeWindows(u) = {}
    BY DEF TreeWindows
  <2>7. IF u = {} THEN a = NoWindow ELSE a \in TreeWindows(u)
    <3>1. CASE TreeWindows(t) \subseteq ws
      BY <2>2, <2>5, <2>6, <3>1
    <3>2. CASE ~(TreeWindows(t) \subseteq ws)
      <4>1. u # {}
        BY <2>5, <2>6, <3>2
      <4>2. PruneSurvivor(t, l, ws) \in TreeWindows(u)
        BY <2>2, <2>4, <2>5, <3>2, PruneSurvivorInTree
      <4> QED
        BY <2>2, <2>3, <2>5, <3>2, <4>1, <4>2
    <3> QED
      BY <3>1, <3>2
  <2> HIDE DEF a
  <2>8. [layout |-> u, active_window |-> a] \in SoundGroups
    BY <2>5, <2>7, MakeGroup
  <2> QED
    BY <2>1, <2>2, <2>5, <2>8 DEF GroupWindows
<1> QED
  BY <1>1, <1>2

\* A group gains new windows.
LEMMA GroupAddAllSound ==
  ASSUME NEW g \in SoundGroups, NEW ws, IsNew(ws, GroupWindows(g)), ws # <<>>, NEW focused
  PROVE  /\ GroupAddAll(g, ws, focused) \in SoundGroups
         /\ GroupWindows(GroupAddAll(g, ws, focused)) = GroupWindows(g) \cup Listed(ws)
<1> DEFINE seeded == g.layout = {}
           t    == IF seeded THEN NewTree(Head(ws)) ELSE g.layout
           rest == IF seeded THEN Tail(ws) ELSE ws
           l    == IF focused \in TreeWindows(t) THEN LeafOf(t, focused) ELSE FirstLeaf(t)
           u    == SplitLeaf(t, l, rest)
<1>1. GroupAddAll(g, ws, focused) = [layout |-> u, active_window |-> Last(ws)]
  BY DEF GroupAddAll
<1>2. /\ ws \in Seq(Nat) /\ Len(ws) \in Nat /\ Len(ws) >= 1
      /\ \A i \in 1..Len(ws) : ws[i] \in Nat
      /\ \A i, j \in 1..Len(ws) : ws[i] = ws[j] => i = j
      /\ \A i \in 1..Len(ws) : ws[i] \notin GroupWindows(g)
  <2>1. ws \in Seq(Nat)
    BY DEF IsNew
  <2> QED
    BY <2>1, EmptySeq, ElementOfSeq DEF IsNew
<1>3. /\ IsTree(t) /\ t # {} /\ IsNew(rest, TreeWindows(t))
      /\ TreeWindows(t) \cup Listed(rest) = GroupWindows(g) \cup Listed(ws)
  <2>1. CASE ~seeded
    BY <2>1, GroupFacts DEF GroupWindows
  <2>2. CASE seeded
    <3>1. Head(ws) = ws[1] /\ Head(ws) \in Nat
      BY <1>2
    <3>2. /\ Tail(ws) \in Seq(Nat) /\ Len(Tail(ws)) = Len(ws) - 1
          /\ \A i \in 1..Len(ws) - 1 : Tail(ws)[i] = ws[i + 1]
      BY <1>2, HeadTailProperties
    <3> DEFINE r == Tail(ws)
               h == Head(ws)
               n == Len(ws)
    <3>3. /\ r \in Seq(Nat) /\ Len(r) = n - 1 /\ n \in Nat /\ n >= 1
          /\ \A i \in 1..n - 1 : r[i] = ws[i + 1] /\ i + 1 \in 1..n
          /\ h = ws[1] /\ 1 \in 1..n
          /\ \A i, j \in 1..n : ws[i] = ws[j] => i = j
      BY <1>2, <3>1, <3>2
    <3>9. Listed(ws) = {ws[i] : i \in 1..n}
      BY DEF Listed
    <3>4. IsTree(t) /\ TreeWindows(t) = {h}
      BY <2>2, <3>1, SmallTrees
    <3>5. t # {}
      BY <3>4 DEF TreeWindows
    <3>6. rest = r /\ GroupWindows(g) = {}
      BY <2>2, GroupFacts
    <3> HIDE DEF r, h, t, rest, n
    <3>7. IsNew(r, {h})
      <4>1. \A i, j \in 1..Len(r) : r[i] = r[j] => i = j
        <5> SUFFICES ASSUME NEW i \in 1..n - 1, NEW j \in 1..n - 1, r[i] = r[j] PROVE i = j
          BY <3>3
        <5>1. i + 1 = j + 1
          BY <3>3
        <5> QED
          BY <5>1
      <4>2. \A i \in 1..Len(r) : r[i] # h
        <5> SUFFICES ASSUME NEW i \in 1..n - 1, r[i] = h PROVE FALSE
          BY <3>3
        <5>1. i + 1 = 1
          BY <3>3
        <5> QED
          BY <3>3, <5>1
      <4> QED
        BY <3>3, <4>1, <4>2 DEF IsNew
    <3>8. {h} \cup Listed(r) = Listed(ws)
      <4>1. ASSUME NEW w \in Listed(ws) PROVE w \in {h} \cup Listed(r)
        <5>1. PICK i \in 1..n : w = ws[i]
          BY <3>9
        <5>2. CASE i = 1
          BY <3>3, <5>1, <5>2
        <5>3. CASE i # 1
          <6>1. i - 1 \in 1..n - 1 /\ (i - 1) + 1 = i
            BY <3>3, <5>3
          <6>2. r[i - 1] = w /\ i - 1 \in 1..Len(r)
            BY <3>3, <5>1, <6>1
          <6> QED
            BY <6>2 DEF Listed
        <5> QED
          BY <5>2, <5>3
      <4>2. h \in Listed(ws)
        BY <3>3, <3>9
      <4>3. ASSUME NEW w \in Listed(r) PROVE w \in Listed(ws)
        <5>1. PICK i \in 1..n - 1 : w = r[i]
          BY <3>3 DEF Listed
        <5> QED
          BY <3>3, <3>9, <5>1
      <4> QED
        BY <4>1, <4>2, <4>3
    <3> QED
      BY <3>4, <3>5, <3>6, <3>7, <3>8
  <2> QED
    BY <2>1, <2>2
<1> HIDE DEF t, rest
<1>4. l \in t
  BY <1>3, LeafOfInTree, FirstLeafInTree
<1> HIDE DEF l
<1>5. IsTree(u) /\ TreeWindows(u) = GroupWindows(g) \cup Listed(ws)
  BY <1>3, <1>4, SplitLeafTree
<1> HIDE DEF u
<1>6. Last(ws) \in Listed(ws)
  BY <1>2 DEF Last, Listed
<1>7. u # {}
  BY <1>5, <1>6 DEF TreeWindows
<1>8. [layout |-> u, active_window |-> Last(ws)] \in SoundGroups
  BY <1>5, <1>6, <1>7, MakeGroup
<1> QED
  BY <1>1, <1>5, <1>8 DEF GroupWindows

\* So it gains one.
LEMMA GroupAddSound ==
  ASSUME NEW g \in SoundGroups, NEW w \in Nat \ GroupWindows(g), NEW focused
  PROVE  /\ GroupAdd(g, w, focused) \in SoundGroups
         /\ GroupWindows(GroupAdd(g, w, focused)) = GroupWindows(g) \cup {w}
<1> DEFINE ws == <<w>>
<1>1. /\ ws \in Seq(Nat) /\ Len(ws) = 1 /\ ws[1] = w /\ ws # <<>>
  OBVIOUS
<1> HIDE DEF ws
<1>2. IsNew(ws, GroupWindows(g)) /\ Listed(ws) = {w}
  BY <1>1 DEF IsNew, Listed
<1>3. GroupAdd(g, w, focused) = GroupAddAll(g, ws, focused)
  BY DEF GroupAdd, ws
<1> QED
  BY <1>1, <1>2, <1>3, GroupAddAllSound

\* The memory can be set to any window of the group.
LEMMA GroupFocusSound ==
  ASSUME NEW g \in SoundGroups, NEW w \in GroupWindows(g)
  PROVE  /\ [g EXCEPT !.active_window = w] \in SoundGroups
         /\ GroupWindows([g EXCEPT !.active_window = w]) = GroupWindows(g)
<1> DEFINE k == [g EXCEPT !.active_window = w]
<1>1. g \in [layout : Tree, active_window : Nat]
  BY DEF SoundGroups, Group
<1>2. k = [layout |-> g.layout, active_window |-> w]
  BY <1>1
<1>3. IsTree(g.layout) /\ g.layout # {} /\ w \in TreeWindows(g.layout)
  BY GroupFacts DEF GroupWindows
<1>4. k \in SoundGroups
  BY <1>2, <1>3, MakeGroup
<1> QED
  BY <1>2, <1>4 DEF GroupWindows

----------------------------------------------------------------------------
(* What a monitor holds *)

\* A monitor of sound groups, no two of which share a window.
IsSound(m) ==
  /\ m \in Shaped(SoundGroups)
  /\ \A s, t \in Slots(m) : s # t =>
       GroupWindows(GroupAt(m, s)) \cap GroupWindows(GroupAt(m, t)) = {}

\* A method leads from monitor m to the sound monitor k that holds ws.
Becomes(m, k, ws) ==
  /\ IsSound(k)
  /\ MonitorWindows(k) = ws

\* Every group of k is a group of m or empty, and no two are the same one of
\* m; every group of m that is not empty is one of k.
Regroups(m, k) ==
  /\ IsShaped(k)
  /\ \A s \in Slots(k) : \/ GroupAt(k, s) = EmptyGroup
                         \/ \E u \in Slots(m) : GroupAt(k, s) = GroupAt(m, u)
  /\ \A s, t \in Slots(k) : s # t =>
       \/ GroupAt(k, s) = EmptyGroup \/ GroupAt(k, t) = EmptyGroup
       \/ \E u, v \in Slots(m) : /\ u # v
                                 /\ GroupAt(k, s) = GroupAt(m, u)
                                 /\ GroupAt(k, t) = GroupAt(m, v)
  /\ \A u \in Slots(m) : \/ GroupAt(m, u) = EmptyGroup
                         \/ \E s \in Slots(k) : GroupAt(k, s) = GroupAt(m, u)

\* A sequence is one over every set its elements belong to.
LEMMA SeqOver ==
  ASSUME NEW S, NEW T, NEW s \in Seq(S), \A i \in 1..Len(s) : s[i] \in T
  PROVE  s \in Seq(T)
<1>1. Len(s) \in Nat /\ s \in [1..Len(s) -> T]
  OBVIOUS
<1> QED
  BY <1>1, FunctionIsSeq

\* The groups of a sound monitor are sound, and it is shaped.
LEMMA SoundFacts ==
  ASSUME NEW m, IsSound(m)
  PROVE  /\ IsShaped(m)
         /\ \A s \in Slots(m) : GroupAt(m, s) \in SoundGroups
         /\ \A s \in Slots(m) : GroupWindows(GroupAt(m, s)) \subseteq MonitorWindows(m)
         /\ MonitorWindows(m) \subseteq Nat
<1>1. IsShaped(m) /\ \A s \in Slots(m) : GroupAt(m, s) \in SoundGroups
  BY GroupAtType DEF IsSound, IsShaped
<1> QED
  BY <1>1, GroupFacts DEF MonitorWindows

\* A shaped monitor whose groups are sound is one over the sound groups.
LEMMA SoundFromGroups ==
  ASSUME NEW G, NEW k, IsShaped(k), \A s \in Slots(k) : GroupAt(k, s) \in G
  PROVE  k \in Shaped(G)
<1>1. PICK H : k \in Shaped(H)
  BY DEF IsShaped
<1>2. /\ k \in [visible_columns : Nat, active_column : Nat, columns : Seq(ColumnOver(H))]
      /\ k.visible_columns \in 1..Len(k.columns)
      /\ k.active_column \in 1..Len(k.columns)
  BY <1>1 DEF Shaped
<1>3. ASSUME NEW c \in 1..Len(k.columns) PROVE k.columns[c] \in ColumnOver(G)
  <2> DEFINE col == k.columns[c]
  <2>1. col \in ColumnOver(H)
    BY <1>2, <1>3, ElementOfSeq
  <2>2. \A r \in 1..Len(col.groups) : col.groups[r] = GroupAt(k, <<c, r>>)
    BY DEF GroupAt
  <2>3. \A r \in 1..Len(col.groups) : <<c, r>> \in Slots(k)
    BY IndicesSlot
  <2> HIDE DEF col
  <2>4. col.groups \in Seq(H) /\ \A r \in 1..Len(col.groups) : col.groups[r] \in G
    BY <2>1, <2>2, <2>3 DEF ColumnOver
  <2>5. col.groups \in Seq(G)
    BY <2>4, SeqOver
  <2>6. col \in ColumnOver(G)
    BY <2>1, <2>5 DEF ColumnOver
  <2> QED
    BY <2>6 DEF col
<1>4. k.columns \in Seq(ColumnOver(G))
  BY <1>2, <1>3, SeqOver
<1> QED
  BY <1>2, <1>4 DEF Shaped

\* The group set in a slot is found there, and no other group changes.
LEMMA SetGroupAtGroup ==
  ASSUME NEW m, IsShaped(m), NEW s \in Slots(m), NEW g, NEW t \in Slots(m)
  PROVE  GroupAt(SetGroupAt(m, s, g), t) = IF t = s THEN g ELSE GroupAt(m, t)
<1>1. PICK F : m \in Shaped(F)
  BY DEF IsShaped
<1> DEFINE G == F \cup {g}
<1>2. m \in Shaped(G) /\ g \in G
  BY <1>1, ShapedWiden
<1> HIDE DEF G
<1> DEFINE old == m.columns[s[1]]
           col == SetGroup(old, s[2], g)
<1>3. /\ s = <<s[1], s[2]>> /\ s[1] \in 1..Len(m.columns) /\ s[2] \in 1..Len(old.groups)
      /\ t = <<t[1], t[2]>> /\ t[1] \in 1..Len(m.columns)
      /\ t[2] \in 1..Len(m.columns[t[1]].groups)
  BY <1>2, SlotIndices
<1>4. old \in ColumnOver(G)
  BY <1>2, <1>3, ElementOfSeq DEF Shaped
<1> HIDE DEF old
<1>5. col \in ColumnOver(G) /\ \A r \in 1..Len(old.groups) :
        col.groups[r] = IF r = s[2] THEN g ELSE old.groups[r]
  <2>1. old \in [active_row : Nat, groups : Seq(G)]
    BY <1>4 DEF ColumnOver
  <2>2. col.groups = [old.groups EXCEPT ![s[2]] = g]
    BY <2>1 DEF SetGroup, ReplaceAt
  <2>3. old.groups \in Seq(G)
    BY <2>1
  <2> QED
    BY <1>2, <1>3, <1>4, <2>2, <2>3, SetGroupShape, ExceptSeq
<1> HIDE DEF col
<1>6. SetGroupAt(m, s, g).columns[t[1]] = IF t[1] = s[1] THEN col ELSE m.columns[t[1]]
  BY <1>2, <1>3, <1>5, SetColumnShape DEF SetGroupAt, col, old
<1>7. CASE t[1] = s[1]
  BY <1>3, <1>5, <1>6, <1>7 DEF GroupAt, old
<1>8. CASE t[1] # s[1]
  BY <1>3, <1>6, <1>8 DEF GroupAt
<1> QED
  BY <1>7, <1>8

\* A slot can be given any group that shares nothing with the others.
LEMMA SetGroupAtSound ==
  ASSUME NEW m, IsSound(m), NEW s \in Slots(m), NEW g \in SoundGroups,
         GroupWindows(g) \cap (MonitorWindows(m) \ GroupWindows(GroupAt(m, s))) = {}
  PROVE  Becomes(m, SetGroupAt(m, s, g),
                 (MonitorWindows(m) \ GroupWindows(GroupAt(m, s))) \cup GroupWindows(g))
<1> DEFINE k == SetGroupAt(m, s, g)
           W(t) == GroupWindows(GroupAt(m, t))
<1>1. /\ IsShaped(k) /\ Slots(k) = Slots(m)
      /\ Len(k.columns) = Len(m.columns) /\ k.visible_columns = m.visible_columns
  BY SoundFacts, SetGroupAtIsShaped
<1>2. \A t \in Slots(m) : GroupAt(k, t) = IF t = s THEN g ELSE GroupAt(m, t)
  BY SoundFacts, SetGroupAtGroup
<1> HIDE DEF k
<1>3. k \in Shaped(SoundGroups)
  BY <1>1, <1>2, SoundFacts, SoundFromGroups
<1>4. \A t, u \in Slots(m) : t # u => W(t) \cap W(u) = {}
  BY DEF IsSound
<1>5. \A t \in Slots(m) \ {s} : W(t) \subseteq MonitorWindows(m) \ W(s)
  BY <1>4, SoundFacts
<1>6. \A t \in Slots(m) : GroupWindows(GroupAt(k, t)) = IF t = s THEN GroupWindows(g) ELSE W(t)
  BY <1>2
<1>7. IsSound(k)
  BY <1>1, <1>3, <1>4, <1>5, <1>6 DEF IsSound
<1>8. MonitorWindows(k) = (MonitorWindows(m) \ W(s)) \cup GroupWindows(g)
  BY <1>1, <1>4, <1>5, <1>6 DEF MonitorWindows
<1> QED
  BY <1>1, <1>7, <1>8 DEF Becomes, k

\* A monitor with the groups of a sound one, wherever they went.
LEMMA RegroupsSound ==
  ASSUME NEW m, IsSound(m), NEW k, Regroups(m, k)
  PROVE  IsSound(k) /\ MonitorWindows(k) = MonitorWindows(m)
<1>1. \A s \in Slots(k) : GroupAt(k, s) \in SoundGroups
  BY SoundFacts, EmptyGroupIsSound DEF Regroups
<1>2. k \in Shaped(SoundGroups)
  BY <1>1, SoundFromGroups DEF Regroups
<1>3. GroupWindows(EmptyGroup) = {}
  BY EmptyGroupIsSound
<1>4. ASSUME NEW s \in Slots(k), NEW t \in Slots(k), s # t
      PROVE  GroupWindows(GroupAt(k, s)) \cap GroupWindows(GroupAt(k, t)) = {}
  BY <1>3, <1>4 DEF Regroups, IsSound
<1>5. ASSUME NEW w \in MonitorWindows(k) PROVE w \in MonitorWindows(m)
  <2>1. PICK s \in Slots(k) : w \in GroupWindows(GroupAt(k, s))
    BY DEF MonitorWindows
  <2> QED
    BY <1>3, <2>1 DEF Regroups, MonitorWindows
<1>6. ASSUME NEW w \in MonitorWindows(m) PROVE w \in MonitorWindows(k)
  <2>1. PICK u \in Slots(m) : w \in GroupWindows(GroupAt(m, u))
    BY DEF MonitorWindows
  <2> QED
    BY <1>3, <2>1 DEF Regroups, MonitorWindows
<1> QED
  BY <1>2, <1>4, <1>5, <1>6 DEF IsSound

\* A monitor with the same group in every slot.
LEMMA SameGroups ==
  ASSUME NEW m, NEW k, IsShaped(k), Slots(k) = Slots(m),
         \A s \in Slots(m) : GroupAt(k, s) = GroupAt(m, s)
  PROVE  Regroups(m, k)
BY DEF Regroups

----------------------------------------------------------------------------
(* The cursor moves no group *)

\* Columns with the same groups.
LEMMA SameColumns ==
  ASSUME NEW m, NEW k, IsShaped(k), Len(k.columns) = Len(m.columns),
         \A c \in 1..Len(m.columns) : k.columns[c].groups = m.columns[c].groups
  PROVE  /\ Slots(k) = Slots(m)
         /\ \A s \in Slots(m) : GroupAt(k, s) = GroupAt(m, s)
         /\ Regroups(m, k)
<1>1. Slots(k) = Slots(m)
  BY SameSlots
<1>2. ASSUME NEW s \in Slots(m) PROVE GroupAt(k, s) = GroupAt(m, s)
  <2>1. s[1] \in 1..Len(m.columns)
    BY <1>1, ShapeFacts
  <2> QED
    BY <2>1 DEF GroupAt
<1> QED
  BY <1>1, <1>2, SameGroups

\* The same columns.
LEMMA SameColumnsBecomes ==
  ASSUME NEW m, IsSound(m), NEW k, IsShaped(k), Len(k.columns) = Len(m.columns),
         k.visible_columns = m.visible_columns,
         \A c \in 1..Len(m.columns) : k.columns[c].groups = m.columns[c].groups
  PROVE  Becomes(m, k, MonitorWindows(m))
BY SameColumns, RegroupsSound DEF Becomes

\* A column is scrolled to a row.
LEMMA ScrolledGroups ==
  ASSUME NEW m, IsShaped(m), NEW s \in Slots(m)
  PROVE  LET k == SetColumn(m, s[1], [m.columns[s[1]] EXCEPT !.active_row = s[2]])
         IN  /\ IsShaped(k) /\ Slots(k) = Slots(m)
             /\ Len(k.columns) = Len(m.columns)
             /\ k.visible_columns = m.visible_columns
             /\ k.active_column = m.active_column
             /\ \A c \in 1..Len(m.columns) :
                  /\ k.columns[c].groups = m.columns[c].groups
                  /\ k.columns[c].active_row = IF c = s[1] THEN s[2] ELSE m.columns[c].active_row
<1>1. PICK G : m \in Shaped(G)
  BY DEF IsShaped
<1> DEFINE old == m.columns[s[1]]
           col == [old EXCEPT !.active_row = s[2]]
<1>2. s[1] \in 1..Len(m.columns) /\ s[2] \in 1..Len(old.groups)
  BY <1>1, SlotIndices
<1>3. old \in ColumnOver(G)
  BY <1>1, <1>2, ElementOfSeq DEF Shaped
<1> HIDE DEF old
<1>4. old \in [active_row : Nat, groups : Seq(G)]
  BY <1>3 DEF ColumnOver
<1>5. col \in ColumnOver(G) /\ col.groups = old.groups /\ col.active_row = s[2]
  BY <1>2, <1>4 DEF ColumnOver
<1> HIDE DEF col
<1> DEFINE k == SetColumn(m, s[1], col)
<1>6. /\ k \in Shaped(G)
      /\ Len(k.columns) = Len(m.columns)
      /\ k.visible_columns = m.visible_columns
      /\ k.active_column = m.active_column
      /\ \A c \in 1..Len(m.columns) : k.columns[c] = IF c = s[1] THEN col ELSE m.columns[c]
  BY <1>1, <1>2, <1>5, SetColumnShape
<1> HIDE DEF k
<1>7. \A c \in 1..Len(m.columns) :
        /\ k.columns[c].groups = m.columns[c].groups
        /\ k.columns[c].active_row = IF c = s[1] THEN s[2] ELSE m.columns[c].active_row
  BY <1>5, <1>6 DEF old
<1>8. Slots(k) = Slots(m)
  BY <1>6, <1>7, SameSlots
<1> QED
  BY <1>6, <1>7, <1>8 DEF k, col, old, IsShaped

\* The cursor is set to a slot.
LEMMA SetActiveSlotGroups ==
  ASSUME NEW m, IsShaped(m), NEW s \in Slots(m)
  PROVE  LET k == SetActiveSlot(m, s)
         IN  /\ IsShaped(k) /\ Slots(k) = Slots(m)
             /\ Len(k.columns) = Len(m.columns)
             /\ k.visible_columns = m.visible_columns
             /\ ActiveSlot(k) = s
             /\ \A c \in 1..Len(m.columns) :
                  /\ k.columns[c].groups = m.columns[c].groups
                  /\ k.columns[c].active_row = IF c = s[1] THEN s[2] ELSE m.columns[c].active_row
<1> DEFINE l == SetColumn(m, s[1], [m.columns[s[1]] EXCEPT !.active_row = s[2]])
           k == [l EXCEPT !.active_column = s[1]]
<1>1. /\ IsShaped(l) /\ Slots(l) = Slots(m)
      /\ Len(l.columns) = Len(m.columns)
      /\ l.visible_columns = m.visible_columns
      /\ \A c \in 1..Len(m.columns) :
           /\ l.columns[c].groups = m.columns[c].groups
           /\ l.columns[c].active_row = IF c = s[1] THEN s[2] ELSE m.columns[c].active_row
  BY ScrolledGroups
<1>2. SetActiveSlot(m, s) = k
  BY DEF SetActiveSlot
<1> HIDE DEF l
<1>3. s = <<s[1], s[2]>> /\ s[1] \in 1..Len(m.columns)
  BY ShapeFacts
<1>4. PICK G : l \in Shaped(G)
  BY <1>1 DEF IsShaped
<1>5. /\ k \in Shaped(G) /\ Slots(k) = Slots(l) /\ k.columns = l.columns
  BY <1>1, <1>3, <1>4, SetActiveColumnShape
<1>6. k.visible_columns = l.visible_columns /\ k.active_column = s[1]
  BY <1>4 DEF Shaped
<1> HIDE DEF k
<1>7. ActiveSlot(k) = s
  BY <1>1, <1>3, <1>5, <1>6 DEF ActiveSlot
<1> QED
  BY <1>1, <1>2, <1>5, <1>6, <1>7 DEF IsShaped

\* So the monitor is sound and its active group is the one named.
LEMMA SetActiveSlotSound ==
  ASSUME NEW m, IsSound(m), NEW s \in Slots(m)
  PROVE  /\ Becomes(m, SetActiveSlot(m, s), MonitorWindows(m))
         /\ Slots(SetActiveSlot(m, s)) = Slots(m)
         /\ ActiveSlot(SetActiveSlot(m, s)) = s
         /\ \A t \in Slots(m) : GroupAt(SetActiveSlot(m, s), t) = GroupAt(m, t)
<1> DEFINE k == SetActiveSlot(m, s)
<1>1. /\ IsShaped(k) /\ Slots(k) = Slots(m)
      /\ Len(k.columns) = Len(m.columns)
      /\ k.visible_columns = m.visible_columns
      /\ ActiveSlot(k) = s
      /\ \A c \in 1..Len(m.columns) : k.columns[c].groups = m.columns[c].groups
  BY SoundFacts, SetActiveSlotGroups
<1> HIDE DEF k
<1>2. Becomes(m, k, MonitorWindows(m))
  BY <1>1, SameColumnsBecomes
<1>3. \A t \in Slots(m) : GroupAt(k, t) = GroupAt(m, t)
  BY <1>1, SameColumns
<1> QED
  BY <1>1, <1>2, <1>3 DEF k

\* The band changes, and no group.
LEMMA ChangeBandSound ==
  ASSUME NEW m, IsSound(m), NEW change \in Int
  PROVE  /\ IsSound(IncrementVisibleColumns(m, change))
         /\ MonitorWindows(IncrementVisibleColumns(m, change)) = MonitorWindows(m)
         /\ IncrementVisibleColumns(m, change).columns = m.columns
<1> DEFINE k == IncrementVisibleColumns(m, change)
<1>1. IsShaped(k) /\ IsShaped(m)
  BY SoundFacts, ChangeBandShape
<1>2. k.columns = m.columns
  BY DEF IsSound, Shaped, IncrementVisibleColumns
<1> HIDE DEF k
<1>3. Regroups(m, k)
  BY <1>1, <1>2, SameColumns
<1>4. IsSound(k) /\ MonitorWindows(k) = MonitorWindows(m)
  BY <1>3, RegroupsSound
<1> QED
  BY <1>2, <1>4 DEF k

\* The cursor wraps in the band.
LEMMA MoveActiveColumnSound ==
  ASSUME NEW m, IsSound(m), NEW motion \in Int
  PROVE  Becomes(m, MoveActiveColumn(m, motion), MonitorWindows(m))
<1> DEFINE k == MoveActiveColumn(m, motion)
<1>1. IsShaped(k)
  BY SoundFacts, MoveActiveColumnShape
<1>2. k.columns = m.columns /\ k.visible_columns = m.visible_columns
  BY DEF IsSound, Shaped, MoveActiveColumn
<1> HIDE DEF k
<1>3. Becomes(m, k, MonitorWindows(m))
  BY <1>1, <1>2, SameColumnsBecomes
<1> QED
  BY <1>3 DEF k

\* The active column scrolls.
LEMMA ScrollActiveColumnSound ==
  ASSUME NEW m, IsSound(m), NEW motion \in Int
  PROVE  Becomes(m, ScrollActiveColumn(m, motion), MonitorWindows(m))
<1> DEFINE c == m.active_column
           col == ScrollColumn(m.columns[c], motion)
           k == SetColumn(m, c, col)
<1>1. /\ m \in Shaped(SoundGroups) /\ c \in 1..Len(m.columns)
      /\ m.columns[c] \in ColumnOver(SoundGroups)
  BY ElementOfSeq DEF IsSound, Shaped
<1>2. /\ m.columns[c] \in [active_row : Nat, groups : Seq(SoundGroups)]
      /\ m.columns[c].groups # <<>>
  BY <1>1 DEF ColumnOver
<1>3. col \in ColumnOver(SoundGroups) /\ col.groups = m.columns[c].groups
  BY <1>2, ScrollColumnShape
<1> HIDE DEF col
<1>4. /\ k \in Shaped(SoundGroups) /\ Len(k.columns) = Len(m.columns)
      /\ k.visible_columns = m.visible_columns
      /\ \A i \in 1..Len(m.columns) : k.columns[i] = IF i = c THEN col ELSE m.columns[i]
  BY <1>1, <1>3, SetColumnShape
<1> HIDE DEF k
<1>5. Becomes(m, k, MonitorWindows(m))
  BY <1>3, <1>4, SameColumnsBecomes DEF IsShaped
<1> QED
  BY <1>5 DEF k, col, ScrollActiveColumn

----------------------------------------------------------------------------
(* Windows *)

\* A window is in one slot only.
LEMMA LocateUnique ==
  ASSUME NEW m, IsSound(m), NEW s \in Slots(m), NEW w \in GroupWindows(GroupAt(m, s))
  PROVE  /\ w \in MonitorWindows(m)
         /\ Locate(m, w) = s
<1>1. \A t \in Slots(m) : w \in GroupWindows(GroupAt(m, t)) => t = s
  BY DEF IsSound
<1> QED
  BY <1>1 DEF Locate, MonitorWindows

\* The slot found holds the window.
LEMMA LocateHolds ==
  ASSUME NEW m, NEW w \in MonitorWindows(m)
  PROVE  Locate(m, w) \in Slots(m) /\ w \in GroupWindows(GroupAt(m, Locate(m, w)))
<1>1. \E s \in Slots(m) : w \in GroupWindows(GroupAt(m, s))
  BY DEF MonitorWindows
<1> QED
  BY <1>1 DEF Locate

\* A window leaves, from the one slot that holds it.
LEMMA RemoveWindowSound ==
  ASSUME NEW m, IsSound(m), NEW w
  PROVE  /\ Becomes(m, RemoveWindow(m, w), MonitorWindows(m) \ {w})
         /\ \A s \in Slots(m) : GroupWindows(GroupAt(RemoveWindow(m, w), s))
                                  = GroupWindows(GroupAt(m, s)) \ {w}
         /\ Slots(RemoveWindow(m, w)) = Slots(m)
         /\ ActiveSlot(RemoveWindow(m, w)) = ActiveSlot(m)
<1>1. CASE w \notin MonitorWindows(m)
  <2>1. RemoveWindow(m, w) = m
    BY <1>1 DEF RemoveWindow
  <2>2. \A s \in Slots(m) : w \notin GroupWindows(GroupAt(m, s))
    BY <1>1, SoundFacts
  <2> QED
    BY <1>1, <2>1, <2>2 DEF Becomes
<1>2. CASE w \in MonitorWindows(m)
  <2> DEFINE s == Locate(m, w)
             g == GroupRemove(GroupAt(m, s), w)
             k == SetGroupAt(m, s, g)
  <2>1. s \in Slots(m) /\ w \in GroupWindows(GroupAt(m, s)) /\ RemoveWindow(m, w) = k
    BY <1>2, LocateHolds DEF RemoveWindow
  <2> HIDE DEF s
  <2>2. /\ g \in SoundGroups
        /\ GroupWindows(g) = GroupWindows(GroupAt(m, s)) \ {w}
    BY <2>1, SoundFacts, GroupRemoveSound
  <2> HIDE DEF g
  <2>3. Becomes(m, k, (MonitorWindows(m) \ GroupWindows(GroupAt(m, s))) \cup GroupWindows(g))
    BY <2>1, <2>2, SetGroupAtSound
  <2>4. \A t \in Slots(m) : GroupAt(k, t) = IF t = s THEN g ELSE GroupAt(m, t)
    BY <2>1, SoundFacts, SetGroupAtGroup
  <2>5. \A t \in Slots(m) : t # s => w \notin GroupWindows(GroupAt(m, t))
    BY <2>1 DEF IsSound
  <2>6. Slots(k) = Slots(m) /\ ActiveSlot(k) = ActiveSlot(m)
    <3>1. m \in Shaped(SoundGroups) /\ m.active_column \in 1..Len(m.columns)
      BY DEF IsSound, Shaped
    <3>2. /\ Slots(k) = Slots(m) /\ k.active_column = m.active_column
          /\ \A c \in 1..Len(m.columns) : k.columns[c].active_row = m.columns[c].active_row
      BY <2>1, <2>2, <3>1, SetGroupAtShape
    <3> QED
      BY <3>1, <3>2 DEF ActiveSlot
  <2>7. GroupWindows(GroupAt(m, s)) \subseteq MonitorWindows(m)
    BY <2>1, SoundFacts
  <2> HIDE DEF k
  <2>8. (MonitorWindows(m) \ GroupWindows(GroupAt(m, s))) \cup GroupWindows(g)
          = MonitorWindows(m) \ {w}
    BY <2>1, <2>2, <2>7
  <2>9. \A t \in Slots(m) : GroupWindows(GroupAt(k, t)) = GroupWindows(GroupAt(m, t)) \ {w}
    BY <2>2, <2>4, <2>5
  <2> QED
    BY <2>1, <2>3, <2>6, <2>8, <2>9
<1> QED
  BY <1>1, <1>2

\* New windows come in, where the focus is or at the cursor.
LEMMA AddWindowsSound ==
  ASSUME NEW m, IsSound(m), NEW ws, IsNew(ws, MonitorWindows(m)), ws # <<>>, NEW focused
  PROVE  LET k == AddWindows(m, ws, focused)
         IN  /\ Becomes(m, k, MonitorWindows(m) \cup Listed(ws))
             /\ Slots(k) = Slots(m)
             /\ ActiveSlot(k) = ActiveSlot(m)
             /\ \A s \in Slots(m) : GroupWindows(GroupAt(m, s)) \subseteq GroupWindows(GroupAt(k, s))
             /\ focused \notin MonitorWindows(m) =>
                  Listed(ws) \subseteq GroupWindows(GroupAt(k, ActiveSlot(k)))
<1> DEFINE s == IF focused \in MonitorWindows(m) THEN Locate(m, focused) ELSE ActiveSlot(m)
           g == GroupAddAll(GroupAt(m, s), ws, focused)
           k == SetGroupAt(m, s, g)
<1>1. s \in Slots(m) /\ AddWindows(m, ws, focused) = k
  BY LocateHolds, SoundFacts, ShapeFacts DEF AddWindows
<1>2. focused \notin MonitorWindows(m) => s = ActiveSlot(m)
  OBVIOUS
<1> HIDE DEF s
<1>3. GroupWindows(GroupAt(m, s)) \subseteq MonitorWindows(m) /\ GroupAt(m, s) \in SoundGroups
  BY <1>1, SoundFacts
<1>4. IsNew(ws, GroupWindows(GroupAt(m, s)))
  BY <1>3 DEF IsNew
<1>5. g \in SoundGroups /\ GroupWindows(g) = GroupWindows(GroupAt(m, s)) \cup Listed(ws)
  BY <1>3, <1>4, GroupAddAllSound
<1> HIDE DEF g
<1>6. Listed(ws) \cap MonitorWindows(m) = {}
  BY DEF Listed, IsNew
<1>7. Becomes(m, k, (MonitorWindows(m) \ GroupWindows(GroupAt(m, s))) \cup GroupWindows(g))
  BY <1>1, <1>5, <1>6, SetGroupAtSound
<1>8. \A t \in Slots(m) : GroupAt(k, t) = IF t = s THEN g ELSE GroupAt(m, t)
  BY <1>1, SoundFacts, SetGroupAtGroup
<1>9. m \in Shaped(SoundGroups) /\ m.active_column \in 1..Len(m.columns)
  BY DEF IsSound, Shaped
<1>10. /\ Slots(k) = Slots(m) /\ k.active_column = m.active_column
       /\ \A c \in 1..Len(m.columns) : k.columns[c].active_row = m.columns[c].active_row
  BY <1>1, <1>5, <1>9, SetGroupAtShape
<1>11. ActiveSlot(k) = ActiveSlot(m)
  BY <1>9, <1>10 DEF ActiveSlot
<1>12. (MonitorWindows(m) \ GroupWindows(GroupAt(m, s))) \cup GroupWindows(g)
         = MonitorWindows(m) \cup Listed(ws)
  BY <1>3, <1>5
<1> HIDE DEF k
<1>13. \A t \in Slots(m) : GroupWindows(GroupAt(m, t)) \subseteq GroupWindows(GroupAt(k, t))
  BY <1>5, <1>8
<1>14. focused \notin MonitorWindows(m) => Listed(ws) \subseteq GroupWindows(GroupAt(k, ActiveSlot(k)))
  BY <1>1, <1>2, <1>5, <1>8, <1>11
<1> QED
  BY <1>1, <1>7, <1>10, <1>11, <1>12, <1>13, <1>14

\* The cursor moves to a window of the monitor.
LEMMA FocusWindowSound ==
  ASSUME NEW m, IsSound(m), NEW w \in MonitorWindows(m)
  PROVE  LET k == FocusWindow(m, w)
         IN  /\ Becomes(m, k, MonitorWindows(m))
             /\ w \in GroupWindows(GroupAt(k, ActiveSlot(k)))
<1> DEFINE s == Locate(m, w)
           l == SetActiveSlot(m, s)
           g == [GroupAt(m, s) EXCEPT !.active_window = w]
           k == SetGroupAt(l, s, g)
<1>1. s \in Slots(m) /\ w \in GroupWindows(GroupAt(m, s)) /\ FocusWindow(m, w) = k
  BY LocateHolds DEF FocusWindow
<1> HIDE DEF s
<1>2. g \in SoundGroups /\ GroupWindows(g) = GroupWindows(GroupAt(m, s))
  BY <1>1, SoundFacts, GroupFocusSound
<1> HIDE DEF g
<1>3. /\ Becomes(m, l, MonitorWindows(m)) /\ Slots(l) = Slots(m) /\ ActiveSlot(l) = s
      /\ GroupAt(l, s) = GroupAt(m, s)
  BY <1>1, SetActiveSlotSound
<1> HIDE DEF l
<1>4. Becomes(l, k, (MonitorWindows(l) \ GroupWindows(GroupAt(l, s))) \cup GroupWindows(g))
  BY <1>1, <1>2, <1>3, SetGroupAtSound DEF Becomes
<1>5. GroupAt(k, s) = g
  BY <1>1, <1>3, SoundFacts, SetGroupAtGroup DEF Becomes
<1>6. l \in Shaped(SoundGroups) /\ l.active_column \in 1..Len(l.columns)
  BY <1>3 DEF IsSound, Shaped, Becomes
<1>7. /\ k.active_column = l.active_column
      /\ \A c \in 1..Len(l.columns) : k.columns[c].active_row = l.columns[c].active_row
  BY <1>1, <1>2, <1>3, <1>6, SetGroupAtShape
<1>8. ActiveSlot(k) = s
  BY <1>3, <1>6, <1>7 DEF ActiveSlot
<1>9. GroupWindows(GroupAt(m, s)) \subseteq MonitorWindows(m)
  BY <1>1, SoundFacts
<1> HIDE DEF k
<1>10. Becomes(m, k, MonitorWindows(m))
  BY <1>2, <1>3, <1>4, <1>9 DEF Becomes
<1> QED
  BY <1>1, <1>2, <1>5, <1>8, <1>10

\* A window moves to another group of its monitor.
LEMMA MoveWindowToGroupSound ==
  ASSUME NEW m, IsSound(m), NEW w \in MonitorWindows(m), NEW s \in Slots(m)
  PROVE  LET k == MoveWindowToGroup(m, w, s)
         IN  /\ Becomes(m, k, MonitorWindows(m))
             /\ w \in GroupWindows(GroupAt(k, ActiveSlot(k)))
<1> DEFINE l == RemoveWindow(m, w)
           d == SetActiveSlot(l, s)
           g == GroupAdd(GroupAt(d, s), w, NoWindow)
           k == SetGroupAt(d, s, g)
<1>1. Becomes(m, l, MonitorWindows(m) \ {w}) /\ Slots(l) = Slots(m)
  BY RemoveWindowSound
<1>2. MoveWindowToGroup(m, w, s) = k
  BY DEF MoveWindowToGroup
<1> HIDE DEF l
<1>3. /\ Becomes(l, d, MonitorWindows(l)) /\ Slots(d) = Slots(m) /\ ActiveSlot(d) = s
  BY <1>1, SetActiveSlotSound DEF Becomes
<1> HIDE DEF d
<1>4. GroupAt(d, s) \in SoundGroups /\ GroupWindows(GroupAt(d, s)) \subseteq MonitorWindows(d)
  BY <1>3, SoundFacts DEF Becomes
<1>5. MonitorWindows(d) = MonitorWindows(m) \ {w} /\ w \in Nat
  BY <1>1, <1>3, SoundFacts DEF Becomes
<1>6. g \in SoundGroups /\ GroupWindows(g) = GroupWindows(GroupAt(d, s)) \cup {w}
  BY <1>4, <1>5, GroupAddSound
<1> HIDE DEF g
<1>7. Becomes(d, k, (MonitorWindows(d) \ GroupWindows(GroupAt(d, s))) \cup GroupWindows(g))
  BY <1>3, <1>5, <1>6, SetGroupAtSound DEF Becomes
<1>8. GroupAt(k, s) = g
  BY <1>3, SoundFacts, SetGroupAtGroup DEF Becomes
<1>9. d \in Shaped(SoundGroups) /\ d.active_column \in 1..Len(d.columns)
  BY <1>3 DEF IsSound, Shaped, Becomes
<1>10. /\ k.active_column = d.active_column
       /\ \A c \in 1..Len(d.columns) : k.columns[c].active_row = d.columns[c].active_row
  BY <1>3, <1>6, <1>9, SetGroupAtShape
<1>11. ActiveSlot(k) = s
  BY <1>3, <1>9, <1>10 DEF ActiveSlot
<1> HIDE DEF k
<1>12. Becomes(m, k, MonitorWindows(m))
  BY <1>1, <1>3, <1>4, <1>5, <1>6, <1>7 DEF Becomes
<1> QED
  BY <1>2, <1>6, <1>8, <1>11, <1>12

----------------------------------------------------------------------------
(* The windows that go, and what a new monitor holds *)

\* Any number of windows leave.
LEMMA PruneWindowsSound ==
  ASSUME NEW m, IsSound(m), NEW ws
  PROVE  LET k == PruneWindows(m, ws)
         IN  /\ Becomes(m, k, MonitorWindows(m) \ ws)
             /\ Slots(k) = Slots(m)
             /\ ActiveSlot(k) = ActiveSlot(m)
             /\ \A s \in Slots(m) : GroupWindows(GroupAt(k, s)) = GroupWindows(GroupAt(m, s)) \ ws
             /\ k.visible_columns = m.visible_columns
             /\ \A c \in 1..Len(m.columns) : k.columns[c].active_row = m.columns[c].active_row
<1> DEFINE Pruned(gs) == [r \in 1..Len(gs) |-> GroupPrune(gs[r], ws)]
           columns == [c \in 1..Len(m.columns) |-> [m.columns[c] EXCEPT !.groups = Pruned(@)]]
           k == [m EXCEPT !.columns = columns]
<1>1. /\ m \in [visible_columns : Nat, active_column : Nat, columns : Seq(ColumnOver(SoundGroups))]
      /\ m.active_column \in 1..Len(m.columns)
      /\ Len(m.columns) \in Nat
  BY DEF IsSound, Shaped
<1>2. PruneWindows(m, ws) = k
  BY DEF PruneWindows
<1>3. IsShaped(k)
  BY <1>2, SoundFacts, PruneWindowsShape
<1> HIDE DEF Pruned
<1>4. /\ k.visible_columns = m.visible_columns /\ k.active_column = m.active_column
      /\ k.columns = columns /\ Len(k.columns) = Len(m.columns)
  BY <1>1
<1> HIDE DEF k
<1>5. ASSUME NEW c \in 1..Len(m.columns)
      PROVE  /\ k.columns[c].active_row = m.columns[c].active_row
             /\ Len(k.columns[c].groups) = Len(m.columns[c].groups)
             /\ \A r \in 1..Len(m.columns[c].groups) :
                  k.columns[c].groups[r] = GroupPrune(m.columns[c].groups[r], ws)
  <2> DEFINE col == m.columns[c]
  <2>1. col \in ColumnOver(SoundGroups)
    BY <1>1, ElementOfSeq
  <2> HIDE DEF col
  <2>2. col \in [active_row : Nat, groups : Seq(SoundGroups)]
    BY <2>1 DEF ColumnOver
  <2> DEFINE gs == col.groups
             ps == Pruned(gs)
  <2>3. gs \in Seq(SoundGroups) /\ Len(gs) \in Nat
    BY <2>2
  <2>4. k.columns[c] = [col EXCEPT !.groups = Pruned(@)]
    BY <1>4 DEF col
  <2>5. k.columns[c].groups = ps /\ k.columns[c].active_row = col.active_row
    BY <2>2, <2>4
  <2> HIDE DEF gs
  <2>6. ps \in [1..Len(gs) -> {GroupPrune(gs[r], ws) : r \in 1..Len(gs)}]
        /\ \A r \in 1..Len(gs) : ps[r] = GroupPrune(gs[r], ws)
    BY DEF Pruned
  <2> HIDE DEF ps
  <2>7. Len(ps) = Len(gs)
    BY <2>3, <2>6, FunctionIsSeq
  <2> QED
    BY <2>5, <2>6, <2>7 DEF col, gs
<1> HIDE DEF columns
<1>6. Slots(k) = Slots(m)
  BY <1>4, <1>5, SameSlots
<1>7. ActiveSlot(k) = ActiveSlot(m)
  BY <1>1, <1>4, <1>5 DEF ActiveSlot
<1>8. ASSUME NEW s \in Slots(m)
      PROVE  /\ GroupAt(k, s) \in SoundGroups
             /\ GroupWindows(GroupAt(k, s)) = GroupWindows(GroupAt(m, s)) \ ws
  <2>1. s[1] \in 1..Len(m.columns) /\ s[2] \in 1..Len(m.columns[s[1]].groups)
    BY SoundFacts, ShapeFacts
  <2>2. GroupAt(k, s) = GroupPrune(GroupAt(m, s), ws)
    BY <1>5, <2>1 DEF GroupAt
  <2> QED
    BY <2>2, SoundFacts, GroupPruneSound
<1>9. IsSound(k)
  <2>1. k \in Shaped(SoundGroups)
    BY <1>3, <1>6, <1>8, SoundFromGroups
  <2>2. \A s, t \in Slots(m) : s # t =>
          GroupWindows(GroupAt(k, s)) \cap GroupWindows(GroupAt(k, t)) = {}
    BY <1>8 DEF IsSound
  <2> QED
    BY <1>6, <2>1, <2>2 DEF IsSound
<1>10. MonitorWindows(k) = MonitorWindows(m) \ ws
  BY <1>6, <1>8 DEF MonitorWindows
<1> QED
  BY <1>2, <1>4, <1>5, <1>6, <1>7, <1>8, <1>9, <1>10 DEF Becomes

\* A new monitor holds nothing.
LEMMA NewMonitorSound ==
  ASSUME NEW v \in Nat \ {0}
  PROVE  /\ IsSound(NewMonitor(v))
         /\ MonitorWindows(NewMonitor(v)) = {}
<1> DEFINE k == NewMonitor(v)
<1>1. IsShaped(k)
  BY NewMonitorShape
<1>2. /\ Len(k.columns) = v /\ k.visible_columns = v
      /\ \A c \in 1..v : k.columns[c].groups = <<EmptyGroup>>
  <2> DEFINE columns == [c \in 1..v |-> NewColumn]
  <2>1. columns \in Seq({NewColumn}) /\ Len(columns) = v
    BY FunctionIsSeq
  <2> QED
    BY <2>1 DEF NewMonitor, NewColumn
<1> HIDE DEF k
<1>3. \A s \in Slots(k) : GroupAt(k, s) = EmptyGroup
  <2> TAKE s \in Slots(k)
  <2>1. s[1] \in 1..v /\ s[2] \in 1..Len(k.columns[s[1]].groups)
    BY <1>1, <1>2, ShapeFacts
  <2> QED
    BY <1>2, <2>1 DEF GroupAt
<1>4. k \in Shaped(SoundGroups)
  BY <1>1, <1>3, EmptyGroupIsSound, SoundFromGroups
<1>5. IsSound(k) /\ MonitorWindows(k) = {}
  BY <1>3, <1>4, EmptyGroupIsSound DEF IsSound, MonitorWindows
<1> QED
  BY <1>5 DEF k

----------------------------------------------------------------------------
(* Groups change places *)

\* Two slots trade their groups.
LEMMA SwapGroupsSound ==
  ASSUME NEW m, IsSound(m), NEW s \in Slots(m), NEW t \in Slots(m)
  PROVE  /\ Becomes(m, SwapGroups(m, s, t), MonitorWindows(m))
         /\ Slots(SwapGroups(m, s, t)) = Slots(m)
<1> DEFINE l == SetGroupAt(m, s, GroupAt(m, t))
           k == SetGroupAt(l, t, GroupAt(m, s))
<1>1. /\ IsShaped(l) /\ Slots(l) = Slots(m) /\ Len(l.columns) = Len(m.columns)
      /\ l.visible_columns = m.visible_columns
      /\ \A u \in Slots(m) : GroupAt(l, u) = IF u = s THEN GroupAt(m, t) ELSE GroupAt(m, u)
  BY SoundFacts, SetGroupAtIsShaped, SetGroupAtGroup
<1>2. SwapGroups(m, s, t) = k
  BY DEF SwapGroups
<1> HIDE DEF l
<1>3. /\ IsShaped(k) /\ Slots(k) = Slots(m) /\ Len(k.columns) = Len(m.columns)
      /\ k.visible_columns = m.visible_columns
      /\ \A u \in Slots(m) : GroupAt(k, u) = IF u = t THEN GroupAt(m, s) ELSE GroupAt(l, u)
  BY <1>1, SetGroupAtIsShaped, SetGroupAtGroup
<1> HIDE DEF k
<1>4. \A u \in Slots(m) : GroupAt(k, u) = GroupAt(m, IF u = t THEN s ELSE IF u = s THEN t ELSE u)
  BY <1>1, <1>3
<1>5. Regroups(m, k)
  BY <1>3, <1>4 DEF Regroups
<1>6. Becomes(m, k, MonitorWindows(m))
  BY <1>3, <1>5, RegroupsSound DEF Becomes
<1> QED
  BY <1>2, <1>3, <1>6

\* The active group trades places with a neighbour.
LEMMA SwapActiveGroupSound ==
  ASSUME NEW m, IsSound(m), NEW direction \in Directions
  PROVE  Becomes(m, SwapActiveGroup(m, direction), MonitorWindows(m))
<1> DEFINE here == ActiveSlot(m)
           dest == NeighbourSlots(m, here, direction, Max2(m.visible_columns, 1))
           to   == CHOOSE s \in dest : TRUE
           l    == SwapGroups(m, here, to)
<1>1. here \in Slots(m) /\ Max2(m.visible_columns, 1) \in Nat
  BY SoundFacts, ShapeFacts DEF Max2
<1>2. dest \subseteq Slots(m)
  BY <1>1, SoundFacts, NeighbourIsSlot
<1>3. SwapActiveGroup(m, direction) = IF dest = {} THEN m ELSE SetActiveSlot(l, to)
  BY DEF SwapActiveGroup
<1> HIDE DEF here, dest
<1>4. CASE dest = {}
  BY <1>3, <1>4 DEF Becomes
<1>5. CASE dest # {}
  <2>1. to \in Slots(m)
    BY <1>2, <1>5
  <2> HIDE DEF to
  <2>2. Becomes(m, l, MonitorWindows(m)) /\ to \in Slots(l)
    BY <1>1, <2>1, SwapGroupsSound
  <2> HIDE DEF l
  <2>3. Becomes(l, SetActiveSlot(l, to), MonitorWindows(l))
    BY <2>2, SetActiveSlotSound DEF Becomes
  <2> QED
    BY <1>3, <1>5, <2>2, <2>3 DEF Becomes
<1> QED
  BY <1>4, <1>5

\* The elements after an insertion.
LEMMA InsertAtElements ==
  ASSUME NEW S, NEW s \in Seq(S), NEW i \in 1..Len(s) + 1, NEW e \in S,
         NEW j \in 1..Len(s) + 1
  PROVE  InsertAt(s, i, e)[j] = IF j < i THEN s[j] ELSE IF j = i THEN e ELSE s[j - 1]
<1> DEFINE a == SubSeq(s, 1, i - 1)
           b == SubSeq(s, i, Len(s))
           n == Len(s)
<1>1. /\ a \in Seq(S) /\ Len(a) = i - 1 /\ \A p \in 1..i - 1 : a[p] = s[p]
      /\ b \in Seq(S) /\ Len(b) = n - i + 1 /\ \A p \in 1..n - i + 1 : b[p] = s[i + p - 1]
  BY SubSeqProperties
<1>2. InsertAt(s, i, e) = (a \o <<e>>) \o b
  BY DEF InsertAt
<1>3. n \in Nat /\ i \in 1..n + 1 /\ j \in 1..n + 1
  OBVIOUS
<1> HIDE DEF a, b, n
<1> DEFINE x == <<e>>
<1>4. x \in Seq(S) /\ Len(x) = 1 /\ x[1] = e
  OBVIOUS
<1> HIDE DEF x
<1> DEFINE ax == a \o x
<1>5. ax \in Seq(S) /\ Len(ax) = i /\ \A p \in 1..i : ax[p] = IF p < i THEN s[p] ELSE e
  <2>1. /\ ax \in Seq(S) /\ Len(ax) = Len(a) + Len(x)
        /\ \A p \in 1..Len(a) + Len(x) : ax[p] = IF p <= Len(a) THEN a[p] ELSE x[p - Len(a)]
    BY <1>1, <1>4, ConcatProperties
  <2>2. Len(a) + Len(x) = i
    BY <1>1, <1>3, <1>4
  <2>3. ASSUME NEW p \in 1..i PROVE ax[p] = IF p < i THEN s[p] ELSE e
    <3>1. CASE p < i
      <4>1. p \in 1..i - 1 /\ p <= Len(a)
        BY <1>1, <1>3, <3>1
      <4> QED
        BY <1>1, <2>1, <2>2, <3>1, <4>1
    <3>2. CASE p = i
      <4>1. ~(p <= Len(a)) /\ p - Len(a) = 1
        BY <1>1, <1>3, <3>2
      <4> QED
        BY <1>4, <2>1, <2>2, <3>2, <4>1
    <3>3. p < i \/ p = i
      BY <1>3
    <3> HIDE DEF ax
    <3> QED
      BY <3>1, <3>2, <3>3
  <2> QED
    BY <2>1, <2>2, <2>3
<1>10. InsertAt(s, i, e) = ax \o b
  BY <1>2 DEF x
<1> HIDE DEF ax
<1>6. \A p \in 1..Len(ax) + Len(b) : (ax \o b)[p] = IF p <= Len(ax) THEN ax[p] ELSE b[p - Len(ax)]
  BY <1>1, <1>5, ConcatProperties
<1>7. (ax \o b)[j] = IF j <= i THEN ax[j] ELSE b[j - i]
  <2>1. Len(ax) + Len(b) = n + 1 /\ Len(ax) = i
    BY <1>1, <1>3, <1>5
  <2> QED
    BY <1>3, <1>6, <2>1
<1>8. CASE j <= i
  <2>1. j \in 1..i
    BY <1>3, <1>8
  <2> QED
    BY <1>3, <1>5, <1>7, <1>8, <1>10, <2>1
<1>9. CASE j > i
  <2>1. /\ j - i \in 1..n - i + 1 /\ i + (j - i) - 1 = j - 1
        /\ ~(j <= i) /\ ~(j < i) /\ j # i
    BY <1>3, <1>9
  <2>2. b[j - i] = s[j - 1]
    BY <1>1, <2>1
  <2> QED
    BY <1>7, <1>10, <2>1, <2>2
<1> QED
  BY <1>3, <1>8, <1>9

\* The elements after a removal.
LEMMA RemoveAtElements ==
  ASSUME NEW S, NEW s \in Seq(S), NEW i \in 1..Len(s), NEW j \in 1..Len(s) - 1
  PROVE  RemoveAt(s, i)[j] = IF j < i THEN s[j] ELSE s[j + 1]
<1> DEFINE a == SubSeq(s, 1, i - 1)
           b == SubSeq(s, i + 1, Len(s))
           n == Len(s)
<1>1. /\ a \in Seq(S) /\ Len(a) = i - 1 /\ \A p \in 1..i - 1 : a[p] = s[p]
      /\ b \in Seq(S) /\ Len(b) = n - i /\ \A p \in 1..n - i : b[p] = s[i + 1 + p - 1]
  BY SubSeqProperties
<1>2. RemoveAt(s, i) = a \o b
  BY DEF RemoveAt
<1>3. n \in Nat /\ i \in 1..n /\ j \in 1..n - 1
  OBVIOUS
<1> HIDE DEF a, b, n
<1>4. \A p \in 1..Len(a) + Len(b) : (a \o b)[p] = IF p <= Len(a) THEN a[p] ELSE b[p - Len(a)]
  BY <1>1, ConcatProperties
<1>5. (a \o b)[j] = IF j <= i - 1 THEN a[j] ELSE b[j - (i - 1)]
  <2>1. Len(a) + Len(b) = n - 1 /\ Len(a) = i - 1
    BY <1>1, <1>3
  <2> QED
    BY <1>3, <1>4, <2>1
<1>6. CASE j < i
  <2>1. j \in 1..i - 1 /\ j <= i - 1
    BY <1>3, <1>6
  <2> QED
    BY <1>1, <1>2, <1>5, <1>6, <2>1
<1>7. CASE j >= i
  <2>1. /\ j - (i - 1) \in 1..n - i /\ i + 1 + (j - (i - 1)) - 1 = j + 1
        /\ ~(j <= i - 1) /\ ~(j < i)
    BY <1>3, <1>7
  <2> QED
    BY <1>1, <1>2, <1>5, <2>1
<1> QED
  BY <1>3, <1>6, <1>7

----------------------------------------------------------------------------
(* New groups and columns *)

\* A group comes in below the active one.
LEMMA GrowActiveColumnSound ==
  ASSUME NEW m, IsSound(m)
  PROVE  Becomes(m, GrowActiveColumn(m), MonitorWindows(m))
<1> DEFINE G == SoundGroups
           c == m.active_column
           col == m.columns[c]
           at == col.active_row + 1
           groups == InsertAt(col.groups, at, EmptyGroup)
           grown == [col EXCEPT !.groups = groups]
           new == ScrollColumn(grown, 1)
           k == SetColumn(m, c, new)
<1>1. /\ m \in Shaped(G) /\ c \in 1..Len(m.columns) /\ col \in ColumnOver(G)
      /\ EmptyGroup \in G
  BY ElementOfSeq, EmptyGroupIsSound DEF IsSound, Shaped
<1>2. GrowActiveColumn(m) = k
  BY DEF GrowActiveColumn
<1> HIDE DEF col, c, G
<1>3. /\ col \in [active_row : Nat, groups : Seq(G)]
      /\ at \in 1..Len(col.groups) + 1
      /\ Len(col.groups) \in Nat /\ col.groups \in Seq(G)
  BY <1>1 DEF ColumnOver
<1> HIDE DEF at
<1> DEFINE n == Len(col.groups)
<1>4. /\ groups \in Seq(G) /\ Len(groups) = n + 1
      /\ \A j \in 1..n + 1 : groups[j] = IF j < at THEN col.groups[j]
                                         ELSE IF j = at THEN EmptyGroup ELSE col.groups[j - 1]
  <2>1. groups \in Seq(G) /\ Len(groups) = n + 1
    BY <1>1, <1>3, InsertAtType
  <2>2. ASSUME NEW j \in 1..n + 1
        PROVE  groups[j] = IF j < at THEN col.groups[j]
                           ELSE IF j = at THEN EmptyGroup ELSE col.groups[j - 1]
    BY <1>1, <1>3, <2>2, InsertAtElements
  <2> QED
    BY <2>1, <2>2
<1> HIDE DEF groups
<1>5. grown \in [active_row : Nat, groups : Seq(G)] /\ grown.groups = groups
  BY <1>3, <1>4
<1> HIDE DEF grown
<1>6. grown.groups # <<>>
  BY <1>3, <1>4, <1>5
<1>7. new \in ColumnOver(G) /\ new.groups = groups
  BY <1>5, <1>6, ScrollColumnShape
<1> HIDE DEF new
<1>8. /\ k \in Shaped(G) /\ Len(k.columns) = Len(m.columns)
      /\ k.visible_columns = m.visible_columns
      /\ \A i \in 1..Len(m.columns) : k.columns[i] = IF i = c THEN new ELSE m.columns[i]
  BY <1>1, <1>7, SetColumnShape
<1> HIDE DEF k
<1>9. /\ n \in Nat /\ n = Len(m.columns[c].groups) /\ at \in 1..n + 1
      /\ \A j \in 1..n + 1 : k.columns[c].groups[j] =
           IF j < at THEN m.columns[c].groups[j]
           ELSE IF j = at THEN EmptyGroup ELSE m.columns[c].groups[j - 1]
      /\ Len(k.columns[c].groups) = n + 1
  BY <1>1, <1>3, <1>4, <1>7, <1>8 DEF col
<1> HIDE DEF n
<1> DEFINE From(s) == IF s[1] = c /\ s[2] > at THEN <<s[1], s[2] - 1>> ELSE s
<1>10. IsShaped(m) /\ IsShaped(k)
  BY <1>1, <1>8 DEF IsShaped
<1>11. \A s \in Slots(m) : s = <<s[1], s[2]>> /\ s[1] \in 1..Len(m.columns)
                           /\ s[2] \in 1..Len(m.columns[s[1]].groups)
  BY <1>10, ShapeFacts
<1>12. \A s \in Slots(k) : s = <<s[1], s[2]>> /\ s[1] \in 1..Len(m.columns)
                           /\ s[2] \in 1..Len(k.columns[s[1]].groups)
  BY <1>8, <1>10, ShapeFacts
<1>13. \A i \in 1..Len(m.columns) : i # c => k.columns[i] = m.columns[i]
  BY <1>8
<1>14. ASSUME NEW s \in Slots(k), s # <<c, at>>
       PROVE  From(s) \in Slots(m) /\ GroupAt(k, s) = GroupAt(m, From(s))
  <2>1. CASE s[1] # c
    <3>1. s[2] \in 1..Len(m.columns[s[1]].groups)
      BY <1>12, <1>13, <2>1
    <3>2. s \in Slots(m)
      BY <1>12, <3>1, IndicesSlot
    <3> QED
      BY <1>12, <1>13, <2>1, <3>2 DEF GroupAt
  <2>2. CASE s[1] = c /\ s[2] < at
    <3>1. s[2] \in 1..n /\ ~(s[2] > at) /\ s[2] \in 1..n + 1
      BY <1>9, <1>12, <2>2
    <3>2. s \in Slots(m)
      BY <1>9, <1>12, <2>2, <3>1, IndicesSlot
    <3> QED
      BY <1>9, <2>2, <3>1, <3>2 DEF GroupAt
  <2>3. CASE s[1] = c /\ s[2] > at
    <3>1. s[2] - 1 \in 1..n /\ s[2] \in 1..n + 1 /\ ~(s[2] < at) /\ s[2] # at
      BY <1>9, <1>12, <2>3
    <3>2. <<s[1], s[2] - 1>> \in Slots(m)
      BY <1>9, <1>12, <2>3, <3>1, IndicesSlot
    <3>3. <<s[1], s[2] - 1>>[1] = s[1] /\ <<s[1], s[2] - 1>>[2] = s[2] - 1
      OBVIOUS
    <3> QED
      BY <1>9, <2>3, <3>1, <3>2, <3>3 DEF GroupAt
  <2>4. s[1] = c => s[2] < at \/ s[2] > at
    <3>1. s[1] = c => s[2] # at
      BY <1>12, <1>14
    <3>2. s[1] = c => s[2] \in 1..n + 1
      BY <1>9, <1>12
    <3> QED
      BY <1>9, <3>1, <3>2
  <2> QED
    BY <2>1, <2>2, <2>3, <2>4
<1>15. \A s \in Slots(k) : s = <<c, at>> => GroupAt(k, s) = EmptyGroup
  <2>1. ~(at < at) /\ at \in 1..n + 1
    BY <1>9
  <2>2. k.columns[c].groups[at] = EmptyGroup
    BY <1>9, <2>1
  <2> QED
    BY <2>2 DEF GroupAt
<1>16. ASSUME NEW s \in Slots(k), NEW t \in Slots(k), s # t, s # <<c, at>>, t # <<c, at>>
       PROVE  From(s) # From(t)
  <2>1. s[1] # t[1] \/ s[2] # t[2]
    BY <1>12, <1>16
  <2>2. /\ s[1] = c => s[2] # at /\ s[2] \in 1..n + 1
        /\ t[1] = c => t[2] # at /\ t[2] \in 1..n + 1
    BY <1>9, <1>12, <1>16
  <2>3. From(s)[1] = s[1] /\ From(t)[1] = t[1]
    OBVIOUS
  <2>4. CASE s[1] = c /\ t[1] = c
    <3>1. /\ From(s)[2] = IF s[2] > at THEN s[2] - 1 ELSE s[2]
          /\ From(t)[2] = IF t[2] > at THEN t[2] - 1 ELSE t[2]
      BY <2>4
    <3> HIDE DEF From
    <3>2. From(s)[2] # From(t)[2]
      BY <1>9, <2>1, <2>2, <2>4, <3>1
    <3> QED
      BY <3>2
  <2>5. CASE s[1] # t[1]
    BY <2>3, <2>5
  <2>6. CASE s[1] = t[1] /\ s[1] # c
    BY <2>6, <1>16
  <2> QED
    BY <2>4, <2>5, <2>6
<1>17. ASSUME NEW u \in Slots(m)
       PROVE  \E s \in Slots(k) : GroupAt(k, s) = GroupAt(m, u)
  <2>1. CASE u[1] # c
    <3>1. u \in Slots(k)
      BY <1>8, <1>11, <1>13, <2>1, IndicesSlot
    <3> QED
      BY <1>11, <1>13, <2>1, <3>1 DEF GroupAt
  <2>2. CASE u[1] = c /\ u[2] < at
    <3>1. u[2] \in 1..n + 1
      BY <1>9, <1>11, <2>2
    <3>2. u \in Slots(k)
      BY <1>8, <1>9, <1>11, <2>2, <3>1, IndicesSlot
    <3> QED
      BY <1>9, <2>2, <3>1, <3>2 DEF GroupAt
  <2>3. CASE u[1] = c /\ ~(u[2] < at)
    <3> DEFINE s == <<c, u[2] + 1>>
    <3>1. u[2] \in 1..n
      BY <1>9, <1>11, <2>3
    <3>2. /\ u[2] + 1 \in 1..n + 1 /\ ~(u[2] + 1 < at) /\ u[2] + 1 # at
          /\ (u[2] + 1) - 1 = u[2]
      BY <1>9, <2>3, <3>1
    <3>3. s \in Slots(k)
      BY <1>8, <1>1, <1>9, <3>2, IndicesSlot
    <3>4. GroupAt(k, s) = GroupAt(m, u)
      BY <1>9, <2>3, <3>2 DEF GroupAt
    <3> QED
      BY <3>3, <3>4
  <2> QED
    BY <2>1, <2>2, <2>3
<1> HIDE DEF From
<1>18. Regroups(m, k)
  BY <1>10, <1>14, <1>15, <1>16, <1>17 DEF Regroups
<1>19. Becomes(m, k, MonitorWindows(m))
  BY <1>8, <1>18, RegroupsSound DEF Becomes
<1> QED
  BY <1>2, <1>19

\* An empty column comes in.
LEMMA GrowColumnsSound ==
  ASSUME NEW m, IsSound(m), NEW at \in 1..Len(m.columns) + 1
  PROVE  LET k == GrowColumns(m, at)
         IN  /\ IsSound(k) /\ MonitorWindows(k) = MonitorWindows(m)
             /\ Len(k.columns) = Len(m.columns) + 1
             /\ k.visible_columns = m.visible_columns
             /\ k.columns[at] = NewColumn
<1> DEFINE G == SoundGroups
           n == Len(m.columns)
           k == GrowColumns(m, at)
           columns == InsertAt(m.columns, at, NewColumn)
<1>1. /\ m \in [visible_columns : Nat, active_column : Nat, columns : Seq(ColumnOver(G))]
      /\ n \in Nat /\ n # 0 /\ m.columns \in Seq(ColumnOver(G))
  BY DEF IsSound, Shaped
<1>2. NewColumn \in ColumnOver(G) /\ NewColumn.groups = <<EmptyGroup>>
  <2>1. <<EmptyGroup>> \in Seq(G) /\ Len(<<EmptyGroup>>) = 1
    BY EmptyGroupIsSound
  <2> QED
    BY <2>1 DEF NewColumn, ColumnOver
<1>3. at \in 1..n + 1 /\ Min2(at, n + 1) = at
  BY <1>1 DEF Min2
<1>4. k = [m EXCEPT !.columns = columns]
  BY <1>3 DEF GrowColumns
<1>5. IsShaped(k) /\ IsShaped(m)
  <2>1. at \in Nat \ {0}
    BY <1>1, <1>3
  <2> QED
    BY <2>1, SoundFacts, GrowColumnsShape
<1>6. /\ columns \in Seq(ColumnOver(G)) /\ Len(columns) = n + 1
      /\ \A j \in 1..n + 1 : columns[j] = IF j < at THEN m.columns[j]
                                          ELSE IF j = at THEN NewColumn ELSE m.columns[j - 1]
  <2>1. columns \in Seq(ColumnOver(G)) /\ Len(columns) = n + 1
    BY <1>1, <1>2, InsertAtType
  <2>2. ASSUME NEW j \in 1..n + 1
        PROVE  columns[j] = IF j < at THEN m.columns[j]
                            ELSE IF j = at THEN NewColumn ELSE m.columns[j - 1]
    BY <1>1, <1>2, <2>2, InsertAtElements
  <2> QED
    BY <2>1, <2>2
<1>7. k.columns = columns /\ k.visible_columns = m.visible_columns
  BY <1>1, <1>4
<1> HIDE DEF k, columns, G, n
<1> DEFINE From(s) == IF s[1] > at THEN <<s[1] - 1, s[2]>> ELSE s
<1>8. \A s \in Slots(m) : s = <<s[1], s[2]>> /\ s[1] \in 1..n
                          /\ s[2] \in 1..Len(m.columns[s[1]].groups)
  BY <1>5, ShapeFacts DEF n
<1>9. \A s \in Slots(k) : s = <<s[1], s[2]>> /\ s[1] \in 1..n + 1
                          /\ s[2] \in 1..Len(k.columns[s[1]].groups)
  BY <1>5, <1>6, <1>7, ShapeFacts
<1>10. \A j \in 1..n + 1 : k.columns[j] = IF j < at THEN m.columns[j]
                                          ELSE IF j = at THEN NewColumn ELSE m.columns[j - 1]
  BY <1>6, <1>7
<1>11. ASSUME NEW s \in Slots(k), s[1] # at
       PROVE  From(s) \in Slots(m) /\ GroupAt(k, s) = GroupAt(m, From(s))
  <2>1. s[1] \in 1..n + 1
    BY <1>9
  <2>2. CASE s[1] < at
    <3>1. s[1] \in 1..n /\ k.columns[s[1]] = m.columns[s[1]] /\ ~(s[1] > at)
      BY <1>1, <1>3, <1>10, <2>1, <2>2
    <3>2. s \in Slots(m)
      BY <1>9, <3>1, IndicesSlot DEF n
    <3> QED
      BY <3>1, <3>2 DEF GroupAt
  <2>3. CASE s[1] > at
    <3>1. s[1] - 1 \in 1..n /\ ~(s[1] < at)
      BY <1>1, <1>3, <2>1, <2>3
    <3>2. k.columns[s[1]] = m.columns[s[1] - 1]
      BY <1>10, <1>11, <2>1, <3>1
    <3>3. <<s[1] - 1, s[2]>> \in Slots(m)
      BY <1>9, <3>1, <3>2, IndicesSlot DEF n
    <3>4. <<s[1] - 1, s[2]>>[1] = s[1] - 1 /\ <<s[1] - 1, s[2]>>[2] = s[2]
      OBVIOUS
    <3> QED
      BY <2>3, <3>2, <3>3, <3>4 DEF GroupAt
  <2>4. s[1] < at \/ s[1] > at
    BY <1>1, <1>3, <1>11, <2>1
  <2> QED
    BY <2>2, <2>3, <2>4
<1>12. ASSUME NEW s \in Slots(k), s[1] = at PROVE GroupAt(k, s) = EmptyGroup
  <2>1. ~(at < at)
    BY <1>1, <1>3
  <2>2. k.columns[s[1]] = NewColumn
    BY <1>3, <1>10, <1>12, <2>1
  <2>3. s[2] \in 1..Len(<<EmptyGroup>>)
    BY <1>2, <1>9, <2>2
  <2>4. s[2] = 1
    BY <2>3
  <2> QED
    BY <1>2, <2>2, <2>4 DEF GroupAt
<1>13. ASSUME NEW s \in Slots(k), NEW t \in Slots(k), s # t, s[1] # at, t[1] # at
       PROVE  From(s) # From(t)
  <2>1. s[1] # t[1] \/ s[2] # t[2]
    BY <1>9, <1>13
  <2>2. From(s)[2] = s[2] /\ From(t)[2] = t[2]
    OBVIOUS
  <2>3. /\ From(s)[1] = IF s[1] > at THEN s[1] - 1 ELSE s[1]
        /\ From(t)[1] = IF t[1] > at THEN t[1] - 1 ELSE t[1]
    OBVIOUS
  <2>4. s[1] \in 1..n + 1 /\ t[1] \in 1..n + 1
    BY <1>9
  <2> HIDE DEF From
  <2>5. s[1] # t[1] => From(s)[1] # From(t)[1]
    BY <1>1, <1>3, <1>13, <2>3, <2>4
  <2> QED
    BY <2>1, <2>2, <2>5
<1>14. ASSUME NEW u \in Slots(m)
       PROVE  \E s \in Slots(k) : GroupAt(k, s) = GroupAt(m, u)
  <2>1. CASE u[1] < at
    <3>1. u[1] \in 1..n + 1 /\ k.columns[u[1]] = m.columns[u[1]]
      BY <1>1, <1>8, <1>10, <2>1
    <3>2. u \in Slots(k)
      BY <1>6, <1>7, <1>8, <3>1, IndicesSlot
    <3> QED
      BY <3>1, <3>2 DEF GroupAt
  <2>2. CASE ~(u[1] < at)
    <3> DEFINE s == <<u[1] + 1, u[2]>>
    <3>1. /\ u[1] + 1 \in 1..n + 1 /\ ~(u[1] + 1 < at) /\ u[1] + 1 # at
          /\ (u[1] + 1) - 1 = u[1]
      BY <1>1, <1>3, <1>8, <2>2
    <3>2. k.columns[u[1] + 1] = m.columns[u[1]]
      BY <1>10, <3>1
    <3>3. s \in Slots(k)
      BY <1>6, <1>7, <1>8, <3>1, <3>2, IndicesSlot
    <3>4. GroupAt(k, s) = GroupAt(m, u)
      BY <3>2 DEF GroupAt
    <3> QED
      BY <3>3, <3>4
  <2> QED
    BY <2>1, <2>2
<1> HIDE DEF From
<1>15. Regroups(m, k)
  BY <1>5, <1>11, <1>12, <1>13, <1>14 DEF Regroups
<1>16. IsSound(k) /\ MonitorWindows(k) = MonitorWindows(m)
  BY <1>15, RegroupsSound
<1>17. k.columns[at] = NewColumn
  <2>1. ~(at < at)
    BY <1>1, <1>3
  <2> QED
    BY <1>3, <1>10, <2>1
<1> QED
  BY <1>6, <1>7, <1>16, <1>17 DEF k, n

----------------------------------------------------------------------------
(* A window in a column of its own *)

\* A window moves to a column of its own; with every column in the band the
\* cursor follows it there.
LEMMA MoveWindowToNewColumnSound ==
  ASSUME NEW m, IsSound(m), NEW w \in MonitorWindows(m), NEW to_left \in BOOLEAN
  PROVE  LET k == MoveWindowToNewColumn(m, w, to_left)
         IN  /\ Becomes(m, k, MonitorWindows(m))
             /\ m.active_column <= m.visible_columns =>
                  w \in GroupWindows(GroupAt(k, ActiveSlot(k)))
<1> DEFINE d     == RemoveWindow(m, w)
           index == IF to_left THEN m.active_column ELSE m.active_column + 1
           grown == GrowColumns(d, index)
           at    == Min2(index, Len(grown.columns))
           g     == GroupAdd(EmptyGroup, w, NoWindow)
           moved == SetGroupAt(grown, <<at, 1>>, g)
           there == [moved EXCEPT !.active_column = at]
           k     == IncrementVisibleColumns(there, 1)
           n     == Len(m.columns)
<1>1. MoveWindowToNewColumn(m, w, to_left) = k
  BY DEF MoveWindowToNewColumn
<1>2. /\ index \in 1..n + 1 /\ n \in Nat /\ m.visible_columns \in 1..n
      /\ m.active_column \in 1..n /\ index <= m.active_column + 1
  BY SoundFacts, ShapeFacts
<1>3. /\ IsSound(d) /\ MonitorWindows(d) = MonitorWindows(m) \ {w}
      /\ Len(d.columns) = n /\ d.visible_columns = m.visible_columns
  <2>1. IsSound(d) /\ MonitorWindows(d) = MonitorWindows(m) \ {w}
    BY RemoveWindowSound DEF Becomes
  <2>2. Len(d.columns) = n
    BY SoundFacts, RemoveWindowShape
  <2>3. d.visible_columns = m.visible_columns
    BY SoundFacts, LocateSlot, SetGroupAtIsShaped DEF RemoveWindow
  <2> QED
    BY <2>1, <2>2, <2>3
<1> HIDE DEF d, index, n
<1>4. /\ IsSound(grown) /\ MonitorWindows(grown) = MonitorWindows(m) \ {w}
      /\ Len(grown.columns) = n + 1 /\ grown.visible_columns = m.visible_columns
      /\ grown.columns[index] = NewColumn
  BY <1>2, <1>3, GrowColumnsSound
<1> HIDE DEF grown
<1>5. at = index
  BY <1>2, <1>4 DEF Min2
<1> HIDE DEF at
<1> DEFINE s == <<at, 1>>
<1>6. s \in Slots(grown) /\ GroupAt(grown, s) = EmptyGroup
  <2>1. grown.columns[at].groups = <<EmptyGroup>> /\ 1 \in 1..Len(<<EmptyGroup>>)
    BY <1>4, <1>5 DEF NewColumn
  <2>2. at \in 1..Len(grown.columns)
    BY <1>2, <1>4, <1>5
  <2> QED
    BY <2>1, <2>2, IndicesSlot DEF GroupAt
<1>7. g \in SoundGroups /\ GroupWindows(g) = {w}
  <2>1. w \in Nat
    BY SoundFacts
  <2> QED
    BY <2>1, EmptyGroupIsSound, GroupAddSound
<1> HIDE DEF g
<1>8. IsSound(moved) /\ MonitorWindows(moved) = MonitorWindows(m)
  <2>1. GroupWindows(GroupAt(grown, s)) = {}
    BY <1>6, EmptyGroupIsSound
  <2>2. Becomes(grown, moved, (MonitorWindows(grown) \ {}) \cup {w})
    BY <1>4, <1>6, <1>7, <2>1, SetGroupAtSound
  <2> QED
    BY <1>4, <2>2 DEF Becomes
<1>9. /\ Slots(moved) = Slots(grown) /\ Len(moved.columns) = n + 1
      /\ moved.visible_columns = m.visible_columns
      /\ \A c \in 1..n + 1 : moved.columns[c].active_row = grown.columns[c].active_row
  BY <1>4, <1>6, <1>7, SetGroupAtShape DEF IsSound
<1>10. GroupAt(moved, s) = g
  BY <1>4, <1>6, SoundFacts, SetGroupAtGroup
<1>11. moved.columns[at].active_row = 1 /\ at \in 1..n + 1
  BY <1>2, <1>4, <1>5, <1>9 DEF NewColumn
<1> HIDE DEF moved
<1>12. /\ IsShaped(there) /\ there.columns = moved.columns
       /\ there.visible_columns = m.visible_columns
       /\ there.active_column = at
  <2>1. moved \in Shaped(SoundGroups)
    BY <1>8 DEF IsSound
  <2>2. /\ there \in Shaped(SoundGroups)
        /\ there.columns = moved.columns
    BY <1>9, <1>11, <2>1, SetActiveColumnShape
  <2>3. there.visible_columns = moved.visible_columns /\ there.active_column = at
    BY <2>1 DEF Shaped
  <2> QED
    BY <1>9, <2>2, <2>3 DEF IsShaped
<1> HIDE DEF there
<1>13. Becomes(moved, there, MonitorWindows(moved))
  BY <1>8, <1>9, <1>12, SameColumnsBecomes
<1>14. /\ IsSound(k) /\ MonitorWindows(k) = MonitorWindows(m)
       /\ k.columns = there.columns
  BY <1>8, <1>13, ChangeBandSound DEF Becomes
<1> DEFINE visible == Max2(1, Min2(there.visible_columns + 1, Max2(Len(there.columns), 1)))
<1>15. k.visible_columns = visible /\ k.active_column = Min2(there.active_column, visible)
  <2>1. there \in [visible_columns : Nat, active_column : Nat, columns : Seq(ColumnOver(SoundGroups))]
    BY <1>13 DEF Becomes, IsSound, Shaped
  <2> QED
    BY <2>1 DEF IncrementVisibleColumns
<1>16. visible = m.visible_columns + 1
  BY <1>2, <1>9, <1>12 DEF Max2, Min2, n
<1> HIDE DEF visible, k
<1>17. ASSUME m.active_column <= m.visible_columns PROVE ActiveSlot(k) = s
  <2>1. k.active_column = at
    BY <1>2, <1>5, <1>12, <1>15, <1>16, <1>17 DEF Min2
  <2> QED
    BY <1>11, <1>12, <1>14, <2>1 DEF ActiveSlot
<1>18. GroupAt(k, s) = g
  BY <1>10, <1>12, <1>14 DEF GroupAt
<1> QED
  BY <1>1, <1>7, <1>14, <1>17, <1>18 DEF Becomes

\* The empty active group goes, and its column with the last group.
LEMMA RemoveActiveGroupSound ==
  ASSUME NEW m, IsSound(m)
  PROVE  Becomes(m, RemoveActiveGroup(m), MonitorWindows(m))
<1> DEFINE G    == SoundGroups
           c    == m.active_column
           n    == Len(m.columns)
           col  == m.columns[c]
           left == RemoveAt(col.groups, col.active_row)
           without == [m EXCEPT !.columns = RemoveAt(m.columns, c)]
           shrunk == [active_row |-> Min2(col.active_row, Len(left)), groups |-> left]
<1>1. /\ m \in [visible_columns : Nat, active_column : Nat, columns : Seq(ColumnOver(G))]
      /\ m \in Shaped(G)
      /\ c \in 1..n /\ col \in ColumnOver(G)
      /\ n \in Nat /\ m.visible_columns \in 1..n /\ m.columns \in Seq(ColumnOver(G))
  BY ElementOfSeq DEF IsSound, Shaped
<1>2. \A s \in Slots(m) : s = <<s[1], s[2]>> /\ s[1] \in 1..n
                          /\ s[2] \in 1..Len(m.columns[s[1]].groups)
  BY SoundFacts, ShapeFacts
<1>3. CASE ~CanRemoveActiveGroup(m)
  BY <1>3 DEF RemoveActiveGroup, Becomes
<1>4. ASSUME CanRemoveActiveGroup(m) PROVE Becomes(m, RemoveActiveGroup(m), MonitorWindows(m))
  <2>1. /\ ~(n = 1 /\ Len(col.groups) = 1)
        /\ GroupAt(m, ActiveSlot(m)) = EmptyGroup
    <3>1. GroupAt(m, ActiveSlot(m)) \in SoundGroups
      BY SoundFacts, ShapeFacts
    <3> QED
      BY <1>4, <3>1, GroupFacts DEF CanRemoveActiveGroup
  <2>2. RemoveActiveGroup(m) = IncrementVisibleColumns(
          IF left = <<>> THEN without ELSE SetColumn(m, c, shrunk), 0)
    BY <1>4 DEF RemoveActiveGroup
  <2> DEFINE r == col.active_row
             q == Len(col.groups)
  <2>3. /\ col \in [active_row : Nat, groups : Seq(G)] /\ r \in 1..q
        /\ q \in Nat /\ col.groups \in Seq(G)
    BY <1>1 DEF ColumnOver
  <2>4. left \in Seq(G) /\ Len(left) = q - 1
    BY <2>3, RemoveAtType
  <2>5. \A j \in 1..q - 1 : left[j] = IF j < r THEN col.groups[j] ELSE col.groups[j + 1]
    BY <2>3, RemoveAtElements
  <2>6. ActiveSlot(m) = <<c, r>>
    BY DEF ActiveSlot
  <2> HIDE DEF G, left
  <2>7. CASE left = <<>>
    <3> DEFINE k == IncrementVisibleColumns(without, 0)
               rest == RemoveAt(m.columns, c)
    <3>1. n # 1 /\ q = 1 /\ r = 1
      <4>1. Len(left) = 0
        BY <2>7
      <4>2. ~(n = 1 /\ q = 1) /\ q - 1 = 0 /\ q \in Nat /\ r \in 1..q
        BY <2>1, <2>3, <2>4, <4>1
      <4> HIDE DEF n, q, r
      <4> QED
        BY <4>2
    <3>2. rest \in Seq(ColumnOver(G)) /\ Len(rest) = n - 1
      BY <1>1, RemoveAtType
    <3>3. \A j \in 1..n - 1 : rest[j] = IF j < c THEN m.columns[j] ELSE m.columns[j + 1]
      BY <1>1, RemoveAtElements
    <3> HIDE DEF rest
    <3>4. IsShaped(k)
      BY <1>4, <2>2, <2>7, SoundFacts, RemoveActiveGroupShape
    <3>5. /\ k.columns = rest
          /\ k.visible_columns = Max2(1, Min2(m.visible_columns + 0, Max2(Len(rest), 1)))
      BY <1>1 DEF IncrementVisibleColumns, rest
    <3> HIDE DEF k
    <3> HIDE DEF col, c, n
    <3> DEFINE From(s) == IF s[1] < c THEN s ELSE <<s[1] + 1, s[2]>>
    <3>7. \A s \in Slots(k) : s = <<s[1], s[2]>> /\ s[1] \in 1..n - 1
                              /\ s[2] \in 1..Len(k.columns[s[1]].groups)
      BY <3>2, <3>4, <3>5, ShapeFacts
    <3>8. \A j \in 1..n - 1 : k.columns[j] = IF j < c THEN m.columns[j] ELSE m.columns[j + 1]
      BY <3>3, <3>5
    <3>9. ASSUME NEW s \in Slots(k)
          PROVE  From(s) \in Slots(m) /\ GroupAt(k, s) = GroupAt(m, From(s))
      <4>1. CASE s[1] < c
        <5>1. s[1] \in 1..n /\ k.columns[s[1]] = m.columns[s[1]]
          BY <1>1, <3>7, <3>8, <4>1
        <5>2. s \in Slots(m)
          BY <3>7, <5>1, IndicesSlot DEF n
        <5> QED
          BY <4>1, <5>1, <5>2 DEF GroupAt
      <4>2. CASE ~(s[1] < c)
        <5>1. s[1] + 1 \in 1..n /\ k.columns[s[1]] = m.columns[s[1] + 1]
          BY <1>1, <3>7, <3>8, <4>2
        <5>2. <<s[1] + 1, s[2]>> \in Slots(m)
          BY <3>7, <5>1, IndicesSlot DEF n
        <5>3. <<s[1] + 1, s[2]>>[1] = s[1] + 1 /\ <<s[1] + 1, s[2]>>[2] = s[2]
          OBVIOUS
        <5> QED
          BY <4>2, <5>1, <5>2, <5>3 DEF GroupAt
      <4> QED
        BY <4>1, <4>2
    <3>10. ASSUME NEW s \in Slots(k), NEW t \in Slots(k), s # t PROVE From(s) # From(t)
      <4>1. s[1] # t[1] \/ s[2] # t[2]
        BY <3>7, <3>10
      <4>2. From(s)[2] = s[2] /\ From(t)[2] = t[2]
        OBVIOUS
      <4>3. /\ From(s)[1] = IF s[1] < c THEN s[1] ELSE s[1] + 1
            /\ From(t)[1] = IF t[1] < c THEN t[1] ELSE t[1] + 1
        OBVIOUS
      <4>4. s[1] \in 1..n - 1 /\ t[1] \in 1..n - 1
        BY <3>7
      <4> HIDE DEF From
      <4>5. s[1] # t[1] => From(s)[1] # From(t)[1]
        BY <1>1, <4>3, <4>4
      <4> QED
        BY <4>1, <4>2, <4>5
    <3>11. ASSUME NEW u \in Slots(m), GroupAt(m, u) # EmptyGroup
           PROVE  \E s \in Slots(k) : GroupAt(k, s) = GroupAt(m, u)
      <4>1. u[1] # c
        <5>1. u[1] = c => u = <<c, r>>
          <6>1. u[1] = c => u[2] \in 1..q
            BY <1>2 DEF col
          <6> QED
            BY <1>2, <3>1, <6>1
        <5> QED
          BY <2>1, <2>6, <3>11, <5>1
      <4>2. CASE u[1] < c
        <5>1. u[1] \in 1..n - 1 /\ k.columns[u[1]] = m.columns[u[1]]
          BY <1>1, <1>2, <3>8, <4>2
        <5>2. u \in Slots(k)
          BY <1>2, <3>2, <3>5, <5>1, IndicesSlot
        <5> QED
          BY <5>1, <5>2 DEF GroupAt
      <4>3. CASE u[1] > c
        <5> DEFINE s == <<u[1] - 1, u[2]>>
        <5>1. u[1] - 1 \in 1..n - 1 /\ ~(u[1] - 1 < c) /\ (u[1] - 1) + 1 = u[1]
          BY <1>1, <1>2, <4>3
        <5>2. k.columns[u[1] - 1] = m.columns[u[1]]
          BY <3>8, <5>1
        <5>3. s \in Slots(k)
          BY <1>2, <3>2, <3>5, <5>1, <5>2, IndicesSlot
        <5>4. GroupAt(k, s) = GroupAt(m, u)
          BY <5>2 DEF GroupAt
        <5> QED
          BY <5>3, <5>4
      <4> QED
        BY <1>1, <1>2, <4>1, <4>2, <4>3
    <3> HIDE DEF From
    <3>12. Regroups(m, k)
      BY <3>4, <3>9, <3>10, <3>11 DEF Regroups
    <3>13. Becomes(m, k, MonitorWindows(m))
      BY <3>12, RegroupsSound DEF Becomes
    <3> QED
      BY <2>2, <2>7, <3>13 DEF k
  <2>8. CASE left # <<>>
    <3> DEFINE l == SetColumn(m, c, shrunk)
               k == IncrementVisibleColumns(l, 0)
    <3>1. Len(left) \in Nat \ {0}
      BY <2>4, <2>8, EmptySeq
    <3>2. Min2(col.active_row, Len(left)) \in 1..Len(left)
      BY <2>3, <3>1 DEF Min2
    <3>3. shrunk \in ColumnOver(G) /\ shrunk.groups = left
      BY <2>4, <3>2 DEF ColumnOver
    <3> HIDE DEF shrunk
    <3>4. /\ l \in Shaped(G) /\ Len(l.columns) = n /\ l.visible_columns = m.visible_columns
          /\ \A j \in 1..n : l.columns[j] = IF j = c THEN shrunk ELSE m.columns[j]
      BY <1>1, <3>3, SetColumnShape
    <3> HIDE DEF l
    <3>5. IsShaped(k)
      BY <3>4, ChangeBandShape DEF IsShaped
    <3>6. /\ k.columns = l.columns
          /\ k.visible_columns = Max2(1, Min2(l.visible_columns + 0, Max2(Len(l.columns), 1)))
      BY <3>4 DEF IncrementVisibleColumns, Shaped
    <3> HIDE DEF k
    <3>8. /\ k.columns[c].groups = left
          /\ \A j \in 1..n : j # c => k.columns[j] = m.columns[j]
      BY <1>1, <3>3, <3>4, <3>6
    <3>9. /\ Len(k.columns[c].groups) = q - 1 /\ Len(k.columns) = n
          /\ Len(m.columns[c].groups) = q
          /\ \A j \in 1..q - 1 : k.columns[c].groups[j] =
               IF j < r THEN m.columns[c].groups[j] ELSE m.columns[c].groups[j + 1]
      BY <2>4, <2>5, <3>4, <3>6, <3>8
    <3> HIDE DEF col, c, n, q, r
    <3> DEFINE From(s) == IF s[1] = c /\ s[2] >= r THEN <<s[1], s[2] + 1>> ELSE s
    <3>10. \A s \in Slots(k) : s = <<s[1], s[2]>> /\ s[1] \in 1..n
                               /\ s[2] \in 1..Len(k.columns[s[1]].groups)
      BY <3>5, <3>9, ShapeFacts
    <3>11. ASSUME NEW s \in Slots(k)
           PROVE  From(s) \in Slots(m) /\ GroupAt(k, s) = GroupAt(m, From(s))
      <4>1. CASE s[1] # c
        <5>1. s \in Slots(m)
          BY <3>8, <3>10, <4>1, IndicesSlot DEF n
        <5> QED
          BY <3>8, <3>10, <4>1, <5>1 DEF GroupAt
      <4>2. CASE s[1] = c /\ ~(s[2] >= r)
        <5>1. s[2] \in 1..q - 1 /\ s[2] \in 1..q /\ s[2] < r
          BY <2>3, <3>9, <3>10, <4>2
        <5>2. s \in Slots(m)
          BY <3>9, <3>10, <4>2, <5>1, IndicesSlot DEF n
        <5> QED
          BY <3>9, <4>2, <5>1, <5>2 DEF GroupAt
      <4>3. CASE s[1] = c /\ s[2] >= r
        <5>1. s[2] \in 1..q - 1 /\ s[2] + 1 \in 1..q /\ ~(s[2] < r)
          BY <2>3, <3>9, <3>10, <4>3
        <5>2. <<s[1], s[2] + 1>> \in Slots(m)
          BY <3>9, <3>10, <4>3, <5>1, IndicesSlot DEF n
        <5>3. <<s[1], s[2] + 1>>[1] = s[1] /\ <<s[1], s[2] + 1>>[2] = s[2] + 1
          OBVIOUS
        <5> QED
          BY <3>9, <4>3, <5>1, <5>2, <5>3 DEF GroupAt
      <4> QED
        BY <4>1, <4>2, <4>3
    <3>12. ASSUME NEW s \in Slots(k), NEW t \in Slots(k), s # t PROVE From(s) # From(t)
      <4>1. s[1] # t[1] \/ s[2] # t[2]
        BY <3>10, <3>12
      <4>2. From(s)[1] = s[1] /\ From(t)[1] = t[1]
        OBVIOUS
      <4>3. CASE s[1] = c /\ t[1] = c
        <5>1. s[2] \in 1..q - 1 /\ t[2] \in 1..q - 1
          BY <3>9, <3>10, <4>3
        <5>2. /\ From(s)[2] = IF s[2] >= r THEN s[2] + 1 ELSE s[2]
              /\ From(t)[2] = IF t[2] >= r THEN t[2] + 1 ELSE t[2]
          BY <4>3
        <5> HIDE DEF From
        <5>3. From(s)[2] # From(t)[2]
          BY <2>3, <4>1, <4>3, <5>1, <5>2
        <5> QED
          BY <5>3
      <4>4. CASE s[1] # t[1]
        BY <4>2, <4>4
      <4>5. CASE s[1] = t[1] /\ s[1] # c
        BY <4>5, <3>12
      <4> QED
        BY <4>3, <4>4, <4>5
    <3>13. ASSUME NEW u \in Slots(m), GroupAt(m, u) # EmptyGroup
           PROVE  \E s \in Slots(k) : GroupAt(k, s) = GroupAt(m, u)
      <4>1. CASE u[1] # c
        <5>1. u \in Slots(k)
          BY <1>2, <3>8, <3>9, <4>1, IndicesSlot
        <5> QED
          BY <1>2, <3>8, <4>1, <5>1 DEF GroupAt
      <4>2. CASE u[1] = c
        <5>1. u[2] \in 1..q /\ u[2] # r
          <6>1. u[2] \in 1..q
            BY <1>2, <3>9, <4>2
          <6>2. u[2] = r => u = <<c, r>>
            BY <1>2, <4>2
          <6> QED
            BY <2>1, <2>6, <3>13, <6>1, <6>2
        <5>2. CASE u[2] < r
          <6>1. u[2] \in 1..q - 1
            BY <2>3, <5>1, <5>2
          <6>2. u \in Slots(k)
            BY <1>1, <1>2, <3>9, <4>2, <6>1, IndicesSlot
          <6> QED
            BY <3>9, <4>2, <5>2, <6>1, <6>2 DEF GroupAt
        <5>3. CASE u[2] > r
          <6> DEFINE s == <<c, u[2] - 1>>
          <6>1. u[2] - 1 \in 1..q - 1 /\ ~(u[2] - 1 < r) /\ (u[2] - 1) + 1 = u[2]
            BY <2>3, <5>1, <5>3
          <6>2. s \in Slots(k)
            BY <1>1, <3>9, <6>1, IndicesSlot
          <6>3. GroupAt(k, s) = GroupAt(m, u)
            BY <3>9, <4>2, <6>1 DEF GroupAt
          <6> QED
            BY <6>2, <6>3
        <5>4. u[2] < r \/ u[2] > r
          BY <2>3, <5>1
        <5> QED
          BY <5>2, <5>3, <5>4
      <4> QED
        BY <4>1, <4>2
    <3> HIDE DEF From
    <3>14. Regroups(m, k)
      BY <3>5, <3>11, <3>12, <3>13 DEF Regroups
    <3>15. Becomes(m, k, MonitorWindows(m))
      BY <3>14, RegroupsSound DEF Becomes
    <3> QED
      BY <2>2, <2>8, <3>15 DEF k, l
  <2> QED
    BY <2>7, <2>8
<1> QED
  BY <1>3, <1>4

----------------------------------------------------------------------------
(* Rotation, and what is in view *)

\* A positive multiple is no smaller.
LEMMA MultipleGrows ==
  ASSUME NEW n \in Nat \ {0}, NEW d \in Int, d >= 1
  PROVE  n * d >= n
<1>1. n * (d - 1) >= 0 /\ n * d = n * (d - 1) + n
  OBVIOUS
<1> QED
  BY <1>1

\* The remainder is the one number of its range that is off by a multiple.
LEMMA ModUnique ==
  ASSUME NEW n \in Nat \ {0}, NEW q \in Int, NEW r \in 0..n - 1
  PROVE  (n * q + r) % n = r
<1> DEFINE a == n * q + r
           p == a \div n
           x == a % n
<1>1. a \in Int /\ p \in Int /\ x \in 0..n - 1 /\ a = n * p + x
  OBVIOUS
<1>2. n * (q - p) = x - r /\ n * (p - q) = r - x
  BY <1>1
<1>3. q - p \in Int /\ p - q \in Int
  BY <1>1
<1> HIDE DEF a, p, x
<1>4. q - p >= 1 => FALSE
  <2> HAVE q - p >= 1
  <2>1. n * (q - p) >= n
    BY <1>3, MultipleGrows
  <2> QED
    BY <1>1, <1>2, <2>1
<1>5. p - q >= 1 => FALSE
  <2> HAVE p - q >= 1
  <2>1. n * (p - q) >= n
    BY <1>3, MultipleGrows
  <2> QED
    BY <1>1, <1>2, <2>1
<1>6. q = p
  BY <1>1, <1>3, <1>4, <1>5
<1>7. x = r
  BY <1>1, <1>2, <1>6
<1> QED
  BY <1>7 DEF x, a

\* A step round the columns and the same step back.
LEMMA ThereAndBack ==
  ASSUME NEW n \in Nat \ {0}, NEW motion \in Int, NEW c \in 1..n
  PROVE  LET d == ((c - 1 + motion) % n) + 1
         IN  d \in 1..n /\ ((d - 1 - motion) % n) + 1 = c
<1> DEFINE a == c - 1 + motion
           p == a \div n
           x == a % n
<1>1. a \in Int /\ p \in Int /\ x \in 0..n - 1 /\ a = n * p + x
  OBVIOUS
<1> HIDE DEF p, x
<1>2. x - motion = n * (-p) + (c - 1)
  BY <1>1
<1>3. -p \in Int /\ c - 1 \in 0..n - 1
  BY <1>1
<1>4. (n * (-p) + (c - 1)) % n = c - 1
  BY <1>3, ModUnique
<1>5. (x + 1) - 1 - motion = x - motion
  BY <1>1
<1>6. (((x + 1) - 1 - motion) % n) + 1 = c
  BY <1>2, <1>4, <1>5
<1> QED
  BY <1>1, <1>6 DEF x

\* The column a rotation takes the active group of column c from.
RotatesFrom(n, motion, c) == ((c - 1 - motion) % n) + 1

\* A rotation takes every column's active group to one column.
LEMMA RotationIsBijective ==
  ASSUME NEW n \in Nat \ {0}, NEW motion \in Int
  PROVE  /\ \A c \in 1..n : RotatesFrom(n, motion, c) \in 1..n
         /\ \A c, d \in 1..n : RotatesFrom(n, motion, c) = RotatesFrom(n, motion, d) => c = d
         /\ \A d \in 1..n : \E c \in 1..n : RotatesFrom(n, motion, c) = d
<1> DEFINE To(c) == ((c - 1 + motion) % n) + 1
<1>1. \A c \in 1..n : To(c) \in 1..n /\ RotatesFrom(n, motion, To(c)) = c
  BY ThereAndBack DEF RotatesFrom
<1>2. \A c \in 1..n : /\ RotatesFrom(n, motion, c) \in 1..n
                      /\ To(RotatesFrom(n, motion, c)) = c
  <2> TAKE c \in 1..n
  <2> DEFINE b == -motion
  <2>1. b \in Int /\ c - 1 + b = c - 1 - motion
    OBVIOUS
  <2> HIDE DEF b
  <2>2. LET d == ((c - 1 + b) % n) + 1 IN d \in 1..n /\ ((d - 1 - b) % n) + 1 = c
    BY <2>1, ThereAndBack
  <2> DEFINE d == RotatesFrom(n, motion, c)
  <2>3. d = ((c - 1 + b) % n) + 1
    BY <2>1 DEF RotatesFrom
  <2> HIDE DEF d
  <2>4. d \in 1..n /\ ((d - 1 - b) % n) + 1 = c
    BY <2>2, <2>3
  <2>5. d - 1 - b = d - 1 + motion
    BY <2>4 DEF b
  <2> QED
    BY <2>4, <2>5 DEF d
<1> HIDE DEF To
<1> QED
  BY <1>1, <1>2

\* Rotation moves the active groups round and nothing else.
LEMMA RotateColumnsSound ==
  ASSUME NEW m, IsSound(m), NEW motion \in Int
  PROVE  LET k == RotateColumns(m, motion)
         IN  /\ Becomes(m, k, MonitorWindows(m))
             /\ Len(k.columns) = Len(m.columns)
<1> DEFINE G == SoundGroups
           n == Len(m.columns)
           seeded == [c \in 1..n |-> SeedEmpty(m.columns[c])]
           From(c) == ((c - 1 - motion) % n) + 1
           columns == [c \in 1..n |-> SetGroup(seeded[c], seeded[c].active_row,
                                               ActiveGroupOf(seeded[From(c)]))]
           k == RotateColumns(m, motion)
<1>1. /\ m \in [visible_columns : Nat, active_column : Nat, columns : Seq(ColumnOver(G))]
      /\ n \in Nat \ {0}
  BY DEF IsSound, Shaped
<1>2. \A c \in 1..n : seeded[c] = m.columns[c] /\ m.columns[c] \in ColumnOver(G)
  <2> TAKE c \in 1..n
  <2>1. m.columns[c] \in ColumnOver(G)
    BY <1>1, ElementOfSeq
  <2>2. m.columns[c].groups # <<>>
    BY <2>1 DEF ColumnOver
  <2> QED
    BY <2>1, <2>2 DEF SeedEmpty
<1>3. /\ \A c \in 1..n : From(c) \in 1..n
      /\ \A c, d \in 1..n : From(c) = From(d) => c = d
      /\ \A d \in 1..n : \E c \in 1..n : From(c) = d
  <2> DEFINE l == n
  <2>1. l \in Nat \ {0}
    BY <1>1
  <2> HIDE DEF l
  <2>2. /\ \A c \in 1..l : RotatesFrom(l, motion, c) \in 1..l
        /\ \A c, d \in 1..l : RotatesFrom(l, motion, c) = RotatesFrom(l, motion, d) => c = d
        /\ \A d \in 1..l : \E c \in 1..l : RotatesFrom(l, motion, c) = d
    BY <2>1, RotationIsBijective
  <2> QED
    BY <2>2 DEF l, RotatesFrom
<1>4. k = [m EXCEPT !.columns = columns \o <<>>]
  BY DEF RotateColumns
<1>5. IsShaped(k) /\ Len(k.columns) = n
  BY SoundFacts, RotateColumnsShape
<1> HIDE DEF seeded, From, k
<1>6. \A c \in 1..n : seeded[From(c)] = m.columns[From(c)]
  BY <1>2, <1>3
<1>7. \A c \in 1..n : columns[c] = SetGroup(m.columns[c], m.columns[c].active_row,
                                            ActiveGroupOf(m.columns[From(c)]))
  BY <1>2, <1>6
<1>8. columns \o <<>> = columns
  <2> DEFINE S == {columns[c] : c \in 1..n}
  <2>1. columns \in [1..n -> S]
    OBVIOUS
  <2> HIDE DEF S, columns
  <2>2. columns \in Seq(S)
    BY <1>1, <2>1, FunctionIsSeq
  <2> QED
    BY <2>2, ConcatEmptySeq
<1> HIDE DEF columns
<1>9. k.columns = columns /\ k.visible_columns = m.visible_columns
  BY <1>1, <1>4, <1>8
<1> DEFINE row(c) == m.columns[c].active_row
<1>10. ASSUME NEW c \in 1..n
       PROVE  /\ row(c) \in 1..Len(m.columns[c].groups)
              /\ Len(k.columns[c].groups) = Len(m.columns[c].groups)
              /\ \A r \in 1..Len(m.columns[c].groups) : k.columns[c].groups[r] =
                   IF r = row(c) THEN m.columns[From(c)].groups[row(From(c))]
                   ELSE m.columns[c].groups[r]
  <2> DEFINE col == m.columns[c]
             g == ActiveGroupOf(m.columns[From(c)])
  <2>1. col \in ColumnOver(G) /\ m.columns[From(c)] \in ColumnOver(G)
    BY <1>2, <1>3
  <2>2. g \in G /\ g = m.columns[From(c)].groups[row(From(c))]
    BY <2>1, ElementOfSeq DEF ColumnOver, ActiveGroupOf
  <2>3. k.columns[c] = SetGroup(col, col.active_row, g)
    BY <1>7, <1>9
  <2> HIDE DEF col, g
  <2>4. col \in [active_row : Nat, groups : Seq(G)] /\ col.active_row \in 1..Len(col.groups)
    BY <2>1 DEF ColumnOver
  <2>5. k.columns[c].groups = [col.groups EXCEPT ![col.active_row] = g]
    BY <2>3, <2>4 DEF SetGroup, ReplaceAt
  <2>6. /\ Len(k.columns[c].groups) = Len(col.groups)
        /\ \A r \in 1..Len(col.groups) :
             k.columns[c].groups[r] = IF r = col.active_row THEN g ELSE col.groups[r]
    <3> DEFINE gs == col.groups
               a == col.active_row
    <3>1. gs \in Seq(G) /\ a \in 1..Len(gs)
      BY <2>4
    <3> HIDE DEF gs, a
    <3>2. /\ Len([gs EXCEPT ![a] = g]) = Len(gs)
          /\ \A r \in 1..Len(gs) : [gs EXCEPT ![a] = g][r] = IF r = a THEN g ELSE gs[r]
      BY <2>2, <3>1, ExceptSeq
    <3> QED
      BY <2>5, <3>2 DEF gs, a
  <2> QED
    BY <2>2, <2>4, <2>6 DEF col
<1>11. Slots(k) = Slots(m)
  BY <1>5, <1>10, SameSlots
<1>12. \A s \in Slots(m) : s = <<s[1], s[2]>> /\ s[1] \in 1..n
                           /\ s[2] \in 1..Len(m.columns[s[1]].groups)
  BY SoundFacts, ShapeFacts
<1> DEFINE Source(s) == IF s[2] = row(s[1]) THEN <<From(s[1]), row(From(s[1]))>> ELSE s
<1>13. ASSUME NEW s \in Slots(m)
       PROVE  Source(s) \in Slots(m) /\ GroupAt(k, s) = GroupAt(m, Source(s))
  <2>1. CASE s[2] = row(s[1])
    <3>1. From(s[1]) \in 1..n /\ row(From(s[1])) \in 1..Len(m.columns[From(s[1])].groups)
      BY <1>3, <1>10, <1>12
    <3>2. <<From(s[1]), row(From(s[1]))>> \in Slots(m)
      BY <3>1, IndicesSlot
    <3>3. <<From(s[1]), row(From(s[1]))>>[1] = From(s[1])
          /\ <<From(s[1]), row(From(s[1]))>>[2] = row(From(s[1]))
      OBVIOUS
    <3>4. k.columns[s[1]].groups[s[2]] = m.columns[From(s[1])].groups[row(From(s[1]))]
      BY <1>10, <1>12, <2>1
    <3> QED
      BY <2>1, <3>2, <3>3, <3>4 DEF GroupAt
  <2>2. CASE s[2] # row(s[1])
    BY <1>10, <1>12, <2>2 DEF GroupAt
  <2> QED
    BY <2>1, <2>2
<1>14. ASSUME NEW s \in Slots(m), NEW t \in Slots(m), s # t PROVE Source(s) # Source(t)
  <2>1. s[1] # t[1] \/ s[2] # t[2]
    BY <1>12, <1>14
  <2>2. CASE s[2] = row(s[1]) /\ t[2] = row(t[1])
    <3>1. s[1] # t[1]
      BY <2>1, <2>2
    <3>2. From(s[1]) # From(t[1])
      BY <1>3, <1>12, <3>1
    <3> QED
      BY <2>2, <3>2
  <2>3. CASE s[2] = row(s[1]) /\ t[2] # row(t[1])
    BY <1>12, <2>3
  <2>4. CASE s[2] # row(s[1]) /\ t[2] = row(t[1])
    BY <1>12, <2>4
  <2>5. CASE s[2] # row(s[1]) /\ t[2] # row(t[1])
    BY <1>14, <2>5
  <2> QED
    BY <2>2, <2>3, <2>4, <2>5
<1>15. ASSUME NEW u \in Slots(m)
       PROVE  \E s \in Slots(m) : Source(s) = u
  <2>1. CASE u[2] = row(u[1])
    <3>1. PICK c \in 1..n : From(c) = u[1]
      BY <1>3, <1>12
    <3> DEFINE s == <<c, row(c)>>
    <3>2. s \in Slots(m)
      BY <1>10, IndicesSlot
    <3>3. s[1] = c /\ s[2] = row(c)
      OBVIOUS
    <3>4. Source(s) = u
      BY <1>12, <2>1, <3>1, <3>3
    <3> QED
      BY <3>2, <3>4
  <2>2. CASE u[2] # row(u[1])
    BY <2>2
  <2> QED
    BY <2>1, <2>2
<1> HIDE DEF Source
<1>16. Regroups(m, k)
  BY <1>5, <1>11, <1>13, <1>14, <1>15 DEF Regroups
<1>17. Becomes(m, k, MonitorWindows(m))
  BY <1>5, <1>9, <1>16, RegroupsSound DEF Becomes
<1> QED
  BY <1>5, <1>17 DEF k, n

----------------------------------------------------------------------------
(* Reveal *)

\* The slot is in the band and on its column's active row.
InView(m, s) == s[1] <= m.visible_columns /\ m.columns[s[1]].active_row = s[2]

\* Revealing a slot loses no window, and moves nothing when it is in view.
LEMMA RevealSlotSound ==
  ASSUME NEW m, IsSound(m), NEW s \in Slots(m), NEW travel
  PROVE  LET r == RevealSlot(m, s, travel)
         IN  /\ Becomes(m, r.monitor, MonitorWindows(m))
             /\ r.slot \in Slots(r.monitor)
             /\ r.kind = "AlreadyVisible" => r.monitor = m /\ InView(m, s)
<1> DEFINE col == m.columns[s[1]]
           scrolled == SetColumn(m, s[1], [col EXCEPT !.active_row = s[2]])
           right_edge == Min2(m.visible_columns, s[1])
           left_steps == s[1] - right_edge
           right_steps == Len(m.columns) - s[1] + 1
           rotate_right == \/ travel = "Left"
                           \/ travel # "Right" /\ right_steps < left_steps
           steps == IF rotate_right THEN right_steps ELSE left_steps
           dest_col == IF rotate_right THEN 1 ELSE right_edge
           motion == IF rotate_right THEN steps ELSE -steps
           rotated == RotateColumns(scrolled, motion)
           edge == Min2(scrolled.active_column, scrolled.visible_columns)
           to == <<edge, scrolled.columns[edge].active_row>>
           jump == Reveal(SwapGroups(scrolled, s, to), "Swapped", to)
           landed == Reveal(rotated, "Rotated", <<dest_col, rotated.columns[dest_col].active_row>>)
           r == RevealSlot(m, s, travel)
<1>1. r = IF s[1] <= m.visible_columns
          THEN IF col.active_row = s[2] THEN Reveal(m, "AlreadyVisible", s)
               ELSE Reveal(scrolled, "Scrolled", s)
          ELSE IF steps > 1 THEN jump ELSE landed
  BY DEF RevealSlot, SwapSlotIntoView
<1>2. r.slot \in Slots(r.monitor)
  BY SoundFacts, RevealSlotShape
<1> HIDE DEF r
<1>3. /\ IsShaped(scrolled) /\ Slots(scrolled) = Slots(m)
      /\ Becomes(m, scrolled, MonitorWindows(m))
  <2>1. /\ IsShaped(scrolled) /\ Slots(scrolled) = Slots(m)
        /\ Len(scrolled.columns) = Len(m.columns)
        /\ scrolled.visible_columns = m.visible_columns
        /\ \A c \in 1..Len(m.columns) : scrolled.columns[c].groups = m.columns[c].groups
    BY SoundFacts, ScrolledGroups
  <2> HIDE DEF scrolled
  <2> QED
    BY <2>1, SameColumnsBecomes
<1>4. s[1] \in 1..Len(m.columns) /\ Len(m.columns) \in Nat /\ m.visible_columns \in Nat
  BY SoundFacts, ShapeFacts
<1>5. motion \in Int
  BY <1>4 DEF Min2
<1> HIDE DEF scrolled, motion
<1>6. Becomes(m, rotated, MonitorWindows(m))
  <2>1. Becomes(scrolled, rotated, MonitorWindows(scrolled))
    BY <1>3, <1>5, RotateColumnsSound DEF Becomes
  <2> QED
    BY <1>3, <2>1 DEF Becomes
<1>7. Becomes(m, SwapGroups(scrolled, s, to), MonitorWindows(m))
  <2>1. edge \in 1..Len(scrolled.columns)
    BY <1>3, ShapeFacts DEF Min2
  <2> HIDE DEF edge
  <2>2. to \in Slots(scrolled)
    BY <1>3, <2>1, ShapeFacts
  <2> HIDE DEF to
  <2>3. Becomes(scrolled, SwapGroups(scrolled, s, to), MonitorWindows(scrolled))
    BY <1>3, <2>2, SwapGroupsSound DEF Becomes
  <2> QED
    BY <1>3, <2>3 DEF Becomes
<1> HIDE DEF rotated, to, steps, dest_col
<1>8. Becomes(m, m, MonitorWindows(m))
  BY DEF Becomes
<1>9. Becomes(m, r.monitor, MonitorWindows(m))
  BY <1>1, <1>3, <1>6, <1>7, <1>8 DEF Reveal
<1>10. r.kind = "AlreadyVisible" => r.monitor = m /\ InView(m, s)
  BY <1>1 DEF Reveal, InView
<1> QED
  BY <1>2, <1>9, <1>10 DEF r

\* The window of a group in view is a visible one.
LEMMA VisibleFacts ==
  ASSUME NEW m, IsShaped(m)
  PROVE  /\ VisibleWindows(m) \subseteq MonitorWindows(m)
         /\ VisibleWindows(m) = UNION {GroupWindows(GroupAt(m, s)) : s \in {t \in Slots(m) : InView(m, t)}}
<1>1. /\ m.visible_columns \in 1..Len(m.columns) /\ Len(m.columns) \in Nat
      /\ \A c \in 1..Len(m.columns) : <<c, m.columns[c].active_row>> \in Slots(m)
      /\ \A s \in Slots(m) : s = <<s[1], s[2]>> /\ s[1] \in 1..Len(m.columns)
  BY ShapeFacts
<1> DEFINE V == {t \in Slots(m) : InView(m, t)}
           b == Min2(m.visible_columns, Len(m.columns))
<1>2. b = m.visible_columns
  BY <1>1 DEF Min2
<1> HIDE DEF b
<1>3. ASSUME NEW c \in 1..b
      PROVE  \E s \in V : GroupWindows(ActiveGroupOf(m.columns[c])) = GroupWindows(GroupAt(m, s))
  <2> DEFINE s == <<c, m.columns[c].active_row>>
  <2>1. c \in 1..Len(m.columns) /\ c <= m.visible_columns
    BY <1>1, <1>2
  <2>2. s[1] = c /\ s[2] = m.columns[c].active_row
    OBVIOUS
  <2>3. s \in V
    BY <1>1, <2>1, <2>2 DEF InView
  <2> QED
    BY <2>2, <2>3 DEF ActiveGroupOf, GroupAt
<1>4. ASSUME NEW s \in V
      PROVE  \E c \in 1..b : GroupWindows(ActiveGroupOf(m.columns[c])) = GroupWindows(GroupAt(m, s))
  <2>1. s[1] \in 1..b
    BY <1>1, <1>2 DEF InView
  <2> QED
    BY <2>1 DEF InView, ActiveGroupOf, GroupAt
<1>5. VisibleWindows(m) = UNION {GroupWindows(ActiveGroupOf(m.columns[c])) : c \in 1..b}
  BY DEF VisibleWindows, b
<1>6. VisibleWindows(m) = UNION {GroupWindows(GroupAt(m, s)) : s \in V}
  BY <1>3, <1>4, <1>5
<1> QED
  BY <1>6 DEF MonitorWindows

\* Focusing a window in view changes nothing on screen.
LEMMA FocusInView ==
  ASSUME NEW m, IsSound(m), NEW w \in MonitorWindows(m), InView(m, Locate(m, w))
  PROVE  /\ VisibleWindows(FocusWindow(m, w)) = VisibleWindows(m)
         /\ w \in VisibleWindows(m)
<1> DEFINE s == Locate(m, w)
           l == SetActiveSlot(m, s)
           g == [GroupAt(m, s) EXCEPT !.active_window = w]
           k == SetGroupAt(l, s, g)
<1>1. s \in Slots(m) /\ w \in GroupWindows(GroupAt(m, s)) /\ FocusWindow(m, w) = k
      /\ InView(m, s)
  BY LocateHolds DEF FocusWindow
<1> HIDE DEF s
<1>2. w \in VisibleWindows(m)
  BY <1>1, SoundFacts, VisibleFacts
<1>3. g \in SoundGroups /\ GroupWindows(g) = GroupWindows(GroupAt(m, s))
  BY <1>1, SoundFacts, GroupFocusSound
<1> HIDE DEF g
<1>4. IsShaped(m) /\ s[1] \in 1..Len(m.columns)
      /\ \A t \in Slots(m) : t[1] \in 1..Len(m.columns)
  BY <1>1, SoundFacts, ShapeFacts
<1>5. /\ Becomes(m, l, MonitorWindows(m)) /\ Slots(l) = Slots(m)
      /\ \A t \in Slots(m) : GroupAt(l, t) = GroupAt(m, t)
  BY <1>1, SetActiveSlotSound
<1>6. /\ Len(l.columns) = Len(m.columns)
      /\ l.visible_columns = m.visible_columns
      /\ \A c \in 1..Len(m.columns) :
           l.columns[c].active_row = IF c = s[1] THEN s[2] ELSE m.columns[c].active_row
  BY <1>1, <1>4, SetActiveSlotGroups
<1> HIDE DEF l
<1>7. l \in Shaped(SoundGroups)
  BY <1>5 DEF Becomes, IsSound
<1>8. /\ k \in Shaped(SoundGroups) /\ Slots(k) = Slots(m)
      /\ k.visible_columns = m.visible_columns
      /\ \A c \in 1..Len(m.columns) : k.columns[c].active_row = l.columns[c].active_row
  BY <1>1, <1>3, <1>5, <1>6, <1>7, SetGroupAtShape
<1>9. \A t \in Slots(m) : GroupAt(k, t) = IF t = s THEN g ELSE GroupAt(m, t)
  BY <1>1, <1>5, <1>7, SetGroupAtGroup DEF IsShaped
<1> HIDE DEF k
<1>10. \A c \in 1..Len(m.columns) : k.columns[c].active_row = m.columns[c].active_row
  BY <1>1, <1>6, <1>8 DEF InView
<1>11. \A t \in Slots(m) : InView(k, t) <=> InView(m, t)
  BY <1>4, <1>8, <1>10 DEF InView
<1>12. \A t \in Slots(m) : GroupWindows(GroupAt(k, t)) = GroupWindows(GroupAt(m, t))
  BY <1>3, <1>9
<1>13. IsShaped(k)
  BY <1>8 DEF IsShaped
<1>14. /\ VisibleWindows(k) = UNION {GroupWindows(GroupAt(k, t)) : t \in {u \in Slots(k) : InView(k, u)}}
       /\ VisibleWindows(m) = UNION {GroupWindows(GroupAt(m, t)) : t \in {u \in Slots(m) : InView(m, u)}}
  BY <1>4, <1>13, VisibleFacts
<1>15. VisibleWindows(k) = VisibleWindows(m)
  BY <1>8, <1>11, <1>12, <1>14
<1> QED
  BY <1>1, <1>2, <1>15

\* The active window is one of the active group, or none when it is empty.
LEMMA ActiveWindowFacts ==
  ASSUME NEW m, IsSound(m)
  PROVE  /\ ActiveWindow(m) # NoWindow =>
              /\ ActiveWindow(m) \in GroupWindows(GroupAt(m, ActiveSlot(m)))
              /\ ActiveWindow(m) \in MonitorWindows(m)
<1> DEFINE g == GroupAt(m, ActiveSlot(m))
<1>1. g \in SoundGroups /\ GroupWindows(g) \subseteq MonitorWindows(m)
  BY SoundFacts, ShapeFacts
<1> HIDE DEF g
<1>2. ActiveWindow(m) = IF g.layout = {} THEN NoWindow
                        ELSE IF g.active_window \in GroupWindows(g) THEN g.active_window
                        ELSE FirstLeaf(g.layout).window_id
  BY DEF ActiveWindow, g
<1>3. g.layout # {} => g.active_window \in GroupWindows(g)
  BY <1>1, GroupFacts
<1> QED
  BY <1>1, <1>2, <1>3 DEF g

\* What the methods keep is what the checked invariant says.
LEMMA SoundIsSoundMonitor ==
  ASSUME NEW m, IsSound(m)
  PROVE  SoundMonitor(m) /\ m \in Monitor
<1>1. \A s \in Slots(m) :
        LET g == GroupAt(m, s) IN
          /\ IsSplitTree(g.layout)
          /\ IF g.layout = {} THEN g.active_window = NoWindow
             ELSE g.active_window \in GroupWindows(g)
  BY SoundFacts, TreeIsSplitTree DEF SoundGroups
<1>2. SoundMonitor(m)
  BY <1>1 DEF SoundMonitor, IsSound
<1>3. m \in Shaped(Group)
  BY ShapedWiden DEF IsSound, SoundGroups
<1>4. ColumnOver(Group) \subseteq Column
  BY DEF ColumnOver, Column
<1>5. m \in Monitor
  BY <1>3, <1>4, SeqWiden DEF Shaped, Monitor
<1> QED
  BY <1>2, <1>5

----------------------------------------------------------------------------
(* What is in view after a change *)

\* Windows that come in hide none.
LEMMA AddWindowsVisible ==
  ASSUME NEW m, IsSound(m), NEW ws, IsNew(ws, MonitorWindows(m)), ws # <<>>, NEW focused
  PROVE  VisibleWindows(m) \subseteq VisibleWindows(AddWindows(m, ws, focused))
<1> DEFINE s == IF focused \in MonitorWindows(m) THEN Locate(m, focused) ELSE ActiveSlot(m)
           g == GroupAddAll(GroupAt(m, s), ws, focused)
           k == AddWindows(m, ws, focused)
<1>1. /\ Becomes(m, k, MonitorWindows(m) \cup Listed(ws))
      /\ Slots(k) = Slots(m)
      /\ \A t \in Slots(m) : GroupWindows(GroupAt(m, t)) \subseteq GroupWindows(GroupAt(k, t))
  BY AddWindowsSound
<1>2. s \in Slots(m) /\ k = SetGroupAt(m, s, g)
  BY LocateHolds, SoundFacts, ShapeFacts DEF AddWindows
<1>3. IsShaped(m) /\ IsShaped(k) /\ \A t \in Slots(m) : t[1] \in 1..Len(m.columns)
  BY <1>1, SoundFacts, ShapeFacts DEF Becomes
<1> HIDE DEF s, g, k
<1>4. PICK F : m \in Shaped(F)
  BY <1>3 DEF IsShaped
<1> DEFINE G == F \cup {g}
<1>5. m \in Shaped(G) /\ g \in G
  BY <1>4, ShapedWiden
<1> HIDE DEF G
<1>6. /\ k.visible_columns = m.visible_columns
      /\ \A c \in 1..Len(m.columns) : k.columns[c].active_row = m.columns[c].active_row
  BY <1>2, <1>5, SetGroupAtShape
<1>7. \A t \in Slots(m) : InView(k, t) <=> InView(m, t)
  BY <1>3, <1>6 DEF InView
<1>8. /\ VisibleWindows(k) = UNION {GroupWindows(GroupAt(k, t)) : t \in {u \in Slots(k) : InView(k, u)}}
      /\ VisibleWindows(m) = UNION {GroupWindows(GroupAt(m, t)) : t \in {u \in Slots(m) : InView(m, u)}}
  BY <1>3, VisibleFacts
<1>9. VisibleWindows(m) \subseteq VisibleWindows(k)
  BY <1>1, <1>7, <1>8
<1> QED
  BY <1>9 DEF k

\* A rotation leaves every active row, and takes column c's active group from
\* the column it names.
LEMMA RotatedGroup ==
  ASSUME NEW m, IsShaped(m), NEW motion \in Int, NEW c \in 1..Len(m.columns)
  PROVE  LET k == RotateColumns(m, motion)
             d == RotatesFrom(Len(m.columns), motion, c)
         IN  /\ k.visible_columns = m.visible_columns
             /\ k.columns[c].active_row = m.columns[c].active_row
             /\ d \in 1..Len(m.columns)
             /\ GroupAt(k, <<c, m.columns[c].active_row>>) = GroupAt(m, <<d, m.columns[d].active_row>>)
<1> DEFINE n == Len(m.columns)
           seeded == [i \in 1..n |-> SeedEmpty(m.columns[i])]
           From(i) == ((i - 1 - motion) % n) + 1
           columns == [i \in 1..n |-> SetGroup(seeded[i], seeded[i].active_row,
                                               ActiveGroupOf(seeded[From(i)]))]
           k == RotateColumns(m, motion)
           d == From(c)
<1>1. PICK G : m \in Shaped(G)
  BY DEF IsShaped
<1>2. /\ m \in [visible_columns : Nat, active_column : Nat, columns : Seq(ColumnOver(G))]
      /\ n \in Nat \ {0}
  BY <1>1 DEF Shaped
<1>3. \A i \in 1..n : seeded[i] = m.columns[i] /\ m.columns[i] \in ColumnOver(G)
  <2> TAKE i \in 1..n
  <2>1. m.columns[i] \in ColumnOver(G)
    BY <1>2, ElementOfSeq
  <2>2. m.columns[i].groups # <<>>
    BY <2>1 DEF ColumnOver
  <2> QED
    BY <2>1, <2>2 DEF SeedEmpty
<1>4. d \in 1..n /\ d = RotatesFrom(n, motion, c)
  <2> DEFINE l == n
  <2>1. l \in Nat \ {0} /\ c \in 1..l
    BY <1>2
  <2> HIDE DEF l
  <2>2. RotatesFrom(l, motion, c) \in 1..l
    BY <2>1, RotationIsBijective
  <2> QED
    BY <2>2 DEF l, RotatesFrom
<1>5. k = [m EXCEPT !.columns = columns \o <<>>]
  BY DEF RotateColumns
<1> HIDE DEF seeded, d, k
<1>6. columns[c] = SetGroup(m.columns[c], m.columns[c].active_row, ActiveGroupOf(m.columns[d]))
  BY <1>3, <1>4 DEF d
<1>7. columns \o <<>> = columns
  <2> DEFINE S == {columns[i] : i \in 1..n}
  <2>1. columns \in [1..n -> S]
    OBVIOUS
  <2> HIDE DEF S, columns
  <2>2. columns \in Seq(S)
    BY <1>2, <2>1, FunctionIsSeq
  <2> QED
    BY <2>2, ConcatEmptySeq
<1> HIDE DEF columns
<1>8. k.columns = columns /\ k.visible_columns = m.visible_columns
  BY <1>2, <1>5, <1>7
<1> DEFINE col == m.columns[c]
           g == ActiveGroupOf(m.columns[d])
<1>9. col \in ColumnOver(G) /\ m.columns[d] \in ColumnOver(G)
  BY <1>3, <1>4
<1>10. g \in G /\ g = m.columns[d].groups[m.columns[d].active_row]
  BY <1>9, ElementOfSeq DEF ColumnOver, ActiveGroupOf
<1>11. k.columns[c] = SetGroup(col, col.active_row, g)
  BY <1>6, <1>8
<1> HIDE DEF col, g
<1>12. col \in [active_row : Nat, groups : Seq(G)] /\ col.active_row \in 1..Len(col.groups)
  BY <1>9 DEF ColumnOver
<1>13. /\ k.columns[c].groups = [col.groups EXCEPT ![col.active_row] = g]
       /\ k.columns[c].active_row = col.active_row
  BY <1>11, <1>12 DEF SetGroup, ReplaceAt
<1>14. k.columns[c].groups[col.active_row] = g
  <2> DEFINE gs == col.groups
             a == col.active_row
  <2>1. gs \in Seq(G) /\ a \in 1..Len(gs)
    BY <1>12
  <2> HIDE DEF gs, a
  <2>2. [gs EXCEPT ![a] = g][a] = g
    BY <1>10, <2>1, ExceptSeq
  <2> QED
    BY <1>13, <2>2 DEF gs, a
<1> QED
  BY <1>4, <1>8, <1>10, <1>13, <1>14 DEF GroupAt, col, k

\* After the reveal the windows of the slot are on screen.
LEMMA RevealSlotShows ==
  ASSUME NEW m, IsSound(m), NEW s \in Slots(m)
  PROVE  GroupWindows(GroupAt(m, s)) \subseteq VisibleWindows(RevealSlot(m, s, "None").monitor)
<1> DEFINE travel == "None"
           n == Len(m.columns)
           col == m.columns[s[1]]
           scrolled == SetColumn(m, s[1], [col EXCEPT !.active_row = s[2]])
           right_edge == Min2(m.visible_columns, s[1])
           left_steps == s[1] - right_edge
           right_steps == n - s[1] + 1
           rotate_right == \/ travel = "Left"
                           \/ travel # "Right" /\ right_steps < left_steps
           steps == IF rotate_right THEN right_steps ELSE left_steps
           dest_col == IF rotate_right THEN 1 ELSE right_edge
           motion == IF rotate_right THEN steps ELSE -steps
           rotated == RotateColumns(scrolled, motion)
           edge == Min2(scrolled.active_column, scrolled.visible_columns)
           to == <<edge, scrolled.columns[edge].active_row>>
           swapped == SwapGroups(scrolled, s, to)
           jump == Reveal(swapped, "Swapped", to)
           landed == Reveal(rotated, "Rotated", <<dest_col, rotated.columns[dest_col].active_row>>)
           k == RevealSlot(m, s, "None").monitor
           W == GroupWindows(GroupAt(m, s))
<1>1. RevealSlot(m, s, travel) =
        IF s[1] <= m.visible_columns
        THEN IF col.active_row = s[2] THEN Reveal(m, "AlreadyVisible", s)
             ELSE Reveal(scrolled, "Scrolled", s)
        ELSE IF steps > 1 THEN jump ELSE landed
  BY DEF RevealSlot, SwapSlotIntoView
<1>2. \/ k = m /\ InView(m, s)
      \/ k = scrolled /\ s[1] <= m.visible_columns
      \/ k = swapped
      \/ k = rotated /\ ~(s[1] <= m.visible_columns)
  BY <1>1 DEF Reveal, InView
<1>3. /\ s = <<s[1], s[2]>> /\ s[1] \in 1..n /\ n \in Nat \ {0} /\ m.visible_columns \in 1..n
      /\ IsShaped(m)
  BY SoundFacts, ShapeFacts
<1>4. /\ IsShaped(scrolled) /\ Slots(scrolled) = Slots(m) /\ Len(scrolled.columns) = n
      /\ scrolled.visible_columns = m.visible_columns
      /\ GroupAt(scrolled, s) = GroupAt(m, s)
      /\ scrolled.columns[s[1]].active_row = s[2]
  <2>1. /\ IsShaped(scrolled) /\ Slots(scrolled) = Slots(m) /\ Len(scrolled.columns) = n
        /\ scrolled.visible_columns = m.visible_columns
        /\ \A c \in 1..n :
             /\ scrolled.columns[c].groups = m.columns[c].groups
             /\ scrolled.columns[c].active_row = IF c = s[1] THEN s[2] ELSE m.columns[c].active_row
    BY <1>3, ScrolledGroups
  <2> QED
    BY <1>3, <2>1 DEF GroupAt
<1> SUFFICES W \subseteq VisibleWindows(k)
  OBVIOUS
<1> HIDE DEF scrolled, k
<1>5. ASSUME NEW l, IsShaped(l), NEW t \in Slots(l), InView(l, t), GroupAt(l, t) = GroupAt(m, s)
      PROVE  W \subseteq VisibleWindows(l)
  BY <1>5, VisibleFacts
<1>6. CASE k = m /\ InView(m, s)
  BY <1>3, <1>5, <1>6
<1>7. CASE k = scrolled /\ s[1] <= m.visible_columns
  BY <1>4, <1>5, <1>7 DEF InView
<1>8. CASE k = swapped
  <2>1. edge \in 1..n /\ edge <= m.visible_columns
    BY <1>3, <1>4, ShapeFacts DEF Min2
  <2>2. to \in Slots(scrolled) /\ to[1] = edge /\ to[2] = scrolled.columns[edge].active_row
    BY <1>4, <2>1, ShapeFacts
  <2> HIDE DEF edge
  <2> DEFINE l == SetGroupAt(scrolled, s, GroupAt(scrolled, to))
  <2>3. /\ IsShaped(l) /\ Slots(l) = Slots(m) /\ l.visible_columns = m.visible_columns
        /\ Len(l.columns) = n /\ l.columns[edge].active_row = scrolled.columns[edge].active_row
    <3>1. PICK G : scrolled \in Shaped(G)
      BY <1>4 DEF IsShaped
    <3>2. GroupAt(scrolled, to) \in G
      BY <2>2, <3>1, GroupAtType
    <3> HIDE DEF to
    <3>3. /\ l \in Shaped(G) /\ Slots(l) = Slots(scrolled) /\ Len(l.columns) = Len(scrolled.columns)
          /\ l.visible_columns = scrolled.visible_columns
          /\ \A c \in 1..Len(scrolled.columns) :
               l.columns[c].active_row = scrolled.columns[c].active_row
      BY <1>4, <3>1, <3>2, SetGroupAtShape
    <3> QED
      BY <1>4, <2>1, <3>3 DEF IsShaped
  <2>4. swapped = SetGroupAt(l, to, GroupAt(scrolled, s))
    BY DEF SwapGroups
  <2> HIDE DEF to, l
  <2>5. /\ IsShaped(swapped) /\ Slots(swapped) = Slots(l)
        /\ swapped.visible_columns = m.visible_columns
        /\ swapped.columns[edge].active_row = l.columns[edge].active_row
    <3>1. PICK F : l \in Shaped(F)
      BY <2>3 DEF IsShaped
    <3> DEFINE G == F \cup {GroupAt(scrolled, s)}
    <3>2. l \in Shaped(G) /\ GroupAt(scrolled, s) \in G
      BY <3>1, ShapedWiden
    <3> HIDE DEF G, swapped
    <3>3. /\ swapped \in Shaped(G) /\ Slots(swapped) = Slots(l)
          /\ swapped.visible_columns = l.visible_columns
          /\ \A c \in 1..Len(l.columns) : swapped.columns[c].active_row = l.columns[c].active_row
      BY <1>4, <2>2, <2>3, <2>4, <3>2, SetGroupAtShape
    <3> QED
      BY <2>1, <2>3, <3>3 DEF IsShaped
  <2>6. GroupAt(swapped, to) = GroupAt(scrolled, s)
    <3> HIDE DEF swapped
    <3>1. to \in Slots(l)
      BY <1>4, <2>2, <2>3
    <3> QED
      BY <2>3, <2>4, <3>1, SetGroupAtGroup
  <2> HIDE DEF swapped
  <2>7. InView(swapped, to)
    BY <2>1, <2>2, <2>3, <2>5 DEF InView
  <2>8. to \in Slots(swapped)
    BY <1>4, <2>2, <2>3, <2>5
  <2> QED
    BY <1>4, <1>5, <1>8, <2>5, <2>6, <2>7, <2>8
<1>9. CASE k = rotated /\ ~(s[1] <= m.visible_columns)
  <2>1. right_edge = m.visible_columns
    BY <1>3, <1>9 DEF Min2
  <2>2. /\ motion \in Int /\ dest_col \in 1..n /\ dest_col <= m.visible_columns
        /\ \/ motion = n - s[1] + 1 /\ dest_col = 1
           \/ motion = -(s[1] - m.visible_columns) /\ dest_col = m.visible_columns
    BY <1>3, <2>1
  <2> HIDE DEF motion, dest_col, steps, left_steps, right_steps, right_edge, rotate_right, n
  <2>3. RotatesFrom(n, motion, dest_col) = s[1]
    <3> DEFINE a == dest_col - 1 - motion
               r == s[1] - 1
    <3>1. /\ a = n * (-1) + r \/ a = n * 0 + r
          /\ r \in 0..n - 1 /\ n \in Nat \ {0}
      BY <1>3, <2>2
    <3> HIDE DEF r, a
    <3>2. \A q \in Int : (n * q + r) % n = r
      BY <3>1, ModUnique
    <3>3. a % n = r
      BY <3>1, <3>2
    <3> USE DEF r
    <3>4. a % n = s[1] - 1
      BY <3>3
    <3>5. RotatesFrom(n, motion, dest_col) = (a % n) + 1
      BY DEF RotatesFrom, a
    <3> HIDE DEF a
    <3> QED
      BY <1>3, <3>4, <3>5
  <2> DEFINE t == <<dest_col, scrolled.columns[dest_col].active_row>>
  <2>4. /\ rotated.visible_columns = m.visible_columns
        /\ rotated.columns[dest_col].active_row = scrolled.columns[dest_col].active_row
        /\ GroupAt(rotated, t) = GroupAt(scrolled, s)
    BY <1>3, <1>4, <2>2, <2>3, RotatedGroup DEF n
  <2>5. IsShaped(rotated) /\ Len(rotated.columns) = n
    BY <1>4, <2>2, RotateColumnsShape
  <2> HIDE DEF rotated
  <2>6. t \in Slots(rotated)
    BY <2>2, <2>4, <2>5, ShapeFacts
  <2>7. InView(rotated, t)
    BY <2>2, <2>4 DEF InView
  <2> HIDE DEF t
  <2> QED
    BY <1>4, <1>5, <1>9, <2>4, <2>5, <2>6, <2>7
<1> QED
  BY <1>2, <1>6, <1>7, <1>8, <1>9

----------------------------------------------------------------------------
(* The desk *)


\* A desk with these monitors, whatever they are.
DeskOver(ms) ==
  [monitors : {ms}, active_monitor : Monitors,
   windows : SUBSET Window, fullscreen_windows : SUBSET Window,
   maximized : [stage : {"None", "Group", "Monitor"}, window : Window \cup {NoWindow}],
   focus : Window \cup {NoWindow, LayerFocus}, space : SUBSET Window,
   iconified : SUBSET Window, associated : SUBSET Window]

\* Every head has a monitor with all its indices in range.
AreShaped(ms) ==
  /\ ms = [i \in Monitors |-> ms[i]]
  /\ \A i \in Monitors : IsShaped(ms[i])

\* What every method keeps of a desk.
IsDesk(d) ==
  /\ d \in DeskOver(d.monitors)
  /\ AreShaped(d.monitors)
  /\ d.space \cup d.iconified \cup d.associated \subseteq d.windows

\* A desk that tracks the same windows, with no more fullscreen ones that it
\* does not track.
Follows(d, e) ==
  /\ IsDesk(e)
  /\ e.windows = d.windows
  /\ e.fullscreen_windows \subseteq d.fullscreen_windows \cup d.windows

\* X11 windows have a server.
Served == xwayland.server = "ready" \/ desk.windows \subseteq Wayland

\* The inductive invariant.
IInv ==
  /\ IsDesk(desk)
  /\ desk.fullscreen_windows \subseteq desk.windows \cup unmapped
  /\ unmapped \subseteq Wayland
  /\ next_id \in Nat \ {0}
  /\ Served

----------------------------------------------------------------------------
(* Parts of a desk *)

\* Neither value that stands for no window is a window.
LEMMA WindowIsPositive ==
  /\ NoWindow \notin Window
  /\ LayerFocus \notin Window
BY DEF Window, NoWindow, LayerFocus

\* Following is transitive.
LEMMA FollowsTrans ==
  ASSUME NEW d, NEW e, NEW f, Follows(d, e), Follows(e, f)
  PROVE  Follows(d, f)
BY DEF Follows

\* A method that does nothing follows the desk.
LEMMA FollowsSelf ==
  ASSUME NEW d, IsDesk(d)
  PROVE  Follows(d, d)
BY DEF Follows

\* The focused window is a tracked one or none.
LEMMA FocusedWindowType ==
  ASSUME NEW d, IsDesk(d)
  PROVE  FocusedWindow(d) \in d.windows \cup {NoWindow}
BY DEF FocusedWindow

\* The monitors of a desk can be replaced.
LEMMA WithMonitors ==
  ASSUME NEW d, IsDesk(d), NEW ms, AreShaped(ms)
  PROVE  Follows(d, [d EXCEPT !.monitors = ms])
<1> DEFINE e == [d EXCEPT !.monitors = ms]
<1>1. /\ e \in DeskOver(ms) /\ e.monitors = ms
      /\ e.windows = d.windows /\ e.fullscreen_windows = d.fullscreen_windows
      /\ e.space = d.space /\ e.iconified = d.iconified /\ e.associated = d.associated
  BY DEF IsDesk, DeskOver
<1> HIDE DEF e
<1>2. Follows(d, e)
  BY <1>1 DEF Follows, IsDesk
<1> QED
  BY <1>2 DEF e

\* The monitor under the cursor can be replaced.
LEMMA WithCursorFollows ==
  ASSUME NEW d, IsDesk(d), NEW m, IsShaped(m)
  PROVE  Follows(d, WithCursor(d, m))
<1> DEFINE ms == [d.monitors EXCEPT ![d.active_monitor] = m]
<1>1. d.monitors = [i \in Monitors |-> d.monitors[i]]
  BY DEF IsDesk, AreShaped
<1>2. ms = [i \in Monitors |-> IF i = d.active_monitor THEN m ELSE d.monitors[i]]
  BY <1>1
<1> HIDE DEF ms
<1>3. AreShaped(ms)
  BY <1>2 DEF IsDesk, AreShaped
<1>4. WithCursor(d, m) = [d EXCEPT !.monitors = ms]
  BY DEF WithCursor, ms
<1> QED
  BY <1>3, <1>4, WithMonitors

\* The monitor under the cursor is shaped.
LEMMA CursorShape ==
  ASSUME NEW d, IsDesk(d)
  PROVE  IsShaped(Cursor(d))
BY DEF Cursor, IsDesk, DeskOver, AreShaped

----------------------------------------------------------------------------
(* Layout and focus *)

\* A layout pass maps and hides tracked windows only.
LEMMA ApplyLayoutFollows ==
  ASSUME NEW d, IsDesk(d)
  PROVE  Follows(d, ApplyLayout(d))
<1> DEFINE e == ApplyLayout(d)
           S == Targets(d) \cap d.windows
           I == Iconified(d)
<1>1. S \subseteq d.windows /\ I \subseteq d.windows
  BY DEF Iconified
<1>2. e = [d EXCEPT !.space = S, !.iconified = I]
  BY DEF ApplyLayout, Iconified
<1> HIDE DEF e, S, I
<1>3. d.windows \subseteq Window /\ d.associated \subseteq d.windows
  BY DEF IsDesk, DeskOver
<1>4. /\ e \in DeskOver(d.monitors) /\ e.monitors = d.monitors
      /\ e.windows = d.windows /\ e.fullscreen_windows = d.fullscreen_windows
      /\ e.space = S /\ e.iconified = I /\ e.associated = d.associated
  BY <1>1, <1>2, <1>3 DEF IsDesk, DeskOver
<1>5. Follows(d, e)
  BY <1>1, <1>3, <1>4 DEF Follows, IsDesk
<1> QED
  BY <1>5 DEF e

\* A window of the desk goes fullscreen.
LEMMA EnterFullscreenFollows ==
  ASSUME NEW d, IsDesk(d), NEW w \in d.windows
  PROVE  Follows(d, EnterFullscreen(d, w))
<1> DEFINE ms == [i \in Monitors |-> RemoveWindow(d.monitors[i], w)]
           k  == [d EXCEPT !.fullscreen_windows = @ \cup {w}]
<1>1. AreShaped(ms)
  BY RemoveWindowShape DEF AreShaped, IsDesk
<1>2. EnterFullscreen(d, w) = IF w \in d.fullscreen_windows THEN d ELSE [k EXCEPT !.monitors = ms]
  BY DEF EnterFullscreen
<1> HIDE DEF ms
<1>3. /\ k \in DeskOver(d.monitors) /\ k.monitors = d.monitors
      /\ k.windows = d.windows /\ k.fullscreen_windows = d.fullscreen_windows \cup {w}
      /\ k.space = d.space /\ k.iconified = d.iconified /\ k.associated = d.associated
  BY DEF IsDesk, DeskOver
<1> HIDE DEF k
<1>4. Follows(d, k)
  BY <1>3 DEF Follows, IsDesk
<1>5. Follows(k, [k EXCEPT !.monitors = ms])
  BY <1>1, <1>4, WithMonitors DEF Follows
<1> QED
  BY <1>2, <1>4, <1>5, FollowsTrans, FollowsSelf

\* Windows leave fullscreen for the grid.
LEMMA LeaveFullscreenFollows ==
  ASSUME NEW d, IsDesk(d), NEW ws
  PROVE  Follows(d, LeaveFullscreen(d, ws))
<1> DEFINE m == AddWindows(Cursor(d), ws, FocusedWindow(d))
           k == WithCursor(d, m)
           e == [k EXCEPT !.fullscreen_windows = @ \ {ws[i] : i \in 1..Len(ws)}]
<1>1. IsShaped(m)
  BY CursorShape, AddWindowsShape
<1>2. LeaveFullscreen(d, ws) = e
  BY DEF LeaveFullscreen
<1> HIDE DEF m
<1>3. Follows(d, k)
  BY <1>1, WithCursorFollows
<1> HIDE DEF k
<1>4. /\ e \in DeskOver(k.monitors) /\ e.monitors = k.monitors
      /\ e.windows = k.windows /\ e.fullscreen_windows \subseteq k.fullscreen_windows
      /\ e.space = k.space /\ e.iconified = k.iconified /\ e.associated = k.associated
  BY <1>3 DEF Follows, IsDesk, DeskOver
<1> HIDE DEF e
<1>5. Follows(k, e)
  BY <1>3, <1>4 DEF Follows, IsDesk
<1> QED
  BY <1>2, <1>3, <1>5, FollowsTrans

\* Maximize can be dropped, or given to a window of the desk.
LEMMA WithMaximizedFollows ==
  ASSUME NEW d, IsDesk(d),
         NEW x \in [stage : {"None", "Group", "Monitor"}, window : Window \cup {NoWindow}]
  PROVE  Follows(d, [d EXCEPT !.maximized = x])
<1> DEFINE e == [d EXCEPT !.maximized = x]
<1>1. /\ e \in DeskOver(d.monitors) /\ e.monitors = d.monitors
      /\ e.windows = d.windows /\ e.fullscreen_windows = d.fullscreen_windows
      /\ e.space = d.space /\ e.iconified = d.iconified /\ e.associated = d.associated
  BY DEF IsDesk, DeskOver
<1> HIDE DEF e
<1>2. Follows(d, e)
  BY <1>1 DEF Follows, IsDesk
<1> QED
  BY <1>2 DEF e

\* So maximize can be released.
LEMMA NoMaximizeFollows ==
  ASSUME NEW d, IsDesk(d)
  PROVE  Follows(d, [d EXCEPT !.maximized = NoMaximize])
<1>1. NoMaximize \in [stage : {"None", "Group", "Monitor"}, window : Window \cup {NoWindow}]
  BY DEF NoMaximize
<1> QED
  BY <1>1, WithMaximizedFollows

\* The focus moves to a window of the desk, the launcher or nothing.
LEMMA WithFocusFollows ==
  ASSUME NEW d, IsDesk(d), NEW w \in d.windows \cup {NoWindow, LayerFocus}
  PROVE  Follows(d, [d EXCEPT !.focus = w])
<1> DEFINE e == [d EXCEPT !.focus = w]
<1>1. w \in Window \cup {NoWindow, LayerFocus}
  BY DEF IsDesk, DeskOver
<1>2. /\ e \in DeskOver(d.monitors) /\ e.monitors = d.monitors
      /\ e.windows = d.windows /\ e.fullscreen_windows = d.fullscreen_windows
      /\ e.space = d.space /\ e.iconified = d.iconified /\ e.associated = d.associated
  BY <1>1 DEF IsDesk, DeskOver
<1> HIDE DEF e
<1>3. Follows(d, e)
  BY <1>2 DEF Follows, IsDesk
<1> QED
  BY <1>3 DEF e

\* Settling the focus.
LEMMA ReconciledFollows ==
  ASSUME NEW d, IsDesk(d), NEW e \in Reconciled(d)
  PROVE  Follows(d, e)
<1> DEFINE focused  == FocusedWindow(d)
           released == d.maximized.window \notin {NoWindow, focused}
           base     == IF released THEN [d EXCEPT !.maximized = NoMaximize] ELSE d
           leaving  == (d.fullscreen_windows \cap d.windows \cap Wayland) \ {focused}
<1>1. \/ \E ws : e = ApplyLayout(LeaveFullscreen(base, ws))
      \/ e = ApplyLayout(base)
      \/ e = base
  BY DEF Reconciled
<1>2. Follows(d, base)
  BY NoMaximizeFollows, FollowsSelf
<1> HIDE DEF base
<1>3. CASE \E ws : e = ApplyLayout(LeaveFullscreen(base, ws))
  <2>1. PICK ws : e = ApplyLayout(LeaveFullscreen(base, ws))
    BY <1>3
  <2>2. Follows(base, LeaveFullscreen(base, ws))
    BY <1>2, LeaveFullscreenFollows DEF Follows
  <2>3. Follows(LeaveFullscreen(base, ws), e)
    BY <2>1, <2>2, ApplyLayoutFollows DEF Follows
  <2> QED
    BY <1>2, <2>2, <2>3, FollowsTrans
<1>4. CASE e = ApplyLayout(base)
  <2>1. Follows(base, ApplyLayout(base))
    BY <1>2, ApplyLayoutFollows DEF Follows
  <2> QED
    BY <1>2, <1>4, <2>1, FollowsTrans
<1> QED
  BY <1>1, <1>2, <1>3, <1>4

\* Revealing a window of the grid.
LEMMA RevealTiledFollows ==
  ASSUME NEW d, IsDesk(d), NEW w \in GridWindows(d)
  PROVE  Follows(d, RevealTiled(d, w).desk)
<1> DEFINE i == MonitorOf(d, w)
           r == RevealWindow(d.monitors[i], w)
           m == FocusWindow(r.monitor, w)
           ms == [d.monitors EXCEPT ![i] = m]
           k == [d EXCEPT !.active_monitor = i]
<1>1. i \in Monitors /\ w \in MonitorWindows(d.monitors[i])
  BY DEF GridWindows, MonitorOf
<1>2. RevealTiled(d, w).desk = [d EXCEPT !.active_monitor = i, !.monitors[i] = m]
  BY DEF RevealTiled
<1> HIDE DEF i
<1>3. IsShaped(d.monitors[i]) /\ d.monitors = [j \in Monitors |-> d.monitors[j]]
  BY <1>1 DEF IsDesk, AreShaped
<1>4. IsShaped(r.monitor)
  BY <1>1, <1>3, LocateSlot, RevealSlotShape DEF RevealWindow
<1> HIDE DEF r
<1>5. IsShaped(m)
  BY <1>4, FocusWindowShape
<1> HIDE DEF m
<1>6. ms = [j \in Monitors |-> IF j = i THEN m ELSE d.monitors[j]]
  BY <1>1, <1>3
<1> HIDE DEF ms
<1>7. AreShaped(ms)
  BY <1>3, <1>5, <1>6 DEF IsDesk, AreShaped
<1>8. /\ k \in DeskOver(d.monitors) /\ k.monitors = d.monitors
      /\ k.windows = d.windows /\ k.fullscreen_windows = d.fullscreen_windows
      /\ k.space = d.space /\ k.iconified = d.iconified /\ k.associated = d.associated
  BY <1>1 DEF IsDesk, DeskOver
<1>9. RevealTiled(d, w).desk = [k EXCEPT !.monitors = ms]
  BY <1>2 DEF ms
<1> HIDE DEF k
<1>10. Follows(d, k)
  BY <1>8 DEF Follows, IsDesk
<1>11. Follows(k, [k EXCEPT !.monitors = ms])
  BY <1>7, <1>10, WithMonitors DEF Follows
<1> QED
  BY <1>9, <1>10, <1>11, FollowsTrans

\* focus_by_id.
LEMMA FocusByIdFollows ==
  ASSUME NEW d, IsDesk(d), NEW w, NEW e \in FocusById(d, w)
  PROVE  Follows(d, e)
<1> DEFINE revealed == IF w \in GridWindows(d) THEN RevealTiled(d, w)
                       ELSE [desk |-> d, kind |-> "AlreadyVisible"]
           k == revealed.desk
           f == [k EXCEPT !.focus = w, !.iconified = @ \ {w}]
<1>1. CASE w \notin d.windows
  BY <1>1, FollowsSelf DEF FocusById
<1>2. CASE w \in d.windows
  <2>1. Follows(d, k)
    BY RevealTiledFollows, FollowsSelf
  <2>2. PICK c \in Reconciled(f) : e = ApplyLayout(c) \/ e = c
    BY <1>2 DEF FocusById
  <2> HIDE DEF k
  <2>3. w \in Window /\ w \in k.windows
    BY <1>2, <2>1 DEF Follows, IsDesk, DeskOver
  <2>4. /\ f \in DeskOver(k.monitors) /\ f.monitors = k.monitors
        /\ f.windows = k.windows /\ f.fullscreen_windows = k.fullscreen_windows
        /\ f.space = k.space /\ f.iconified = k.iconified \ {w} /\ f.associated = k.associated
    BY <2>1, <2>3 DEF Follows, IsDesk, DeskOver
  <2> HIDE DEF f
  <2>5. Follows(k, f)
    BY <2>1, <2>4 DEF Follows, IsDesk
  <2>6. Follows(f, c)
    BY <2>5, ReconciledFollows DEF Follows
  <2>7. Follows(d, c)
    BY <2>1, <2>5, <2>6, FollowsTrans
  <2>8. Follows(c, ApplyLayout(c))
    BY <2>7, ApplyLayoutFollows DEF Follows
  <2> QED
    BY <2>2, <2>7, <2>8, FollowsTrans
<1> QED
  BY <1>1, <1>2

\* focus_active_window.
LEMMA FocusActiveWindowFollows ==
  ASSUME NEW d, IsDesk(d), NEW e \in FocusActiveWindow(d)
  PROVE  Follows(d, e)
<1> DEFINE w == ActiveWindow(Cursor(d))
           f == [d EXCEPT !.focus = NoWindow]
<1>1. CASE w # NoWindow
  <2>1. e \in FocusById(d, w)
    BY <1>1 DEF FocusActiveWindow
  <2> QED
    BY <2>1, FocusByIdFollows
<1>2. CASE w = NoWindow
  <2>1. e \in Reconciled(f)
    BY <1>2 DEF FocusActiveWindow
  <2>2. Follows(d, f)
    BY WithFocusFollows
  <2> HIDE DEF f
  <2>3. Follows(f, e)
    BY <2>1, <2>2, ReconciledFollows DEF Follows
  <2> QED
    BY <2>2, <2>3, FollowsTrans
<1> QED
  BY <1>1, <1>2

\* Eviction leaves a desk without the evicted windows.
LEMMA RemoveByIdDesk ==
  ASSUME NEW d, IsDesk(d), NEW ws
  PROVE  /\ IsDesk(RemoveById(d, ws))
         /\ RemoveById(d, ws).windows = d.windows \ ws
         /\ RemoveById(d, ws).fullscreen_windows = d.fullscreen_windows \ ws
<1> DEFINE ms == [i \in Monitors |-> PruneWindows(d.monitors[i], ws)]
           focus == IF d.focus \in ws THEN NoWindow ELSE d.focus
           e == RemoveById(d, ws)
<1>1. AreShaped(ms)
  BY PruneWindowsShape DEF IsDesk, AreShaped
<1>2. focus \in Window \cup {NoWindow, LayerFocus}
  BY DEF IsDesk, DeskOver
<1>3. e = [d EXCEPT !.monitors = ms, !.windows = @ \ ws,
                    !.fullscreen_windows = @ \ ws, !.space = @ \ ws,
                    !.iconified = @ \ ws, !.associated = @ \ ws, !.focus = focus]
  BY DEF RemoveById
<1> HIDE DEF ms, focus, e
<1>4. /\ e \in DeskOver(ms) /\ e.monitors = ms
      /\ e.windows = d.windows \ ws /\ e.fullscreen_windows = d.fullscreen_windows \ ws
      /\ e.space = d.space \ ws /\ e.iconified = d.iconified \ ws
      /\ e.associated = d.associated \ ws
  BY <1>2, <1>3 DEF IsDesk, DeskOver
<1>5. IsDesk(e)
  BY <1>1, <1>4 DEF IsDesk
<1> QED
  BY <1>4, <1>5 DEF e

----------------------------------------------------------------------------
(* The steps *)

\* A handler whose desk follows the old one keeps the invariant.
LEMMA FollowingStep ==
  ASSUME IInv, Follows(desk, desk'), UNCHANGED <<unmapped, next_id, xwayland>>
  PROVE  IInv'
BY DEF IInv, Follows, Served

\* The tail of dispatch_nav, after a method that follows the desk.
LEMMA NavTail ==
  ASSUME IInv, NEW d, Follows(desk, d), ThenRefocus(d) \/ ThenStay(d),
         UNCHANGED <<unmapped, next_id, xwayland>>
  PROVE  IInv'
<1>1. Follows(d, ApplyLayout(d))
  BY ApplyLayoutFollows DEF Follows
<1>2. CASE ThenStay(d)
  <2>1. Follows(desk, desk')
    BY <1>1, <1>2, FollowsTrans DEF ThenStay
  <2> QED
    BY <2>1, FollowingStep
<1>3. CASE ThenRefocus(d)
  <2>1. Follows(ApplyLayout(d), desk')
    BY <1>1, <1>3, FocusActiveWindowFollows DEF ThenRefocus, Follows
  <2>2. Follows(desk, desk')
    BY <1>1, <2>1, FollowsTrans
  <2> QED
    BY <2>2, FollowingStep
<1> QED
  BY <1>2, <1>3

\* A chord first drops maximize.
LEMMA ReleasedFollows ==
  ASSUME IInv
  PROVE  /\ Follows(desk, Released) /\ Released.windows = desk.windows
         /\ Released.active_monitor = desk.active_monitor
         /\ Released.monitors = desk.monitors
<1>1. IsDesk(desk)
  BY DEF IInv
<1>2. Follows(desk, Released)
  BY <1>1, NoMaximizeFollows DEF Released
<1>3. /\ Released.active_monitor = desk.active_monitor /\ Released.monitors = desk.monitors
      /\ Released.windows = desk.windows
  BY <1>1 DEF Released, IsDesk, DeskOver
<1> QED
  BY <1>2, <1>3

\* A chord that changes the monitor under the cursor.
LEMMA CursorChord ==
  ASSUME IInv, NEW m, IsShaped(m),
         \/ ThenRefocus(WithCursor(Released, m))
         \/ ThenStay(WithCursor(Released, m)),
         UNCHANGED <<unmapped, next_id, xwayland>>
  PROVE  IInv'
<1>1. Follows(desk, Released)
  BY ReleasedFollows
<1>2. Follows(Released, WithCursor(Released, m))
  BY <1>1, WithCursorFollows DEF Follows
<1>3. Follows(desk, WithCursor(Released, m))
  BY <1>1, <1>2, FollowsTrans
<1> QED
  BY <1>3, NavTail

\* The slots a directional step may aim at are slots of the monitor.
LEMMA TargetSlot ==
  ASSUME NEW m, IsShaped(m), NEW focused, NEW direction,
         NEW target \in DirectionTargets(m, focused, direction)
  PROVE  target.slot \in Slots(m)
<1> DEFINE s == Origin(m, focused)
           origin == IF focused \in MonitorWindows(m) THEN focused ELSE ActiveWindow(m)
           Ids(t) == IF GroupWindows(GroupAt(m, t)) = {} THEN {NoWindow}
                     ELSE GroupWindows(GroupAt(m, t))
           In(t) == {[slot |-> t, window |-> w] : w \in Ids(t)}
<1>1. s \in Slots(m)
  BY LocateSlot, ShapeFacts DEF Origin
<1>2. NextSlots(m, s, direction) \subseteq Slots(m)
  BY DEF NextSlots, SlotsInLine
<1>3. \/ \E t \in NextSlots(m, s, direction) : target \in In(t)
      \/ target \in In(s)
  BY DEF DirectionTargets
<1> HIDE DEF s
<1>4. \A t : target \in In(t) => target.slot = t
  <2> HIDE DEF Ids
  <2> QED
    OBVIOUS
<1> QED
  BY <1>1, <1>2, <1>3, <1>4

\* A directional step keeps the monitor in shape.
LEMMA StepToShape ==
  ASSUME NEW m, IsShaped(m), NEW target, target.slot \in Slots(m), NEW direction
  PROVE  IsShaped(StepTo(m, target, direction))
<1> DEFINE r == RevealSlot(m, target.slot, direction)
<1>1. IsShaped(r.monitor) /\ r.slot \in Slots(r.monitor)
  BY RevealSlotShape
<1>2. StepTo(m, target, direction) =
        IF target.window = NoWindow THEN SetActiveSlot(r.monitor, r.slot)
        ELSE FocusWindow(r.monitor, target.window)
  BY DEF StepTo
<1> HIDE DEF r
<1>3. IsShaped(SetActiveSlot(r.monitor, r.slot)) /\ IsShaped(FocusWindow(r.monitor, target.window))
  BY <1>1, SetActiveSlotShape, FocusWindowShape
<1> QED
  BY <1>2, <1>3

\* Carrying a window to another monitor.
LEMMA MoveWindowToMonitorFollows ==
  ASSUME NEW d, IsDesk(d), NEW w, NEW dest \in Monitors
  PROVE  Follows(d, MoveWindowToMonitor(d, w, dest))
<1>1. CASE w \notin GridWindows(d) \/ MonitorOf(d, w) = dest
  BY <1>1, FollowsSelf DEF MoveWindowToMonitor
<1>2. CASE w \in GridWindows(d) /\ MonitorOf(d, w) # dest
  <2> DEFINE source == MonitorOf(d, w)
             m == d.monitors[dest]
             s == ActiveSlot(m)
             joined == SetGroupAt(m, s, GroupAdd(GroupAt(m, s), w, ActiveWindow(m)))
             ms == [d.monitors EXCEPT ![source] = RemoveWindow(@, w), ![dest] = joined]
             k == [d EXCEPT !.active_monitor = dest]
  <2>1. source \in Monitors /\ source # dest
    BY <1>2 DEF GridWindows, MonitorOf
  <2>2. MoveWindowToMonitor(d, w, dest) = [k EXCEPT !.monitors = ms]
    BY <1>2, <2>1 DEF MoveWindowToMonitor
  <2> HIDE DEF source
  <2>3. /\ d.monitors = [j \in Monitors |-> d.monitors[j]]
        /\ \A j \in Monitors : IsShaped(d.monitors[j])
    BY DEF IsDesk, AreShaped
  <2>4. IsShaped(joined)
    BY <2>3, ShapeFacts, SetGroupAtIsShaped
  <2>5. IsShaped(RemoveWindow(d.monitors[source], w))
    BY <2>1, <2>3, RemoveWindowShape
  <2> HIDE DEF joined, m
  <2>6. ms = [j \in Monitors |-> IF j = dest THEN joined
                                 ELSE IF j = source THEN RemoveWindow(d.monitors[source], w)
                                 ELSE d.monitors[j]]
    BY <2>1, <2>3
  <2> HIDE DEF ms
  <2>7. AreShaped(ms)
    BY <2>3, <2>4, <2>5, <2>6 DEF AreShaped
  <2>8. /\ k \in DeskOver(d.monitors) /\ k.monitors = d.monitors
        /\ k.windows = d.windows /\ k.fullscreen_windows = d.fullscreen_windows
        /\ k.space = d.space /\ k.iconified = d.iconified /\ k.associated = d.associated
    BY DEF IsDesk, DeskOver
  <2> HIDE DEF k
  <2>9. Follows(d, k)
    BY <2>8 DEF Follows, IsDesk
  <2>10. Follows(k, [k EXCEPT !.monitors = ms])
    BY <2>7, <2>9, WithMonitors DEF Follows
  <2> QED
    BY <2>2, <2>9, <2>10, FollowsTrans
<1> QED
  BY <1>1, <1>2

\* The next monitor is one.
LEMMA NextMonitorType ==
  ASSUME NEW d, IsDesk(d)
  PROVE  NextMonitor(d) \in Monitors
<1>1. d.active_monitor \in Int /\ NumMonitors \in Nat \ {0}
  BY DesktopAssumption DEF IsDesk, DeskOver, Monitors
<1>2. d.active_monitor % NumMonitors \in 0..NumMonitors - 1
  BY <1>1, ModRange
<1> QED
  BY <1>1, <1>2 DEF NextMonitor, Monitors

\* Every nav chord keeps the invariant.
LEMMA NavKeepsIInv ==
  ASSUME IInv, NavStep
  PROVE  IInv'
<1> DEFINE m == Cursor(desk)
<1>1. /\ IsDesk(desk) /\ IsShaped(m)
      /\ Follows(desk, desk) /\ Follows(desk, Released) /\ IsDesk(Released)
  BY CursorShape, FollowsSelf, ReleasedFollows DEF IInv, Follows
<1> HIDE DEF m
<1>2. ASSUME NEW motion \in {-1, 1}, RotateColumnsBy(motion) PROVE IInv'
  <2>1. IsShaped(RotateColumns(m, motion))
    BY <1>1, RotateColumnsShape
  <2> QED
    BY <1>2, <2>1, CursorChord DEF RotateColumnsBy, Bound, m
<1>3. ASSUME NEW motion \in {-1, 1}, ScrollColumnBy(motion) PROVE IInv'
  <2>1. IsShaped(ScrollActiveColumn(m, motion))
    BY <1>1, ScrollActiveColumnShape
  <2> QED
    BY <1>3, <2>1, CursorChord DEF ScrollColumnBy, Bound, m
<1>4. ASSUME NEW motion \in {-1, 1}, MoveActiveColumnBy(motion) PROVE IInv'
  <2>1. IsShaped(MoveActiveColumn(m, motion))
    BY <1>1, MoveActiveColumnShape
  <2> QED
    BY <1>4, <2>1, CursorChord DEF MoveActiveColumnBy, Bound, m
<1>5. ASSUME NEW change \in {-1, 1}, ChangeVisibleColumns(change) PROVE IInv'
  <2>1. IsShaped(IncrementVisibleColumns(m, change))
    BY <1>1, ChangeBandShape
  <2> QED
    BY <1>5, <2>1, CursorChord DEF ChangeVisibleColumns, Bound, m
<1>6. ASSUME NEW direction \in Directions, SwapGroup(direction) PROVE IInv'
  <2>1. IsShaped(SwapActiveGroup(m, direction))
    BY <1>1, SwapActiveGroupShape
  <2> QED
    BY <1>6, <2>1, CursorChord DEF SwapGroup, Bound, m
<1>7. ASSUME NEW direction \in Directions, FocusWindowBy(direction) PROVE IInv'
  <2> DEFINE targets == DirectionTargets(m, FocusedWindow(desk), direction)
  <2>1. CASE \E target \in targets :
               ThenRefocus(WithCursor(Released, StepTo(m, target, direction)))
    <3>1. PICK target \in targets :
            ThenRefocus(WithCursor(Released, StepTo(m, target, direction)))
      BY <2>1
    <3>2. IsShaped(StepTo(m, target, direction))
      BY <1>1, TargetSlot, StepToShape
    <3> QED
      BY <1>7, <3>1, <3>2, CursorChord DEF FocusWindowBy, Bound
  <2>2. CASE ThenRefocus(Released)
    BY <1>1, <1>7, <2>2, NavTail DEF FocusWindowBy, Bound
  <2> QED
    BY <1>7, <2>1, <2>2 DEF FocusWindowBy, m
<1>8. ASSUME NEW direction \in Directions, MoveFocusedWindow(direction) PROVE IInv'
  <2> DEFINE w == FocusedWindow(desk)
             dest == IF w \in MonitorWindows(m)
                     THEN NeighbourSlots(m, Locate(m, w), direction, Len(m.columns)) ELSE {}
  <2>1. CASE \E s \in dest : ThenStay(WithCursor(Released, MoveWindowToGroup(m, w, s)))
    <3>1. PICK s \in dest : ThenStay(WithCursor(Released, MoveWindowToGroup(m, w, s)))
      BY <2>1
    <3>2. w \in MonitorWindows(m) /\ s \in NeighbourSlots(m, Locate(m, w), direction, Len(m.columns))
      BY <3>1
    <3>3. Locate(m, w) \in Slots(m) /\ Len(m.columns) \in Nat
      BY <1>1, <3>2, LocateSlot, ShapeFacts
    <3>4. s \in Slots(m)
      BY <1>1, <3>2, <3>3, NeighbourIsSlot
    <3>5. IsShaped(MoveWindowToGroup(m, w, s))
      BY <1>1, <3>4, MoveWindowToGroupShape
    <3> QED
      BY <1>8, <3>1, <3>5, CursorChord DEF MoveFocusedWindow, Bound
  <2>2. CASE ThenStay(Released)
    BY <1>1, <1>8, <2>2, NavTail DEF MoveFocusedWindow, Bound
  <2> QED
    BY <1>8, <2>1, <2>2 DEF MoveFocusedWindow, m
<1>9. ASSUME NEW to_left \in BOOLEAN, MoveToNewColumn(to_left) PROVE IInv'
  <2> DEFINE w == FocusedWindow(desk)
  <2>1. IsShaped(MoveWindowToNewColumn(m, w, to_left))
    BY <1>1, MoveWindowToNewColumnShape
  <2>2. \/ ThenStay(WithCursor(Released, MoveWindowToNewColumn(m, w, to_left)))
        \/ ThenStay(Released)
    BY <1>9 DEF MoveToNewColumn, m
  <2> QED
    BY <1>1, <1>9, <2>1, <2>2, CursorChord, NavTail DEF MoveToNewColumn, Bound
<1>10. ASSUME NEW forward \in BOOLEAN, ToggleMaximize(forward) PROVE IInv'
  <2> DEFINE w == FocusedWindow(desk)
             x == NextMaximize(desk.maximized, w, forward, HasSiblings(desk, w))
  <2>1. w \in Window \cup {NoWindow}
    BY <1>1, FocusedWindowType DEF IsDesk, DeskOver
  <2>2. /\ desk.maximized.stage \in {"None", "Group", "Monitor"}
        /\ desk.maximized.window \in Window \cup {NoWindow}
    BY <1>1 DEF IsDesk, DeskOver
  <2>3. x \in [stage : {"None", "Group", "Monitor"}, window : Window \cup {NoWindow}]
    BY <2>1, <2>2 DEF NextMaximize, NoMaximize
  <2>4. Follows(desk, [desk EXCEPT !.maximized = x])
    BY <1>1, <2>3, WithMaximizedFollows
  <2>5. ThenStay(desk) \/ ThenStay([desk EXCEPT !.maximized = x])
    BY <1>10 DEF ToggleMaximize
  <2> QED
    BY <1>1, <1>10, <2>4, <2>5, NavTail DEF ToggleMaximize, Bound
<1>11. ASSUME NEW keeps \in BOOLEAN, Redraw(keeps) PROVE IInv'
  BY <1>1, <1>11, NavTail DEF Redraw, Bound
<1>12. CASE NewGroup
  <2>1. IsShaped(GrowActiveColumn(m))
    BY <1>1, GrowActiveColumnShape
  <2> QED
    BY <1>12, <2>1, CursorChord DEF NewGroup, Bound, m
<1>13. CASE FocusNextMonitor
  <2> DEFINE k == [Released EXCEPT !.active_monitor = NextMonitor(desk)]
  <2>1. NextMonitor(desk) \in Monitors
    BY <1>1, NextMonitorType
  <2>2. /\ k \in DeskOver(Released.monitors) /\ k.monitors = Released.monitors
        /\ k.windows = Released.windows /\ k.fullscreen_windows = Released.fullscreen_windows
        /\ k.space = Released.space /\ k.iconified = Released.iconified
        /\ k.associated = Released.associated
    BY <1>1, <2>1 DEF IsDesk, DeskOver
  <2>3. Follows(Released, k)
    BY <1>1, <2>2 DEF Follows, IsDesk
  <2>4. Follows(desk, k)
    BY <1>1, <2>3, FollowsTrans
  <2>5. ThenRefocus(k) \/ ThenRefocus(Released)
    BY <1>13 DEF FocusNextMonitor
  <2> QED
    BY <1>1, <1>13, <2>4, <2>5, NavTail DEF FocusNextMonitor, Bound
<1>14. CASE MoveWindowToNextMonitor
  <2> DEFINE k == MoveWindowToMonitor(Released, FocusedWindow(desk), NextMonitor(desk))
  <2>1. Follows(Released, k)
    BY <1>1, NextMonitorType, MoveWindowToMonitorFollows
  <2>2. Follows(desk, k)
    BY <1>1, <2>1, FollowsTrans
  <2>3. ThenRefocus(k) \/ ThenRefocus(Released)
    BY <1>14 DEF MoveWindowToNextMonitor
  <2> QED
    BY <1>1, <1>14, <2>2, <2>3, NavTail DEF MoveWindowToNextMonitor, Bound
<1>15. CASE RemoveFocusedWindow
  <2> DEFINE w == FocusedWindow(desk)
             k == RemoveById(Released, {w})
  <2>1. CASE ThenRefocus(WithCursor(Released, RemoveActiveGroup(m)))
    BY <1>1, <1>15, <2>1, CursorChord, RemoveActiveGroupShape DEF RemoveFocusedWindow, Bound
  <2>2. CASE ThenRefocus(k)
    <3>1. /\ IsDesk(k) /\ k.windows = desk.windows \ {w}
          /\ k.fullscreen_windows \subseteq (desk.fullscreen_windows \cup desk.windows) \ {w}
      BY <1>1, RemoveByIdDesk DEF Follows
    <3>2. Follows(k, ApplyLayout(k))
      BY <3>1, ApplyLayoutFollows
    <3>3. Follows(ApplyLayout(k), desk')
      BY <2>2, <3>2, FocusActiveWindowFollows DEF ThenRefocus, Follows
    <3>4. Follows(k, desk')
      BY <3>2, <3>3, FollowsTrans
    <3>5. UNCHANGED <<unmapped, next_id, xwayland>>
      BY <1>15 DEF RemoveFocusedWindow, Bound
    <3> HIDE DEF k
    <3> QED
      BY <3>1, <3>4, <3>5 DEF IInv, Follows, Served
  <2> QED
    BY <1>15, <2>1, <2>2 DEF RemoveFocusedWindow, m
<1>16. CASE FocusNextFullscreen
  <2>1. CASE ThenStay(Released)
    BY <1>1, <1>16, <2>1, NavTail DEF FocusNextFullscreen, Bound
  <2>2. CASE \E w : desk' \in {ApplyLayout(e) : e \in FocusById(Released, w)}
    <3>0. PICK w : desk' \in {ApplyLayout(e) : e \in FocusById(Released, w)}
      BY <2>2
    <3>1. PICK e \in FocusById(Released, w) : desk' = ApplyLayout(e)
      BY <3>0
    <3>2. Follows(Released, e)
      BY <1>1, <3>1, FocusByIdFollows
    <3>3. Follows(e, ApplyLayout(e))
      BY <3>2, ApplyLayoutFollows DEF Follows
    <3>4. Follows(desk, desk')
      BY <1>1, <3>1, <3>2, <3>3, FollowsTrans
    <3> QED
      BY <1>16, <3>4, FollowingStep DEF FocusNextFullscreen, Bound
  <2> QED
    BY <1>16, <2>1, <2>2 DEF FocusNextFullscreen
<1> QED
  BY <1>2, <1>3, <1>4, <1>5, <1>6, <1>7, <1>8, <1>9, <1>10, <1>11, <1>12, <1>13,
     <1>14, <1>15, <1>16, NavStep DEF NavStep

\* A handler whose desk follows one that tracks a newly mapped window.
LEMMA MappingStep ==
  ASSUME IInv, NEW w \in Window, NEW k, IsDesk(k),
         k.windows = desk.windows \cup {w},
         k.fullscreen_windows = desk.fullscreen_windows,
         Follows(k, desk'),
         unmapped' \in {unmapped, unmapped \ {w}},
         next_id' \in {next_id, next_id + 1},
         xwayland' = xwayland, w \in Wayland \/ xwayland.server = "ready"
  PROVE  IInv'
<1>1. /\ IsDesk(desk') /\ desk'.windows = desk.windows \cup {w}
      /\ desk'.fullscreen_windows \subseteq desk.fullscreen_windows \cup desk.windows \cup {w}
  BY DEF Follows
<1>2. desk'.fullscreen_windows \subseteq desk'.windows \cup unmapped'
  BY <1>1 DEF IInv
<1>3. unmapped' \subseteq Wayland /\ next_id' \in Nat \ {0}
  BY DEF IInv
<1>4. Served'
  BY <1>1 DEF IInv, Served
<1> QED
  BY <1>1, <1>2, <1>3, <1>4 DEF IInv

\* A desk that comes to track a window, with or without its surface.
LEMMA TrackedDesk ==
  ASSUME NEW d, IsDesk(d), NEW w, NEW k \in DeskOver(d.monitors),
         k.monitors = d.monitors, k.windows = d.windows \cup {w},
         k.associated \subseteq d.associated \cup {w}, k.space \subseteq d.space \cup {w},
         k.iconified = d.iconified
  PROVE  IsDesk(k)
BY DEF IsDesk

\* Tiling a window unless it is fullscreen.
LEMMA TiledFollows ==
  ASSUME NEW d, IsDesk(d), NEW w
  PROVE  Follows(d, Tiled(d, w))
<1>1. IsShaped(AddWindows(Cursor(d), <<w>>, FocusedWindow(d)))
  BY CursorShape, AddWindowsShape
<1> QED
  BY <1>1, WithCursorFollows, FollowsSelf DEF Tiled

\* A change of fullscreen asked for by a client or by the taskbar.
LEMMA FullscreenFollows ==
  ASSUME NEW d, IsDesk(d), NEW w \in d.windows, NEW enter \in BOOLEAN
  PROVE  Follows(d, ApplyLayout(IF enter THEN EnterFullscreen(d, w)
                                ELSE IF w \in d.fullscreen_windows
                                THEN LeaveFullscreen(d, <<w>>) ELSE d))
<1> DEFINE k == IF enter THEN EnterFullscreen(d, w)
                ELSE IF w \in d.fullscreen_windows THEN LeaveFullscreen(d, <<w>>) ELSE d
<1>1. Follows(d, k)
  BY EnterFullscreenFollows, LeaveFullscreenFollows, FollowsSelf
<1> HIDE DEF k
<1>2. Follows(k, ApplyLayout(k))
  BY <1>1, ApplyLayoutFollows DEF Follows
<1>3. Follows(d, ApplyLayout(k))
  BY <1>1, <1>2, FollowsTrans
<1> QED
  BY <1>3 DEF k

\* Eviction, with or without a layout pass: the server stays, or leaves no window.
LEMMA EvictingStep ==
  ASSUME IInv, NEW ws,
         desk' = RemoveById(desk, ws) \/ desk' = ApplyLayout(RemoveById(desk, ws)),
         UNCHANGED <<unmapped, next_id>>,
         xwayland' = xwayland \/ desk.windows \ ws \subseteq Wayland
  PROVE  IInv'
<1> DEFINE k == RemoveById(desk, ws)
<1>1. /\ IsDesk(k) /\ k.windows = desk.windows \ ws
      /\ k.fullscreen_windows = desk.fullscreen_windows \ ws
  BY RemoveByIdDesk DEF IInv
<1> HIDE DEF k
<1>2. Follows(k, ApplyLayout(k)) /\ Follows(k, k)
  BY <1>1, ApplyLayoutFollows, FollowsSelf
<1>3. Follows(k, desk')
  BY <1>2 DEF k
<1> QED
  BY <1>1, <1>3 DEF IInv, Follows, Served

\* The window the next map request creates.
LEMMA BornWindow ==
  ASSUME IInv, NEW shell, Born(shell)
  PROVE  next_id \in Window /\ next_id' = next_id + 1 /\ Kind[next_id] = shell
BY DesktopAssumption DEF IInv, Born, Window

\* Every client request keeps the invariant.
LEMMA ClientKeepsIInv ==
  ASSUME IInv, ClientStep
  PROVE  IInv'
<1>1. IsDesk(desk) /\ desk.windows \subseteq Window
  BY DEF IInv, IsDesk, DeskOver
<1>2. CASE NewToplevel
  <2>1. next_id \in Wayland /\ next_id' = next_id + 1
    BY <1>2, BornWindow DEF NewToplevel, Wayland
  <2> QED
    BY <1>2, <2>1 DEF NewToplevel, IInv, Served
<1>3. CASE XwaylandReady \/ XwaylandFails
  BY <1>3 DEF XwaylandReady, XwaylandFails, IInv, Served
<1>14. CASE XwaylandDisconnected
  <2> DEFINE stale == desk.windows \ Wayland
  <2>1. /\ \/ desk' = desk /\ stale = {}
           \/ desk' = ApplyLayout(RemoveById(desk, stale))
        /\ UNCHANGED <<unmapped, next_id>>
    BY <1>14 DEF XwaylandDisconnected
  <2>2. desk.windows \ stale \subseteq Wayland
    OBVIOUS
  <2>3. CASE desk' = desk /\ stale = {}
    BY <2>1, <2>3 DEF IInv, Served
  <2>4. CASE desk' = ApplyLayout(RemoveById(desk, stale))
    <3> HIDE DEF stale
    <3> QED
      BY <2>1, <2>2, <2>4, EvictingStep
  <2> QED
    BY <2>1, <2>3, <2>4
<1>4. ASSUME NEW fullscreen \in BOOLEAN, NEW surface \in BOOLEAN, MapX11(fullscreen, surface)
      PROVE  IInv'
  <2> DEFINE w == next_id
             a == IF surface THEN desk.associated \cup {w} ELSE desk.associated
             k == [desk EXCEPT !.windows = @ \cup {w}, !.associated = a]
             placed == IF fullscreen THEN EnterFullscreen(k, w) ELSE Tiled(k, w)
  <2>1. /\ w \in Window /\ next_id' = next_id + 1 /\ UNCHANGED <<unmapped, xwayland>>
        /\ xwayland.server = "ready"
    BY <1>4, BornWindow DEF MapX11
  <2>0. a \subseteq Window /\ a \subseteq desk.associated \cup {w}
    BY <1>1, <2>1 DEF IsDesk
  <2> HIDE DEF a
  <2>2. /\ k \in DeskOver(desk.monitors) /\ k.monitors = desk.monitors
        /\ k.windows = desk.windows \cup {w}
        /\ k.fullscreen_windows = desk.fullscreen_windows
        /\ k.space = desk.space /\ k.iconified = desk.iconified /\ k.associated = a
    BY <1>1, <2>0, <2>1 DEF IsDesk, DeskOver
  <2>3. IsDesk(k)
    BY <1>1, <2>0, <2>2, TrackedDesk
  <2>4. PICK focused \in FocusById(placed, w) : desk' = ApplyLayout(focused)
    BY <1>4 DEF MapX11, a
  <2> HIDE DEF k
  <2>5. Follows(k, placed)
    BY <2>2, <2>3, EnterFullscreenFollows, TiledFollows
  <2> HIDE DEF placed
  <2>6. Follows(placed, focused)
    BY <2>4, <2>5, FocusByIdFollows DEF Follows
  <2>7. Follows(focused, desk')
    BY <2>4, <2>6, ApplyLayoutFollows DEF Follows
  <2>8. Follows(k, desk')
    BY <2>5, <2>6, <2>7, FollowsTrans
  <2> QED
    BY <2>1, <2>2, <2>3, <2>8, MappingStep
<1>5. ASSUME NEW surface \in BOOLEAN, MapMenu(surface) PROVE IInv'
  <2> DEFINE w == next_id
             a == IF surface THEN desk.associated \cup {w} ELSE desk.associated
             sp == desk.space \cup {w}
  <2>1. /\ w \in Window /\ next_id' = next_id + 1 /\ UNCHANGED <<unmapped, xwayland>>
        /\ xwayland.server = "ready"
    BY <1>5, BornWindow DEF MapMenu
  <2>2. a \subseteq Window /\ a \subseteq desk.associated \cup {w}
    BY <1>1, <2>1 DEF IsDesk
  <2>3. desk' = [desk EXCEPT !.windows = @ \cup {w}, !.space = sp, !.associated = a]
    BY <1>5 DEF MapMenu
  <2> HIDE DEF a
  <2>4. /\ desk' \in DeskOver(desk.monitors) /\ desk'.monitors = desk.monitors
        /\ desk'.windows = desk.windows \cup {w}
        /\ desk'.fullscreen_windows = desk.fullscreen_windows
        /\ desk'.space = sp /\ desk'.iconified = desk.iconified /\ desk'.associated = a
    BY <1>1, <2>1, <2>2, <2>3 DEF IsDesk, DeskOver
  <2>5. IsDesk(desk')
    BY <1>1, <2>2, <2>4, TrackedDesk
  <2> QED
    BY <2>1, <2>4, <2>5, FollowsSelf, MappingStep
<1>6. ASSUME NEW w \in Window, FirstBuffer(w) PROVE IInv'
  <2> DEFINE k == [desk EXCEPT !.windows = @ \cup {w}]
  <2>1. /\ k \in DeskOver(desk.monitors) /\ k.monitors = desk.monitors
        /\ k.windows = desk.windows \cup {w}
        /\ k.fullscreen_windows = desk.fullscreen_windows
        /\ k.space = desk.space /\ k.iconified = desk.iconified
        /\ k.associated = desk.associated
    BY <1>1 DEF IsDesk, DeskOver
  <2>2. /\ desk' \in FocusById(ApplyLayout(Tiled(k, w)), w)
        /\ unmapped' = unmapped \ {w} /\ UNCHANGED <<next_id, xwayland>>
        /\ w \in Wayland
    BY <1>6 DEF FirstBuffer, IInv
  <2> HIDE DEF k
  <2>3. IsDesk(k)
    BY <1>1, <2>1, TrackedDesk
  <2>4. Follows(k, Tiled(k, w))
    BY <2>3, TiledFollows
  <2>5. Follows(Tiled(k, w), ApplyLayout(Tiled(k, w)))
    BY <2>4, ApplyLayoutFollows DEF Follows
  <2>6. Follows(ApplyLayout(Tiled(k, w)), desk')
    BY <2>2, <2>5, FocusByIdFollows DEF Follows
  <2>7. Follows(k, desk')
    BY <2>4, <2>5, <2>6, FollowsTrans
  <2> QED
    BY <2>1, <2>2, <2>3, <2>7, MappingStep
<1>7. ASSUME NEW w \in Window, ToplevelDestroyed(w) PROVE IInv'
  <2>1. CASE /\ w \in unmapped /\ unmapped' = unmapped \ {w}
             /\ desk' = [desk EXCEPT !.fullscreen_windows = @ \ {w}]
    <3>1. /\ desk' \in DeskOver(desk.monitors) /\ desk'.monitors = desk.monitors
          /\ desk'.windows = desk.windows
          /\ desk'.fullscreen_windows = desk.fullscreen_windows \ {w}
          /\ desk'.space = desk.space /\ desk'.iconified = desk.iconified
          /\ desk'.associated = desk.associated
      BY <1>1, <2>1 DEF IsDesk, DeskOver
    <3>2. IsDesk(desk')
      BY <1>1, <3>1 DEF IsDesk
    <3>3. UNCHANGED <<next_id, xwayland>>
      BY <1>7 DEF ToplevelDestroyed
    <3> QED
      BY <2>1, <3>1, <3>2, <3>3 DEF IInv, Served
  <2>2. CASE desk' = ApplyLayout(RemoveById(desk, {w})) /\ UNCHANGED unmapped
    BY <1>7, <2>2, EvictingStep DEF ToplevelDestroyed
  <2> QED
    BY <1>7, <2>1, <2>2 DEF ToplevelDestroyed
<1>8. ASSUME NEW w \in Window, SurfaceAssociated(w) PROVE IInv'
  <2> DEFINE k == [desk EXCEPT !.associated = @ \cup {w}]
  <2>1. /\ w \in desk.windows
        /\ desk' = k \/ desk' \in FocusById(k, w)
        /\ UNCHANGED <<unmapped, next_id, xwayland>>
    BY <1>8 DEF SurfaceAssociated
  <2>2. /\ k \in DeskOver(desk.monitors) /\ k.monitors = desk.monitors
        /\ k.windows = desk.windows /\ k.fullscreen_windows = desk.fullscreen_windows
        /\ k.space = desk.space /\ k.iconified = desk.iconified
        /\ k.associated = desk.associated \cup {w}
    BY <1>1 DEF IsDesk, DeskOver
  <2> HIDE DEF k
  <2>3. k.windows = desk.windows \cup {w}
    BY <2>1, <2>2
  <2>4. IsDesk(k)
    BY <1>1, <2>2, <2>3, TrackedDesk
  <2>5. Follows(k, desk')
    BY <2>1, <2>4, FollowsSelf, FocusByIdFollows
  <2> QED
    BY <2>1, <2>2, <2>5, FollowingStep DEF Follows
<1>9. ASSUME NEW w \in Window, X11Withdrawn(w) PROVE IInv'
  <2>1. /\ \/ desk' = RemoveById(desk, {w})
           \/ desk' = ApplyLayout(RemoveById(desk, {w}))
           \/ desk' = desk
        /\ UNCHANGED <<unmapped, next_id, xwayland>>
    BY <1>9 DEF X11Withdrawn
  <2> QED
    BY <1>1, <2>1, EvictingStep, FollowsSelf, FollowingStep
<1>10. ASSUME NEW w \in Window, ActiveWindowRequest(w) PROVE IInv'
  BY <1>1, <1>10, FocusByIdFollows, FollowingStep DEF ActiveWindowRequest
<1>11. ASSUME NEW w \in Window, NEW enter \in BOOLEAN, ClientFullscreen(w, enter) PROVE IInv'
  <2>1. UNCHANGED <<unmapped, next_id, xwayland>>
    BY <1>11 DEF ClientFullscreen
  <2> DEFINE fs == IF enter THEN desk.fullscreen_windows \cup {w}
                   ELSE desk.fullscreen_windows \ {w}
  <2>2. CASE w \in unmapped /\ desk' = [desk EXCEPT !.fullscreen_windows = fs]
    <3>1. /\ desk' \in DeskOver(desk.monitors) /\ desk'.monitors = desk.monitors
          /\ desk'.windows = desk.windows /\ desk'.fullscreen_windows = fs
          /\ desk'.space = desk.space /\ desk'.iconified = desk.iconified
          /\ desk'.associated = desk.associated
      BY <1>1, <2>2 DEF IsDesk, DeskOver
    <3>2. IsDesk(desk')
      BY <1>1, <3>1 DEF IsDesk
    <3> QED
      BY <2>1, <2>2, <3>1, <3>2 DEF IInv, Served
  <2>3. CASE w \in desk.windows /\ desk' = Fullscreened(w, enter)
    <3>1. Follows(desk, desk')
      BY <1>1, <2>3, FullscreenFollows DEF Fullscreened
    <3> QED
      BY <2>1, <3>1, FollowingStep
  <2> QED
    BY <1>11, <2>2, <2>3 DEF ClientFullscreen
<1>12. ASSUME NEW w \in Window, NEW enter \in BOOLEAN, X11Fullscreen(w, enter) PROVE IInv'
  <2>1. w \in desk.windows /\ desk' = Fullscreened(w, enter) /\ UNCHANGED <<unmapped, next_id, xwayland>>
    BY <1>12 DEF X11Fullscreen
  <2>2. Follows(desk, desk')
    BY <1>1, <2>1, FullscreenFollows DEF Fullscreened
  <2> QED
    BY <2>1, <2>2, FollowingStep
<1>13. ASSUME NEW w \in Window, ConfigureNotify(w) PROVE IInv'
  <2>1. /\ w \in desk.windows /\ desk' = [desk EXCEPT !.space = @ \cup {w}]
        /\ UNCHANGED <<unmapped, next_id, xwayland>>
    BY <1>13 DEF ConfigureNotify
  <2>2. /\ desk' \in DeskOver(desk.monitors) /\ desk'.monitors = desk.monitors
        /\ desk'.windows = desk.windows /\ desk'.space = desk.space \cup {w}
        /\ desk'.fullscreen_windows = desk.fullscreen_windows
        /\ desk'.iconified = desk.iconified /\ desk'.associated = desk.associated
    BY <1>1, <2>1 DEF IsDesk, DeskOver
  <2>3. Follows(desk, desk')
    BY <1>1, <2>1, <2>2 DEF Follows, IsDesk
  <2> QED
    BY <2>1, <2>3, FollowingStep
<1> QED
  BY <1>2, <1>3, <1>4, <1>5, <1>6, <1>7, <1>8, <1>9, <1>10, <1>11, <1>12, <1>13, <1>14,
     ClientStep
     DEF ClientStep

\* So does every step of the pointer, the taskbar and the launcher.
LEMMA DeviceKeepsIInv ==
  ASSUME IInv, DeviceStep
  PROVE  IInv'
<1>1. IsDesk(desk) /\ desk.windows \subseteq Window
  BY DEF IInv, IsDesk, DeskOver
<1>2. UNCHANGED <<unmapped, next_id, xwayland>>
  BY DEF DeviceStep, Device, Taskbar, ClickDesktop, Click, Hover, Activate, SetMaximized,
         UnsetMaximized, TaskbarFullscreen, LayerCommit, LayerDestroyed
<1>3. CASE ClickDesktop
  <2>1. Follows(desk, desk')
    BY <1>1, <1>3, WithFocusFollows DEF ClickDesktop
  <2> QED
    BY <1>2, <2>1, FollowingStep
<1>4. ASSUME NEW w \in Window, Click(w) \/ Hover(w) \/ Activate(w) PROVE IInv'
  <2>1. desk' \in FocusById(desk, w)
    BY <1>4 DEF Click, Hover, Activate
  <2> QED
    BY <1>1, <1>2, <2>1, FocusByIdFollows, FollowingStep
<1>5. ASSUME NEW w \in Window, SetMaximized(w) \/ UnsetMaximized(w) PROVE IInv'
  <2>1. PICK x \in [stage : {"None", "Group", "Monitor"}, window : Window \cup {NoWindow}] :
          desk' = ApplyLayout([desk EXCEPT !.maximized = x])
    BY <1>5 DEF SetMaximized, UnsetMaximized, NoMaximize
  <2> DEFINE k == [desk EXCEPT !.maximized = x]
  <2>2. Follows(desk, k)
    BY <1>1, WithMaximizedFollows
  <2> HIDE DEF k
  <2>3. Follows(k, ApplyLayout(k))
    BY <2>2, ApplyLayoutFollows DEF Follows
  <2>4. desk' = ApplyLayout(k)
    BY <2>1 DEF k
  <2>5. Follows(desk, desk')
    BY <2>2, <2>3, <2>4, FollowsTrans
  <2> QED
    BY <1>2, <2>5, FollowingStep
<1>6. ASSUME NEW w \in Window, NEW enter \in BOOLEAN, TaskbarFullscreen(w, enter) PROVE IInv'
  <2>1. Follows(desk, desk')
    BY <1>1, <1>6, FullscreenFollows DEF TaskbarFullscreen, Taskbar, Fullscreened
  <2> QED
    BY <1>2, <2>1, FollowingStep
<1>7. ASSUME NEW reflow \in BOOLEAN, LayerCommit(reflow) \/ LayerDestroyed(reflow) PROVE IInv'
  <2> DEFINE k == IF reflow THEN ApplyLayout(desk) ELSE desk
  <2>1. \/ desk' = [k EXCEPT !.focus = LayerFocus]
        \/ desk' \in FocusActiveWindow(k)
        \/ desk' = k
    BY <1>7 DEF LayerCommit, LayerDestroyed
  <2>2. Follows(desk, k)
    BY <1>1, ApplyLayoutFollows, FollowsSelf
  <2> HIDE DEF k
  <2>3. Follows(k, desk')
    <3>1. IsDesk(k) /\ LayerFocus \in k.windows \cup {NoWindow, LayerFocus}
      BY <2>2 DEF Follows
    <3>2. CASE desk' = [k EXCEPT !.focus = LayerFocus]
      BY <3>1, <3>2, WithFocusFollows
    <3>3. CASE desk' \in FocusActiveWindow(k)
      BY <3>1, <3>3, FocusActiveWindowFollows
    <3>4. CASE desk' = k
      BY <3>1, <3>4, FollowsSelf
    <3> QED
      BY <2>1, <3>2, <3>3, <3>4
  <2>4. Follows(desk, desk')
    BY <2>2, <2>3, FollowsTrans
  <2> QED
    BY <1>2, <2>4, FollowingStep
<1> QED
  BY <1>3, <1>4, <1>5, <1>6, <1>7, DeviceStep DEF DeviceStep

----------------------------------------------------------------------------
(* The theorems of the first invariant *)

\* The desk starts out empty, with a shaped monitor for every head.
LEMMA InitIInv == Init => IInv
<1> SUFFICES ASSUME Init PROVE IInv
  OBVIOUS
<1>1. PICK a \in Monitors :
        desk = [monitors |-> [i \in Monitors |-> NewMonitor(VisibleColumns)],
                active_monitor |-> a, windows |-> {}, fullscreen_windows |-> {},
                maximized |-> NoMaximize, focus |-> NoWindow, space |-> {},
                iconified |-> {}, associated |-> {}]
  BY DEF Init
<1>2. AreShaped(desk.monitors)
  BY <1>1, NewMonitorShape, DesktopAssumption DEF AreShaped
<1>3. desk \in DeskOver(desk.monitors)
  BY <1>1 DEF DeskOver, NoMaximize
<1> QED
  BY <1>1, <1>2, <1>3 DEF IInv, IsDesk, Init, Served

\* The invariant is inductive.
LEMMA NextIInv == IInv /\ [Next]_vars => IInv'
<1> SUFFICES ASSUME IInv, [Next]_vars PROVE IInv'
  OBVIOUS
<1>1. CASE UNCHANGED vars
  BY <1>1 DEF vars, IInv, Served
<1> QED
  BY <1>1, NavKeepsIInv, ClientKeepsIInv, DeviceKeepsIInv DEF Next

\* Every reachable desk has shaped monitors and acts on tracked windows only.
THEOREM Invariance == Spec => []IInv
BY InitIInv, NextIInv, PTL DEF Spec

\* Whatever the chords, clients and devices do, no column, row or band index
\* of any monitor leaves its range.
THEOREM IndexSafety == Spec => []IndexSafe
<1>1. IInv => IndexSafe
  BY ShapedIsIndexSafe DEF IInv, IsDesk, AreShaped, IndexSafe
<1> QED
  BY <1>1, Invariance, PTL

\* An evicted window lingers in no set the layout acts on.
THEOREM NoTraceLeft == Spec => []NoTrace
<1>1. IInv => NoTrace
  BY DEF IInv, IsDesk, NoTrace, Served
<1> QED
  BY <1>1, Invariance, PTL

----------------------------------------------------------------------------
(* What is placed *)

\* No window is on two monitors.
Apart(ms) ==
  \A i, j \in Monitors : i # j => MonitorWindows(ms[i]) \cap MonitorWindows(ms[j]) = {}

\* The monitors of a desk: sound ones.
IsWorkspace(ms) ==
  /\ \A i \in Monitors : IsSound(ms[i])
  /\ Apart(ms)

\* The windows of all the monitors.
AllWindows(ms) == UNION {MonitorWindows(ms[i]) : i \in Monitors}

\* The windows that may come to have a tile or the whole screen.
Tileable == Managed \cup MayFullscreen

\* Every managed window, but those of X, has a tile or the whole screen.
IsPlacedBut(d, X) ==
  /\ IsDesk(d)
  /\ IsWorkspace(d.monitors)
  /\ GridWindows(d) \subseteq d.windows
  /\ GridWindows(d) \cap d.fullscreen_windows = {}
  /\ GridWindows(d) \cup d.fullscreen_windows \subseteq Tileable
  /\ (Managed \cap d.windows) \ (d.fullscreen_windows \cup X) \subseteq GridWindows(d)

\* Every managed window has its place.
IsPlaced(d) == IsPlacedBut(d, {})

\* Where a tile with the keyboard is on the monitor under the cursor: in the
\* cursor's slot, but old may be anywhere.
Home(old, m) == GroupWindows(GroupAt(m, ActiveSlot(m))) \cup (MonitorWindows(m) \cap {old})

\* The tile that has the keyboard is at home on the monitor under the cursor.
AtHome(old, d) == d.focus \in GridWindows(d) => d.focus \in Home(old, Cursor(d))

\* The windows in the visible bands.
Shown(d) == UNION {VisibleWindows(d.monitors[i]) : i \in Monitors}

\* What is on screen, and what the X11 clients were told, is what the model says.
IsFresh(d) ==
  /\ d.space \cap GridWindows(d) \cap Managed = Shown(d) \cap Managed
  /\ d.iconified = (X11 \cap d.windows) \ d.space

\* Between handlers.
Settled(old, d) == IsPlaced(d) /\ AtHome(old, d) /\ IsFresh(d)

\* The windows, and which of them have a surface, stay.
SameWindows(d, e) == e.windows = d.windows /\ e.associated = d.associated

\* The windows of a desk's grid are those of its monitors.
LEMMA GridIsAll ==
  ASSUME NEW d
  PROVE  GridWindows(d) = AllWindows(d.monitors)
BY DEF GridWindows, AllWindows

\* The monitors ns are those of ms, but for monitor i, which now has the windows ws.
Replaces(ns, ms, i, ws) ==
  /\ i \in Monitors
  /\ Becomes(ms[i], ns[i], ws)
  /\ ws \cap (AllWindows(ms) \ MonitorWindows(ms[i])) = {}
  /\ \A j \in Monitors \ {i} : ns[j] = ms[j]

\* One monitor of a workspace gives way to one with other windows.
LEMMA ReplaceMonitor ==
  ASSUME NEW ms, IsWorkspace(ms), NEW ns, NEW i, NEW ws, Replaces(ns, ms, i, ws)
  PROVE  /\ IsWorkspace(ns)
         /\ AllWindows(ns) = (AllWindows(ms) \ MonitorWindows(ms[i])) \cup ws
<1> USE DEF Replaces
<1> DEFINE MW(j) == MonitorWindows(ms[j])
<1>2. MonitorWindows(ns[i]) = ws /\ IsSound(ns[i])
  BY DEF Becomes
<1>3. \A j \in Monitors : MonitorWindows(ns[j]) = IF j = i THEN ws ELSE MW(j)
  BY <1>2
<1>4. \A j, k \in Monitors : j # k => MW(j) \cap MW(k) = {}
  BY DEF IsWorkspace, Apart
<1>5. AllWindows(ms) = UNION {MW(j) : j \in Monitors}
  BY DEF AllWindows
<1> HIDE DEF MW
<1>6. \A j \in Monitors : j # i => MW(j) \subseteq AllWindows(ms) \ MW(i)
  BY <1>4, <1>5
<1>7. AllWindows(ns) = (AllWindows(ms) \ MW(i)) \cup ws
  <2>1. AllWindows(ns) = UNION {MonitorWindows(ns[j]) : j \in Monitors}
    BY DEF AllWindows
  <2>2. ASSUME NEW x \in AllWindows(ns) PROVE x \in (AllWindows(ms) \ MW(i)) \cup ws
    BY <2>1, <2>2, <1>3, <1>6
  <2>3. ASSUME NEW x \in AllWindows(ms) \ MW(i) PROVE x \in AllWindows(ns)
    <3>1. PICK j \in Monitors : x \in MW(j)
      BY <1>5, <2>3
    <3> QED
      BY <1>3, <2>1, <2>3, <3>1
  <2>4. ws \subseteq AllWindows(ns)
    BY <1>3, <2>1
  <2> QED
    BY <2>2, <2>3, <2>4
<1>8. Apart(ns)
  <2>1. ASSUME NEW j \in Monitors, NEW k \in Monitors, j # k
        PROVE  MonitorWindows(ns[j]) \cap MonitorWindows(ns[k]) = {}
    BY <1>3, <1>4, <1>6, <2>1 DEF MW
  <2> QED
    BY <2>1 DEF Apart
<1>9. \A j \in Monitors : IsSound(ns[j])
  BY <1>2 DEF IsWorkspace
<1>10. IsWorkspace(ns)
  BY <1>8, <1>9 DEF IsWorkspace
<1> QED
  BY <1>7, <1>10 DEF MW

\* In desk e the windows of N have joined monitor i, and are not fullscreen.
Joins(d, e, i, N) ==
  /\ IsDesk(e) /\ e.windows = d.windows
  /\ N \subseteq d.windows \cap Tileable /\ N \cap GridWindows(d) = {}
  /\ i \in Monitors
  /\ Becomes(d.monitors[i], e.monitors[i], MonitorWindows(d.monitors[i]) \cup N)
  /\ \A j \in Monitors \ {i} : e.monitors[j] = d.monitors[j]
  /\ e.fullscreen_windows = d.fullscreen_windows \ N

\* In desk e the windows of N have left the grid: each is fullscreen, or no
\* longer tracked.
Leaves(d, e, N) ==
  /\ IsDesk(e) /\ e.windows \subseteq d.windows /\ d.windows \ N \subseteq e.windows
  /\ \A i \in Monitors :
       Becomes(d.monitors[i], e.monitors[i], MonitorWindows(d.monitors[i]) \ N)
  /\ e.windows \cap N \subseteq e.fullscreen_windows
  /\ d.fullscreen_windows \ N \subseteq e.fullscreen_windows
  /\ e.fullscreen_windows \subseteq d.fullscreen_windows \cup (N \cap Tileable)

\* Windows the grid does not hold join one monitor.
LEMMA Placing ==
  ASSUME NEW d, NEW X, IsPlacedBut(d, X), NEW e, NEW i, NEW N, Joins(d, e, i, N)
  PROVE  IsPlacedBut(e, X \ N) /\ GridWindows(e) = GridWindows(d) \cup N
<1> USE DEF Joins
<1> DEFINE ms == d.monitors
           ns == e.monitors
<1>1. GridWindows(d) = AllWindows(ms) /\ GridWindows(e) = AllWindows(ns)
  BY GridIsAll
<1>2. IsWorkspace(ms) /\ MonitorWindows(ms[i]) \subseteq AllWindows(ms)
  BY DEF IsPlacedBut, AllWindows
<1>3. /\ IsWorkspace(ns)
      /\ AllWindows(ns) = (AllWindows(ms) \ MonitorWindows(ms[i]))
                            \cup (MonitorWindows(ms[i]) \cup N)
  <2> DEFINE ws == MonitorWindows(ms[i]) \cup N
  <2>1. Replaces(ns, ms, i, ws)
    BY <1>1 DEF Replaces
  <2> HIDE DEF ws, ms, ns
  <2>2. /\ IsWorkspace(ns)
        /\ AllWindows(ns) = (AllWindows(ms) \ MonitorWindows(ms[i])) \cup ws
    BY <1>2, <2>1, ReplaceMonitor
  <2> QED
    BY <2>2 DEF ws
<1>4. GridWindows(e) = GridWindows(d) \cup N
  BY <1>1, <1>2, <1>3
<1> QED
  BY <1>3, <1>4 DEF IsPlacedBut

\* Windows leave the grid: they are no longer tracked, or fullscreen.
LEMMA Displacing ==
  ASSUME NEW d, NEW X, IsPlacedBut(d, X), NEW e, NEW N, Leaves(d, e, N)
  PROVE  IsPlacedBut(e, X \ N) /\ GridWindows(e) = GridWindows(d) \ N
<1> USE DEF Leaves
<1>1. \A i \in Monitors :
        /\ IsSound(e.monitors[i])
        /\ MonitorWindows(e.monitors[i]) = MonitorWindows(d.monitors[i]) \ N
  BY DEF Becomes
<1>2. GridWindows(e) = GridWindows(d) \ N
  BY <1>1 DEF GridWindows
<1>3. Apart(e.monitors)
  BY <1>1 DEF IsPlacedBut, IsWorkspace, Apart
<1>4. IsWorkspace(e.monitors)
  BY <1>1, <1>3 DEF IsPlacedBut, IsWorkspace, IsDesk, AreShaped
<1> QED
  BY <1>2, <1>4 DEF IsPlacedBut

----------------------------------------------------------------------------
(* The home of the focus *)

\* The home of the cursor is on its monitor.
LEMMA HomeOnMonitor ==
  ASSUME NEW old, NEW m, IsSound(m)
  PROVE  Home(old, m) \subseteq MonitorWindows(m)
BY SoundFacts, ShapeFacts DEF Home

\* A window that leaves takes nothing else from the home.
LEMMA RemoveWindowHome ==
  ASSUME NEW old, NEW m, IsSound(m), NEW w
  PROVE  Home(old, m) \ {w} \subseteq Home(old, RemoveWindow(m, w))
<1> DEFINE k == RemoveWindow(m, w)
<1>1. /\ MonitorWindows(k) = MonitorWindows(m) \ {w}
      /\ \A s \in Slots(m) : GroupWindows(GroupAt(k, s)) = GroupWindows(GroupAt(m, s)) \ {w}
      /\ ActiveSlot(k) = ActiveSlot(m)
  BY RemoveWindowSound DEF Becomes
<1>2. ActiveSlot(m) \in Slots(m)
  BY SoundFacts, ShapeFacts
<1> HIDE DEF k
<1>3. Home(old, m) \ {w} \subseteq Home(old, k)
  BY <1>1, <1>2 DEF Home
<1> QED
  BY <1>3 DEF k

\* Nor do several.
LEMMA PruneWindowsHome ==
  ASSUME NEW old, NEW m, IsSound(m), NEW ws
  PROVE  Home(old, m) \ ws \subseteq Home(old, PruneWindows(m, ws))
<1> DEFINE k == PruneWindows(m, ws)
<1>1. /\ MonitorWindows(k) = MonitorWindows(m) \ ws
      /\ \A s \in Slots(m) : GroupWindows(GroupAt(k, s)) = GroupWindows(GroupAt(m, s)) \ ws
      /\ ActiveSlot(k) = ActiveSlot(m)
  BY PruneWindowsSound DEF Becomes
<1>2. ActiveSlot(m) \in Slots(m)
  BY SoundFacts, ShapeFacts
<1> HIDE DEF k
<1>3. Home(old, m) \ ws \subseteq Home(old, k)
  BY <1>1, <1>2 DEF Home
<1> QED
  BY <1>3 DEF k

\* Windows that come in drive none out of the home, and join it unless they go
\* beside the focus.
LEMMA AddWindowsHome ==
  ASSUME NEW old, NEW m, IsSound(m), NEW ws, IsNew(ws, MonitorWindows(m)), ws # <<>>, NEW focused
  PROVE  /\ Home(old, m) \subseteq Home(old, AddWindows(m, ws, focused))
         /\ focused \notin MonitorWindows(m) =>
              Listed(ws) \subseteq Home(old, AddWindows(m, ws, focused))
<1> DEFINE k == AddWindows(m, ws, focused)
<1>1. /\ MonitorWindows(k) = MonitorWindows(m) \cup Listed(ws)
      /\ \A s \in Slots(m) : GroupWindows(GroupAt(m, s)) \subseteq GroupWindows(GroupAt(k, s))
      /\ ActiveSlot(k) = ActiveSlot(m)
      /\ focused \notin MonitorWindows(m) =>
           Listed(ws) \subseteq GroupWindows(GroupAt(k, ActiveSlot(k)))
  BY AddWindowsSound DEF Becomes
<1>2. ActiveSlot(m) \in Slots(m)
  BY SoundFacts, ShapeFacts
<1> HIDE DEF k
<1>3. /\ Home(old, m) \subseteq Home(old, k)
      /\ focused \notin MonitorWindows(m) => Listed(ws) \subseteq Home(old, k)
  BY <1>1, <1>2 DEF Home
<1> QED
  BY <1>3 DEF k

\* The window the cursor is pointed at is in its home.
LEMMA FocusWindowHome ==
  ASSUME NEW old, NEW m, IsSound(m), NEW w \in MonitorWindows(m)
  PROVE  w \in Home(old, FocusWindow(m, w))
<1> DEFINE k == FocusWindow(m, w)
<1>1. MonitorWindows(k) = MonitorWindows(m) /\ w \in GroupWindows(GroupAt(k, ActiveSlot(k)))
  BY FocusWindowSound DEF Becomes
<1> HIDE DEF k
<1>2. w \in Home(old, k)
  BY <1>1 DEF Home
<1> QED
  BY <1>2 DEF k

\* So is the window moved to a group.
LEMMA MoveWindowToGroupHome ==
  ASSUME NEW old, NEW m, IsSound(m), NEW w \in MonitorWindows(m), NEW s \in Slots(m)
  PROVE  w \in Home(old, MoveWindowToGroup(m, w, s))
<1> DEFINE k == MoveWindowToGroup(m, w, s)
<1>1. MonitorWindows(k) = MonitorWindows(m) /\ w \in GroupWindows(GroupAt(k, ActiveSlot(k)))
  BY MoveWindowToGroupSound DEF Becomes
<1> HIDE DEF k
<1>2. w \in Home(old, k)
  BY <1>1 DEF Home
<1> QED
  BY <1>2 DEF k

\* And the window moved to a new column, unless the cursor was beyond the band.
LEMMA MoveWindowToNewColumnHome ==
  ASSUME NEW old, NEW m, IsSound(m), NEW w \in MonitorWindows(m), NEW to_left \in BOOLEAN,
         m.active_column > m.visible_columns => old = w
  PROVE  w \in Home(old, MoveWindowToNewColumn(m, w, to_left))
<1> DEFINE k == MoveWindowToNewColumn(m, w, to_left)
<1>1. /\ MonitorWindows(k) = MonitorWindows(m)
      /\ m.active_column <= m.visible_columns => w \in GroupWindows(GroupAt(k, ActiveSlot(k)))
  BY MoveWindowToNewColumnSound DEF Becomes
<1>2. m.active_column \in Int /\ m.visible_columns \in Int
  BY SoundFacts, ShapeFacts
<1> HIDE DEF k
<1>3. w \in Home(old, k)
  BY <1>1, <1>2 DEF Home
<1> QED
  BY <1>3 DEF k

\* A band that does not clamp the cursor leaves the home as it was.
LEMMA ChangeBandHome ==
  ASSUME NEW old, NEW m, IsSound(m), NEW change \in Int,
         m.active_column <= Max2(1, m.visible_columns + change)
  PROVE  Home(old, IncrementVisibleColumns(m, change)) = Home(old, m)
<1> DEFINE k == IncrementVisibleColumns(m, change)
           n == Len(m.columns)
           visible == Max2(1, Min2(m.visible_columns + change, Max2(n, 1)))
<1>1. /\ m.active_column \in 1..n /\ m.visible_columns \in 1..n /\ n \in Nat \ {0}
  BY SoundFacts, ShapeFacts
<1>2. k.active_column = Min2(m.active_column, visible)
  BY DEF IsSound, Shaped, IncrementVisibleColumns
<1>3. k.columns = m.columns /\ MonitorWindows(k) = MonitorWindows(m)
  BY ChangeBandSound
<1> HIDE DEF k, n
<1>4. m.active_column <= visible
  BY <1>1 DEF Min2, Max2
<1>5. k.active_column = m.active_column
  BY <1>2, <1>4 DEF Min2
<1>6. Home(old, k) = Home(old, m)
  BY <1>3, <1>5 DEF Home, GroupAt, ActiveSlot
<1> QED
  BY <1>6 DEF k

\* A sequence of all the members of a finite set.
LEMMA ListOfSet ==
  ASSUME NEW S, IsFiniteSet(S), NEW ws \in SetToSeqs(S)
  PROVE  /\ ws \in Seq(S) /\ Listed(ws) = S
         /\ \A i, j \in 1..Len(ws) : ws[i] = ws[j] => i = j
         /\ S # {} => ws # <<>>
<1> DEFINE n == Cardinality(S)
<1>1. n \in Nat
  BY FS_CardinalityType
<1>2. /\ ws \in [1..n -> S]
      /\ \A i, j \in 1..n : i # j => ws[i] # ws[j]
  BY DEF SetToSeqs
<1> HIDE DEF n
<1>3. ws \in Seq(S) /\ Len(ws) = n
  BY <1>1, <1>2, FunctionIsSeq
<1> DEFINE R == Listed(ws)
<1>4. R \subseteq S /\ R = {ws[i] : i \in 1..n}
  BY <1>2, <1>3 DEF Listed
<1>5. ExistsBijection(1..n, R)
  <2>1. ws \in Bijection(1..n, R)
    BY <1>2, <1>4 DEF Bijection, Injection, Surjection, IsInjective
  <2> QED
    BY <2>1 DEF ExistsBijection
<1>6. IsFiniteSet(R) /\ Cardinality(R) = n
  BY <1>1, <1>4, <1>5, FS_Subset, FS_CountingElements
<1>7. R = S
  BY <1>4, <1>6, FS_Subset DEF n
<1> QED
  BY <1>2, <1>3, <1>7 DEF R, Listed

----------------------------------------------------------------------------
(* Placing windows, and fullscreen *)

\* A grid window is a window, and the focused window is the focus or none.
LEMMA PlacedFacts ==
  ASSUME NEW d, NEW X, IsPlacedBut(d, X)
  PROVE  /\ IsDesk(d) /\ d.windows \subseteq Window /\ d.active_monitor \in Monitors
         /\ \A i \in Monitors : /\ IsSound(d.monitors[i])
                                /\ MonitorWindows(d.monitors[i]) \subseteq GridWindows(d)
         /\ IsSound(Cursor(d)) /\ MonitorWindows(Cursor(d)) \subseteq GridWindows(d)
         /\ GridWindows(d) \subseteq Window
         /\ FocusedWindow(d) \in {NoWindow, d.focus}
         /\ FocusedWindow(d) \in d.windows \cup {NoWindow}
<1>1. /\ IsDesk(d) /\ d.windows \subseteq Window /\ d.active_monitor \in Monitors
      /\ GridWindows(d) \subseteq Window
  BY DEF IsPlacedBut, IsDesk, DeskOver
<1>2. \A i \in Monitors : /\ IsSound(d.monitors[i])
                          /\ MonitorWindows(d.monitors[i]) \subseteq GridWindows(d)
  BY DEF IsPlacedBut, IsWorkspace, GridWindows
<1> QED
  BY <1>1, <1>2 DEF Cursor, FocusedWindow

\* The windows of ws join the monitor under the cursor.
LEMMA LeaveFullscreenPlaced ==
  ASSUME NEW old, NEW d, NEW X, IsPlacedBut(d, X),
         NEW ws, IsNew(ws, GridWindows(d)), ws # <<>>,
         Listed(ws) \subseteq d.windows \cap Tileable
  PROVE  LET e == LeaveFullscreen(d, ws)
         IN  /\ IsPlacedBut(e, X \ Listed(ws))
             /\ GridWindows(e) = GridWindows(d) \cup Listed(ws)
             /\ AtHome(old, d) => AtHome(old, e)
             /\ Shown(d) \subseteq Shown(e)
             /\ SameWindows(d, e) /\ e.focus = d.focus /\ e.maximized = d.maximized
             /\ e.fullscreen_windows = d.fullscreen_windows \ Listed(ws)
<1> DEFINE i == d.active_monitor
           c == Cursor(d)
           m == AddWindows(c, ws, FocusedWindow(d))
           e == LeaveFullscreen(d, ws)
           N == Listed(ws)
<1>1. IsDesk(d) /\ IsDesk(e) /\ i \in Monitors /\ c = d.monitors[i]
  BY PlacedFacts, LeaveFullscreenFollows DEF Follows, Cursor
<1>2. /\ e.monitors = [d.monitors EXCEPT ![i] = m] /\ e.active_monitor = i
      /\ e.fullscreen_windows = d.fullscreen_windows \ N
      /\ SameWindows(d, e) /\ e.focus = d.focus /\ e.maximized = d.maximized
  <2> HIDE DEF m
  <2>1. e = [[d EXCEPT !.monitors[i] = m] EXCEPT !.fullscreen_windows = @ \ N]
    BY DEF LeaveFullscreen, WithCursor, Listed, m
  <2> QED
    BY <1>1, <2>1 DEF IsDesk, DeskOver, SameWindows
<1>3. /\ IsSound(c) /\ MonitorWindows(c) \subseteq GridWindows(d)
      /\ GridWindows(d) \subseteq Window
  BY PlacedFacts
<1>4. IsNew(ws, MonitorWindows(c)) /\ N \cap GridWindows(d) = {}
  BY <1>3 DEF IsNew, Listed
<1>5. /\ Becomes(c, m, MonitorWindows(c) \cup N)
      /\ VisibleWindows(c) \subseteq VisibleWindows(m)
      /\ Home(old, c) \subseteq Home(old, m)
      /\ FocusedWindow(d) \notin MonitorWindows(c) => N \subseteq Home(old, m)
  BY <1>3, <1>4, AddWindowsSound, AddWindowsVisible, AddWindowsHome
<1> HIDE DEF m, e, N, c
<1>6. \A j \in Monitors : e.monitors[j] = IF j = i THEN m ELSE d.monitors[j]
  BY <1>1, <1>2 DEF IsDesk, AreShaped
<1>7. IsPlacedBut(e, X \ N) /\ GridWindows(e) = GridWindows(d) \cup N
  <2>1. N \subseteq d.windows \cap Tileable
    BY DEF N
  <2>2. Joins(d, e, i, N)
    BY <1>1, <1>2, <1>4, <1>5, <1>6, <2>1 DEF Joins, SameWindows
  <2> QED
    BY <2>2, Placing
<1>8. Shown(d) \subseteq Shown(e)
  <2>1. \A j \in Monitors : VisibleWindows(d.monitors[j]) \subseteq VisibleWindows(e.monitors[j])
    BY <1>1, <1>5, <1>6
  <2> QED
    BY <2>1 DEF Shown
<1>9. ASSUME AtHome(old, d) PROVE AtHome(old, e)
  <2>1. Cursor(e) = m
    BY <1>1, <1>2, <1>6 DEF Cursor
  <2>2. CASE d.focus \in GridWindows(d)
    BY <1>2, <1>5, <1>9, <2>1, <2>2 DEF AtHome, c
  <2>3. CASE d.focus \in N
    <3>1. FocusedWindow(d) \in {NoWindow, d.focus}
      BY PlacedFacts
    <3>2. FocusedWindow(d) \notin MonitorWindows(c)
      BY <1>3, <1>4, <2>3, <3>1, WindowIsPositive
    <3> QED
      BY <1>2, <1>5, <2>1, <2>3, <3>2 DEF AtHome
  <2> QED
    BY <1>2, <1>7, <2>2, <2>3 DEF AtHome
<1> QED
  BY <1>2, <1>7, <1>8, <1>9 DEF e, N

\* A window without a tile gets one, unless it is fullscreen.
LEMMA TiledPlaced ==
  ASSUME NEW old, NEW d, NEW w \in d.windows \cap Tileable, IsPlacedBut(d, {w}), w \notin GridWindows(d)
  PROVE  LET e == Tiled(d, w)
         IN  /\ IsPlaced(e) /\ SameWindows(d, e)
             /\ AtHome(old, d) => AtHome(old, e)
             /\ e.fullscreen_windows = d.fullscreen_windows
<1> DEFINE ws == <<w>>
           e == LeaveFullscreen(d, ws)
<1>1. CASE w \in d.fullscreen_windows
  BY <1>1 DEF Tiled, SameWindows, IsPlaced, IsPlacedBut
<1>2. CASE w \notin d.fullscreen_windows
  <2>1. Listed(ws) = {w}
    BY DEF Listed
  <2>2. IsNew(ws, GridWindows(d)) /\ ws # <<>>
    BY PlacedFacts DEF IsNew, Window
  <2>3. /\ IsPlacedBut(e, {w} \ {w}) /\ SameWindows(d, e) /\ (AtHome(old, d) => AtHome(old, e))
        /\ e.fullscreen_windows = d.fullscreen_windows \ {w}
    BY <2>1, <2>2, LeaveFullscreenPlaced
  <2>4. Tiled(d, w) = e
    <3> DEFINE k == WithCursor(d, AddWindows(Cursor(d), ws, FocusedWindow(d)))
    <3>1. Tiled(d, w) = k
      BY <1>2 DEF Tiled
    <3>2. e = [k EXCEPT !.fullscreen_windows = @ \ {w}]
      BY <2>1 DEF LeaveFullscreen, Listed
    <3>3. k.fullscreen_windows \ {w} = k.fullscreen_windows
      BY <1>2, PlacedFacts DEF WithCursor, IsDesk, DeskOver
    <3>4. IsDesk(k)
      BY <3>1, PlacedFacts, TiledFollows DEF Follows
    <3> HIDE DEF k
    <3>5. k \in DeskOver(k.monitors)
      BY <3>4 DEF IsDesk
    <3>6. [k EXCEPT !.fullscreen_windows = @ \ {w}] = k
      BY <3>3, <3>5 DEF DeskOver
    <3> QED
      BY <3>1, <3>2, <3>6
  <2>5. {w} \ {w} = {} /\ d.fullscreen_windows \ {w} = d.fullscreen_windows
    BY <1>2
  <2> HIDE DEF e
  <2> QED
    BY <2>3, <2>4, <2>5 DEF IsPlaced
<1> QED
  BY <1>1, <1>2

\* A window goes fullscreen, and leaves the grid.
LEMMA EnterFullscreenPlaced ==
  ASSUME NEW old, NEW d, NEW X, IsPlacedBut(d, X), NEW w \in d.windows \cap Tileable
  PROVE  LET e == EnterFullscreen(d, w)
         IN  /\ IsPlacedBut(e, X \ {w}) /\ SameWindows(d, e)
             /\ AtHome(old, d) => AtHome(old, e)
<1> DEFINE ms == [i \in Monitors |-> RemoveWindow(d.monitors[i], w)]
           e == EnterFullscreen(d, w)
<1>1. CASE w \in d.fullscreen_windows
  BY <1>1 DEF EnterFullscreen, SameWindows, IsPlacedBut
<1>2. CASE w \notin d.fullscreen_windows
  <2>1. IsDesk(d) /\ IsDesk(e) /\ \A i \in Monitors : IsSound(d.monitors[i])
    BY PlacedFacts, EnterFullscreenFollows DEF Follows
  <2>2. /\ e.monitors = ms /\ e.active_monitor = d.active_monitor
        /\ e.fullscreen_windows = d.fullscreen_windows \cup {w}
        /\ SameWindows(d, e) /\ e.focus = d.focus
    <3> HIDE DEF ms
    <3>1. e = [d EXCEPT !.fullscreen_windows = @ \cup {w}, !.monitors = ms]
      BY <1>2 DEF EnterFullscreen, ms
    <3> QED
      BY <2>1, <3>1 DEF IsDesk, DeskOver, SameWindows
  <2>3. \A i \in Monitors :
          /\ Becomes(d.monitors[i], e.monitors[i], MonitorWindows(d.monitors[i]) \ {w})
          /\ Home(old, d.monitors[i]) \ {w} \subseteq Home(old, e.monitors[i])
    BY <2>1, <2>2, RemoveWindowSound, RemoveWindowHome
  <2> HIDE DEF e
  <2>4. IsPlacedBut(e, X \ {w}) /\ GridWindows(e) = GridWindows(d) \ {w}
    <3>1. Leaves(d, e, {w})
      BY <2>1, <2>2, <2>3 DEF SameWindows, Leaves
    <3> QED
      BY <3>1, Displacing
  <2>5. AtHome(old, d) => AtHome(old, e)
    <3>1. d.active_monitor \in Monitors
      BY PlacedFacts
    <3>2. Home(old, Cursor(d)) \ {w} \subseteq Home(old, Cursor(e))
      BY <2>2, <2>3, <3>1 DEF Cursor
    <3> QED
      BY <2>2, <2>4, <3>2 DEF AtHome
  <2> QED
    BY <2>2, <2>4, <2>5 DEF e
<1> QED
  BY <1>1, <1>2

----------------------------------------------------------------------------
(* Layout, and settling the focus *)

\* Two desks with the same monitors, windows and fullscreen windows.
SameScene(d, e) ==
  /\ e.monitors = d.monitors /\ e.fullscreen_windows = d.fullscreen_windows
  /\ SameWindows(d, e)

\* What only depends on those.
LEMMA SceneKeeps ==
  ASSUME NEW old, NEW d, NEW X, IsPlacedBut(d, X), NEW e, IsDesk(e), SameScene(d, e)
  PROVE  /\ IsPlacedBut(e, X)
         /\ GridWindows(e) = GridWindows(d) /\ Shown(e) = Shown(d)
         /\ e.focus = d.focus => FocusedWindow(e) = FocusedWindow(d)
         /\ (e.focus = d.focus /\ e.active_monitor = d.active_monitor /\ AtHome(old, d)) => AtHome(old, e)
<1>1. GridWindows(e) = GridWindows(d) /\ Shown(e) = Shown(d)
  BY DEF SameScene, GridWindows, Shown
<1>2. IsPlacedBut(e, X)
  BY <1>1 DEF SameScene, SameWindows, IsPlacedBut
<1>3. e.active_monitor = d.active_monitor => Cursor(e) = Cursor(d)
  BY DEF SameScene, Cursor
<1>4. e.focus = d.focus => FocusedWindow(e) = FocusedWindow(d)
  BY DEF SameScene, SameWindows, FocusedWindow
<1> QED
  BY <1>1, <1>2, <1>3, <1>4 DEF AtHome

\* A layout pass makes the screen fresh.
LEMMA ApplyLayoutSettles ==
  ASSUME NEW old, NEW d, IsPlaced(d)
  PROVE  LET e == ApplyLayout(d)
         IN  /\ IsPlaced(e) /\ IsFresh(e) /\ SameScene(d, e)
             /\ AtHome(old, d) => AtHome(old, e)
             /\ e.focus = d.focus /\ e.active_monitor = d.active_monitor
             /\ e.maximized = d.maximized
             /\ FocusedWindow(e) = FocusedWindow(d)
             /\ GridWindows(e) = GridWindows(d) /\ Shown(e) = Shown(d)
             /\ FocusedWindow(e) \in e.fullscreen_windows => FocusedWindow(e) \in e.space
<1> DEFINE e == ApplyLayout(d)
           S == Targets(d) \cap d.windows
           I == Iconified(d)
<1>1. IsDesk(d) /\ IsDesk(e) /\ IsPlacedBut(d, {})
  BY ApplyLayoutFollows DEF Follows, IsPlaced, IsPlacedBut
<1>2. e = [d EXCEPT !.space = S, !.iconified = I]
  BY DEF ApplyLayout
<1> HIDE DEF e, S, I
<1>3. /\ e.space = S /\ e.iconified = I /\ e.focus = d.focus
      /\ e.active_monitor = d.active_monitor /\ e.maximized = d.maximized
      /\ SameScene(d, e)
  BY <1>1, <1>2 DEF IsDesk, DeskOver, SameScene, SameWindows
<1>4. /\ IsPlacedBut(e, {}) /\ (AtHome(old, d) => AtHome(old, e))
      /\ GridWindows(e) = GridWindows(d) /\ Shown(e) = Shown(d)
      /\ FocusedWindow(e) = FocusedWindow(d)
  BY <1>1, <1>3, SceneKeeps
<1>5. Shown(d) \subseteq GridWindows(d)
  BY PlacedFacts, VisibleFacts, SoundFacts DEF Shown, GridWindows, IsPlaced
<1>6. /\ GridWindows(d) \subseteq d.windows
      /\ GridWindows(d) \cap d.fullscreen_windows = {}
  BY <1>1 DEF IsPlacedBut
<1>7. Targets(d) = Shown(d) \cup ({FocusedWindow(d)} \cap d.fullscreen_windows)
  BY DEF Targets, Shown
<1>8. I = (X11 \cap d.windows) \ S
  BY DEF I, S, Iconified
<1>9. S \cap GridWindows(d) = Shown(d)
  BY <1>5, <1>6, <1>7 DEF S
<1>10. IsFresh(e)
  BY <1>3, <1>4, <1>8, <1>9 DEF IsFresh, SameScene, SameWindows
<1>11. FocusedWindow(d) \in d.fullscreen_windows => FocusedWindow(d) \in S
  BY <1>1, <1>7, WindowIsPositive, FocusedWindowType DEF S, IsDesk, DeskOver, FocusedWindow
<1> QED
  BY <1>3, <1>4, <1>10, <1>11 DEF e, IsPlaced, SameScene

\* What settling the focus leaves: maximize is the focused window's if anyone's,
\* and the Wayland windows without the focus are back in the grid.
LEMMA ReconciledSettles ==
  ASSUME NEW old, NEW d, IsPlaced(d), AtHome(old, d), NEW e \in Reconciled(d)
  PROVE  /\ IsPlaced(e) /\ AtHome(old, e) /\ SameWindows(d, e)
         /\ e.focus = d.focus /\ FocusedWindow(e) = FocusedWindow(d)
         /\ Shown(d) \subseteq Shown(e)
         /\ FocusedWindow(d) \notin GridWindows(d) => FocusedWindow(d) \notin GridWindows(e)
         /\ GridWindows(e) \subseteq GridWindows(d) \cup Wayland
         /\ e = d \/ IsFresh(e)
         /\ e.maximized.window \in {NoWindow, FocusedWindow(e)}
         /\ e.fullscreen_windows \cap e.windows \cap Wayland \subseteq {FocusedWindow(e)}
<1> DEFINE focused  == FocusedWindow(d)
           released == d.maximized.window \notin {NoWindow, focused}
           base     == IF released THEN [d EXCEPT !.maximized = NoMaximize] ELSE d
           leaving  == (d.fullscreen_windows \cap d.windows \cap Wayland) \ {focused}
<1>0. IsDesk(d) /\ IsPlacedBut(d, {}) /\ d.windows \subseteq Window /\ Wayland \subseteq Tileable
  BY PlacedFacts DEF IsPlaced, Wayland, Managed, Tileable
<1>1. /\ IsPlacedBut(base, {}) /\ AtHome(old, base) /\ SameScene(d, base)
      /\ base.focus = d.focus /\ FocusedWindow(base) = focused
      /\ GridWindows(base) = GridWindows(d) /\ Shown(base) = Shown(d)
      /\ base = d \/ released
      /\ base.maximized.window \in {NoWindow, focused}
  <2>1. CASE ~released
    BY <1>0, <2>1 DEF SameScene, SameWindows
  <2>2. CASE released
    <3>1. base = [d EXCEPT !.maximized = NoMaximize]
      BY <2>2
    <3>2. IsDesk(base)
      BY <1>0, NoMaximizeFollows DEF Follows
    <3> HIDE DEF base
    <3>3. /\ base.focus = d.focus /\ base.active_monitor = d.active_monitor
          /\ SameScene(d, base) /\ base.maximized = NoMaximize
      BY <1>0, <3>1 DEF IsDesk, DeskOver, SameScene, SameWindows
    <3>4. base.maximized.window = NoWindow
      BY <3>3 DEF NoMaximize
    <3> QED
      BY <1>0, <2>2, <3>2, <3>3, <3>4, SceneKeeps
  <2> QED
    BY <2>1, <2>2
<1>2. \/ leaving # {} /\ \E ws \in SetToSeqs(leaving) : e = ApplyLayout(LeaveFullscreen(base, ws))
      \/ leaving = {} /\ released /\ e = ApplyLayout(base)
      \/ leaving = {} /\ ~released /\ e = base
  BY DEF Reconciled
<1> HIDE DEF base
<1>3. CASE leaving # {}
  <2>1. PICK ws \in SetToSeqs(leaving) : e = ApplyLayout(LeaveFullscreen(base, ws))
    BY <1>2, <1>3
  <2>2. IsFiniteSet(leaving)
    <3>1. IsFiniteSet(Window)
      BY DesktopAssumption, FS_Interval DEF Window
    <3>2. leaving \subseteq Window
      BY <1>0
    <3> QED
      BY <3>1, <3>2, FS_Subset
  <2>3. /\ ws \in Seq(leaving) /\ Listed(ws) = leaving /\ ws # <<>>
        /\ \A i, j \in 1..Len(ws) : ws[i] = ws[j] => i = j
    <3> HIDE DEF leaving
    <3> QED
      BY <1>3, <2>2, ListOfSet
  <2>4. leaving \cap GridWindows(d) = {} /\ leaving \subseteq Nat /\ leaving \subseteq d.windows \cap Tileable
    BY <1>0 DEF IsPlacedBut, Window
  <2>5. leaving \subseteq Wayland /\ focused \notin leaving
        /\ (d.fullscreen_windows \cap d.windows \cap Wayland) \ leaving \subseteq {focused}
    OBVIOUS
  <2> HIDE DEF leaving, focused
  <2>6. IsNew(ws, GridWindows(base))
    <3>1. \A i \in 1..Len(ws) : ws[i] \in leaving
      BY <2>3, ElementOfSeq
    <3>2. ws \in Seq(Nat)
      BY <2>3, <2>4, <3>1, SeqOver
    <3> QED
      BY <1>1, <2>3, <2>4, <3>1, <3>2 DEF IsNew
  <2> DEFINE k == LeaveFullscreen(base, ws)
  <2>7. /\ IsPlacedBut(k, {} \ leaving)
        /\ GridWindows(k) = GridWindows(base) \cup leaving
        /\ AtHome(old, base) => AtHome(old, k)
        /\ Shown(base) \subseteq Shown(k)
        /\ SameWindows(base, k) /\ k.focus = base.focus /\ k.maximized = base.maximized
        /\ k.fullscreen_windows = base.fullscreen_windows \ leaving
    <3>1. Listed(ws) \subseteq base.windows \cap Tileable
      BY <1>1, <2>3, <2>4 DEF SameScene, SameWindows
    <3> QED
      BY <1>1, <2>3, <2>6, <3>1, LeaveFullscreenPlaced
  <2>8. IsPlaced(k)
    BY <2>7 DEF IsPlaced
  <2>9. e = ApplyLayout(k)
    BY <2>1
  <2> HIDE DEF k
  <2>10. /\ IsPlaced(e) /\ IsFresh(e) /\ SameScene(k, e) /\ AtHome(old, e)
         /\ e.focus = k.focus /\ e.maximized = k.maximized
         /\ FocusedWindow(e) = FocusedWindow(k)
         /\ GridWindows(e) = GridWindows(k) /\ Shown(e) = Shown(k)
    BY <1>1, <2>7, <2>8, <2>9, ApplyLayoutSettles
  <2>11. FocusedWindow(k) = focused
    BY <1>1, <2>7 DEF FocusedWindow, SameWindows
  <2>12. e.focus = d.focus /\ SameWindows(d, e)
    BY <1>1, <2>7, <2>10 DEF SameScene, SameWindows
  <2>13. /\ Shown(d) \subseteq Shown(e)
         /\ focused \notin GridWindows(d) => focused \notin GridWindows(e)
         /\ GridWindows(e) \subseteq GridWindows(d) \cup Wayland
    BY <1>1, <2>5, <2>7, <2>10
  <2>14. e.fullscreen_windows \cap e.windows \cap Wayland \subseteq {focused}
    BY <1>1, <2>5, <2>7, <2>10, <2>12 DEF SameScene, SameWindows
  <2> QED
    BY <1>1, <2>7, <2>10, <2>11, <2>12, <2>13, <2>14 DEF focused
<1>4. CASE leaving = {}
  <2>1. e.fullscreen_windows = d.fullscreen_windows /\ e.windows = d.windows =>
          e.fullscreen_windows \cap e.windows \cap Wayland \subseteq {focused}
    BY <1>4
  <2>2. CASE ~released /\ e = base
    <3>1. e = d
      BY <1>1, <2>2
    <3>2. e.maximized.window \in {NoWindow, focused}
      BY <2>2, <3>1 DEF released
    <3> QED
      BY <2>1, <3>1, <3>2 DEF SameWindows
  <2>3. CASE e = ApplyLayout(base)
    <3> HIDE DEF focused
    <3>1. /\ IsPlaced(e) /\ IsFresh(e) /\ SameScene(base, e) /\ AtHome(old, e)
          /\ e.focus = base.focus /\ e.maximized = base.maximized
          /\ FocusedWindow(e) = FocusedWindow(base)
          /\ GridWindows(e) = GridWindows(base) /\ Shown(e) = Shown(base)
      BY <1>1, <2>3, ApplyLayoutSettles DEF IsPlaced
    <3>2. SameWindows(d, e) /\ e.fullscreen_windows = d.fullscreen_windows
      BY <1>1, <3>1 DEF SameScene, SameWindows
    <3>3. e.fullscreen_windows \cap e.windows \cap Wayland \subseteq {focused}
      BY <2>1, <3>2 DEF SameWindows
    <3> QED
      BY <1>1, <3>1, <3>2, <3>3 DEF focused
  <2> QED
    BY <1>2, <1>4, <2>2, <2>3
<1> QED
  BY <1>3, <1>4

----------------------------------------------------------------------------
(* Revealing and focusing *)

\* A reveal keeps the windows of the monitor and leaves the revealed one on
\* screen under the cursor.
LEMMA RevealedMonitor ==
  ASSUME NEW old, NEW m, IsSound(m), NEW w \in MonitorWindows(m)
  PROVE  LET r == RevealWindow(m, w)
             k == FocusWindow(r.monitor, w)
         IN  /\ Becomes(m, k, MonitorWindows(m))
             /\ w \in Home(old, k) /\ w \in VisibleWindows(k)
             /\ r.kind = "AlreadyVisible" => VisibleWindows(k) = VisibleWindows(m)
<1> DEFINE s == Locate(m, w)
           r == RevealSlot(m, s, "None")
           l == r.monitor
           k == FocusWindow(l, w)
<1>1. s \in Slots(m) /\ w \in GroupWindows(GroupAt(m, s))
  BY LocateHolds
<1>2. /\ Becomes(m, l, MonitorWindows(m))
      /\ r.kind = "AlreadyVisible" => l = m
      /\ w \in VisibleWindows(l)
  BY <1>1, RevealSlotSound, RevealSlotShows
<1>3. RevealWindow(m, w) = r
  BY DEF RevealWindow
<1> HIDE DEF r
<1> DEFINE kind == r.kind
<1>4. kind = "AlreadyVisible" => l = m
  BY <1>2
<1> HIDE DEF l, kind
<1>5. IsSound(l) /\ IsShaped(l) /\ w \in MonitorWindows(l) /\ MonitorWindows(l) = MonitorWindows(m)
  BY <1>2, SoundFacts DEF Becomes
<1>6. PICK t \in Slots(l) : InView(l, t) /\ w \in GroupWindows(GroupAt(l, t))
  BY <1>2, <1>5, VisibleFacts
<1>7. InView(l, Locate(l, w))
  BY <1>5, <1>6, LocateUnique
<1>8. VisibleWindows(k) = VisibleWindows(l) /\ w \in VisibleWindows(l)
  BY <1>5, <1>7, FocusInView
<1>9. Becomes(l, k, MonitorWindows(l)) /\ w \in Home(old, k)
  BY <1>5, FocusWindowSound, FocusWindowHome
<1> HIDE DEF k
<1>10. Becomes(m, k, MonitorWindows(m))
  BY <1>2, <1>5, <1>9 DEF Becomes
<1>11. kind = "AlreadyVisible" => VisibleWindows(k) = VisibleWindows(m)
  BY <1>4, <1>8
<1> QED
  BY <1>3, <1>8, <1>9, <1>10, <1>11 DEF k, l, kind

\* The same for a desk.
LEMMA RevealTiledPlaced ==
  ASSUME NEW old, NEW d, IsPlaced(d), NEW w \in GridWindows(d)
  PROVE  LET e == RevealTiled(d, w).desk
         IN  /\ IsPlaced(e) /\ GridWindows(e) = GridWindows(d)
             /\ w \in Home(old, Cursor(e)) /\ w \in Shown(e)
             /\ SameWindows(d, e) /\ e.fullscreen_windows = d.fullscreen_windows
             /\ e.space = d.space /\ e.iconified = d.iconified
             /\ RevealTiled(d, w).kind = "AlreadyVisible" => Shown(e) = Shown(d)
<1> DEFINE i == MonitorOf(d, w)
           r == RevealWindow(d.monitors[i], w)
           m == FocusWindow(r.monitor, w)
           e == RevealTiled(d, w).desk
           kind == RevealTiled(d, w).kind
<1>1. i \in Monitors /\ w \in MonitorWindows(d.monitors[i])
  BY DEF GridWindows, MonitorOf
<1>2. e = [d EXCEPT !.active_monitor = i, !.monitors[i] = m] /\ kind = r.kind
  BY DEF RevealTiled
<1>3. IsDesk(d) /\ IsDesk(e) /\ IsSound(d.monitors[i])
  BY <1>1, PlacedFacts, RevealTiledFollows DEF Follows, IsPlaced
<1> HIDE DEF i
<1>4. /\ Becomes(d.monitors[i], m, MonitorWindows(d.monitors[i]))
      /\ w \in Home(old, m) /\ w \in VisibleWindows(m)
      /\ kind = "AlreadyVisible" => VisibleWindows(m) = VisibleWindows(d.monitors[i])
  BY <1>1, <1>2, <1>3, RevealedMonitor
<1> HIDE DEF m, r, e, kind
<1>5. /\ e.monitors = [d.monitors EXCEPT ![i] = m] /\ e.active_monitor = i
      /\ e.fullscreen_windows = d.fullscreen_windows /\ SameWindows(d, e)
      /\ e.space = d.space /\ e.iconified = d.iconified
  BY <1>1, <1>2, <1>3 DEF IsDesk, DeskOver, SameWindows
<1>6. \A j \in Monitors : e.monitors[j] = IF j = i THEN m ELSE d.monitors[j]
  BY <1>1, <1>3, <1>5 DEF IsDesk, AreShaped
<1>7. Joins(d, e, i, {})
  <2>1. MonitorWindows(d.monitors[i]) \cup {} = MonitorWindows(d.monitors[i])
    OBVIOUS
  <2> QED
    BY <1>1, <1>3, <1>4, <1>5, <1>6, <2>1 DEF Joins, SameWindows
<1>8. IsPlaced(e) /\ GridWindows(e) = GridWindows(d)
  <2>1. IsPlacedBut(e, {} \ {}) /\ GridWindows(e) = GridWindows(d) \cup {}
    BY <1>7, Placing DEF IsPlaced
  <2>2. {} \ {} = {} /\ GridWindows(d) \cup {} = GridWindows(d)
    OBVIOUS
  <2> QED
    BY <2>1, <2>2 DEF IsPlaced
<1>9. w \in Home(old, Cursor(e)) /\ w \in Shown(e)
  BY <1>1, <1>4, <1>5, <1>6 DEF Cursor, Shown
<1>10. kind = "AlreadyVisible" => Shown(e) = Shown(d)
  BY <1>1, <1>4, <1>6 DEF Shown
<1> QED
  BY <1>5, <1>8, <1>9, <1>10 DEF e, kind

\* What focus_by_id leaves: the window has the keyboard and the cursor, nothing
\* of the focus before is left, and the screen is as fresh as it was.
LEMMA FocusByIdSettles ==
  ASSUME NEW old, NEW d, IsPlaced(d), NEW w \in d.windows, NEW e \in FocusById(d, w)
  PROVE  /\ IsPlaced(e) /\ AtHome(old, e) /\ SameWindows(d, e) /\ e.focus = w
         /\ e.maximized.window \in {NoWindow, FocusedWindow(e)}
         /\ e.fullscreen_windows \cap e.windows \cap Wayland \subseteq {w}
         /\ IsFresh(d) => IsFresh(e)
         /\ (IsFresh(d) /\ w \in Managed /\ FocusedWindow(e) = w) => w \in e.space
<1> DEFINE previous == FocusedWindow(d)
           revealed == IF w \in GridWindows(d) THEN RevealTiled(d, w)
                       ELSE [desk |-> d, kind |-> "AlreadyVisible"]
           kind == revealed.kind
           k == revealed.desk
           f == [k EXCEPT !.focus = w, !.iconified = @ \ {w}]
           Crossed(c) == {w, previous} \cap c.fullscreen_windows # {}
<1>1. PICK c \in Reconciled(f) :
        e = IF Crossed(c) \/ kind # "AlreadyVisible" THEN ApplyLayout(c) ELSE c
  BY DEF FocusById
<1>2. /\ IsPlaced(k) /\ GridWindows(k) = GridWindows(d)
      /\ w \in GridWindows(d) => w \in Home(old, Cursor(k)) /\ w \in Shown(k)
      /\ SameWindows(d, k) /\ k.fullscreen_windows = d.fullscreen_windows
      /\ k.space = d.space /\ k.iconified = d.iconified
      /\ kind = "AlreadyVisible" => Shown(k) = Shown(d)
  <2>1. CASE w \in GridWindows(d)
    BY <2>1, RevealTiledPlaced
  <2>2. CASE w \notin GridWindows(d)
    BY <2>2 DEF SameWindows
  <2> QED
    BY <2>1, <2>2
<1> HIDE DEF k, kind, revealed
<1>3. IsDesk(k) /\ IsPlacedBut(k, {}) /\ w \in Window
  BY <1>2, PlacedFacts DEF IsPlaced, SameWindows
<1>4. /\ f.focus = w /\ f.iconified = k.iconified \ {w} /\ f.active_monitor = k.active_monitor
      /\ f.space = k.space /\ SameScene(k, f) /\ IsDesk(f)
  <2>1. /\ f.focus = w /\ f.iconified = k.iconified \ {w} /\ f.active_monitor = k.active_monitor
        /\ f.space = k.space /\ SameScene(k, f) /\ f \in DeskOver(k.monitors)
    BY <1>3 DEF IsDesk, DeskOver, SameScene, SameWindows
  <2> HIDE DEF f
  <2> QED
    BY <1>3, <2>1 DEF IsDesk, SameScene, SameWindows
<1> HIDE DEF f
<1>5. /\ IsPlaced(f) /\ GridWindows(f) = GridWindows(d) /\ Shown(f) = Shown(k)
      /\ f.fullscreen_windows = d.fullscreen_windows /\ SameWindows(d, f)
  BY <1>2, <1>3, <1>4, SceneKeeps DEF IsPlaced, SameScene, SameWindows
<1>6. AtHome(old, f)
  BY <1>2, <1>4, <1>5 DEF AtHome, Cursor, SameScene
<1>7. /\ IsPlaced(c) /\ AtHome(old, c) /\ SameWindows(f, c)
      /\ c.focus = w /\ FocusedWindow(c) = FocusedWindow(f)
      /\ Shown(f) \subseteq Shown(c)
      /\ FocusedWindow(f) \notin GridWindows(f) => FocusedWindow(f) \notin GridWindows(c)
      /\ c = f \/ IsFresh(c)
      /\ c.maximized.window \in {NoWindow, FocusedWindow(c)}
      /\ c.fullscreen_windows \cap c.windows \cap Wayland \subseteq {FocusedWindow(c)}
  BY <1>4, <1>5, <1>6, ReconciledSettles
<1>8. ASSUME NEW g, g = c \/ g = ApplyLayout(c)
      PROVE  /\ IsPlaced(g) /\ AtHome(old, g) /\ SameWindows(d, g) /\ g.focus = w
             /\ FocusedWindow(g) = FocusedWindow(f) /\ GridWindows(g) = GridWindows(c)
             /\ Shown(g) = Shown(c) /\ g.fullscreen_windows = c.fullscreen_windows
             /\ g.maximized = c.maximized
             /\ g = ApplyLayout(c) =>
                  IsFresh(g) /\ (FocusedWindow(g) \in g.fullscreen_windows => FocusedWindow(g) \in g.space)
  <2>1. CASE g = ApplyLayout(c)
    BY <1>5, <1>7, <2>1, ApplyLayoutSettles DEF SameScene, SameWindows
  <2>2. CASE g = c /\ g # ApplyLayout(c)
    BY <1>5, <1>7, <2>2 DEF SameWindows
  <2> QED
    BY <1>8, <2>1, <2>2
<1>9. FocusedWindow(f) \in {NoWindow, w}
  BY <1>4 DEF FocusedWindow
<1>10. /\ e.maximized.window \in {NoWindow, FocusedWindow(e)}
       /\ e.fullscreen_windows \cap e.windows \cap Wayland \subseteq {w}
  <2>1. NoWindow \notin c.windows
    BY <1>7, PlacedFacts, WindowIsPositive DEF IsPlaced
  <2> QED
    BY <1>1, <1>5, <1>7, <1>8, <1>9, <2>1 DEF SameWindows
<1>11. ASSUME IsFresh(d), e = c, c = f, ~Crossed(c), kind = "AlreadyVisible"
       PROVE  IsFresh(e)
  <2>1. w \notin d.fullscreen_windows
    BY <1>5, <1>11
  <2>2. w \in X11 => w \in d.space
    <3>1. ASSUME w \in X11 PROVE w \in GridWindows(d) /\ w \in Managed
      BY <2>1, <3>1 DEF IsPlaced, IsPlacedBut, X11, Managed
    <3> QED
      BY <1>2, <1>11, <3>1 DEF IsFresh
  <2>3. /\ e.space = d.space /\ e.iconified = d.iconified \ {w}
        /\ Shown(e) = Shown(d) /\ GridWindows(e) = GridWindows(d) /\ e.windows = d.windows
    BY <1>2, <1>4, <1>5, <1>11 DEF SameWindows
  <2> QED
    BY <1>11, <2>2, <2>3 DEF IsFresh
<1>12. ASSUME IsFresh(d) PROVE IsFresh(e)
  BY <1>1, <1>7, <1>8, <1>11, <1>12
<1>13. ASSUME IsFresh(d), w \in Managed, FocusedWindow(e) = w PROVE w \in e.space
  <2>1. /\ IsFresh(e) /\ IsPlaced(e) /\ e.windows = d.windows
    BY <1>1, <1>8, <1>12, <1>13 DEF SameWindows
  <2>2. CASE w \in e.fullscreen_windows
    <3>1. Crossed(c)
      BY <1>1, <1>8, <2>2
    <3>2. e = ApplyLayout(c)
      BY <1>1, <3>1
    <3> QED
      BY <1>8, <1>13, <2>2, <3>2
  <2>3. CASE w \notin e.fullscreen_windows
    <3>1. w \in GridWindows(e)
      BY <1>13, <2>1, <2>3 DEF IsPlaced, IsPlacedBut
    <3>2. w \in GridWindows(f)
      BY <1>1, <1>7, <1>8, <1>13, <3>1
    <3>3. w \in Shown(e)
      BY <1>1, <1>2, <1>5, <1>7, <1>8, <3>2
    <3> QED
      BY <1>13, <2>1, <3>1, <3>3 DEF IsFresh
  <2> QED
    BY <2>2, <2>3
<1> QED
  BY <1>1, <1>8, <1>10, <1>12, <1>13

----------------------------------------------------------------------------
(* Evicting, and carrying to another monitor *)

\* Pruning takes the windows off the screen, and no others.
LEMMA PruneWindowsVisible ==
  ASSUME NEW m, IsSound(m), NEW ws
  PROVE  VisibleWindows(PruneWindows(m, ws)) = VisibleWindows(m) \ ws
<1> DEFINE k == PruneWindows(m, ws)
<1>1. /\ IsSound(k) /\ Slots(k) = Slots(m)
      /\ \A s \in Slots(m) : GroupWindows(GroupAt(k, s)) = GroupWindows(GroupAt(m, s)) \ ws
      /\ k.visible_columns = m.visible_columns
      /\ \A c \in 1..Len(m.columns) : k.columns[c].active_row = m.columns[c].active_row
  BY PruneWindowsSound DEF Becomes
<1>2. IsShaped(m) /\ IsShaped(k) /\ \A s \in Slots(m) : s[1] \in 1..Len(m.columns)
  BY <1>1, SoundFacts, ShapeFacts
<1> HIDE DEF k
<1>3. /\ VisibleWindows(k) = UNION {GroupWindows(GroupAt(k, t)) : t \in {u \in Slots(k) : InView(k, u)}}
      /\ VisibleWindows(m) = UNION {GroupWindows(GroupAt(m, t)) : t \in {u \in Slots(m) : InView(m, u)}}
  BY <1>2, VisibleFacts
<1>4. \A s \in Slots(m) : InView(k, s) <=> InView(m, s)
  BY <1>1, <1>2 DEF InView
<1>5. {u \in Slots(k) : InView(k, u)} = {u \in Slots(m) : InView(m, u)}
  BY <1>1, <1>4
<1>6. VisibleWindows(k) = VisibleWindows(m) \ ws
  BY <1>1, <1>3, <1>5
<1> QED
  BY <1>6 DEF k

\* Eviction keeps the desk placed, its focus at home and its screen fresh.
LEMMA RemoveByIdPlaced ==
  ASSUME NEW old, NEW d, IsPlaced(d), NEW ws
  PROVE  LET e == RemoveById(d, ws)
         IN  /\ IsPlaced(e)
             /\ e.windows = d.windows \ ws /\ e.associated = d.associated \ ws
             /\ AtHome(old, d) => AtHome(old, e)
             /\ IsFresh(d) => IsFresh(e)
<1> DEFINE ms == [i \in Monitors |-> PruneWindows(d.monitors[i], ws)]
           focus == IF d.focus \in ws THEN NoWindow ELSE d.focus
           e == RemoveById(d, ws)
<1>1. /\ IsDesk(d) /\ IsPlacedBut(d, {}) /\ \A i \in Monitors : IsSound(d.monitors[i])
      /\ IsDesk(e) /\ d.active_monitor \in Monitors
      /\ \A i \in Monitors : MonitorWindows(d.monitors[i]) \subseteq GridWindows(d)
  BY PlacedFacts, RemoveByIdDesk DEF IsPlaced
<1>2. e = [d EXCEPT !.monitors = ms, !.windows = @ \ ws,
                    !.fullscreen_windows = @ \ ws, !.space = @ \ ws,
                    !.iconified = @ \ ws, !.associated = @ \ ws, !.focus = focus]
  BY DEF RemoveById
<1> HIDE DEF e, ms, focus
<1>3. /\ e.monitors = ms /\ e.active_monitor = d.active_monitor /\ e.focus = focus
      /\ e.windows = d.windows \ ws /\ e.fullscreen_windows = d.fullscreen_windows \ ws
      /\ e.space = d.space \ ws /\ e.iconified = d.iconified \ ws
      /\ e.associated = d.associated \ ws
  BY <1>1, <1>2 DEF IsDesk, DeskOver
<1>4. \A i \in Monitors :
        /\ Becomes(d.monitors[i], e.monitors[i], MonitorWindows(d.monitors[i]) \ ws)
        /\ Home(old, d.monitors[i]) \ ws \subseteq Home(old, e.monitors[i])
        /\ VisibleWindows(e.monitors[i]) = VisibleWindows(d.monitors[i]) \ ws
  BY <1>1, <1>3, PruneWindowsSound, PruneWindowsHome, PruneWindowsVisible DEF ms
<1>5. IsPlaced(e) /\ GridWindows(e) = GridWindows(d) \ ws
  <2>1. Leaves(d, e, ws)
    BY <1>1, <1>3, <1>4 DEF Leaves
  <2>2. IsPlacedBut(e, {} \ ws) /\ GridWindows(e) = GridWindows(d) \ ws
    BY <1>1, <2>1, Displacing
  <2>3. {} \ ws = {}
    OBVIOUS
  <2> QED
    BY <2>2, <2>3 DEF IsPlaced
<1>6. AtHome(old, d) => AtHome(old, e)
  <2>1. Home(old, Cursor(d)) \ ws \subseteq Home(old, Cursor(e))
    BY <1>1, <1>3, <1>4 DEF Cursor
  <2>2. NoWindow \notin GridWindows(d)
    BY <1>1, PlacedFacts, WindowIsPositive
  <2> QED
    BY <1>3, <1>5, <2>1, <2>2 DEF AtHome, focus
<1>7. IsFresh(d) => IsFresh(e)
  <2>1. Shown(e) = Shown(d) \ ws
    BY <1>4 DEF Shown
  <2> QED
    BY <1>3, <1>5, <2>1 DEF IsFresh
<1> QED
  BY <1>3, <1>5, <1>6, <1>7 DEF e

\* The monitor under the cursor gives way to one with the same windows.
LEMMA WithCursorPlaced ==
  ASSUME NEW old, NEW d, IsPlaced(d), NEW m, Becomes(Cursor(d), m, MonitorWindows(Cursor(d)))
  PROVE  LET e == WithCursor(d, m)
         IN  /\ IsPlaced(e) /\ SameWindows(d, e)
             /\ AtHome(old, d) /\ (d.focus \in MonitorWindows(Cursor(d)) => d.focus \in Home(old, m))
                  => AtHome(old, e)
<1> DEFINE i == d.active_monitor
           e == WithCursor(d, m)
<1>1. /\ IsDesk(d) /\ i \in Monitors /\ IsPlacedBut(d, {})
      /\ IsSound(Cursor(d))
  BY PlacedFacts DEF IsPlaced
<1>2. IsShaped(m)
  BY SoundFacts DEF Becomes
<1>3. IsDesk(e)
  BY <1>1, <1>2, WithCursorFollows DEF Follows
<1>4. /\ e.monitors = [d.monitors EXCEPT ![i] = m] /\ e.active_monitor = i
      /\ e.fullscreen_windows = d.fullscreen_windows /\ SameWindows(d, e)
      /\ e.focus = d.focus
  BY <1>1 DEF WithCursor, IsDesk, DeskOver, SameWindows
<1> HIDE DEF e
<1>5. \A j \in Monitors : e.monitors[j] = IF j = i THEN m ELSE d.monitors[j]
  BY <1>1, <1>4 DEF IsDesk, AreShaped
<1>6. Joins(d, e, i, {})
  <2>1. MonitorWindows(d.monitors[i]) \cup {} = MonitorWindows(d.monitors[i])
    OBVIOUS
  <2> QED
    BY <1>1, <1>3, <1>4, <1>5, <2>1 DEF Joins, SameWindows, Cursor
<1>7. IsPlaced(e) /\ GridWindows(e) = GridWindows(d)
  <2>1. IsPlacedBut(e, {} \ {}) /\ GridWindows(e) = GridWindows(d) \cup {}
    BY <1>1, <1>6, Placing
  <2>2. {} \ {} = {} /\ GridWindows(d) \cup {} = GridWindows(d)
    OBVIOUS
  <2> QED
    BY <2>1, <2>2 DEF IsPlaced
<1>8. ASSUME d.focus \in MonitorWindows(Cursor(d)) => d.focus \in Home(old, m), AtHome(old, d)
      PROVE  AtHome(old, e)
  <2>1. Cursor(e) = m
    BY <1>1, <1>4, <1>5 DEF Cursor
  <2>2. Home(old, Cursor(d)) \subseteq MonitorWindows(Cursor(d))
    BY <1>1, HomeOnMonitor
  <2> QED
    BY <1>4, <1>7, <1>8, <2>1, <2>2 DEF AtHome
<1> QED
  BY <1>4, <1>7, <1>8 DEF e

\* A window is carried to another monitor.
LEMMA MoveWindowToMonitorPlaced ==
  ASSUME NEW d, IsPlaced(d), NEW w, NEW dest \in Monitors
  PROVE  LET e == MoveWindowToMonitor(d, w, dest)
         IN  IsPlaced(e) /\ SameWindows(d, e)
<1>1. CASE w \notin GridWindows(d) \/ MonitorOf(d, w) = dest
  BY <1>1 DEF MoveWindowToMonitor, SameWindows
<1>2. CASE w \in GridWindows(d) /\ MonitorOf(d, w) # dest
  <2> DEFINE source == MonitorOf(d, w)
             m == d.monitors[dest]
             s == ActiveSlot(m)
             g == GroupAdd(GroupAt(m, s), w, ActiveWindow(m))
             removed == RemoveWindow(d.monitors[source], w)
             joined == SetGroupAt(m, s, g)
             between == [j \in Monitors |-> IF j = source THEN removed ELSE d.monitors[j]]
             e == MoveWindowToMonitor(d, w, dest)
  <2>1. source \in Monitors /\ source # dest /\ w \in MonitorWindows(d.monitors[source])
    BY <1>2 DEF GridWindows, MonitorOf
  <2>2. /\ IsDesk(d) /\ IsDesk(e) /\ IsWorkspace(d.monitors)
        /\ \A i \in Monitors : IsSound(d.monitors[i])
        /\ w \in Nat
    BY <1>2, PlacedFacts, MoveWindowToMonitorFollows DEF Follows, IsPlaced, IsPlacedBut, Window
  <2>3. e = [d EXCEPT !.active_monitor = dest, !.monitors[source] = removed,
                      !.monitors[dest] = joined]
    BY <1>2 DEF MoveWindowToMonitor
  <2> HIDE DEF source, removed, joined, e
  <2>4. /\ e.monitors = [d.monitors EXCEPT ![source] = removed, ![dest] = joined]
        /\ e.fullscreen_windows = d.fullscreen_windows /\ SameWindows(d, e)
    BY <2>2, <2>3 DEF IsDesk, DeskOver, SameWindows
  <2>5. \A j \in Monitors : e.monitors[j] = IF j = dest THEN joined ELSE between[j]
    BY <2>1, <2>2, <2>4 DEF IsDesk, AreShaped
  <2>6. Becomes(d.monitors[source], removed, MonitorWindows(d.monitors[source]) \ {w})
    BY <2>1, <2>2, RemoveWindowSound DEF removed
  <2>7. IsWorkspace(between) /\ AllWindows(between) = AllWindows(d.monitors) \ {w}
    <3> DEFINE ws == MonitorWindows(d.monitors[source]) \ {w}
    <3>1. Replaces(between, d.monitors, source, ws)
      BY <2>1, <2>6 DEF Replaces
    <3>2. /\ MonitorWindows(d.monitors[source]) \subseteq AllWindows(d.monitors)
          /\ \A j \in Monitors \ {source} : w \notin MonitorWindows(d.monitors[j])
      BY <2>1, <2>2 DEF AllWindows, IsWorkspace, Apart
    <3>3. (AllWindows(d.monitors) \ MonitorWindows(d.monitors[source])) \cup ws = AllWindows(d.monitors) \ {w}
      BY <2>1, <3>2 DEF AllWindows
    <3> HIDE DEF ws, between
    <3>4. /\ IsWorkspace(between)
          /\ AllWindows(between) = (AllWindows(d.monitors) \ MonitorWindows(d.monitors[source])) \cup ws
      BY <2>2, <3>1, ReplaceMonitor
    <3> QED
      BY <3>3, <3>4
  <2>8. between[dest] = m /\ IsSound(m) /\ w \notin MonitorWindows(m)
    BY <2>1, <2>2 DEF IsWorkspace, Apart
  <2>9. Becomes(m, joined, MonitorWindows(m) \cup {w})
    <3> HIDE DEF m
    <3>1. s \in Slots(m)
      BY <2>8, SoundFacts, ShapeFacts
    <3> HIDE DEF s
    <3>2. /\ GroupAt(m, s) \in SoundGroups
          /\ GroupWindows(GroupAt(m, s)) \subseteq MonitorWindows(m)
      BY <2>8, <3>1, SoundFacts
    <3>3. g \in SoundGroups /\ GroupWindows(g) = GroupWindows(GroupAt(m, s)) \cup {w}
      BY <2>2, <2>8, <3>2, GroupAddSound
    <3> HIDE DEF g
    <3>4. GroupWindows(g) \cap (MonitorWindows(m) \ GroupWindows(GroupAt(m, s))) = {}
      BY <2>8, <3>3
    <3>5. Becomes(m, joined, (MonitorWindows(m) \ GroupWindows(GroupAt(m, s))) \cup GroupWindows(g))
      BY <2>8, <3>1, <3>3, <3>4, SetGroupAtSound DEF joined
    <3>6. (MonitorWindows(m) \ GroupWindows(GroupAt(m, s))) \cup GroupWindows(g)
            = MonitorWindows(m) \cup {w}
      BY <3>2, <3>3
    <3> QED
      BY <3>5, <3>6
  <2> HIDE DEF m, between
  <2>10. /\ IsWorkspace(e.monitors)
         /\ AllWindows(e.monitors) = (AllWindows(between) \ MonitorWindows(m)) \cup (MonitorWindows(m) \cup {w})
    <3> DEFINE ws == MonitorWindows(m) \cup {w}
               ns == e.monitors
    <3>1. Replaces(ns, between, dest, ws)
      <4>1. w \notin AllWindows(between)
        BY <2>7
      <4> QED
        BY <2>5, <2>8, <2>9, <4>1 DEF Replaces
    <3> HIDE DEF ws, ns
    <3>2. /\ IsWorkspace(ns)
          /\ AllWindows(ns) = (AllWindows(between) \ MonitorWindows(between[dest])) \cup ws
      BY <2>7, <3>1, ReplaceMonitor
    <3> QED
      BY <2>8, <3>2 DEF ws, ns
  <2>11. AllWindows(e.monitors) = AllWindows(d.monitors)
    <3>1. MonitorWindows(m) \subseteq AllWindows(d.monitors)
      BY DEF AllWindows, m
    <3>2. w \in AllWindows(d.monitors)
      BY <1>2, GridIsAll
    <3> QED
      BY <2>7, <2>8, <2>10, <3>1, <3>2
  <2>12. GridWindows(e) = GridWindows(d)
    BY <2>11, GridIsAll
  <2> QED
    BY <2>2, <2>4, <2>10, <2>12 DEF e, IsPlaced, IsPlacedBut, SameWindows
<1> QED
  BY <1>1, <1>2

\* focus_active_window, of a desk that was just laid out.
LEMMA FocusActiveWindowSettles ==
  ASSUME NEW old, NEW d, IsPlaced(d), IsFresh(d), NEW e \in FocusActiveWindow(d)
  PROVE  Settled(old, e) /\ SameWindows(d, e)
<1> DEFINE w == ActiveWindow(Cursor(d))
           f == [d EXCEPT !.focus = NoWindow]
<1>1. /\ IsDesk(d) /\ IsPlacedBut(d, {}) /\ IsSound(Cursor(d))
      /\ MonitorWindows(Cursor(d)) \subseteq d.windows
      /\ NoWindow \notin GridWindows(d)
  BY PlacedFacts, WindowIsPositive DEF IsPlaced, IsPlacedBut
<1>2. CASE w # NoWindow
  <2>1. w \in d.windows
    BY <1>1, <1>2, ActiveWindowFacts
  <2>2. e \in FocusById(d, w)
    BY <1>2 DEF FocusActiveWindow
  <2> QED
    BY <2>1, <2>2, FocusByIdSettles DEF Settled
<1>3. CASE w = NoWindow
  <2>1. e \in Reconciled(f)
    BY <1>3 DEF FocusActiveWindow
  <2>2. IsDesk(f)
    BY <1>1, WithFocusFollows DEF Follows
  <2>3. /\ f.focus = NoWindow /\ f.space = d.space /\ f.iconified = d.iconified
        /\ SameScene(d, f)
    BY <1>1 DEF IsDesk, DeskOver, SameScene, SameWindows
  <2> HIDE DEF f
  <2>4. IsPlacedBut(f, {}) /\ GridWindows(f) = GridWindows(d) /\ Shown(f) = Shown(d)
    BY <1>1, <2>2, <2>3, SceneKeeps
  <2>5. IsPlaced(f) /\ AtHome(old, f) /\ IsFresh(f)
    BY <1>1, <2>3, <2>4 DEF IsPlaced, AtHome, IsFresh, SameScene, SameWindows
  <2>6. IsPlaced(e) /\ AtHome(old, e) /\ SameWindows(f, e) /\ (e = f \/ IsFresh(e))
    BY <2>1, <2>5, ReconciledSettles
  <2> QED
    BY <2>3, <2>5, <2>6 DEF Settled, SameScene, SameWindows
<1> QED
  BY <1>2, <1>3

----------------------------------------------------------------------------
(* The second invariant *)

\* The counters, and who is staged, tracked or withdrawn.
Numbered ==
  /\ next_id \in 1..MaxWindows + 1
  /\ desk.windows \cup unmapped \subseteq 1..next_id - 1
  /\ unmapped \cap desk.windows = {}
  /\ gone \subseteq desk.windows \ (Wayland \cup desk.associated)
  /\ pending_x11_focus \in X11 \cup {NoWindow}
  /\ layer \in BOOLEAN
  /\ xwayland \in [server : {"starting", "ready", "none"},
                   respawn_attempts : 0..XWAYLAND_MAX_RESPAWN_ATTEMPTS + 1]
  /\ xwayland.server = "ready" => xwayland.respawn_attempts = 0

\* What holds between handlers, old being free of the cursor's slot.
TidyFrom(old) == IInv /\ Settled(old, desk) /\ Numbered

\* The second inductive invariant: a chord may have parted the focused tile from
\* the cursor's slot, but it is on the cursor's monitor.
Tidy == TidyFrom(desk.focus)

\* The handlers that neither track nor evict a window.
Idle == UNCHANGED <<unmapped, pending_x11_focus, next_id, gone, xwayland>> /\ layer' \in BOOLEAN

\* Such a handler is done when its desk is settled.
LEMMA SettledStep ==
  ASSUME NEW old, TidyFrom(old), IInv', Settled(old, desk'), SameWindows(desk, desk'), Idle
  PROVE  TidyFrom(old)'
BY DEF TidyFrom, Numbered, SameWindows, Idle

\* The tail of dispatch_nav settles what the chord leaves.
LEMMA NavTailSettles ==
  ASSUME NEW old, NEW d, IsPlaced(d), SameWindows(desk, d),
         ThenRefocus(d) \/ (AtHome(old, d) /\ ThenStay(d))
  PROVE  Settled(old, desk') /\ SameWindows(desk, desk')
<1> DEFINE e == ApplyLayout(d)
<1>1. /\ IsPlaced(e) /\ IsFresh(e) /\ SameWindows(d, e)
      /\ AtHome(old, d) => AtHome(old, e)
  BY ApplyLayoutSettles DEF SameScene
<1>2. CASE AtHome(old, d) /\ ThenStay(d)
  BY <1>1, <1>2 DEF ThenStay, Settled, SameWindows
<1>3. CASE ThenRefocus(d)
  <2>1. desk' \in FocusActiveWindow(e)
    BY <1>3 DEF ThenRefocus
  <2> HIDE DEF e
  <2>2. Settled(old, desk') /\ SameWindows(e, desk')
    BY <1>1, <2>1, FocusActiveWindowSettles
  <2> QED
    BY <1>1, <2>2 DEF SameWindows
<1> QED
  BY <1>2, <1>3

\* What a chord starts from once it has dropped maximize.
LEMMA ReleasedPlaced ==
  ASSUME NEW old, TidyFrom(old)
  PROVE  /\ IsPlaced(Released) /\ AtHome(old, Released) /\ SameWindows(desk, Released)
         /\ Released.monitors = desk.monitors /\ Released.active_monitor = desk.active_monitor
         /\ Cursor(Released) = Cursor(desk) /\ Released.focus = desk.focus
         /\ FocusedWindow(Released) = FocusedWindow(desk)
         /\ GridWindows(Released) = GridWindows(desk)
         /\ IsPlaced(desk) /\ AtHome(old, desk)
<1>1. IsDesk(desk) /\ IsPlacedBut(desk, {}) /\ AtHome(old, desk)
  BY PlacedFacts DEF TidyFrom, Settled, IsPlaced
<1>2. IsDesk(Released)
  BY ReleasedFollows DEF TidyFrom, Follows
<1>3. /\ SameScene(desk, Released) /\ Released.focus = desk.focus
      /\ Released.active_monitor = desk.active_monitor
  BY <1>1 DEF Released, IsDesk, DeskOver, SameScene, SameWindows
<1>4. /\ IsPlacedBut(Released, {}) /\ GridWindows(Released) = GridWindows(desk)
      /\ FocusedWindow(Released) = FocusedWindow(desk) /\ AtHome(old, Released)
  BY <1>1, <1>2, <1>3, SceneKeeps
<1> QED
  BY <1>1, <1>3, <1>4 DEF SameScene, IsPlaced, Cursor

\* The chords that rearrange the monitor under the cursor and refocus.
LEMMA RearrangingChord ==
  ASSUME NEW old, TidyFrom(old), NEW m, Becomes(Cursor(desk), m, MonitorWindows(Cursor(desk))),
         ThenRefocus(WithCursor(Released, m))
  PROVE  Settled(old, desk') /\ SameWindows(desk, desk')
<1> DEFINE e == WithCursor(Released, m)
<1>1. IsPlaced(e) /\ SameWindows(Released, e)
  BY ReleasedPlaced, WithCursorPlaced
<1> HIDE DEF e
<1>2. SameWindows(desk, e)
  BY <1>1, ReleasedPlaced DEF SameWindows
<1>3. ThenRefocus(e)
  BY DEF e
<1> QED
  BY <1>1, <1>2, <1>3, NavTailSettles

\* The chords that carry the focused tile within its monitor and keep the focus.
LEMMA CarryingChord ==
  ASSUME NEW old, TidyFrom(old), NEW m, Becomes(Cursor(desk), m, MonitorWindows(Cursor(desk))),
         FocusedWindow(desk) \in MonitorWindows(Cursor(desk)),
         FocusedWindow(desk) \in Home(old, m),
         ThenStay(WithCursor(Released, m))
  PROVE  Settled(old, desk') /\ SameWindows(desk, desk')
<1> DEFINE e == WithCursor(Released, m)
<1>1. FocusedWindow(desk) = desk.focus
  <2>1. /\ FocusedWindow(desk) \in {NoWindow, desk.focus}
        /\ MonitorWindows(Cursor(desk)) \subseteq Window
    BY PlacedFacts, ReleasedPlaced DEF IsPlaced
  <2> QED
    BY <2>1, WindowIsPositive
<1>2. IsPlaced(e) /\ SameWindows(Released, e) /\ AtHome(old, e)
  BY <1>1, ReleasedPlaced, WithCursorPlaced
<1> HIDE DEF e
<1>3. SameWindows(desk, e)
  BY <1>2, ReleasedPlaced DEF SameWindows
<1>4. ThenStay(e)
  BY DEF e
<1> QED
  BY <1>2, <1>3, <1>4, NavTailSettles

\* The chords that change nothing but maximize, whose tail may stay or refocus.
LEMMA IdleChord ==
  ASSUME NEW old, TidyFrom(old), ThenRefocus(Released) \/ ThenStay(Released) \/ ThenStay(desk)
  PROVE  Settled(old, desk') /\ SameWindows(desk, desk')
<1>1. SameWindows(desk, desk)
  BY DEF SameWindows
<1> QED
  BY <1>1, ReleasedPlaced, NavTailSettles

----------------------------------------------------------------------------
(* The nav chords keep it *)

\* A directional step keeps the tiles of the monitor.
LEMMA StepToSound ==
  ASSUME NEW m, IsSound(m), NEW focused, NEW direction,
         NEW target \in DirectionTargets(m, focused, direction)
  PROVE  Becomes(m, StepTo(m, target, direction), MonitorWindows(m))
<1> DEFINE r == RevealSlot(m, target.slot, direction)
           k == r.monitor
           In(t) == LET ws == GroupWindows(GroupAt(m, t))
                    IN  {[slot |-> t, window |-> w] : w \in IF ws = {} THEN {NoWindow} ELSE ws}
<1>1. IsShaped(m)
  BY SoundFacts
<1>2. target.slot \in Slots(m)
  BY <1>1, TargetSlot
<1>3. target.window \in MonitorWindows(m) \cup {NoWindow}
  <2>1. \E t : target \in In(t)
    BY DEF DirectionTargets
  <2>2. PICK t : target \in In(t)
    BY <2>1
  <2>3. target.window \in GroupWindows(GroupAt(m, t)) \cup {NoWindow}
    BY <2>2
  <2>4. target.slot = t
    BY <2>2
  <2> QED
    BY <1>2, <2>3, <2>4, SoundFacts
<1>4. Becomes(m, k, MonitorWindows(m)) /\ r.slot \in Slots(k)
  BY <1>2, RevealSlotSound
<1>5. IsSound(k) /\ MonitorWindows(k) = MonitorWindows(m)
  BY <1>4 DEF Becomes
<1> DEFINE s == r.slot
<1>6. StepTo(m, target, direction) =
        IF target.window = NoWindow THEN SetActiveSlot(k, s) ELSE FocusWindow(k, target.window)
  BY DEF StepTo
<1>7. s \in Slots(k)
  BY <1>4
<1> HIDE DEF k, s
<1>8. Becomes(k, StepTo(m, target, direction), MonitorWindows(k))
  <2>1. CASE target.window = NoWindow
    BY <1>5, <1>6, <1>7, <2>1, SetActiveSlotSound
  <2>2. CASE target.window # NoWindow
    <3>1. target.window \in MonitorWindows(k)
      BY <1>3, <1>5, <2>2
    <3> QED
      BY <1>5, <1>6, <2>2, <3>1, FocusWindowSound
  <2> QED
    BY <2>1, <2>2
<1> QED
  BY <1>4, <1>5, <1>8 DEF Becomes

\* The chord that changes the band keeps the focus, free of the cursor's slot if
\* the cursor is clamped.
LEMMA BandChord ==
  ASSUME NEW old, TidyFrom(old), NEW change \in {-1, 1}, ChangeVisibleColumns(change),
         Clamps => old = desk.focus
  PROVE  Settled(old, desk') /\ SameWindows(desk, desk')
<1> DEFINE d == Released
           m == Cursor(desk)
           k == IncrementVisibleColumns(m, change)
           e == WithCursor(d, k)
<1>1. /\ IsPlaced(d) /\ AtHome(old, d) /\ SameWindows(desk, d) /\ Cursor(d) = m
      /\ d.focus = desk.focus /\ IsSound(m)
  BY ReleasedPlaced, PlacedFacts DEF IsPlaced
<1>2. ThenStay(e) /\ change \in Int
  BY DEF ChangeVisibleColumns
<1>3. Clamps \/ ~(m.active_column > Max2(1, m.visible_columns + change))
  BY DEF Clamps
<1>4. m.active_column \in Int /\ m.visible_columns \in Int
  BY <1>1, SoundFacts, ShapeFacts
<1> HIDE DEF d, m
<1>5. Becomes(m, k, MonitorWindows(m))
  BY <1>1, <1>2, ChangeBandSound DEF Becomes
<1>6. \/ old = desk.focus
      \/ Home(old, k) = Home(old, m)
  <2>1. CASE m.active_column > Max2(1, m.visible_columns + change)
    BY <1>3, <2>1
  <2>2. CASE ~(m.active_column > Max2(1, m.visible_columns + change))
    <3>1. m.active_column <= Max2(1, m.visible_columns + change)
      BY <1>2, <1>4, <2>2 DEF Max2
    <3> QED
      BY <1>1, <1>2, <3>1, ChangeBandHome
  <2> QED
    BY <2>1, <2>2
<1> HIDE DEF k
<1>7. d.focus \in MonitorWindows(m) => d.focus \in Home(old, k)
  <2> SUFFICES ASSUME d.focus \in MonitorWindows(m) PROVE d.focus \in Home(old, k)
    OBVIOUS
  <2>1. CASE old = desk.focus
    BY <1>1, <1>5, <2>1 DEF Becomes, Home
  <2>2. CASE Home(old, k) = Home(old, m)
    <3>1. d.focus \in GridWindows(d)
      BY <1>1, PlacedFacts DEF IsPlaced
    <3> QED
      BY <1>1, <2>2, <3>1 DEF AtHome
  <2> QED
    BY <1>6, <2>1, <2>2
<1>8. IsPlaced(e) /\ SameWindows(d, e) /\ AtHome(old, e)
  BY <1>1, <1>5, <1>7, WithCursorPlaced
<1> HIDE DEF e
<1>9. SameWindows(desk, e)
  BY <1>1, <1>8 DEF SameWindows
<1> QED
  BY <1>2, <1>8, <1>9, NavTailSettles

\* Every chord but the one that evicts leaves a tidy desk.
LEMMA RearrangingSettles ==
  ASSUME NEW old, TidyFrom(old), NEW motion \in {-1, 1}, NEW direction \in Directions,
         \/ RotateColumnsBy(motion) \/ ScrollColumnBy(motion) \/ MoveActiveColumnBy(motion)
         \/ ChangeVisibleColumns(motion) \/ SwapGroup(direction) \/ FocusWindowBy(direction)
         \/ NewGroup,
         Clamps => old = desk.focus
  PROVE  Settled(old, desk') /\ SameWindows(desk, desk')
<1> DEFINE m == Cursor(desk)
<1>1. IsSound(m) /\ motion \in Int
  BY ReleasedPlaced, PlacedFacts DEF IsPlaced
<1> HIDE DEF m
<1>2. CASE RotateColumnsBy(motion)
  <2>1. Becomes(m, RotateColumns(m, motion), MonitorWindows(m))
    BY <1>1, RotateColumnsSound
  <2> QED
    BY <1>2, <2>1, RearrangingChord DEF RotateColumnsBy, m
<1>3. CASE ScrollColumnBy(motion)
  <2>1. Becomes(m, ScrollActiveColumn(m, motion), MonitorWindows(m))
    BY <1>1, ScrollActiveColumnSound
  <2> QED
    BY <1>3, <2>1, RearrangingChord DEF ScrollColumnBy, m
<1>4. CASE MoveActiveColumnBy(motion)
  <2>1. Becomes(m, MoveActiveColumn(m, motion), MonitorWindows(m))
    BY <1>1, MoveActiveColumnSound
  <2> QED
    BY <1>4, <2>1, RearrangingChord DEF MoveActiveColumnBy, m
<1>5. CASE ChangeVisibleColumns(motion)
  BY <1>5, BandChord
<1>6. CASE SwapGroup(direction)
  <2>1. Becomes(m, SwapActiveGroup(m, direction), MonitorWindows(m))
    BY <1>1, SwapActiveGroupSound
  <2> QED
    BY <1>6, <2>1, RearrangingChord DEF SwapGroup, m
<1>7. CASE FocusWindowBy(direction)
  <2> DEFINE targets == DirectionTargets(m, FocusedWindow(desk), direction)
  <2>1. CASE \E target \in targets :
               ThenRefocus(WithCursor(Released, StepTo(m, target, direction)))
    <3>1. PICK target \in targets :
            ThenRefocus(WithCursor(Released, StepTo(m, target, direction)))
      BY <2>1
    <3>2. Becomes(m, StepTo(m, target, direction), MonitorWindows(m))
      BY <1>1, StepToSound
    <3> QED
      BY <3>1, <3>2, RearrangingChord DEF m
  <2>2. CASE ThenRefocus(Released)
    BY <2>2, IdleChord
  <2> QED
    BY <1>7, <2>1, <2>2 DEF FocusWindowBy, m
<1>8. CASE NewGroup
  <2>1. Becomes(m, GrowActiveColumn(m), MonitorWindows(m))
    BY <1>1, GrowActiveColumnSound
  <2> QED
    BY <1>8, <2>1, RearrangingChord DEF NewGroup, m
<1> QED
  BY <1>2, <1>3, <1>4, <1>5, <1>6, <1>7, <1>8

\* So do those that carry the focused window about its monitor.
LEMMA CarryingSettles ==
  ASSUME NEW old, TidyFrom(old), NEW direction \in Directions, NEW to_left \in BOOLEAN,
         MoveFocusedWindow(direction) \/ MoveToNewColumn(to_left),
         Clamps => old = desk.focus
  PROVE  Settled(old, desk') /\ SameWindows(desk, desk')
<1> DEFINE m == Cursor(desk)
           w == FocusedWindow(desk)
<1>1. IsSound(m) /\ IsShaped(m)
  BY ReleasedPlaced, PlacedFacts, SoundFacts DEF IsPlaced, IsPlacedBut, IsWorkspace, Cursor
<1> HIDE DEF m
<1>2. CASE MoveFocusedWindow(direction)
  <2> DEFINE dest == IF w \in MonitorWindows(m)
                     THEN NeighbourSlots(m, Locate(m, w), direction, Len(m.columns)) ELSE {}
  <2>1. CASE \E s \in dest : ThenStay(WithCursor(Released, MoveWindowToGroup(m, w, s)))
    <3>1. PICK s \in dest : ThenStay(WithCursor(Released, MoveWindowToGroup(m, w, s)))
      BY <2>1
    <3>2. w \in MonitorWindows(m) /\ s \in NeighbourSlots(m, Locate(m, w), direction, Len(m.columns))
      BY <3>1
    <3>3. Locate(m, w) \in Slots(m) /\ Len(m.columns) \in Nat
      BY <1>1, <3>2, LocateSlot, ShapeFacts
    <3>4. s \in Slots(m)
      BY <1>1, <3>2, <3>3, NeighbourIsSlot
    <3> DEFINE k == MoveWindowToGroup(m, w, s)
    <3>5. Becomes(m, k, MonitorWindows(m)) /\ w \in Home(old, k)
      BY <1>1, <3>2, <3>4, MoveWindowToGroupSound, MoveWindowToGroupHome
    <3>6. ThenStay(WithCursor(Released, k))
      BY <3>1
    <3> HIDE DEF k
    <3> QED
      BY <3>2, <3>5, <3>6, CarryingChord DEF m
  <2>2. CASE ThenStay(Released)
    BY <2>2, IdleChord
  <2> QED
    BY <1>2, <2>1, <2>2 DEF MoveFocusedWindow, m
<1>3. CASE MoveToNewColumn(to_left)
  <2> DEFINE k == MoveWindowToNewColumn(m, w, to_left)
  <2>1. CASE w \in MonitorWindows(m)
    <3>1. m.active_column > m.visible_columns => old = w
      <4>1. m.active_column > m.visible_columns => Clamps
        BY <1>3 DEF Clamps, m
      <4>2. w \in Window
        BY <2>1, ReleasedPlaced, PlacedFacts DEF IsPlaced, m
      <4>3. w = desk.focus
        BY <4>2, ReleasedPlaced, PlacedFacts, WindowIsPositive DEF IsPlaced
      <4> QED
        BY <4>1, <4>3
    <3>2. Becomes(m, k, MonitorWindows(m)) /\ w \in Home(old, k)
      BY <1>1, <2>1, <3>1, MoveWindowToNewColumnSound, MoveWindowToNewColumnHome
    <3>3. ThenStay(WithCursor(Released, k))
      BY <1>3, <2>1 DEF MoveToNewColumn, m
    <3> HIDE DEF k
    <3> QED
      BY <2>1, <3>2, <3>3, CarryingChord DEF m
  <2>2. CASE w \notin MonitorWindows(m)
    BY <1>3, <2>2, IdleChord DEF MoveToNewColumn, m
  <2> QED
    BY <2>1, <2>2
<1> QED
  BY <1>2, <1>3

\* Maximize is no part of what is placed.
LEMMA WithMaximizedPlaced ==
  ASSUME NEW old, NEW d, IsPlaced(d),
         NEW x \in [stage : {"None", "Group", "Monitor"}, window : Window \cup {NoWindow}]
  PROVE  LET e == [d EXCEPT !.maximized = x]
         IN  IsPlaced(e) /\ SameWindows(d, e) /\ (AtHome(old, d) => AtHome(old, e))
<1> DEFINE e == [d EXCEPT !.maximized = x]
<1>1. IsDesk(d) /\ IsPlacedBut(d, {})
  BY PlacedFacts DEF IsPlaced
<1>2. IsDesk(e)
  BY <1>1, WithMaximizedFollows DEF Follows
<1>3. SameScene(d, e) /\ e.focus = d.focus /\ e.active_monitor = d.active_monitor
  BY <1>1 DEF IsDesk, DeskOver, SameScene, SameWindows
<1> HIDE DEF e
<1>4. IsPlacedBut(e, {}) /\ (AtHome(old, d) => AtHome(old, e))
  BY <1>1, <1>2, <1>3, SceneKeeps
<1>5. IsPlaced(e) /\ SameWindows(d, e) /\ (AtHome(old, d) => AtHome(old, e))
  BY <1>3, <1>4 DEF IsPlaced, SameScene
<1> QED
  BY <1>5 DEF e

\* cycle_maximize stays or moves to the focused window.
LEMMA ToggleMaximizeSettles ==
  ASSUME NEW old, TidyFrom(old), NEW forward \in BOOLEAN, ToggleMaximize(forward)
  PROVE  Settled(old, desk') /\ SameWindows(desk, desk')
<1> DEFINE w == FocusedWindow(desk)
           x == NextMaximize(desk.maximized, w, forward, HasSiblings(desk, w))
           k == [desk EXCEPT !.maximized = x]
<1>1. IsDesk(desk) /\ IsPlaced(desk) /\ AtHome(old, desk)
  BY ReleasedPlaced, PlacedFacts DEF IsPlaced
<1>2. w \in Window \cup {NoWindow}
  BY <1>1, FocusedWindowType DEF IsDesk, DeskOver
<1>3. /\ desk.maximized.stage \in {"None", "Group", "Monitor"}
      /\ desk.maximized.window \in Window \cup {NoWindow}
  BY <1>1 DEF IsDesk, DeskOver
<1>4. x \in [stage : {"None", "Group", "Monitor"}, window : Window \cup {NoWindow}]
  BY <1>2, <1>3 DEF NextMaximize, NoMaximize
<1>5. ThenStay(desk) \/ ThenStay(k)
  BY DEF ToggleMaximize
<1> HIDE DEF x
<1>6. IsPlaced(k) /\ SameWindows(desk, k) /\ AtHome(old, k)
  BY <1>1, <1>4, WithMaximizedPlaced
<1> HIDE DEF k
<1> QED
  BY <1>5, <1>6, IdleChord, NavTailSettles

\* The cursor goes to the next monitor, alone or with the focused window.
LEMMA NextMonitorSettles ==
  ASSUME NEW old, TidyFrom(old), FocusNextMonitor \/ MoveWindowToNextMonitor
  PROVE  Settled(old, desk') /\ SameWindows(desk, desk')
<1> DEFINE d == Released
           k == [d EXCEPT !.active_monitor = NextMonitor(desk)]
           c == MoveWindowToMonitor(d, FocusedWindow(desk), NextMonitor(desk))
<1>1. /\ IsDesk(d) /\ IsPlaced(d) /\ IsPlacedBut(d, {}) /\ SameWindows(desk, d)
      /\ NextMonitor(desk) \in Monitors
  BY ReleasedPlaced, PlacedFacts, NextMonitorType DEF IsPlaced
<1>2. ThenRefocus(d) \/ ThenRefocus(k) \/ ThenRefocus(c)
  BY DEF FocusNextMonitor, MoveWindowToNextMonitor
<1> HIDE DEF d
<1>3. /\ k \in DeskOver(d.monitors) /\ SameScene(d, k)
      /\ k.space = d.space /\ k.iconified = d.iconified
  BY <1>1 DEF IsDesk, DeskOver, SameScene, SameWindows
<1> HIDE DEF k
<1>4. IsDesk(k)
  BY <1>1, <1>3 DEF IsDesk, SameScene, SameWindows
<1>5. IsPlaced(k) /\ SameWindows(desk, k)
  BY <1>1, <1>3, <1>4, SceneKeeps DEF IsPlaced, SameScene, SameWindows
<1>6. IsPlaced(c) /\ SameWindows(desk, c)
  BY <1>1, MoveWindowToMonitorPlaced DEF SameWindows
<1> HIDE DEF c
<1> QED
  BY <1>1, <1>2, <1>5, <1>6, NavTailSettles

\* The focus goes round the fullscreen windows.
LEMMA FocusNextFullscreenSettles ==
  ASSUME NEW old, TidyFrom(old), FocusNextFullscreen
  PROVE  Settled(old, desk') /\ SameWindows(desk, desk')
<1>1. CASE ThenStay(Released)
  BY <1>1, IdleChord
<1>2. CASE \E w \in desk.windows : desk' \in {ApplyLayout(e) : e \in FocusById(Released, w)}
  <2>1. PICK w \in desk.windows : desk' \in {ApplyLayout(e) : e \in FocusById(Released, w)}
    BY <1>2
  <2>2. PICK e \in FocusById(Released, w) : desk' = ApplyLayout(e)
    BY <2>1
  <2>3. IsPlaced(Released) /\ SameWindows(desk, Released) /\ w \in Released.windows
    BY ReleasedPlaced DEF SameWindows
  <2>4. IsPlaced(e) /\ AtHome(old, e) /\ SameWindows(Released, e)
    BY <2>2, <2>3, FocusByIdSettles
  <2>5. SameWindows(desk, e) /\ ThenStay(e)
    BY <2>2, <2>3, <2>4 DEF SameWindows, ThenStay
  <2> QED
    BY <2>4, <2>5, NavTailSettles
<1> QED
  BY <1>1, <1>2 DEF FocusNextFullscreen

\* The RemoveWindow chord evicts the focused window, or prunes the empty group.
LEMMA RemoveFocusedWindowTidies ==
  ASSUME NEW old, TidyFrom(old), IInv', RemoveFocusedWindow
  PROVE  TidyFrom(old)'
<1> DEFINE w == FocusedWindow(desk)
           m == Cursor(desk)
<1>1. IsSound(m) /\ IsPlaced(Released) /\ SameWindows(desk, Released)
  BY ReleasedPlaced, PlacedFacts DEF IsPlaced
<1>2. Idle
  BY DEF RemoveFocusedWindow, Bound, Idle, TidyFrom, Numbered
<1>3. CASE w = NoWindow
  <2>1. Becomes(m, RemoveActiveGroup(m), MonitorWindows(m))
    BY <1>1, RemoveActiveGroupSound
  <2>2. ThenRefocus(WithCursor(Released, RemoveActiveGroup(m)))
    BY <1>3 DEF RemoveFocusedWindow
  <2> QED
    BY <1>2, <2>1, <2>2, RearrangingChord, SettledStep
<1>4. CASE w # NoWindow
  <2> DEFINE k == RemoveById(Released, {w})
             e == ApplyLayout(k)
  <2>1. IsPlaced(k) /\ k.windows = desk.windows \ {w} /\ k.associated = desk.associated \ {w}
    BY <1>1, RemoveByIdPlaced DEF SameWindows
  <2>2. desk' \in FocusActiveWindow(e)
    BY <1>4 DEF RemoveFocusedWindow, ThenRefocus
  <2> HIDE DEF k
  <2>3. IsPlaced(e) /\ IsFresh(e) /\ SameWindows(k, e)
    BY <2>1, ApplyLayoutSettles DEF SameScene
  <2> HIDE DEF e
  <2>4. Settled(old, desk') /\ SameWindows(e, desk')
    BY <2>2, <2>3, FocusActiveWindowSettles
  <2>5. desk'.windows = desk.windows \ {w} /\ desk'.associated = desk.associated \ {w}
    BY <2>1, <2>3, <2>4 DEF SameWindows
  <2>6. w \in Wayland \cup desk.associated
    BY <1>4 DEF FocusedWindow
  <2>7. Numbered'
    BY <1>2, <2>5, <2>6 DEF TidyFrom, Numbered, Idle
  <2> QED
    BY <2>4, <2>7 DEF TidyFrom
<1> QED
  BY <1>3, <1>4

\* Every nav chord leaves a tidy desk.
LEMMA NavKeepsTidy ==
  ASSUME NEW old, TidyFrom(old), NavStep, Clamps => old = desk.focus
  PROVE  TidyFrom(old)'
<1>1. IInv'
  BY NavKeepsIInv DEF TidyFrom
<1>2. Idle
  BY NavStep DEF NavStep, Idle, TidyFrom, Numbered, Bound, RotateColumnsBy, ScrollColumnBy, MoveActiveColumnBy,
     ChangeVisibleColumns, SwapGroup, FocusWindowBy, MoveFocusedWindow, MoveToNewColumn,
     ToggleMaximize, Redraw, NewGroup, FocusNextMonitor, MoveWindowToNextMonitor,
     RemoveFocusedWindow, FocusNextFullscreen
<1>3. CASE RemoveFocusedWindow
  BY <1>1, <1>3, RemoveFocusedWindowTidies
<1>4. CASE Settled(old, desk') /\ SameWindows(desk, desk')
  BY <1>1, <1>2, <1>4, SettledStep
<1>5. ASSUME NEW motion \in {-1, 1},
             \/ RotateColumnsBy(motion) \/ ScrollColumnBy(motion) \/ MoveActiveColumnBy(motion)
             \/ ChangeVisibleColumns(motion)
      PROVE  TidyFrom(old)'
  <2>1. "Left" \in Directions
    BY DEF Directions
  <2> QED
    BY <1>4, <1>5, <2>1, RearrangingSettles
<1>6. ASSUME NEW direction \in Directions, SwapGroup(direction) \/ FocusWindowBy(direction)
      PROVE  TidyFrom(old)'
  BY <1>4, <1>6, RearrangingSettles
<1>7. CASE NewGroup
  <2>1. "Left" \in Directions
    BY DEF Directions
  <2> QED
    BY <1>4, <1>7, <2>1, RearrangingSettles
<1>8. ASSUME NEW direction \in Directions, MoveFocusedWindow(direction) PROVE TidyFrom(old)'
  BY <1>4, <1>8, CarryingSettles
<1>9. ASSUME NEW b \in BOOLEAN, MoveToNewColumn(b) \/ ToggleMaximize(b) \/ Redraw(b) PROVE TidyFrom(old)'
  <2>1. CASE MoveToNewColumn(b)
    <3>1. "Left" \in Directions
      BY DEF Directions
    <3> QED
      BY <1>4, <2>1, <3>1, CarryingSettles
  <2>2. CASE ToggleMaximize(b)
    BY <1>4, <2>2, ToggleMaximizeSettles
  <2>3. CASE Redraw(b)
    BY <1>4, <2>3, IdleChord DEF Redraw
  <2> QED
    BY <1>9, <2>1, <2>2, <2>3
<1> QED
  BY <1>3, <1>4, <1>5, <1>6, <1>7, <1>8, <1>9, NextMonitorSettles, FocusNextFullscreenSettles,
     NavStep DEF NavStep

----------------------------------------------------------------------------
(* The clients keep it *)

\* What the tidy desk is made of.
LEMMA TidyFacts ==
  ASSUME NEW old, TidyFrom(old)
  PROVE  /\ IsDesk(desk) /\ IsPlaced(desk) /\ IsPlacedBut(desk, {})
         /\ AtHome(old, desk) /\ IsFresh(desk)
         /\ desk.windows \subseteq Window /\ GridWindows(desk) \subseteq desk.windows
BY PlacedFacts DEF TidyFrom, Settled, IsPlaced, IsPlacedBut

\* A desk that comes to track a window has yet to place it.
LEMMA TrackedPlaced ==
  ASSUME NEW old, TidyFrom(old), NEW w, w \notin desk.windows, NEW k, IsDesk(k),
         k.monitors = desk.monitors, k.active_monitor = desk.active_monitor,
         k.windows = desk.windows \cup {w}, k.focus = desk.focus,
         k.fullscreen_windows = desk.fullscreen_windows
  PROVE  /\ IsPlacedBut(k, {w}) /\ AtHome(old, k)
         /\ GridWindows(k) = GridWindows(desk) /\ w \notin GridWindows(k)
<1>1. GridWindows(k) = GridWindows(desk)
  BY DEF GridWindows
<1> QED
  BY <1>1, TidyFacts DEF IsPlacedBut, AtHome, Cursor

\* The window the next map request creates is not among the others.
LEMMA NextIsNew ==
  ASSUME NEW old, TidyFrom(old), NEW shell, Born(shell)
  PROVE  /\ next_id \in Window \ (desk.windows \cup unmapped) /\ Kind[next_id] = shell
         /\ next_id' = next_id + 1 /\ next_id' \in 1..MaxWindows + 1
         /\ 1..next_id - 1 \subseteq 1..next_id' - 1 /\ next_id \in 1..next_id' - 1
<1>1. next_id \in Window /\ next_id' = next_id + 1 /\ Kind[next_id] = shell
  BY BornWindow DEF TidyFrom
<1>2. next_id \in Nat \ {0} /\ MaxWindows \in Nat /\ next_id <= MaxWindows
  BY DesktopAssumption DEF TidyFrom, IInv, Born
<1>3. next_id \notin desk.windows \cup unmapped
  BY <1>2 DEF TidyFrom, Numbered
<1> QED
  BY <1>1, <1>2, <1>3

\* A change of fullscreen, and its layout pass, settle the desk.
LEMMA FullscreenedSettles ==
  ASSUME NEW old, TidyFrom(old), NEW w \in desk.windows \cap Tileable, NEW enter \in BOOLEAN,
         desk' = Fullscreened(w, enter)
  PROVE  Settled(old, desk') /\ SameWindows(desk, desk')
<1> DEFINE k == IF enter THEN EnterFullscreen(desk, w)
                ELSE IF w \in desk.fullscreen_windows THEN LeaveFullscreen(desk, <<w>>) ELSE desk
<1>1. {} \ {w} = {}
  OBVIOUS
<1>2. IsPlaced(k) /\ SameWindows(desk, k) /\ AtHome(old, k)
  <2>1. CASE enter
    <3>1. /\ IsPlacedBut(k, {} \ {w}) /\ SameWindows(desk, k)
          /\ AtHome(old, desk) => AtHome(old, k)
      BY <2>1, TidyFacts, EnterFullscreenPlaced
    <3> HIDE DEF k
    <3> QED
      BY <1>1, <3>1, TidyFacts DEF IsPlaced
  <2>2. CASE ~enter /\ w \in desk.fullscreen_windows
    <3> DEFINE ws == <<w>>
    <3>1. Listed(ws) = {w}
      BY DEF Listed
    <3>2. w \notin GridWindows(desk)
      BY <2>2, TidyFacts DEF IsPlacedBut
    <3>3. IsNew(ws, GridWindows(desk)) /\ ws # <<>>
      BY <3>2, TidyFacts DEF IsNew, Window
    <3>4. k = LeaveFullscreen(desk, ws)
      BY <2>2
    <3>5. IsPlacedBut(desk, {}) /\ Listed(ws) \subseteq desk.windows \cap Tileable
      BY <3>1, TidyFacts
    <3> HIDE DEF k, ws
    <3>6. /\ IsPlacedBut(k, {} \ Listed(ws)) /\ SameWindows(desk, k)
          /\ AtHome(old, desk) => AtHome(old, k)
      BY <3>3, <3>4, <3>5, LeaveFullscreenPlaced
    <3> QED
      BY <1>1, <3>1, <3>6, TidyFacts DEF IsPlaced
  <2>3. CASE ~enter /\ w \notin desk.fullscreen_windows
    BY <2>3, TidyFacts DEF SameWindows
  <2> QED
    BY <2>1, <2>2, <2>3
<1>3. desk' = ApplyLayout(k)
  BY DEF Fullscreened
<1> HIDE DEF k
<1> QED
  BY <1>2, <1>3, NavTailSettles DEF ThenStay

\* Eviction settles the desk, with or without a layout pass.
LEMMA EvictionSettles ==
  ASSUME NEW old, TidyFrom(old), NEW ws,
         desk' = RemoveById(desk, ws) \/ desk' = ApplyLayout(RemoveById(desk, ws))
  PROVE  /\ Settled(old, desk')
         /\ desk'.windows = desk.windows \ ws /\ desk'.associated = desk.associated \ ws
<1> DEFINE k == RemoveById(desk, ws)
<1>1. /\ IsPlaced(k) /\ AtHome(old, k) /\ IsFresh(k)
      /\ k.windows = desk.windows \ ws /\ k.associated = desk.associated \ ws
  BY TidyFacts, RemoveByIdPlaced
<1>2. desk' = k \/ desk' = ApplyLayout(k)
  OBVIOUS
<1> HIDE DEF k
<1> QED
  BY <1>1, <1>2, ApplyLayoutSettles DEF Settled, SameScene, SameWindows

\* The focus moves to a tracked window.
LEMMA FocusStep ==
  ASSUME NEW old, TidyFrom(old), NEW w \in desk.windows, desk' \in FocusById(desk, w)
  PROVE  Settled(old, desk') /\ SameWindows(desk, desk')
BY TidyFacts, FocusByIdSettles DEF Settled

\* The focus goes to the launcher, or to nothing.
LEMMA FocusDropped ==
  ASSUME NEW old, NEW d, Settled(old, d), NEW t \in {NoWindow, LayerFocus}
  PROVE  LET e == [d EXCEPT !.focus = t] IN Settled(old, e) /\ SameWindows(d, e)
<1> DEFINE e == [d EXCEPT !.focus = t]
<1>1. IsDesk(d) /\ IsPlacedBut(d, {}) /\ IsFresh(d) /\ GridWindows(d) \subseteq Window
  BY PlacedFacts DEF Settled, IsPlaced
<1>2. IsDesk(e)
  BY <1>1, WithFocusFollows DEF Follows
<1>3. SameScene(d, e) /\ e.focus = t /\ e.space = d.space /\ e.iconified = d.iconified
  BY <1>1 DEF IsDesk, DeskOver, SameScene, SameWindows
<1> HIDE DEF e
<1>4. IsPlacedBut(e, {}) /\ GridWindows(e) = GridWindows(d) /\ Shown(e) = Shown(d)
  BY <1>1, <1>2, <1>3, SceneKeeps
<1>5. AtHome(old, e)
  BY <1>1, <1>3, <1>4, WindowIsPositive DEF AtHome
<1>6. IsFresh(e)
  BY <1>1, <1>3, <1>4 DEF IsFresh, SameScene, SameWindows
<1>7. Settled(old, e) /\ SameWindows(d, e)
  BY <1>3, <1>4, <1>5, <1>6 DEF Settled, IsPlaced, SameScene
<1> QED
  BY <1>7 DEF e

\* What the first buffer of a toplevel leaves to be focused is laid out.
LEMMA FirstBufferLaid ==
  ASSUME NEW old, TidyFrom(old), NEW w \in Window, FirstBuffer(w)
  PROVE  \E d : /\ IsPlaced(d) /\ IsFresh(d) /\ desk' \in FocusById(d, w)
                /\ d.windows = desk.windows \cup {w} /\ d.associated = desk.associated
                /\ w \in Wayland \ desk.windows
<1> DEFINE k == [desk EXCEPT !.windows = @ \cup {w}]
           t == Tiled(k, w)
<1>1. /\ k \in DeskOver(desk.monitors) /\ k.monitors = desk.monitors
      /\ k.windows = desk.windows \cup {w}
      /\ k.fullscreen_windows = desk.fullscreen_windows
      /\ k.active_monitor = desk.active_monitor /\ k.focus = desk.focus
      /\ k.space = desk.space /\ k.iconified = desk.iconified
      /\ k.associated = desk.associated
  BY TidyFacts DEF IsDesk, DeskOver
<1>2. /\ desk' \in FocusById(ApplyLayout(t), w)
      /\ w \in unmapped
  BY DEF FirstBuffer
<1>3. w \in Wayland /\ w \in Tileable /\ w \notin desk.windows
  BY <1>2 DEF TidyFrom, IInv, Numbered, Wayland, Managed, Tileable
<1> HIDE DEF k
<1>4. IsDesk(k)
  BY <1>1, TidyFacts, TrackedDesk
<1>5. IsPlacedBut(k, {w}) /\ w \notin GridWindows(k) /\ AtHome(old, k)
  BY <1>1, <1>3, <1>4, TrackedPlaced
<1>6. IsPlaced(t) /\ SameWindows(k, t)
  BY <1>1, <1>3, <1>5, TiledPlaced
<1> HIDE DEF t
<1>7. IsPlaced(ApplyLayout(t)) /\ IsFresh(ApplyLayout(t)) /\ SameWindows(t, ApplyLayout(t))
  BY <1>6, ApplyLayoutSettles DEF SameScene
<1>8. w \in ApplyLayout(t).windows
  BY <1>1, <1>6, <1>7 DEF SameWindows
<1>9. ApplyLayout(t).windows = desk.windows \cup {w} /\ ApplyLayout(t).associated = desk.associated
  BY <1>1, <1>6, <1>7 DEF SameWindows
<1> QED
  BY <1>2, <1>3, <1>7, <1>9

\* The first buffer of a toplevel places it, lays out and focuses it.
LEMMA FirstBufferTidies ==
  ASSUME NEW old, TidyFrom(old), IInv', NEW w \in Window, FirstBuffer(w)
  PROVE  TidyFrom(old)'
<1>1. PICK d : /\ IsPlaced(d) /\ IsFresh(d) /\ desk' \in FocusById(d, w)
               /\ d.windows = desk.windows \cup {w} /\ d.associated = desk.associated
               /\ w \in Wayland \ desk.windows
  BY FirstBufferLaid
<1>2. Settled(old, desk') /\ SameWindows(d, desk')
  BY <1>1, FocusByIdSettles DEF Settled
<1>3. desk'.windows = desk.windows \cup {w} /\ desk'.associated = desk.associated
  BY <1>1, <1>2 DEF SameWindows
<1>4. Numbered'
  BY <1>1, <1>3 DEF FirstBuffer, TidyFrom, Numbered
<1> QED
  BY <1>2, <1>4 DEF TidyFrom

\* The map request of an X11 window places it, focuses it and lays out.
LEMMA MapX11Tidies ==
  ASSUME NEW old, TidyFrom(old), IInv', NEW fullscreen \in BOOLEAN, NEW surface \in BOOLEAN,
         MapX11(fullscreen, surface)
  PROVE  TidyFrom(old)'
<1> DEFINE w == next_id
           a == IF surface THEN desk.associated \cup {w} ELSE desk.associated
           k == [desk EXCEPT !.windows = @ \cup {w}, !.associated = a]
           placed == IF fullscreen THEN EnterFullscreen(k, w) ELSE Tiled(k, w)
<1>1. /\ w \in Window \ (desk.windows \cup unmapped) /\ Kind[w] = "x11"
      /\ next_id' = w + 1 /\ next_id' \in 1..MaxWindows + 1
      /\ 1..w - 1 \subseteq 1..next_id' - 1 /\ w \in 1..next_id' - 1
  BY NextIsNew DEF MapX11
<1>2. w \in X11 /\ w \in Tileable /\ w \notin Wayland
  BY <1>1 DEF X11, Wayland, Managed, Tileable
<1>3. PICK focused \in FocusById(placed, w) :
        desk' = ApplyLayout(focused) /\ pending_x11_focus' \in {pending_x11_focus, w}
  BY DEF MapX11
<1>4. UNCHANGED <<unmapped, layer, gone, xwayland>>
  BY DEF MapX11
<1>5. a \subseteq Window /\ a \subseteq desk.associated \cup {w} /\ desk.associated \subseteq a
  BY <1>1, TidyFacts DEF IsDesk
<1> HIDE DEF a
<1>6. /\ k \in DeskOver(desk.monitors) /\ k.monitors = desk.monitors
      /\ k.windows = desk.windows \cup {w}
      /\ k.fullscreen_windows = desk.fullscreen_windows
      /\ k.active_monitor = desk.active_monitor /\ k.focus = desk.focus
      /\ k.space = desk.space /\ k.iconified = desk.iconified /\ k.associated = a
  BY <1>1, <1>5, TidyFacts DEF IsDesk, DeskOver
<1> HIDE DEF k
<1>7. IsDesk(k)
  BY <1>5, <1>6, TidyFacts, TrackedDesk
<1>8. IsPlacedBut(k, {w}) /\ w \notin GridWindows(k)
  BY <1>1, <1>6, <1>7, TrackedPlaced
<1>9. IsPlaced(placed) /\ SameWindows(k, placed)
  <2>1. CASE fullscreen
    <3>1. IsPlacedBut(placed, {w} \ {w}) /\ SameWindows(k, placed)
      BY <1>2, <1>6, <1>8, <2>1, EnterFullscreenPlaced
    <3>2. {w} \ {w} = {}
      OBVIOUS
    <3> HIDE DEF placed
    <3> QED
      BY <3>1, <3>2 DEF IsPlaced
  <2>2. CASE ~fullscreen
    BY <1>2, <1>6, <1>8, <2>2, TiledPlaced
  <2> QED
    BY <2>1, <2>2
<1> HIDE DEF placed
<1>10. w \in placed.windows
  BY <1>6, <1>9 DEF SameWindows
<1>11. IsPlaced(focused) /\ AtHome(old, focused) /\ SameWindows(placed, focused)
  BY <1>3, <1>9, <1>10, FocusByIdSettles
<1>12. Settled(old, desk') /\ SameWindows(focused, desk')
  BY <1>3, <1>11, ApplyLayoutSettles DEF Settled, SameScene
<1>13. /\ desk'.windows = desk.windows \cup {w}
       /\ desk'.associated \subseteq desk.associated \cup {w}
  BY <1>5, <1>6, <1>9, <1>11, <1>12 DEF SameWindows
<1>14. Numbered'
  BY <1>1, <1>2, <1>3, <1>4, <1>13 DEF TidyFrom, Numbered
<1> QED
  BY <1>12, <1>14 DEF TidyFrom

\* Menus are tracked, and move, outside the grid.
LEMMA MenuTidies ==
  ASSUME NEW old, TidyFrom(old), IInv', (\E surface \in BOOLEAN : MapMenu(surface)) \/ (\E w \in Window : ConfigureNotify(w))
  PROVE  TidyFrom(old)'
<1>1. ASSUME NEW surface \in BOOLEAN, MapMenu(surface) PROVE TidyFrom(old)'
  <2> DEFINE w == next_id
             a == IF surface THEN desk.associated \cup {w} ELSE desk.associated
             sp == desk.space \cup {w}
  <2>1. /\ w \in Window \ (desk.windows \cup unmapped) /\ Kind[w] = "menu"
        /\ next_id' = w + 1 /\ next_id' \in 1..MaxWindows + 1
        /\ 1..w - 1 \subseteq 1..next_id' - 1 /\ w \in 1..next_id' - 1
    BY <1>1, NextIsNew DEF MapMenu
  <2>2. w \notin X11 /\ w \notin Managed
    BY <2>1 DEF X11, Managed
  <2>3. /\ desk' = [desk EXCEPT !.windows = @ \cup {w}, !.space = sp, !.associated = a]
        /\ UNCHANGED <<unmapped, pending_x11_focus, layer, gone, xwayland>>
    BY <1>1 DEF MapMenu
  <2>4. a \subseteq desk.associated \cup {w}
    OBVIOUS
  <2> HIDE DEF a
  <2>5. /\ desk'.monitors = desk.monitors /\ desk'.active_monitor = desk.active_monitor
        /\ desk'.windows = desk.windows \cup {w} /\ desk'.focus = desk.focus
        /\ desk'.fullscreen_windows = desk.fullscreen_windows
        /\ desk'.space = sp /\ desk'.iconified = desk.iconified /\ desk'.associated = a
    BY <2>3, TidyFacts DEF IsDesk, DeskOver
  <2>6. /\ IsPlacedBut(desk', {w}) /\ AtHome(old, desk')
        /\ GridWindows(desk') = GridWindows(desk)
    <3>1. IsDesk(desk')
      BY DEF IInv
    <3> DEFINE e == desk'
    <3>2. /\ IsDesk(e) /\ e.monitors = desk.monitors /\ e.active_monitor = desk.active_monitor
          /\ e.windows = desk.windows \cup {w} /\ e.focus = desk.focus
          /\ e.fullscreen_windows = desk.fullscreen_windows
      BY <2>5, <3>1
    <3> HIDE DEF e
    <3>3. /\ IsPlacedBut(e, {w}) /\ AtHome(old, e)
          /\ GridWindows(e) = GridWindows(desk)
      BY <2>1, <3>2, TrackedPlaced
    <3> QED
      BY <3>3 DEF e
  <2>7. IsPlaced(desk')
    BY <2>2, <2>6 DEF IsPlaced, IsPlacedBut
  <2>8. Shown(desk') = Shown(desk)
    BY <2>5 DEF Shown
  <2>9. IsFresh(desk')
    BY <2>2, <2>5, <2>6, <2>8, TidyFacts DEF IsFresh
  <2>10. Numbered'
    BY <2>1, <2>3, <2>4, <2>5 DEF TidyFrom, Numbered
  <2> QED
    BY <2>6, <2>7, <2>9, <2>10 DEF TidyFrom, Settled
<1>2. ASSUME NEW w \in Window, ConfigureNotify(w) PROVE TidyFrom(old)'
  <2>1. /\ w \notin Managed /\ desk' = [desk EXCEPT !.space = @ \cup {w}] /\ Idle
    BY <1>2 DEF ConfigureNotify, Idle, TidyFrom, Numbered
  <2>2. w \notin X11
    BY <2>1 DEF X11, Managed
  <2>3. /\ SameScene(desk, desk') /\ desk'.focus = desk.focus
        /\ desk'.active_monitor = desk.active_monitor
        /\ desk'.space = desk.space \cup {w} /\ desk'.iconified = desk.iconified
    BY <2>1, TidyFacts DEF IsDesk, DeskOver, SameScene, SameWindows
  <2>4. /\ IsPlacedBut(desk', {}) /\ AtHome(old, desk')
        /\ GridWindows(desk') = GridWindows(desk) /\ Shown(desk') = Shown(desk)
    BY <2>3, TidyFacts, SceneKeeps DEF IInv
  <2>5. IsFresh(desk')
    BY <2>1, <2>2, <2>3, <2>4, TidyFacts DEF IsFresh, SameScene, SameWindows
  <2> QED
    BY <2>1, <2>3, <2>4, <2>5, SettledStep DEF Settled, IsPlaced, SameScene
<1> QED
  BY <1>1, <1>2

\* A toplevel whose first buffer is still to come asks for fullscreen, or goes.
LEMMA StagedPlaced ==
  ASSUME NEW old, TidyFrom(old), IInv', NEW w \in unmapped \cap Tileable, NEW fs,
         fs = desk.fullscreen_windows \cup {w} \/ fs = desk.fullscreen_windows \ {w},
         desk' = [desk EXCEPT !.fullscreen_windows = fs]
  PROVE  Settled(old, desk') /\ SameWindows(desk, desk')
<1>1. /\ desk'.monitors = desk.monitors /\ desk'.fullscreen_windows = fs
      /\ desk'.active_monitor = desk.active_monitor /\ desk'.focus = desk.focus
      /\ desk'.space = desk.space /\ desk'.iconified = desk.iconified
      /\ SameWindows(desk, desk')
  BY TidyFacts DEF IsDesk, DeskOver, SameWindows
<1>2. w \notin desk.windows /\ w \notin GridWindows(desk)
  BY TidyFacts DEF TidyFrom, Numbered
<1>3. GridWindows(desk') = GridWindows(desk) /\ Shown(desk') = Shown(desk)
  BY <1>1 DEF GridWindows, Shown
<1>4. IsPlaced(desk')
  BY <1>1, <1>2, <1>3, TidyFacts DEF IInv, IsPlaced, IsPlacedBut, SameWindows
<1>5. AtHome(old, desk')
  BY <1>1, <1>3, TidyFacts DEF AtHome, Cursor
<1>6. IsFresh(desk')
  BY <1>1, <1>3, TidyFacts DEF IsFresh, SameWindows
<1> QED
  BY <1>1, <1>4, <1>5, <1>6 DEF Settled

\* XWayland gives a window its surface, and the focus that waited for it.
LEMMA SurfaceAssociatedTidies ==
  ASSUME NEW old, TidyFrom(old), IInv', NEW w \in Window, SurfaceAssociated(w)
  PROVE  TidyFrom(old)'
<1> DEFINE k == [desk EXCEPT !.associated = @ \cup {w}]
<1>1. /\ w \in desk.windows \ gone
      /\ desk' = k \/ desk' \in FocusById(k, w)
      /\ pending_x11_focus' \in {pending_x11_focus, NoWindow}
      /\ UNCHANGED <<unmapped, layer, next_id, gone, xwayland>>
  BY DEF SurfaceAssociated
<1>2. /\ k \in DeskOver(desk.monitors) /\ k.monitors = desk.monitors
      /\ k.windows = desk.windows /\ k.fullscreen_windows = desk.fullscreen_windows
      /\ k.active_monitor = desk.active_monitor /\ k.focus = desk.focus
      /\ k.space = desk.space /\ k.iconified = desk.iconified
      /\ k.associated = desk.associated \cup {w}
  BY <1>1, TidyFacts DEF IsDesk, DeskOver
<1> HIDE DEF k
<1>3. IsDesk(k)
  BY <1>1, <1>2, TidyFacts DEF IsDesk
<1>4. GridWindows(k) = GridWindows(desk) /\ Shown(k) = Shown(desk)
  BY <1>2 DEF GridWindows, Shown
<1>5. IsPlaced(k) /\ AtHome(old, k) /\ IsFresh(k)
  BY <1>2, <1>3, <1>4, TidyFacts DEF IsPlaced, IsPlacedBut, AtHome, IsFresh, Cursor
<1>6. Settled(old, desk') /\ SameWindows(k, desk')
  <2>1. CASE desk' = k
    BY <1>5, <2>1 DEF Settled, SameWindows
  <2>2. CASE desk' \in FocusById(k, w)
    <3>1. w \in k.windows
      BY <1>1, <1>2
    <3> QED
      BY <1>5, <2>2, <3>1, FocusByIdSettles DEF Settled, SameWindows
  <2> QED
    BY <1>1, <2>1, <2>2
<1>7. desk'.windows = desk.windows /\ desk'.associated = desk.associated \cup {w}
  BY <1>2, <1>6 DEF SameWindows
<1>8. Numbered'
  BY <1>1, <1>7 DEF TidyFrom, Numbered
<1> QED
  BY <1>6, <1>8 DEF TidyFrom

\* A window that goes takes nothing else with it.
LEMMA EvictedNumbers ==
  ASSUME NEW old, TidyFrom(old), NEW ws, ws \cap gone = {} \/ gone' = {},
         desk'.windows = desk.windows \ ws, desk'.associated = desk.associated \ ws,
         gone' \in {gone, {}},
         UNCHANGED <<unmapped, pending_x11_focus, layer, next_id>>,
         xwayland' \in [server : {"starting", "ready", "none"},
                        respawn_attempts : 0..XWAYLAND_MAX_RESPAWN_ATTEMPTS + 1],
         xwayland'.server = "ready" => xwayland'.respawn_attempts = 0
  PROVE  Numbered'
BY DEF TidyFrom, Numbered

\* The server dies, and every X11 window with it.
LEMMA DisconnectedTidies ==
  ASSUME NEW old, TidyFrom(old), IInv', XwaylandDisconnected
  PROVE  TidyFrom(old)'
<1> DEFINE stale == desk.windows \ Wayland
<1>1. /\ \/ desk' = desk /\ stale = {}
         \/ desk' = ApplyLayout(RemoveById(desk, stale))
      /\ gone' = {}
      /\ UNCHANGED <<unmapped, pending_x11_focus, layer, next_id>>
      /\ xwayland.server = "ready"
  BY DEF XwaylandDisconnected
<1>2. /\ Settled(old, desk') /\ desk'.windows = desk.windows \ stale
      /\ desk'.associated = desk.associated \ stale
  <2> HIDE DEF stale
  <2> QED
    BY <1>1, EvictionSettles DEF TidyFrom
<1>3. xwayland.respawn_attempts = 0
  BY <1>1 DEF TidyFrom, Numbered
<1>4. PICK attempts \in {1, xwayland.respawn_attempts + 1} :
         xwayland' \in IF attempts > XWAYLAND_MAX_RESPAWN_ATTEMPTS
                       THEN {[server |-> "none", respawn_attempts |-> attempts]}
                       ELSE Spawned(attempts)
  BY DEF XwaylandDisconnected
<1>5. /\ xwayland' \in [server : {"starting", "ready", "none"},
                        respawn_attempts : 0..XWAYLAND_MAX_RESPAWN_ATTEMPTS + 1]
      /\ xwayland'.server # "ready"
  BY <1>3, <1>4 DEF Spawned, XWAYLAND_MAX_RESPAWN_ATTEMPTS
<1> HIDE DEF stale
<1>6. Numbered'
  BY <1>1, <1>2, <1>5, EvictedNumbers
<1> QED
  BY <1>2, <1>6 DEF TidyFrom

\* Every client request leaves a tidy desk.
LEMMA ClientKeepsTidy ==
  ASSUME NEW old, TidyFrom(old), ClientStep
  PROVE  TidyFrom(old)'
<1>1. IInv'
  BY ClientKeepsIInv DEF TidyFrom
<1>2. CASE NewToplevel
  <2>1. /\ next_id \in Window \ (desk.windows \cup unmapped)
        /\ next_id' \in 1..MaxWindows + 1
        /\ 1..next_id - 1 \subseteq 1..next_id' - 1 /\ next_id \in 1..next_id' - 1
    BY <1>2, NextIsNew DEF NewToplevel
  <2>2. Numbered'
    BY <1>2, <2>1 DEF NewToplevel, TidyFrom, Numbered
  <2> QED
    BY <1>1, <1>2, <2>2 DEF NewToplevel, TidyFrom
<1>3. CASE XwaylandReady \/ XwaylandFails
  <2>1. desk' = desk /\ UNCHANGED <<unmapped, pending_x11_focus, layer, next_id, gone>>
    BY <1>3 DEF XwaylandReady, XwaylandFails
  <2>2. /\ xwayland' \in [server : {"starting", "ready", "none"},
                          respawn_attempts : 0..XWAYLAND_MAX_RESPAWN_ATTEMPTS + 1]
        /\ xwayland'.server = "ready" => xwayland'.respawn_attempts = 0
    BY <1>3 DEF XwaylandReady, XwaylandFails, TidyFrom, Numbered, XWAYLAND_MAX_RESPAWN_ATTEMPTS
  <2> QED
    BY <1>1, <2>1, <2>2 DEF TidyFrom, Numbered
<1>4. ASSUME NEW fullscreen \in BOOLEAN, NEW surface \in BOOLEAN, MapX11(fullscreen, surface)
      PROVE  TidyFrom(old)'
  BY <1>1, <1>4, MapX11Tidies
<1>5. ASSUME NEW surface \in BOOLEAN, MapMenu(surface) PROVE TidyFrom(old)'
  BY <1>1, <1>5, MenuTidies
<1>6. ASSUME NEW w \in Window, FirstBuffer(w) PROVE TidyFrom(old)'
  BY <1>1, <1>6, FirstBufferTidies
<1>7. ASSUME NEW w \in Window, ToplevelDestroyed(w) PROVE TidyFrom(old)'
  <2>1. UNCHANGED <<pending_x11_focus, layer, next_id, gone, xwayland>>
    BY <1>7 DEF ToplevelDestroyed
  <2>2. CASE /\ w \in unmapped /\ unmapped' = unmapped \ {w}
             /\ desk' = [desk EXCEPT !.fullscreen_windows = @ \ {w}]
    <3>1. w \in unmapped \cap Tileable
      BY <2>2 DEF TidyFrom, IInv, Wayland, Managed, Tileable
    <3> DEFINE fs == desk.fullscreen_windows \ {w}
    <3>2. desk' = [desk EXCEPT !.fullscreen_windows = fs]
      BY <2>2
    <3> HIDE DEF fs
    <3>3. fs = desk.fullscreen_windows \ {w}
      BY DEF fs
    <3>4. Settled(old, desk') /\ SameWindows(desk, desk')
      BY <1>1, <3>1, <3>2, <3>3, StagedPlaced
    <3>5. Numbered'
      BY <2>1, <2>2, <3>4 DEF TidyFrom, Numbered, SameWindows
    <3> QED
      BY <1>1, <3>4, <3>5 DEF TidyFrom
  <2>3. CASE /\ w \in desk.windows \cap Wayland /\ UNCHANGED unmapped
             /\ desk' = ApplyLayout(RemoveById(desk, {w}))
    <3>1. /\ Settled(old, desk')
          /\ desk'.windows = desk.windows \ {w} /\ desk'.associated = desk.associated \ {w}
      BY <2>3, EvictionSettles
    <3>2. {w} \cap gone = {}
      BY <2>3 DEF TidyFrom, Numbered
    <3>3. Numbered'
      BY <2>1, <2>3, <3>1, <3>2, EvictedNumbers DEF TidyFrom, Numbered
    <3> QED
      BY <1>1, <3>1, <3>3 DEF TidyFrom
  <2> QED
    BY <1>7, <2>2, <2>3 DEF ToplevelDestroyed
<1>8. ASSUME NEW w \in Window, SurfaceAssociated(w) PROVE TidyFrom(old)'
  BY <1>1, <1>8, SurfaceAssociatedTidies
<1>9. ASSUME NEW w \in Window, X11Withdrawn(w) PROVE TidyFrom(old)'
  <2>1. /\ w \in desk.windows \ (Wayland \cup gone)
        /\ UNCHANGED <<unmapped, pending_x11_focus, layer, next_id, xwayland>>
    BY <1>9 DEF X11Withdrawn
  <2>2. CASE w \in desk.associated
    <3>1. /\ desk' = RemoveById(desk, {w}) \/ desk' = ApplyLayout(RemoveById(desk, {w}))
          /\ gone' = gone
      BY <1>9, <2>2 DEF X11Withdrawn
    <3>2. /\ Settled(old, desk')
          /\ desk'.windows = desk.windows \ {w} /\ desk'.associated = desk.associated \ {w}
      BY <3>1, EvictionSettles
    <3>3. {w} \cap gone = {}
      BY <2>1
    <3>4. Numbered'
      BY <2>1, <3>1, <3>2, <3>3, EvictedNumbers DEF TidyFrom, Numbered
    <3> QED
      BY <1>1, <3>2, <3>4 DEF TidyFrom
  <2>3. CASE w \notin desk.associated
    BY <1>1, <1>9, <2>1, <2>3 DEF X11Withdrawn, TidyFrom, Numbered
  <2> QED
    BY <2>2, <2>3
<1>10. ASSUME NEW w \in Window, ActiveWindowRequest(w) PROVE TidyFrom(old)'
  <2>1. w \in desk.windows /\ desk' \in FocusById(desk, w) /\ Idle
    BY <1>10 DEF ActiveWindowRequest, Idle, TidyFrom, Numbered
  <2> QED
    BY <1>1, <2>1, FocusStep, SettledStep
<1>11. ASSUME NEW w \in Window, NEW enter \in BOOLEAN,
              ClientFullscreen(w, enter) \/ X11Fullscreen(w, enter)
       PROVE  TidyFrom(old)'
  <2>1. w \in Tileable /\ Idle
    BY <1>11 DEF ClientFullscreen, X11Fullscreen, Tileable, Idle, TidyFrom, Numbered
  <2> DEFINE fs == IF enter THEN desk.fullscreen_windows \cup {w}
                   ELSE desk.fullscreen_windows \ {w}
  <2>2. CASE w \in unmapped /\ desk' = [desk EXCEPT !.fullscreen_windows = fs]
    <3>1. fs = desk.fullscreen_windows \cup {w} \/ fs = desk.fullscreen_windows \ {w}
      OBVIOUS
    <3>2. w \in unmapped \cap Tileable
      BY <2>1, <2>2
    <3> HIDE DEF fs
    <3> QED
      BY <1>1, <2>1, <2>2, <3>1, <3>2, StagedPlaced, SettledStep
  <2>3. CASE w \in desk.windows /\ desk' = Fullscreened(w, enter)
    <3>1. w \in desk.windows \cap Tileable
      BY <2>1, <2>3
    <3> QED
      BY <1>1, <2>1, <2>3, <3>1, FullscreenedSettles, SettledStep
  <2> QED
    BY <1>11, <2>2, <2>3 DEF ClientFullscreen, X11Fullscreen
<1>12. ASSUME NEW w \in Window, ConfigureNotify(w) PROVE TidyFrom(old)'
  BY <1>1, <1>12, MenuTidies
<1>13. CASE XwaylandDisconnected
  BY <1>1, <1>13, DisconnectedTidies
<1> QED
  BY <1>2, <1>3, <1>4, <1>5, <1>6, <1>7, <1>8, <1>9, <1>10, <1>11, <1>12, <1>13,
     ClientStep DEF ClientStep

\* So does every step of the pointer, the taskbar and the launcher.
LEMMA DeviceKeepsTidy ==
  ASSUME NEW old, TidyFrom(old), DeviceStep
  PROVE  TidyFrom(old)'
<1>1. IInv'
  BY DeviceKeepsIInv DEF TidyFrom
<1>2. Idle
  BY DEF DeviceStep, Device, Taskbar, ClickDesktop, Click, Hover, Activate, SetMaximized,
         UnsetMaximized, TaskbarFullscreen, LayerCommit, LayerDestroyed, Idle, TidyFrom, Numbered
<1>3. Settled(old, desk) /\ IsPlaced(desk) /\ AtHome(old, desk) /\ IsFresh(desk) /\ SameWindows(desk, desk)
      /\ desk.space \subseteq desk.windows
  BY TidyFacts DEF TidyFrom, SameWindows, IsDesk
<1>4. CASE ClickDesktop
  <2>1. desk' = [desk EXCEPT !.focus = NoWindow]
    BY <1>4 DEF ClickDesktop
  <2>2. Settled(old, desk') /\ SameWindows(desk, desk')
    BY <1>3, <2>1, FocusDropped
  <2> QED
    BY <1>1, <1>2, <2>2, SettledStep
<1>5. ASSUME NEW w \in Window, Click(w) \/ Hover(w) \/ Activate(w) PROVE TidyFrom(old)'
  <2>1. w \in desk.windows /\ desk' \in FocusById(desk, w)
    BY <1>3, <1>5 DEF Click, Hover, Activate, Taskbar, Pointable
  <2> QED
    BY <1>1, <1>2, <2>1, FocusStep, SettledStep
<1>6. ASSUME NEW w \in Window, SetMaximized(w) \/ UnsetMaximized(w) PROVE TidyFrom(old)'
  <2>1. PICK x \in [stage : {"None", "Group", "Monitor"}, window : Window \cup {NoWindow}] :
          desk' = ApplyLayout([desk EXCEPT !.maximized = x])
    BY <1>6 DEF SetMaximized, UnsetMaximized, NoMaximize
  <2> DEFINE k == [desk EXCEPT !.maximized = x]
  <2>2. IsPlaced(k) /\ SameWindows(desk, k) /\ AtHome(old, k)
    BY <1>3, WithMaximizedPlaced
  <2>3. ThenStay(k)
    BY <2>1 DEF ThenStay
  <2> HIDE DEF k
  <2> QED
    BY <1>1, <1>2, <2>2, <2>3, NavTailSettles, SettledStep
<1>7. ASSUME NEW w \in Window, NEW enter \in BOOLEAN, TaskbarFullscreen(w, enter) PROVE TidyFrom(old)'
  <2>1. w \in desk.windows \cap Tileable /\ desk' = Fullscreened(w, enter)
    BY <1>7 DEF TaskbarFullscreen, Taskbar, Tileable
  <2> QED
    BY <1>1, <1>2, <2>1, FullscreenedSettles, SettledStep
<1>8. ASSUME NEW reflow \in BOOLEAN, LayerCommit(reflow) \/ LayerDestroyed(reflow) PROVE TidyFrom(old)'
  <2> DEFINE k == IF reflow THEN ApplyLayout(desk) ELSE desk
  <2>1. \/ desk' = [k EXCEPT !.focus = LayerFocus]
        \/ desk' \in FocusActiveWindow(k)
        \/ desk' = k
    BY <1>8 DEF LayerCommit, LayerDestroyed
  <2>2. Settled(old, k) /\ SameWindows(desk, k)
    BY <1>3, ApplyLayoutSettles DEF Settled, SameScene
  <2> HIDE DEF k
  <2>3. Settled(old, desk') /\ SameWindows(k, desk')
    <3>1. CASE desk' = [k EXCEPT !.focus = LayerFocus]
      BY <2>2, <3>1, FocusDropped
    <3>2. CASE desk' \in FocusActiveWindow(k)
      BY <2>2, <3>2, FocusActiveWindowSettles DEF Settled
    <3>3. CASE desk' = k
      BY <2>2, <3>3 DEF SameWindows
    <3> QED
      BY <2>1, <3>1, <3>2, <3>3
  <2>4. SameWindows(desk, desk')
    BY <2>2, <2>3 DEF SameWindows
  <2> QED
    BY <1>1, <1>2, <2>3, <2>4, SettledStep
<1> QED
  BY <1>4, <1>5, <1>6, <1>7, <1>8, DeviceStep DEF DeviceStep

\* The empty desk is tidy.
LEMMA InitTidy == Init => Tidy
<1> SUFFICES ASSUME Init PROVE Tidy
  OBVIOUS
<1>1. PICK a \in Monitors :
        desk = [monitors |-> [i \in Monitors |-> NewMonitor(VisibleColumns)],
                active_monitor |-> a, windows |-> {}, fullscreen_windows |-> {},
                maximized |-> NoMaximize, focus |-> NoWindow, space |-> {},
                iconified |-> {}, associated |-> {}]
  BY DEF Init
<1>2. IInv
  BY InitIInv
<1>3. \A i \in Monitors :
        IsSound(desk.monitors[i]) /\ MonitorWindows(desk.monitors[i]) = {}
  BY <1>1, NewMonitorSound, DesktopAssumption
<1>4. IsWorkspace(desk.monitors) /\ GridWindows(desk) = {}
  BY <1>3 DEF IsWorkspace, Apart, GridWindows
<1>5. Shown(desk) = {}
  <2>1. \A i \in Monitors : VisibleWindows(desk.monitors[i]) \subseteq {}
    BY <1>3, SoundFacts, VisibleFacts
  <2> QED
    BY <2>1 DEF Shown
<1>6. Settled(desk.focus, desk)
  BY <1>1, <1>2, <1>4, <1>5 DEF IInv, Settled, IsPlaced, IsPlacedBut, AtHome, IsFresh
<1>7. xwayland \in [server : {"starting", "none"}, respawn_attempts : {0}]
  BY DEF Init, Spawned
<1>8. MaxWindows \in Nat
  BY DesktopAssumption
<1>9. Numbered
  <2>1. next_id = 1 /\ next_id \in 1..MaxWindows + 1
    BY <1>8 DEF Init
  <2>2. desk.windows = {} /\ unmapped = {} /\ gone = {} /\ pending_x11_focus = NoWindow /\ layer = FALSE
    BY <1>1 DEF Init
  <2>3. /\ xwayland \in [server : {"starting", "ready", "none"},
                         respawn_attempts : 0..XWAYLAND_MAX_RESPAWN_ATTEMPTS + 1]
        /\ xwayland.server # "ready"
    BY <1>7 DEF XWAYLAND_MAX_RESPAWN_ATTEMPTS
  <2> QED
    BY <2>1, <2>2, <2>3 DEF Numbered
<1> QED
  BY <1>2, <1>6, <1>9 DEF Tidy, TidyFrom

\* Every step that does not clamp the cursor keeps a desk tidy whatever window
\* is free of its slot; the others free the focused one.
LEMMA NextTidyFrom ==
  ASSUME NEW old, TidyFrom(old), [Next]_vars, Clamps => old = desk.focus
  PROVE  TidyFrom(old)'
<1>1. CASE UNCHANGED vars
  BY <1>1, NextIInv DEF vars, TidyFrom, Numbered
<1> QED
  BY <1>1, NavKeepsTidy, ClientKeepsTidy, DeviceKeepsTidy DEF Next

\* Whatever was free of the slot, the focused tile is on the cursor's monitor.
LEMMA SettledFromFocus ==
  ASSUME NEW old, NEW d, Settled(old, d)
  PROVE  Settled(d.focus, d)
<1>1. IsSound(Cursor(d)) /\ AtHome(old, d)
  BY PlacedFacts DEF Settled, IsPlaced
<1>2. AtHome(d.focus, d)
  BY <1>1, HomeOnMonitor DEF AtHome, Home
<1> QED
  BY <1>2 DEF Settled

\* The second invariant is inductive.
LEMMA NextTidy == Tidy /\ [Next]_vars => Tidy'
<1> SUFFICES ASSUME Tidy, [Next]_vars PROVE Tidy'
  OBVIOUS
<1>1. PICK old : old = desk.focus
  OBVIOUS
<1>2. TidyFrom(old)
  BY <1>1 DEF Tidy
<1>3. TidyFrom(old)'
  BY <1>1, <1>2, NextTidyFrom
<1>4. Settled(desk'.focus, desk')
  BY <1>3, SettledFromFocus DEF TidyFrom
<1> QED
  BY <1>3, <1>4 DEF Tidy, TidyFrom

----------------------------------------------------------------------------
(* The theorems of the second invariant *)

\* What focus_by_id is called on is placed and laid out.
LEMMA RaiseFinds ==
  ASSUME NEW old, TidyFrom(old), NEW w \in Window, Raise(w) \/ Hover(w)
  PROVE  \E d : /\ IsPlaced(d) /\ IsFresh(d) /\ w \in d.windows \cap Managed
                /\ desk' \in FocusById(d, w)
<1>1. CASE FirstBuffer(w)
  <2>1. PICK d : /\ IsPlaced(d) /\ IsFresh(d) /\ desk' \in FocusById(d, w)
                 /\ d.windows = desk.windows \cup {w} /\ w \in Wayland
    BY <1>1, FirstBufferLaid
  <2> QED
    BY <2>1 DEF Wayland, Managed
<1>2. CASE Activate(w) \/ ActiveWindowRequest(w) \/ Click(w) \/ Hover(w)
  <2>1. IsPlaced(desk) /\ IsFresh(desk) /\ desk.space \subseteq desk.windows
    BY TidyFacts DEF IsDesk
  <2>2. w \in desk.windows \cap Managed /\ desk' \in FocusById(desk, w)
    BY <1>2, <2>1 DEF Activate, Taskbar, ActiveWindowRequest, Click, Hover, Pointable, X11, Managed
  <2> QED
    BY <2>1, <2>2
<1> QED
  BY <1>1, <1>2 DEF Raise

\* Every reachable desk is placed, at home and fresh.
THEOREM Tidiness == Spec => []Tidy
BY InitTidy, NextTidy, PTL DEF Spec

\* The fields hold what the code's types and comments say they hold.
THEOREM TypeCorrect == Spec => []TypeOK
<1>1. ASSUME Tidy PROVE TypeOK
  <2>1. \A i \in Monitors : desk.monitors[i] \in Monitor
    BY <1>1, PlacedFacts, TidyFacts, SoundIsSoundMonitor DEF Tidy
  <2>2. desk.monitors \in [Monitors -> Monitor]
    BY <1>1, <2>1, TidyFacts DEF Tidy, IsDesk, AreShaped
  <2>3. desk \in Desk
    BY <1>1, <2>2, TidyFacts DEF Tidy, IsDesk, DeskOver, Desk
  <2> QED
    BY <1>1, <2>3 DEF Tidy, TidyFrom, IInv, Numbered, TypeOK
<1> QED
  BY <1>1, Tidiness, PTL

\* No chord, client or device breaks a split tree, puts a window in two groups
\* or makes a group remember a window it does not hold.
THEOREM GridSoundness == Spec => []SoundGrid
<1>1. ASSUME Tidy PROVE SoundGrid
  BY <1>1, PlacedFacts, TidyFacts, SoundIsSoundMonitor DEF Tidy, SoundGrid
<1> QED
  BY <1>1, Tidiness, PTL

\* Every managed window has one tile, or the whole screen.
THEOREM Partitioned == Spec => []Partition
<1>1. ASSUME Tidy PROVE Partition
  <2>1. IsPlacedBut(desk, {})
    BY <1>1, TidyFacts DEF Tidy
  <2> QED
    BY <2>1 DEF IsPlacedBut, IsWorkspace, Apart, Partition
<1> QED
  BY <1>1, Tidiness, PTL

\* The keyboard is never in a tile of a monitor the cursor is not on.
THEOREM FocusUnderCursor == Spec => []FocusOnActiveMonitor
<1>1. ASSUME Tidy PROVE FocusOnActiveMonitor
  <2>1. /\ FocusedWindow(desk) \in {NoWindow, desk.focus} /\ NoWindow \notin GridWindows(desk)
        /\ IsSound(Cursor(desk)) /\ AtHome(desk.focus, desk)
    BY <1>1, TidyFacts, PlacedFacts, WindowIsPositive DEF Tidy
  <2> QED
    BY <2>1, HomeOnMonitor DEF AtHome, FocusOnActiveMonitor
<1> QED
  BY <1>1, Tidiness, PTL

\* No chord, client or device parts the cursor from the tile with the keyboard,
\* but a chord that clamps the cursor to the band, and the next focus to move
\* takes the cursor along.
THEOREM FocusKeepsSlot == Spec => KeepsSlot
<1>1. ASSUME Tidy, [Next]_vars, FocusInActiveSlot \/ desk'.focus # desk.focus, ~Clamps
      PROVE  FocusInActiveSlot'
  <2>1. PICK old : old = IF FocusInActiveSlot THEN NoWindow ELSE desk.focus
    OBVIOUS
  <2>2. TidyFrom(old)
    BY <1>1, <2>1 DEF Tidy, TidyFrom, Settled, AtHome, Home, FocusInActiveSlot
  <2>3. TidyFrom(old)'
    BY <1>1, <2>2, NextTidyFrom
  <2>4. /\ AtHome(old, desk')
        /\ NoWindow \notin GridWindows(desk')
    BY <2>3, PlacedFacts, WindowIsPositive DEF TidyFrom, Settled, IsPlaced
  <2>5. desk'.focus \in GridWindows(desk') => desk'.focus # old
    BY <1>1, <2>1, <2>4
  <2> QED
    BY <2>4, <2>5 DEF AtHome, Home, FocusInActiveSlot
<1> QED
  BY <1>1, Tidiness, PTL DEF Spec, KeepsSlot

\* As long as only managed windows go fullscreen, what is mapped and what X11
\* clients were told is what the grid says.
THEOREM ScreenFreshness ==
  ASSUME MayFullscreen \subseteq Managed
  PROVE  Spec => []ScreenFresh
<1>1. ASSUME Tidy PROVE ScreenFresh
  <2>1. GridWindows(desk) \subseteq Managed
    BY <1>1, TidyFacts DEF Tidy, IsPlacedBut, Tileable
  <2>2. Shown(desk) \subseteq GridWindows(desk)
    <3>1. \A i \in Monitors : VisibleWindows(desk.monitors[i]) \subseteq MonitorWindows(desk.monitors[i])
      BY <1>1, TidyFacts, PlacedFacts, SoundFacts, VisibleFacts DEF Tidy
    <3> QED
      BY <3>1 DEF Shown, GridWindows
  <2> QED
    BY <1>1, <2>1, <2>2, TidyFacts DEF Tidy, IsFresh, Shown, ScreenFresh
<1> QED
  BY <1>1, Tidiness, PTL

\* However many windows were fullscreen, a window that takes the focus leaves
\* nothing of the focus before.
THEOREM FocusSettlesAll == Spec => FocusIsExclusive
<1>1. ASSUME Tidy PROVE \A w \in Window : Exclusive(w)' \/ ~(Raise(w) \/ Hover(w))
  <2>1. ASSUME NEW w \in Window, Raise(w) \/ Hover(w) PROVE Exclusive(w)'
    <3>1. PICK d : IsPlaced(d) /\ w \in d.windows /\ desk' \in FocusById(d, w)
      BY <1>1, <2>1, RaiseFinds DEF Tidy
    <3> QED
      BY <3>1, FocusByIdSettles DEF Exclusive
  <2> QED
    BY <2>1
<1> QED
  BY <1>1, Tidiness, PTL DEF FocusIsExclusive

\* No step leaves behind the window it raises.
THEOREM RaisedComesForward == Spec => ComesForward
<1>1. ASSUME Tidy PROVE \A w \in Window : InFront(w)' \/ ~Raise(w)
  <2>1. ASSUME NEW w \in Window, Raise(w) PROVE InFront(w)'
    <3>1. PICK d : /\ IsPlaced(d) /\ IsFresh(d) /\ w \in d.windows \cap Managed
                   /\ desk' \in FocusById(d, w)
      BY <1>1, <2>1, RaiseFinds DEF Tidy
    <3> QED
      BY <3>1, FocusByIdSettles DEF InFront
  <2> QED
    BY <2>1
<1> QED
  BY <1>1, Tidiness, PTL DEF ComesForward
=============================================================================
