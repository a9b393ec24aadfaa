--------------------------- MODULE Appearance_proofs ---------------------------
(***************************************************************************)
(* The invariants of Appearance for any finite set of images, whichever of *)
(* them decode, any outputs and settings, any number of config files and   *)
(* any tables the user may write into them.                                *)
(*                                                                         *)
(* Each method of the wallpaper manager is shown to lead from a manager of *)
(* the right type to one, and to keep two facts: a prefetched image was    *)
(* decoded, with the settings in force (Fits), and the cache is exact.     *)
(* The second needs the first, as a swap shows the prefetched image at     *)
(* once.  A reload is the one step that does not start from the exact      *)
(* cache but from a clean one: what it has decodes and was decoded with    *)
(* the settings in force, but nothing is said of which images these are.   *)
(*                                                                         *)
(* The recursive definition of the community's FlattenSeq, and the order   *)
(* of a folder, need induction: a least counterexample provides it.        *)
(***************************************************************************)
EXTENDS Appearance, SequenceTheorems, FiniteSetTheorems, WellFoundedInduction, TLAPS

----------------------------------------------------------------------------
(* Numbers *)

\* A nonempty set of naturals has a least element.
LEMMA LeastNatural ==
  ASSUME NEW T, T \subseteq Nat, T # {}
  PROVE  \E n \in T : \A k \in T : n <= k
<1> DEFINE R == OpToRel(<, Nat)
<1>1. IsWellFoundedOn(R, Nat)
  BY NatLessThanWellFounded
<1>2. \A x, y \in Nat : x < y => <<x, y>> \in R
  BY DEF OpToRel
<1> HIDE DEF R
<1>3. PICK n \in T : \A k \in T : ~(<<k, n>> \in R)
  BY <1>1, WFMin
<1>4. ASSUME NEW k \in T PROVE n <= k
  <2>1. k \in Nat /\ n \in Nat /\ ~(k < n)
    BY <1>2, <1>3
  <2> QED
    BY <2>1
<1> QED
  BY <1>4

\* And one that is bounded a greatest.
LEMMA GreatestNatural ==
  ASSUME NEW n \in Nat, NEW T, T \subseteq 0..n, T # {}
  PROVE  \E m \in T : \A k \in T : k <= m
<1> DEFINE U == {n - k : k \in T}
<1>1. U \subseteq Nat /\ U # {}
  <2>1. \A k \in T : n - k \in Nat
    OBVIOUS
  <2> QED
    BY <2>1
<1>2. PICK u \in U : \A k \in U : u <= k
  BY <1>1, LeastNatural
<1>3. PICK m \in T : u = n - m
  OBVIOUS
<1>4. ASSUME NEW k \in T PROVE k <= m
  <2>1. n - m <= n - k
    BY <1>2, <1>3
  <2> QED
    BY <2>1
<1> QED
  BY <1>4

----------------------------------------------------------------------------
(* Sequences *)

\* A sequence less its i-th element.
LEMMA RemoveAtType ==
  ASSUME NEW S, NEW s \in Seq(S), NEW i \in 1..Len(s)
  PROVE  RemoveAt(s, i) \in Seq(S) /\ Len(RemoveAt(s, i)) = Len(s) - 1
<1>1. Len(s) \in Nat
  BY LenProperties
<1>2. SubSeq(s, 1, i - 1) \in Seq(S) /\ Len(SubSeq(s, 1, i - 1)) = i - 1
  <2>1. 1 \in 1 .. Len(s) + 1 /\ i - 1 \in 0 .. Len(s) /\ 1 <= i - 1 + 1
    BY <1>1
  <2>2. \A k \in 1 .. i - 1 : s[k] \in S
    BY <1>1, ElementOfSeq
  <2> QED
    BY <1>1, <2>1, <2>2, SubSeqProperties
<1>3. SubSeq(s, i + 1, Len(s)) \in Seq(S) /\ Len(SubSeq(s, i + 1, Len(s))) = Len(s) - i
  <2>1. \A k \in i + 1 .. Len(s) : s[k] \in S
    BY <1>1, ElementOfSeq
  <2> QED
    BY <1>1, <2>1, SubSeqProperties
<1> DEFINE low == SubSeq(s, 1, i - 1)
           high == SubSeq(s, i + 1, Len(s))
<1>4. RemoveAt(s, i) = low \o high
  BY DEF RemoveAt
<1> HIDE DEF low, high
<1>5. low \in Seq(S) /\ high \in Seq(S) /\ Len(low) = i - 1 /\ Len(high) = Len(s) - i
  BY <1>2, <1>3 DEF low, high
<1>6. low \o high \in Seq(S) /\ Len(low \o high) = Len(low) + Len(high)
  BY <1>5, ConcatProperties
<1> QED
  BY <1>1, <1>4, <1>5, <1>6

\* The sequences of a sequence, one after the other.  The function that flattens them
\* exists: were there a first length up to which it could not be defined, one more step
\* would define it.
LEMMA FlattenSeqType ==
  ASSUME NEW S, NEW seqs \in Seq(Seq(S))
  PROVE  FlattenSeq(seqs) \in Seq(S)
<1> DEFINE n == Len(seqs)
           Step(f, i) == IF i = 1 THEN seqs[i] ELSE f[i-1] \o seqs[i]
           Flattens(f, k) == f = [i \in 1..k |-> Step(f, i)]
           flatten == CHOOSE f : Flattens(f, n)
<1>1. n \in Nat /\ \A i \in 1..n : seqs[i] \in Seq(S)
  BY LenProperties, ElementOfSeq
<1>2. CASE n = 0
  <2>1. seqs = <<>>
    BY <1>2, EmptySeq
  <2> QED
    BY <1>2, <2>1, EmptySeq DEF FlattenSeq
<1>3. CASE n # 0
  <2>1. FlattenSeq(seqs) = flatten[n]
    BY <1>3 DEF FlattenSeq
  <2>2. \A k \in 0..n : \E f : Flattens(f, k)
    <3> DEFINE T == {k \in 0..n : ~\E f : Flattens(f, k)}
    <3>1. SUFFICES ASSUME T # {} PROVE FALSE
      OBVIOUS
    <3> HIDE DEF Flattens
    <3>6. T \subseteq Nat
      OBVIOUS
    <3>2. PICK k \in T : \A j \in T : k <= j
      <4> HIDE DEF T
      <4> QED
        BY <3>1, <3>6, LeastNatural
    <3>3. CASE k = 0
      <4>1. Flattens(<<>>, 0)
        BY DEF Flattens
      <4> QED
        BY <3>2, <3>3, <4>1
    <3>4. CASE k # 0
      <4>1. k - 1 \in 0..n /\ ~(k <= k - 1) /\ k \in 1..n
        BY <1>1, <3>2, <3>4
      <4>2. PICK f : Flattens(f, k - 1)
        BY <3>2, <4>1
      <4> DEFINE g == [i \in 1..k |-> Step(f, i)]
      <4>3. \A i \in 1..k : Step(g, i) = Step(f, i)
        <5>1. ASSUME NEW i \in 1..k, i # 1 PROVE g[i - 1] = f[i - 1]
          <6>1. i - 1 \in 1..k-1 /\ i - 1 \in 1..k
            BY <4>1, <5>1
          <6> HIDE DEF Step
          <6>2. f[i - 1] = Step(f, i - 1)
            BY <4>2, <6>1 DEF Flattens
          <6> QED
            BY <6>1, <6>2
        <5> HIDE DEF g
        <5> QED
          BY <5>1
      <4> HIDE DEF Step
      <4>4. g = [i \in 1..k |-> Step(g, i)]
        BY <4>3
      <4> HIDE DEF g
      <4>5. Flattens(g, k)
        BY <4>4 DEF Flattens
      <4> QED
        BY <3>2, <4>5
    <3> QED
      BY <3>3, <3>4
  <2>3. Flattens(flatten, n)
    <3> HIDE DEF Flattens
    <3> QED
      BY <1>1, <2>2
  <2> HIDE DEF flatten
  <2>4. \A i \in 1..n : flatten[i] \in Seq(S)
    <3> DEFINE T == {k \in 1..n : flatten[k] \notin Seq(S)}
    <3>1. SUFFICES ASSUME T # {} PROVE FALSE
      OBVIOUS
    <3>6. T \subseteq Nat
      OBVIOUS
    <3>2. PICK k \in T : \A j \in T : k <= j
      <4> HIDE DEF T
      <4> QED
        BY <3>1, <3>6, LeastNatural
    <3>3. flatten[k] = Step(flatten, k)
      BY <2>3, <3>2
    <3>4. CASE k = 1
      BY <1>1, <3>2, <3>3, <3>4
    <3>5. CASE k # 1
      <4>1. k - 1 \in 1..n /\ k - 1 \notin T
        BY <1>1, <3>2, <3>5
      <4>2. flatten[k - 1] \in Seq(S) /\ seqs[k] \in Seq(S)
        BY <1>1, <3>2, <4>1
      <4>3. flatten[k] = flatten[k - 1] \o seqs[k]
        BY <3>3, <3>5
      <4> QED
        BY <3>2, <4>2, <4>3, ConcatProperties
    <3> QED
      BY <3>4, <3>5
  <2> QED
    BY <1>1, <1>3, <2>1, <2>4
<1> QED
  BY <1>2, <1>3

----------------------------------------------------------------------------
(* The folder *)

\* s lists S in order.
Sorts(s, S) ==
  s \in [1..Cardinality(S) -> S] /\ \A i, j \in DOMAIN s : i < j => s[i] < s[j]

\* The images of a folder have an order: a smallest folder without one would have one
\* once its last image is put aside.
LEMMA Sortable ==
  ASSUME NEW S \in SUBSET Image
  PROVE  \E s : Sorts(s, S)
<1> DEFINE T == {n \in Nat : \E R \in SUBSET Image : Cardinality(R) = n /\ ~\E s : Sorts(s, R)}
<1>1. \A R \in SUBSET Image : IsFiniteSet(R) /\ Cardinality(R) \in Nat /\ R \subseteq Nat
  <2>1. \A R \in SUBSET Image : IsFiniteSet(R) /\ R \subseteq Nat
    BY WallpaperAssumption, FS_Subset
  <2> QED
    BY <2>1, FS_CardinalityType
<1>2. SUFFICES ASSUME T # {} PROVE FALSE
  BY <1>1
<1>3. PICK n \in T : \A m \in T : n <= m
  BY <1>2, LeastNatural
<1>4. PICK R \in SUBSET Image : Cardinality(R) = n /\ ~\E s : Sorts(s, R)
  BY <1>3
<1>5. CASE n = 0
  <2>1. Sorts(<<>>, R)
    BY <1>4, <1>5 DEF Sorts
  <2> QED
    BY <1>4, <2>1
<1>6. CASE n # 0
  <2>1. R # {} /\ IsFiniteSet(R) /\ R \subseteq Nat
    BY <1>1, <1>4, <1>6, FS_EmptySet
  <2>2. PICK first \in R : \A p \in R : first <= p
    BY <2>1, LeastNatural
  <2> DEFINE Q == R \ {first}
  <2>3. Q \in SUBSET Image /\ Cardinality(Q) = n - 1
    <3>1. Cardinality(Q) = Cardinality(R) - 1
      BY <2>1, <2>2, FS_RemoveElement
    <3> QED
      BY <1>4, <3>1
  <2>4. n - 1 \in Nat /\ n - 1 \notin T
    BY <1>3, <1>6
  <2>5. PICK s : Sorts(s, Q)
    BY <2>3, <2>4
  <2> DEFINE t == [i \in 1..n |-> IF i = 1 THEN first ELSE s[i - 1]]
  <2>6. /\ \A i \in 1..n-1 : s[i] \in Q
        /\ \A i, j \in 1..n-1 : i < j => s[i] < s[j]
    BY <2>3, <2>5 DEF Sorts
  <2>7. \A q \in Q : first < q /\ q \in R
    BY <2>1, <2>2
  <2>8. \A i \in 1..n : i # 1 => i - 1 \in 1..n-1
    BY <2>4
  <2> HIDE DEF Q
  <2>9. \A i \in 1..n : t[i] \in R
    BY <2>2, <2>6, <2>7, <2>8
  <2>10. \A i, j \in 1..n : i < j => t[i] < t[j]
    <3> SUFFICES ASSUME NEW i \in 1..n, NEW j \in 1..n, i < j PROVE t[i] < t[j]
      OBVIOUS
    <3>1. j # 1 /\ j - 1 \in 1..n-1 /\ t[j] = s[j - 1]
      BY <2>4, <2>8
    <3>2. CASE i = 1
      BY <2>6, <2>7, <3>1, <3>2
    <3>3. CASE i # 1
      <4>1. i - 1 \in 1..n-1 /\ t[i] = s[i - 1] /\ i - 1 < j - 1
        BY <2>4, <2>8, <3>3
      <4> QED
        BY <2>6, <3>1, <4>1
    <3> QED
      BY <3>2, <3>3
  <2>11. t \in [1..n -> R]
    BY <2>9
  <2> HIDE DEF t
  <2>12. DOMAIN t = 1..n
    BY <2>11
  <2>13. Sorts(t, R)
    BY <1>4, <2>10, <2>11, <2>12 DEF Sorts
  <2> QED
    BY <1>4, <2>13
<1> QED
  BY <1>5, <1>6

\* scan_directory lists images, and one at least of a folder that has one.
LEMMA ScanType ==
  ASSUME NEW images \in SUBSET Image
  PROVE  /\ scan_directory(images) \in Seq(Image)
         /\ images # {} => Len(scan_directory(images)) > 0
<1> DEFINE s == scan_directory(images)
           n == Cardinality(images)
<1>1. IsFiniteSet(images) /\ n \in Nat /\ (images # {} => n > 0)
  <2>1. IsFiniteSet(images)
    BY WallpaperAssumption, FS_Subset
  <2>2. n \in Nat
    BY <2>1, FS_CardinalityType
  <2>3. images # {} => n # 0
    BY <2>1, FS_EmptySet
  <2> HIDE DEF n
  <2> QED
    BY <2>1, <2>2, <2>3
<1>2. Sorts(s, images)
  <2>1. PICK t : Sorts(t, images)
    BY Sortable
  <2> QED
    BY <2>1 DEF Sorts, scan_directory
<1> HIDE DEF s
<1>3. s \in [1..n -> images]
  BY <1>2 DEF Sorts
<1> HIDE DEF n
<1>4. s \in Seq(images) /\ Len(s) = n
  BY <1>1, <1>3
<1>5. s \in Seq(Image)
  BY <1>1, <1>3
<1> QED
  BY <1>1, <1>4, <1>5 DEF s

----------------------------------------------------------------------------
(* The manager *)

\* What may be decoded, with which settings.
Settings == UNION {[S -> Scale] : S \in SUBSET Image}
\* The bags of what the workers were asked for.
Sent == UNION {[S -> Nat] : S \in SUBSET Request}

\* IsManager of a record.
Manager ==
  [loaded : Settings, assignments : [Output -> Image \cup {Nothing}],
   default_path : Image \cup {Nothing}, scale : Scale, entries : Seq(Image), index : Nat,
   prefetch : [path : Image, scale : Scale] \cup {Nothing}, inflight : Image \cup {Nothing},
   decoding : Sent, palettes : SUBSET Image, theme_params : BOOLEAN,
   current_theme : Image \cup {Nothing}, theme_dirty : BOOLEAN]

\* IsManager of a record that shows an entry wherever it has any.
Proper(w) == w \in Manager /\ (w.entries # <<>> => w.index < Len(w.entries))

\* A prefetched image was decoded, and with the settings in force.
Fits(w) == w.prefetch # Nothing => w.prefetch.scale = w.scale /\ Decodes(w.prefetch.path)

\* CacheIsExact, of a manager.
Exact(w) == w.loaded = [p \in {q \in Referenced(w) : Decodes(q)} |-> w.scale]

\* The same is shown, prefetched and decoded, and a slideshow runs or does not.
SameShown(v, w) ==
  /\ v.loaded = w.loaded /\ v.scale = w.scale /\ v.default_path = w.default_path
  /\ v.assignments = w.assignments /\ v.prefetch = w.prefetch
  /\ (v.entries = <<>>) <=> (w.entries = <<>>)

\* So what fits, and what is exact, still is.
LEMMA SameShownKeeps ==
  ASSUME NEW v, NEW w, SameShown(v, w)
  PROVE  (Fits(w) => Fits(v)) /\ (Exact(w) => Exact(v))
BY DEF SameShown, Fits, Exact, Referenced

\* What was decoded: images, each with some settings.
LEMMA SettingsAre ==
  ASSUME NEW f \in Settings
  PROVE  /\ DOMAIN f \subseteq Image /\ f = [p \in DOMAIN f |-> f[p]]
         /\ \A p \in DOMAIN f : f[p] \in Scale
BY DEF Settings

\* The sets of records say no less than IsManager does.
LEMMA ProperIsManager ==
  ASSUME NEW w, Proper(w)
  PROVE  IsManager(w)
<1>1. DOMAIN w.loaded \subseteq Image /\ \A p \in DOMAIN w.loaded : w.loaded[p] \in Scale
  BY SettingsAre DEF Proper, Manager
<1>2. DOMAIN w.decoding \subseteq Request
  BY DEF Proper, Manager, Sent
<1> QED
  BY <1>1, <1>2 DEF Proper, Manager, IsManager

\* A remainder is an index.
LEMMA ModBound ==
  ASSUME NEW a \in Nat, NEW n \in Nat, n > 0
  PROVE  a % n \in Nat /\ a % n < n
OBVIOUS

\* The entries of a slideshow, by their number.
LEMMA EntriesAre ==
  ASSUME NEW w, Proper(w)
  PROVE  /\ Len(w.entries) \in Nat /\ DOMAIN w.entries = 1..Len(w.entries)
         /\ \A i \in 1..Len(w.entries) : w.entries[i] \in Image
         /\ (w.entries = <<>>) <=> (Len(w.entries) = 0)
<1>1. w.entries \in Seq(Image)
  BY DEF Proper, Manager
<1> QED
  BY <1>1, LenProperties, ElementOfSeq, EmptySeq

\* The image after the one shown is one of them.
LEMMA PeekNextType ==
  ASSUME NEW w, Proper(w), w.entries # <<>>
  PROVE  peek_next(w) \in Image
<1> DEFINE n == Len(w.entries)
           k == (w.index + 1) % n
<1>1. n \in Nat /\ n > 0 /\ w.index + 1 \in Nat
  BY EntriesAre DEF Proper, Manager
<1>2. peek_next(w) = w.entries[k + 1]
  BY DEF peek_next
<1> HIDE DEF n
<1>3. k \in Nat /\ k < n
  BY <1>1, ModBound
<1> HIDE DEF k
<1>4. k + 1 \in 1..n
  BY <1>1, <1>3
<1> QED
  BY <1>2, <1>4, EntriesAre DEF n

\* recompute_theme touches the theme alone.
LEMMA RecomputeThemeType ==
  ASSUME NEW w, Proper(w)
  PROVE  Proper(recompute_theme(w)) /\ SameShown(recompute_theme(w), w)
<1>1. CASE w.theme_params /\ w.default_path \in w.palettes
  <2>1. recompute_theme(w) = [w EXCEPT !.current_theme = w.default_path, !.theme_dirty = TRUE]
    BY <1>1 DEF recompute_theme
  <2> QED
    BY <2>1 DEF Proper, Manager, SameShown
<1>2. CASE ~(w.theme_params /\ w.default_path \in w.palettes)
  BY <1>2 DEF recompute_theme, SameShown
<1> QED
  BY <1>1, <1>2

\* So does set_theme_params.
LEMMA SetThemeParamsType ==
  ASSUME NEW w, Proper(w), NEW on \in BOOLEAN
  PROVE  Proper(set_theme_params(w, on)) /\ SameShown(set_theme_params(w, on), w)
<1> DEFINE v == [w EXCEPT !.theme_params = on]
<1>1. Proper(v) /\ SameShown(v, w)
  BY DEF Proper, Manager, SameShown
<1>2. set_theme_params(w, on) = recompute_theme(v)
  BY DEF set_theme_params
<1> HIDE DEF v
<1> QED
  BY <1>1, <1>2, RecomputeThemeType DEF SameShown

\* One request more, one result less.
LEMMA SentType ==
  ASSUME NEW d \in Sent, NEW r \in Request
  PROVE  d (+) SetToBag({r}) \in Sent /\ d (-) SetToBag({r}) \in Sent
<1>1. PICK S \in SUBSET Request : d \in [S -> Nat]
  BY DEF Sent
<1>2. d (+) SetToBag({r}) \in [S \cup {r} -> Nat]
  BY <1>1 DEF (+), SetToBag
<1>3. d (-) SetToBag({r}) \in Sent
  <2> DEFINE B == [e \in DOMAIN d |-> IF e \in DOMAIN SetToBag({r}) THEN d[e] - SetToBag({r})[e]
                                       ELSE d[e]]
             R == {e \in DOMAIN B : B[e] > 0}
  <2>1. d (-) SetToBag({r}) = [e \in R |-> B[e]]
    BY DEF (-)
  <2>2. \A e \in S : B[e] \in Int
    BY <1>1 DEF SetToBag
  <2>3. R \in SUBSET Request /\ \A e \in R : B[e] \in Nat
    BY <1>1, <2>2
  <2> HIDE DEF B, R
  <2>4. [e \in R |-> B[e]] \in [R -> Nat]
    BY <2>3
  <2> QED
    BY <2>1, <2>3, <2>4 DEF Sent
<1> QED
  BY <1>1, <1>2, <1>3 DEF Sent

\* prime_prefetch asks for an image, and touches nothing that is there.
LEMMA PrimePrefetchType ==
  ASSUME NEW w, Proper(w)
  PROVE  Proper(prime_prefetch(w)) /\ SameShown(prime_prefetch(w), w)
<1> DEFINE r == [path |-> peek_next(w), scale |-> w.scale, theme |-> w.theme_params]
           v == [w EXCEPT !.inflight = peek_next(w), !.decoding = @ (+) SetToBag({r})]
<1>1. prime_prefetch(w) = w \/ (~(Len(w.entries) < 2) /\ prime_prefetch(w) = v)
  BY DEF prime_prefetch
<1>2. CASE prime_prefetch(w) = w
  BY <1>2 DEF SameShown
<1>3. CASE ~(Len(w.entries) < 2) /\ prime_prefetch(w) = v
  <2>1. w.entries # <<>>
    BY <1>3, EntriesAre
  <2>2. peek_next(w) \in Image
    BY <2>1, PeekNextType
  <2>3. r \in Request
    BY <2>2 DEF Proper, Manager, Request
  <2>4. w.decoding (+) SetToBag({r}) \in Sent
    BY <2>3, SentType DEF Proper, Manager
  <2> HIDE DEF r
  <2>5. Proper(v) /\ SameShown(v, w)
    BY <2>2, <2>4 DEF Proper, Manager, SameShown
  <2> QED
    BY <1>3, <2>5
<1> QED
  BY <1>1, <1>2, <1>3

\* The entry that would not decode is taken out; one is left.
LEMMA SkipUnreadableType ==
  ASSUME NEW w, Proper(w), NEW p
  PROVE  Proper(skip_unreadable(w, p)) /\ SameShown(skip_unreadable(w, p), w)
<1>1. CASE Len(w.entries) < 2
  BY <1>1 DEF skip_unreadable, SameShown
<1>2. CASE ~(Len(w.entries) < 2) /\ \A i \in DOMAIN w.entries : w.entries[i] # p
  BY <1>2, PrimePrefetchType DEF skip_unreadable
<1>3. CASE ~(Len(w.entries) < 2) /\ \E i \in DOMAIN w.entries : w.entries[i] = p
  <2> DEFINE n == Len(w.entries)
             at == CHOOSE i \in DOMAIN w.entries : w.entries[i] = p
             position == at - 1
             rest == RemoveAt(w.entries, position + 1)
             index == IF position <= w.index /\ w.index > 0 THEN w.index - 1 ELSE w.index
             v == [w EXCEPT !.entries = rest, !.index = index % Len(rest)]
  <2>1. skip_unreadable(w, p) = prime_prefetch(v)
    BY <1>3 DEF skip_unreadable
  <2>2. n \in Nat /\ n >= 2 /\ DOMAIN w.entries = 1..n /\ w.entries \in Seq(Image) /\ w.index \in Nat
    BY <1>3, EntriesAre DEF Proper, Manager
  <2>3. at \in 1..n
    BY <1>3, <2>2
  <2> HIDE DEF n, at
  <2>4. position + 1 = at
    BY <2>2, <2>3
  <2>5. rest \in Seq(Image) /\ Len(rest) = n - 1
    BY <2>2, <2>3, <2>4, RemoveAtType DEF n
  <2>6. index \in Nat
    BY <2>2, <2>3
  <2> HIDE DEF rest, index
  <2>7. index % Len(rest) \in Nat /\ index % Len(rest) < Len(rest)
    BY <2>2, <2>5, <2>6, ModBound
  <2>8. rest # <<>> /\ w.entries # <<>>
    BY <2>2, <2>5, EmptySeq DEF n
  <2>9. Proper(v) /\ SameShown(v, w)
    BY <2>5, <2>7, <2>8 DEF Proper, Manager, SameShown
  <2> HIDE DEF v
  <2> QED
    BY <2>1, <2>9, PrimePrefetchType DEF SameShown
<1> QED
  BY <1>1, <1>2, <1>3

\* What a worker sends leaves what is shown, and is kept where it fits.
LEMMA DeliveredType ==
  ASSUME NEW w, Proper(w), Fits(w), NEW r \in Request
  PROVE  /\ Proper(Delivered(w, r)) /\ Fits(Delivered(w, r))
         /\ Delivered(w, r).scale = w.scale
         /\ (Delivered(w, r).entries = <<>>) <=> (w.entries = <<>>)
         /\ Exact(w) => Exact(Delivered(w, r))
<1> DEFINE d == [w EXCEPT !.decoding = @ (-) SetToBag({r}),
                          !.inflight = IF @ = r.path THEN Nothing ELSE @]
           u == [d EXCEPT !.prefetch = [path |-> r.path, scale |-> r.scale],
                          !.palettes = IF r.theme THEN @ \cup {r.path} ELSE @]
<1>1. w.decoding (-) SetToBag({r}) \in Sent
  BY SentType DEF Proper, Manager
<1>2. Proper(d) /\ SameShown(d, w)
  BY <1>1 DEF Proper, Manager, SameShown
<1>3. Delivered(w, r) = IF r.scale # d.scale THEN prime_prefetch(d)
                        ELSE IF Decodes(r.path) THEN u ELSE skip_unreadable(d, r.path)
  BY DEF Delivered
<1>4. r.path \in Image /\ r.scale \in Scale
  BY DEF Request
<1> HIDE DEF d
<1>5. CASE r.scale # d.scale \/ ~Decodes(r.path)
  <2>1. Proper(Delivered(w, r)) /\ SameShown(Delivered(w, r), d)
    BY <1>2, <1>3, <1>5, PrimePrefetchType, SkipUnreadableType
  <2>2. SameShown(Delivered(w, r), w)
    BY <1>2, <2>1 DEF SameShown
  <2> QED
    BY <2>1, <2>2, SameShownKeeps DEF SameShown
<1>6. CASE r.scale = d.scale /\ Decodes(r.path)
  <2>1. Delivered(w, r) = u
    BY <1>3, <1>6
  <2>2. /\ Proper(u) /\ u.prefetch = [path |-> r.path, scale |-> r.scale] /\ u.scale = d.scale
        /\ u.loaded = d.loaded /\ u.assignments = d.assignments
        /\ u.default_path = d.default_path /\ u.entries = d.entries
    BY <1>2, <1>4 DEF Proper, Manager
  <2> HIDE DEF u
  <2>3. Fits(u)
    BY <1>6, <2>2 DEF Fits
  <2>4. Exact(w) => Exact(u)
    BY <1>2, <2>2 DEF Exact, Referenced, SameShown
  <2> QED
    BY <1>2, <2>1, <2>2, <2>3, <2>4 DEF SameShown
<1> QED
  BY <1>5, <1>6

\* What is referenced are images.
LEMMA ReferencedType ==
  ASSUME NEW w, Proper(w)
  PROVE  Referenced(w) \subseteq Image
BY DEF Referenced, Proper, Manager

\* Dropping what nothing refers to makes a cache exact that has what is referred to,
\* in the settings in force.
LEMMA EvictUnreferencedType ==
  ASSUME NEW w, Proper(w)
  PROVE  LET v == evict_unreferenced(w)
         IN  /\ Proper(v)
             /\ v.scale = w.scale /\ v.default_path = w.default_path
             /\ v.assignments = w.assignments /\ v.prefetch = w.prefetch /\ v.entries = w.entries
             /\ (/\ \A p \in Referenced(w) : p \in DOMAIN w.loaded <=> Decodes(p)
                 /\ \A p \in Referenced(w) \cap DOMAIN w.loaded : w.loaded[p] = w.scale)
                => Exact(v)
<1> DEFINE kept == Keep(w.loaded, Referenced(w))
           v == [w EXCEPT !.loaded = kept, !.palettes = @ \cap DOMAIN kept]
<1>1. evict_unreferenced(w) = v
  BY DEF evict_unreferenced
<1>2. kept = [p \in DOMAIN w.loaded \cap Referenced(w) |-> w.loaded[p]]
  BY DEF Keep
<1>3. kept \in Settings
  <2> DEFINE S == DOMAIN w.loaded \cap Referenced(w)
  <2>1. S \in SUBSET Image /\ \A p \in S : w.loaded[p] \in Scale
    BY ReferencedType, SettingsAre DEF Proper, Manager
  <2>2. kept \in [S -> Scale]
    BY <1>2, <2>1
  <2> QED
    BY <2>1, <2>2 DEF Settings
<1> HIDE DEF kept
<1>4. /\ Proper(v) /\ v.loaded = kept /\ v.scale = w.scale /\ v.default_path = w.default_path
      /\ v.assignments = w.assignments /\ v.prefetch = w.prefetch /\ v.entries = w.entries
  BY <1>3 DEF Proper, Manager
<1> HIDE DEF v
<1>5. Referenced(v) = Referenced(w)
  BY <1>4 DEF Referenced
<1>6. ASSUME \A p \in Referenced(w) : p \in DOMAIN w.loaded <=> Decodes(p),
             \A p \in Referenced(w) \cap DOMAIN w.loaded : w.loaded[p] = w.scale
      PROVE  Exact(v)
  <2>1. DOMAIN w.loaded \cap Referenced(w) = {q \in Referenced(w) : Decodes(q)}
    BY <1>6
  <2>2. kept = [p \in {q \in Referenced(w) : Decodes(q)} |-> w.scale]
    BY <1>2, <1>6, <2>1
  <2> QED
    BY <1>4, <1>5, <2>2 DEF Exact
<1> QED
  BY <1>1, <1>4, <1>6

\* The swap: the prefetched image takes the place of the one that is shown.
LEMMA AdvanceSlideshowType ==
  ASSUME NEW w, Proper(w), Fits(w)
  PROVE  /\ Proper(AdvanceSlideshow(w)) /\ Fits(AdvanceSlideshow(w))
         /\ AdvanceSlideshow(w).scale = w.scale
         /\ Exact(w) => Exact(AdvanceSlideshow(w))
<1>1. CASE w.entries = <<>>
  BY <1>1 DEF AdvanceSlideshow
<1>2. CASE w.entries # <<>> /\ ~SwapReady(w)
  <2> DEFINE v == [w EXCEPT !.prefetch = Nothing]
  <2>1. AdvanceSlideshow(w) = prime_prefetch(v)
    BY <1>2 DEF AdvanceSlideshow
  <2>2. /\ Proper(v) /\ v.prefetch = Nothing /\ v.loaded = w.loaded /\ v.scale = w.scale
        /\ v.default_path = w.default_path /\ v.assignments = w.assignments
    BY DEF Proper, Manager
  <2> HIDE DEF v
  <2>3. Fits(v) /\ (Exact(w) => Exact(v))
    BY <2>2 DEF Fits, Exact, Referenced
  <2> QED
    BY <2>1, <2>2, <2>3, PrimePrefetchType, SameShownKeeps DEF SameShown
<1>3. CASE w.entries # <<>> /\ SwapReady(w)
  <2> DEFINE next == w.prefetch
             loaded == [p \in DOMAIN w.loaded \cup {next.path} |->
                          IF p = next.path THEN next.scale ELSE w.loaded[p]]
             v == [w EXCEPT !.prefetch = Nothing, !.index = (@ + 1) % Len(w.entries),
                            !.loaded = loaded, !.default_path = next.path]
             e == evict_unreferenced(v)
  <2>1. AdvanceSlideshow(w) = recompute_theme(prime_prefetch(e))
    BY <1>3 DEF AdvanceSlideshow
  <2>2. /\ next \in [path : Image, scale : Scale]
        /\ next.scale = w.scale /\ Decodes(next.path)
    BY <1>3 DEF SwapReady, Proper, Manager, Fits
  <2>3. next.path \in Image /\ next.scale \in Scale
    BY <2>2
  <2> HIDE DEF next
  <2>4. loaded \in Settings
    <3> DEFINE S == DOMAIN w.loaded \cup {next.path}
    <3>1. S \in SUBSET Image /\ \A p \in DOMAIN w.loaded : w.loaded[p] \in Scale
      BY <2>3, SettingsAre DEF Proper, Manager
    <3>2. loaded \in [S -> Scale]
      BY <2>3, <3>1
    <3> QED
      BY <3>1, <3>2 DEF Settings
  <2>5. DOMAIN loaded = DOMAIN w.loaded \cup {next.path}
        /\ \A p \in DOMAIN loaded : loaded[p] = IF p = next.path THEN next.scale ELSE w.loaded[p]
    OBVIOUS
  <2> HIDE DEF loaded
  <2>6. (w.index + 1) % Len(w.entries) \in Nat /\ (w.index + 1) % Len(w.entries) < Len(w.entries)
    <3>1. Len(w.entries) \in Nat /\ Len(w.entries) > 0 /\ w.index + 1 \in Nat
      BY <1>3, EntriesAre DEF Proper, Manager
    <3> QED
      BY <3>1, ModBound
  <2>7. /\ Proper(v) /\ v.prefetch = Nothing /\ v.loaded = loaded /\ v.scale = w.scale
        /\ v.default_path = next.path /\ v.assignments = w.assignments
    BY <2>3, <2>4, <2>6 DEF Proper, Manager
  <2> HIDE DEF v
  <2>8. /\ Proper(e) /\ e.prefetch = Nothing /\ e.scale = w.scale
        /\ (/\ \A p \in Referenced(v) : p \in DOMAIN v.loaded <=> Decodes(p)
            /\ \A p \in Referenced(v) \cap DOMAIN v.loaded : v.loaded[p] = v.scale)
           => Exact(e)
    BY <2>7, EvictUnreferencedType
  <2>9. Exact(w) => Exact(e)
    <3> SUFFICES ASSUME Exact(w) PROVE Exact(e)
      OBVIOUS
    <3>1. Referenced(v) \subseteq Referenced(w) \cup {next.path}
      BY <2>7 DEF Referenced
    <3>2. /\ DOMAIN w.loaded = {q \in Referenced(w) : Decodes(q)}
          /\ \A p \in DOMAIN w.loaded : w.loaded[p] = w.scale
      BY DEF Exact
    <3>3. \A p \in Referenced(v) : p \in DOMAIN v.loaded <=> Decodes(p)
      BY <2>2, <2>5, <2>7, <3>1, <3>2
    <3>4. \A p \in Referenced(v) \cap DOMAIN v.loaded : v.loaded[p] = v.scale
      BY <2>2, <2>5, <2>7, <3>1, <3>2
    <3> QED
      BY <2>8, <3>3, <3>4
  <2> HIDE DEF e
  <2>10. Fits(e)
    BY <2>8 DEF Fits
  <2>11. Proper(prime_prefetch(e)) /\ SameShown(prime_prefetch(e), e)
    BY <2>8, PrimePrefetchType
  <2>12. /\ Proper(recompute_theme(prime_prefetch(e)))
         /\ SameShown(recompute_theme(prime_prefetch(e)), e)
    BY <2>11, RecomputeThemeType DEF SameShown
  <2> QED
    BY <2>1, <2>8, <2>9, <2>10, <2>12, SameShownKeeps DEF SameShown
<1> QED
  BY <1>1, <1>2, <1>3

\* What could be loaded is, in the settings in force; what was there stays.
LEMMA LoadedType ==
  ASSUME NEW w, Proper(w), NEW P \in SUBSET Image
  PROVE  LET l == Loaded(w, P)
         IN  /\ Proper(l)
             /\ l.scale = w.scale /\ l.default_path = w.default_path
             /\ l.assignments = w.assignments /\ l.prefetch = w.prefetch /\ l.entries = w.entries
             /\ DOMAIN l.loaded = DOMAIN w.loaded \cup {p \in P : Decodes(p)}
             /\ \A p \in DOMAIN l.loaded :
                  l.loaded[p] = IF p \in DOMAIN w.loaded THEN w.loaded[p] ELSE w.scale
<1> DEFINE new == {p \in P \ DOMAIN w.loaded : Decodes(p)}
           loaded == [p \in DOMAIN w.loaded \cup new |-> IF p \in new THEN w.scale ELSE w.loaded[p]]
           l == [w EXCEPT !.loaded = loaded, !.palettes = IF w.theme_params THEN @ \cup new ELSE @]
<1>1. Loaded(w, P) = l
  BY DEF Loaded
<1>2. loaded \in Settings
  <2> DEFINE S == DOMAIN w.loaded \cup new
  <2>1. S \in SUBSET Image /\ (\A p \in DOMAIN w.loaded : w.loaded[p] \in Scale) /\ w.scale \in Scale
    BY SettingsAre DEF Proper, Manager
  <2>2. loaded \in [S -> Scale]
    BY <2>1
  <2> HIDE DEF S, loaded
  <2> QED
    BY <2>1, <2>2 DEF Settings
<1>3. /\ DOMAIN loaded = DOMAIN w.loaded \cup {p \in P : Decodes(p)}
      /\ \A p \in DOMAIN loaded :
           loaded[p] = IF p \in DOMAIN w.loaded THEN w.loaded[p] ELSE w.scale
  OBVIOUS
<1>4. new \subseteq Image
  OBVIOUS
<1> HIDE DEF loaded, new
<1>5. /\ Proper(l) /\ l.loaded = loaded /\ l.scale = w.scale /\ l.default_path = w.default_path
      /\ l.assignments = w.assignments /\ l.prefetch = w.prefetch /\ l.entries = w.entries
  BY <1>2, <1>4 DEF Proper, Manager
<1> HIDE DEF l
<1> QED
  BY <1>1, <1>3, <1>5

\* A wallpaper set over the socket: only the image set and those shown before can be
\* shown now, and both are there.
LEMMA SetWallpaperType ==
  ASSUME NEW w, Proper(w), Fits(w), NEW o \in Output \cup {Nothing}, NEW p \in Image
  PROVE  /\ Proper(SetWallpaper(w, o, p)) /\ Fits(SetWallpaper(w, o, p))
         /\ SetWallpaper(w, o, p).entries = w.entries /\ SetWallpaper(w, o, p).scale = w.scale
         /\ Exact(w) => Exact(SetWallpaper(w, o, p))
<1> DEFINE l == Loaded(w, {p})
           a == IF o = Nothing
                THEN [l EXCEPT !.assignments = [x \in Output |-> Nothing], !.default_path = p]
                ELSE [l EXCEPT !.assignments[o] = p]
           e == evict_unreferenced(a)
<1>1. SetWallpaper(w, o, p) = IF p \in DOMAIN l.loaded THEN recompute_theme(e) ELSE w
  BY DEF SetWallpaper
<1>2. /\ Proper(l)
      /\ l.scale = w.scale /\ l.default_path = w.default_path
      /\ l.assignments = w.assignments /\ l.prefetch = w.prefetch /\ l.entries = w.entries
      /\ DOMAIN l.loaded = DOMAIN w.loaded \cup {q \in {p} : Decodes(q)}
      /\ \A q \in DOMAIN l.loaded :
           l.loaded[q] = IF q \in DOMAIN w.loaded THEN w.loaded[q] ELSE w.scale
  BY LoadedType
<1> HIDE DEF l
<1>3. /\ Proper(a) /\ a.loaded = l.loaded /\ a.scale = l.scale /\ a.prefetch = l.prefetch
      /\ a.entries = l.entries
  BY <1>2 DEF Proper, Manager
<1>4. Referenced(a) \subseteq Referenced(w) \cup {p}
  <2>1. a.default_path \in {w.default_path, p}
    BY <1>2
  <2>2. \A x \in Output : a.assignments[x] \in {w.assignments[x], p, Nothing}
    BY <1>2 DEF Proper, Manager
  <2> HIDE DEF a
  <2> QED
    BY <2>1, <2>2 DEF Referenced
<1> HIDE DEF a
<1>5. CASE p \notin DOMAIN l.loaded
  BY <1>1, <1>5
<1>6. CASE p \in DOMAIN l.loaded
  <2>1. /\ Proper(e) /\ e.scale = w.scale /\ e.prefetch = w.prefetch /\ e.entries = w.entries
        /\ (/\ \A q \in Referenced(a) : q \in DOMAIN a.loaded <=> Decodes(q)
            /\ \A q \in Referenced(a) \cap DOMAIN a.loaded : a.loaded[q] = a.scale)
           => Exact(e)
    BY <1>2, <1>3, EvictUnreferencedType
  <2>2. Exact(w) => Exact(e)
    <3> SUFFICES ASSUME Exact(w) PROVE Exact(e)
      OBVIOUS
    <3>1. /\ DOMAIN w.loaded = {q \in Referenced(w) : Decodes(q)}
          /\ \A q \in DOMAIN w.loaded : w.loaded[q] = w.scale
      BY DEF Exact
    <3>2. Decodes(p)
      BY <1>2, <1>6, <3>1
    <3>3. \A q \in Referenced(a) : q \in DOMAIN a.loaded <=> Decodes(q)
      BY <1>2, <1>3, <1>4, <1>6, <3>1, <3>2
    <3>4. \A q \in Referenced(a) \cap DOMAIN a.loaded : a.loaded[q] = a.scale
      BY <1>2, <1>3, <3>1
    <3> QED
      BY <2>1, <3>3, <3>4
  <2> HIDE DEF e
  <2>3. Fits(e)
    BY <2>1 DEF Fits
  <2>4. Proper(recompute_theme(e)) /\ SameShown(recompute_theme(e), e) /\ recompute_theme(e).entries = e.entries
    <3>1. Proper(recompute_theme(e)) /\ SameShown(recompute_theme(e), e)
      BY <2>1, RecomputeThemeType
    <3>2. recompute_theme(e).entries = e.entries
      BY <2>1 DEF recompute_theme, Proper, Manager
    <3> QED
      BY <3>1, <3>2
  <2> QED
    BY <1>1, <1>6, <2>1, <2>2, <2>3, <2>4, SameShownKeeps DEF SameShown
<1> QED
  BY <1>5, <1>6

----------------------------------------------------------------------------
(* What a config asks for *)

\* What is decoded at all decodes, and was with the settings in force.
Clean(w) == \A p \in DOMAIN w.loaded : Decodes(p) /\ w.loaded[p] = w.scale

\* The last table that names an image for an output exists where there is one.
LEMMA AssignedType ==
  ASSUME NEW c \in Config
  PROVE  /\ Assigned(c) \in [Output -> Image \cup {Nothing}]
         /\ OneTable(c) => \A i \in DOMAIN c.output :
              c.output[i].wallpaper # Nothing => Assigned(c)[c.output[i].name] = c.output[i].wallpaper
<1> DEFINE n == Len(c.output)
           T(o) == {i \in DOMAIN c.output : c.output[i].name = o /\ c.output[i].wallpaper # Nothing}
           last(o) == CHOOSE i \in T(o) : \A j \in T(o) : j <= i
<1>1. c.output \in Seq([name : Output, wallpaper : Image \cup {Nothing}])
  BY DEF Config
<1>2. n \in Nat /\ DOMAIN c.output = 1..n
  BY <1>1, LenProperties
<1>3. \A i \in DOMAIN c.output : c.output[i] \in [name : Output, wallpaper : Image \cup {Nothing}]
  BY <1>1, <1>2, ElementOfSeq
<1>4. Assigned(c) = [o \in Output |-> IF T(o) = {} THEN Nothing ELSE c.output[last(o)].wallpaper]
  BY DEF Assigned
<1>5. ASSUME NEW o, T(o) # {} PROVE last(o) \in T(o)
  <2>1. T(o) \subseteq 0..n
    BY <1>2
  <2> HIDE DEF T
  <2>2. \E i \in T(o) : \A j \in T(o) : j <= i
    BY <1>2, <1>5, <2>1, GreatestNatural
  <2> QED
    BY <2>2
<1>6. Assigned(c) \in [Output -> Image \cup {Nothing}]
  <2>1. ASSUME NEW o \in Output, T(o) # {} PROVE c.output[last(o)].wallpaper \in Image \cup {Nothing}
    <3>1. last(o) \in DOMAIN c.output
      BY <1>5, <2>1
    <3> HIDE DEF last
    <3> QED
      BY <1>3, <3>1
  <2> HIDE DEF T, last
  <2> QED
    BY <1>4, <2>1
<1>7. ASSUME OneTable(c), NEW i \in DOMAIN c.output, c.output[i].wallpaper # Nothing
      PROVE  Assigned(c)[c.output[i].name] = c.output[i].wallpaper
  <2> DEFINE o == c.output[i].name
  <2>1. o \in Output /\ i \in T(o)
    BY <1>3, <1>7
  <2>2. last(o) \in T(o)
    BY <1>5, <2>1
  <2>3. last(o) = i
    <3> HIDE DEF last
    <3> QED
      BY <1>7, <2>1, <2>2 DEF OneTable
  <2>4. T(o) # {}
    BY <2>1
  <2> HIDE DEF T, last, o
  <2>5. Assigned(c)[o] = c.output[last(o)].wallpaper
    BY <1>4, <2>1, <2>4
  <2> QED
    BY <2>3, <2>5 DEF o
<1> QED
  BY <1>6, <1>7

\* What resolve points at is of its kind, and what it keeps is clean.
LEMMA PointedType ==
  ASSUME NEW w, Proper(w), NEW c \in Config, NEW images \in SUBSET Image
  PROVE  LET v == Pointed(w, c, images)
         IN  /\ Proper(v) /\ v.scale = c.scale /\ v.prefetch = Nothing
             /\ v.assignments = Assigned(c)
             /\ Clean(w) => Clean(v)
<1> DEFINE entries == IF c.path = Folder /\ images # {} THEN scan_directory(images) ELSE <<>>
           found == {i \in DOMAIN entries : w.entries # <<>> /\ entries[i] = Showing(w)}
           index == IF found = {} THEN 0 ELSE (CHOOSE i \in found : TRUE) - 1
           loaded == IF c.scale # w.scale THEN <<>> ELSE w.loaded
           path == IF c.path # Folder THEN c.path
                   ELSE IF entries = <<>> THEN w.default_path ELSE entries[index + 1]
           v == [w EXCEPT !.loaded = loaded,
                          !.scale = c.scale, !.prefetch = Nothing,
                          !.entries = entries, !.index = index, !.assignments = Assigned(c),
                          !.default_path = path]
<1>1. Pointed(w, c, images) = v
  BY DEF Pointed
<1>2. c.scale \in Scale /\ c.path \in Image \cup {Folder, Nothing}
  BY DEF Config
<1>3. entries \in Seq(Image)
  BY ScanType
<1>4. /\ Len(entries) \in Nat /\ DOMAIN entries = 1..Len(entries)
      /\ \A i \in 1..Len(entries) : entries[i] \in Image
      /\ entries # <<>> => Len(entries) > 0
  <2> HIDE DEF entries
  <2> QED
    BY <1>3, LenProperties, ElementOfSeq, EmptySeq
<1> HIDE DEF entries
<1>5. index \in Nat /\ (entries # <<>> => index < Len(entries))
  <2>1. found # {} => (CHOOSE i \in found : TRUE) \in 1..Len(entries)
    BY <1>4
  <2> HIDE DEF found
  <2> QED
    BY <1>4, <2>1
<1> HIDE DEF index
<1>6. path \in Image \cup {Nothing}
  <2>1. entries # <<>> => index + 1 \in 1..Len(entries)
    BY <1>4, <1>5
  <2>2. entries # <<>> => entries[index + 1] \in Image
    BY <1>4, <2>1
  <2> QED
    BY <1>2, <2>2 DEF Proper, Manager
<1>7. loaded \in Settings /\ (Clean(w) => \A p \in DOMAIN loaded : Decodes(p) /\ loaded[p] = c.scale)
  <2>1. CASE c.scale = w.scale
    BY <2>1 DEF Proper, Manager, Clean
  <2>2. CASE c.scale # w.scale
    <3>1. DOMAIN loaded = {} /\ loaded = <<>>
      BY <2>2
    <3>2. <<>> \in [{} -> Scale]
      OBVIOUS
    <3> QED
      BY <3>1, <3>2 DEF Settings
  <2> QED
    BY <2>1, <2>2
<1> HIDE DEF path, loaded
<1>8. Assigned(c) \in [Output -> Image \cup {Nothing}]
  BY AssignedType
<1>9. /\ Proper(v) /\ v.loaded = loaded /\ v.scale = c.scale /\ v.prefetch = Nothing
      /\ v.assignments = Assigned(c)
  BY <1>2, <1>3, <1>5, <1>6, <1>7, <1>8 DEF Proper, Manager
<1> HIDE DEF v
<1> QED
  BY <1>1, <1>7, <1>9 DEF Clean

\* What is wanted are images; where no two tables name one for the same output, they
\* are those that are shown.
LEMMA WantedType ==
  ASSUME NEW v, Proper(v), NEW c \in Config, v.assignments = Assigned(c)
  PROVE  /\ Wanted(v, c) \in SUBSET Image
         /\ OneTable(c) => Wanted(v, c) = Referenced(v)
<1>1. /\ DOMAIN c.output \subseteq Nat
      /\ \A i \in DOMAIN c.output :
           c.output[i].name \in Output /\ c.output[i].wallpaper \in Image \cup {Nothing}
  <2>1. c.output \in Seq([name : Output, wallpaper : Image \cup {Nothing}])
    BY DEF Config
  <2>2. DOMAIN c.output = 1..Len(c.output) /\ Len(c.output) \in Nat
    BY <2>1, LenProperties
  <2>3. \A i \in DOMAIN c.output : c.output[i] \in [name : Output, wallpaper : Image \cup {Nothing}]
    BY <2>1, <2>2, ElementOfSeq
  <2> QED
    BY <2>2, <2>3
<1>2. Wanted(v, c) \in SUBSET Image
  <2>1. Referenced(v) \subseteq Image
    BY ReferencedType
  <2> QED
    BY <1>1, <2>1 DEF Wanted
<1>3. ASSUME OneTable(c) PROVE Wanted(v, c) = Referenced(v)
  <2>1. \A i \in DOMAIN c.output : c.output[i].wallpaper # Nothing =>
          v.assignments[c.output[i].name] = c.output[i].wallpaper
    BY <1>3, AssignedType
  <2>2. \A i \in DOMAIN c.output :
          c.output[i].wallpaper # Nothing => c.output[i].wallpaper \in Referenced(v)
    BY <1>1, <2>1 DEF Referenced
  <2>3. Nothing \notin Referenced(v)
    BY DEF Referenced
  <2> QED
    BY <2>2, <2>3 DEF Wanted
<1> QED
  BY <1>2, <1>3

\* resolve on a clean cache makes an exact one.
LEMMA ResolveType ==
  ASSUME NEW w, Proper(w), NEW c \in Config, NEW images \in SUBSET Image
  PROVE  /\ Proper(resolve(w, c, images)) /\ Fits(resolve(w, c, images))
         /\ resolve(w, c, images).scale = c.scale
         /\ Clean(w) /\ OneTable(c) => Exact(resolve(w, c, images))
<1> DEFINE v == Pointed(w, c, images)
           wanted == Wanted(v, c)
           l == Loaded(v, wanted)
           kept == Keep(l.loaded, wanted)
           k == [l EXCEPT !.loaded = kept, !.palettes = @ \cap wanted]
<1>1. resolve(w, c, images) = recompute_theme(prime_prefetch(k))
  BY DEF resolve
<1>2. /\ Proper(v) /\ v.scale = c.scale /\ v.prefetch = Nothing /\ v.assignments = Assigned(c)
      /\ Clean(w) => Clean(v)
  BY PointedType
<1> HIDE DEF v
<1>3. wanted \in SUBSET Image /\ (OneTable(c) => wanted = Referenced(v))
  BY <1>2, WantedType
<1> HIDE DEF wanted
<1>4. /\ Proper(l)
      /\ l.scale = v.scale /\ l.default_path = v.default_path
      /\ l.assignments = v.assignments /\ l.prefetch = Nothing
      /\ DOMAIN l.loaded = DOMAIN v.loaded \cup {p \in wanted : Decodes(p)}
      /\ \A p \in DOMAIN l.loaded :
           l.loaded[p] = IF p \in DOMAIN v.loaded THEN v.loaded[p] ELSE v.scale
  BY <1>2, <1>3, LoadedType
<1> HIDE DEF l
<1>5. kept = [p \in DOMAIN l.loaded \cap wanted |-> l.loaded[p]]
  BY DEF Keep
<1>6. kept \in Settings
  <2> DEFINE S == DOMAIN l.loaded \cap wanted
  <2>1. S \in SUBSET Image /\ \A p \in S : l.loaded[p] \in Scale
    BY <1>3, <1>4, SettingsAre DEF Proper, Manager
  <2>2. kept \in [S -> Scale]
    BY <1>5, <2>1
  <2> QED
    BY <2>1, <2>2 DEF Settings
<1> HIDE DEF kept
<1>7. /\ Proper(k) /\ k.loaded = kept /\ k.scale = v.scale /\ k.prefetch = Nothing
      /\ k.default_path = v.default_path /\ k.assignments = v.assignments
  BY <1>4, <1>6 DEF Proper, Manager
<1> HIDE DEF k
<1>8. Fits(k)
  BY <1>7 DEF Fits
<1>9. ASSUME Clean(w), OneTable(c) PROVE Exact(k)
  <2>1. Referenced(k) = wanted
    BY <1>3, <1>7, <1>9 DEF Referenced
  <2>2. \A p \in DOMAIN v.loaded : Decodes(p) /\ v.loaded[p] = v.scale
    BY <1>2, <1>9 DEF Clean
  <2>3. DOMAIN l.loaded \cap wanted = {q \in wanted : Decodes(q)}
    BY <1>4, <2>2
  <2>4. \A q \in wanted : Decodes(q) => l.loaded[q] = v.scale
    BY <1>4, <2>2
  <2>5. kept = [p \in {q \in wanted : Decodes(q)} |-> v.scale]
    BY <1>5, <2>3, <2>4
  <2> QED
    BY <1>7, <2>1, <2>5 DEF Exact
<1>10. Proper(prime_prefetch(k)) /\ SameShown(prime_prefetch(k), k)
  BY <1>7, PrimePrefetchType
<1>11. /\ Proper(recompute_theme(prime_prefetch(k)))
       /\ SameShown(recompute_theme(prime_prefetch(k)), k)
  BY <1>10, RecomputeThemeType DEF SameShown
<1> QED
  BY <1>1, <1>2, <1>7, <1>8, <1>9, <1>11, SameShownKeeps DEF SameShown

\* The problems resolve reports.
LEMMA UnreadableType ==
  ASSUME NEW w, Proper(w), NEW c \in Config, NEW images \in SUBSET Image
  PROVE  Unreadable(w, c, images) \subseteq Image \cup {Folder}
<1>1. Wanted(Pointed(w, c, images), c) \in SUBSET Image
  BY PointedType, WantedType
<1> QED
  BY <1>1 DEF Unreadable

\* An exact cache is clean.
LEMMA ExactIsClean ==
  ASSUME NEW w, Exact(w)
  PROVE  Clean(w)
BY DEF Exact, Clean

\* At startup nothing is decoded, which is clean.
LEMMA NewManagerType ==
  ASSUME NEW scale \in Scale
  PROVE  Proper(NewManager(scale)) /\ Clean(NewManager(scale))
<1> DEFINE w == NewManager(scale)
<1>1. w.loaded = <<>> /\ w.entries = <<>>
  BY DEF NewManager
<1>2. <<>> \in Settings /\ <<>> \in Seq(Image)
  <2>1. <<>> \in [{} -> Scale]
    OBVIOUS
  <2> QED
    BY <2>1 DEF Settings
<1>3. EmptyBag \in Sent
  <2>1. EmptyBag \in [{} -> Nat]
    BY DEF EmptyBag, SetToBag
  <2> QED
    BY <2>1 DEF Sent
<1>4. w \in Manager
  BY <1>2, <1>3 DEF NewManager, Manager
<1>5. DOMAIN w.loaded = {}
  BY <1>1
<1> QED
  BY <1>1, <1>4, <1>5 DEF Proper, Clean

----------------------------------------------------------------------------
(* The config *)

\* The tables of the files that are there and parse are tables.
LEMMA FilesAreTables ==
  ASSUME NEW d \in Directories, NEW f \in discover_config_files(d), d[f] # Malformed
  PROVE  f \in 1..Files /\ IsTable(d[f])
<1>1. f \in 1..Files /\ d[f] \in Contents[f]
  BY DEF Directories, discover_config_files
<1> QED
  BY <1>1, AppearanceAssumption

\* What one file sets, or all of them together, is of the kind its key asks for.
LEMMA MergedType ==
  ASSUME NEW d \in Directories, merge_all(d) # Refused
  PROVE  IsTable(merge_all(d))
<1> DEFINE files == discover_config_files(d)
           Keys == UNION {DOMAIN d[f] : f \in files}
           Setting(k) == {f \in files : k \in DOMAIN d[f]}
           parts(k) == [f \in 1..Files |-> IF f \in Setting(k) THEN d[f][k] ELSE <<>>]
           one(k) == CHOOSE f \in Setting(k) : TRUE
           table == [k \in Keys |-> IF k \in Arrays THEN FlattenSeq(parts(k)) ELSE d[one(k)][k]]
           Assignments == Seq([name : Output, wallpaper : Image \cup {Nothing}])
<1>1. ~(files = {} \/ \E f \in files : d[f] = Malformed) /\ merge_all(d) = table
  BY DEF merge_all, merge_into
<1>2. \A f \in files : f \in 1..Files /\ IsTable(d[f])
  BY <1>1, FilesAreTables
<1> HIDE DEF files
<1>3. \A k \in Keys : Setting(k) # {} /\ Setting(k) \subseteq files
  OBVIOUS
<1>4. \A k \in Keys \ Arrays : table[k] = d[one(k)][k] /\ one(k) \in files /\ k \in DOMAIN d[one(k)]
  <2>1. \A k \in Keys : one(k) \in Setting(k)
    BY <1>3
  <2>2. \A k \in Keys \ Arrays : table[k] = d[one(k)][k]
    OBVIOUS
  <2> HIDE DEF one, table
  <2> QED
    BY <2>1, <2>2
<1>5. ASSUME "output" \in Keys PROVE table["output"] \in Assignments
  <2> DEFINE seqs == parts("output")
  <2>1. table["output"] = FlattenSeq(seqs)
    BY <1>5 DEF Arrays
  <2>2. \A f \in 1..Files : seqs[f] \in Assignments
    <3>1. \A f \in Setting("output") : d[f]["output"] \in Assignments
      BY <1>2 DEF IsTable
    <3>2. <<>> \in Assignments
      OBVIOUS
    <3> HIDE DEF Setting, Assignments
    <3> QED
      BY <3>1, <3>2
  <2>3. seqs = [f \in 1..Files |-> seqs[f]] /\ Files \in Nat
    BY LoaderAssumption
  <2> HIDE DEF seqs, Assignments
  <2>4. seqs \in Seq(Assignments)
    BY <2>2, <2>3
  <2>5. FlattenSeq(seqs) \in Assignments
    BY <2>4, FlattenSeqType DEF Assignments
  <2> HIDE DEF table
  <2> QED
    BY <2>1, <2>5
<1>6. DOMAIN table = Keys
  OBVIOUS
<1> HIDE DEF table, Keys, one, Assignments
<1>7. "path" \notin Arrays /\ "scale" \notin Arrays /\ "theme" \notin Arrays
  BY DEF Arrays
<1>8. IsTable(table)
  <2>1. "path" \in DOMAIN table => table["path"] \in Image \cup {Folder}
    BY <1>2, <1>4, <1>6, <1>7 DEF IsTable
  <2>2. "scale" \in DOMAIN table => table["scale"] \in Scale
    BY <1>2, <1>4, <1>6, <1>7 DEF IsTable
  <2>3. "theme" \in DOMAIN table => table["theme"] \in BOOLEAN
    BY <1>2, <1>4, <1>6, <1>7 DEF IsTable
  <2>4. "output" \in DOMAIN table => table["output"] \in Assignments
    BY <1>5, <1>6
  <2> QED
    BY <2>1, <2>2, <2>3, <2>4 DEF IsTable, Assignments
<1> QED
  BY <1>1, <1>8

\* What is not refused is a config.
LEMMA ReloadedType ==
  ASSUME NEW d \in Directories, Reloaded(d) # Refused
  PROVE  Reloaded(d) \in Config
<1> DEFINE t == merge_all(d)
           Assignments == Seq([name : Output, wallpaper : Image \cup {Nothing}])
           c == [k \in DOMAIN RawDefault |-> IF k \in DOMAIN t THEN t[k] ELSE RawDefault[k]]
<1>1. t # Refused /\ Reloaded(d) = c
  BY DEF Reloaded, deserialize_merged
<1>2. IsTable(t)
  BY <1>1, MergedType
<1> HIDE DEF t
<1>3. DOMAIN RawDefault = {"output", "path", "scale", "theme"}
  BY DEF RawDefault
<1>4. /\ RawDefault["output"] \in Assignments /\ RawDefault["path"] \in {Nothing}
      /\ RawDefault["scale"] \in Scale /\ RawDefault["theme"] \in BOOLEAN
  BY LoaderAssumption DEF RawDefault
<1> HIDE DEF Assignments
<1>5. /\ c["output"] \in Assignments
      /\ c["path"] \in Image \cup {Folder, Nothing}
      /\ c["scale"] \in Scale
      /\ c["theme"] \in BOOLEAN
  BY <1>2, <1>3, <1>4 DEF IsTable, Assignments
<1>6. c = [k \in {"output", "path", "scale", "theme"} |-> c[k]]
  BY <1>3
<1> HIDE DEF c
<1>7. c \in Config
  BY <1>5, <1>6 DEF Config, Assignments
<1> QED
  BY <1>1, <1>7

\* At startup there is a config, if only the built-in one.
LEMMA LoadableType ==
  ASSUME NEW d \in Directories
  PROVE  Loadable(d) \in Config
<1>1. RawDefault \in Config
  BY LoaderAssumption DEF RawDefault, Config
<1> QED
  BY <1>1, ReloadedType DEF Loadable

----------------------------------------------------------------------------
(* The invariant *)

\* The inductive invariant: a prefetched image fits, besides.
IInv == TypeOK /\ Proper(manager) /\ Fits(manager)

\* The directory as it is now is in force, or reported for what cannot be.
InForce ==
  IF Reloaded(disk) = Refused THEN reported.loader.refused
  ELSE config = Reloaded(disk) /\ manager.scale = config.scale

\* What the end of a cycle leaves of the manager.
LEMMA EndOfCycleType ==
  ASSUME NEW w, Proper(w), EndOfCycle(w), theme \in Image \cup {Nothing}
  PROVE  /\ Proper(manager') /\ SameShown(manager', w)
         /\ theme' \in Image \cup {Nothing}
<1> DEFINE v == [w EXCEPT !.theme_dirty = FALSE]
<1>1. manager' = v /\ theme' \in {w.current_theme, theme}
  BY DEF EndOfCycle, apply_theme_update
<1>2. Proper(v) /\ SameShown(v, w) /\ w.current_theme \in Image \cup {Nothing}
  BY DEF Proper, Manager, SameShown
<1> HIDE DEF v
<1> QED
  BY <1>1, <1>2

\* The first resolve starts from nothing, and makes an exact cache.
LEMMA InitIInv ==
  ASSUME Init
  PROVE  IInv /\ InForce /\ (OneTablePerOutput => Exact(manager))
<1> DEFINE n == NewManager(config.scale)
           new == set_theme_params(n, config.theme)
           w == resolve(new, config, folder)
           v == [w EXCEPT !.theme_dirty = FALSE]
<1>1. disk \in Directories /\ config = Loadable(disk) /\ folder \in SUBSET Image
  BY DEF Init
<1>2. config \in Config /\ config.scale \in Scale /\ config.theme \in BOOLEAN
  <2>1. config \in Config
    BY <1>1, LoadableType
  <2> QED
    BY <2>1 DEF Config
<1>3. Proper(n) /\ Clean(n)
  BY <1>2, NewManagerType
<1> HIDE DEF n
<1>4. Proper(new) /\ Clean(new)
  <2>1. Proper(new) /\ SameShown(new, n)
    BY <1>2, <1>3, SetThemeParamsType
  <2> HIDE DEF new
  <2> QED
    BY <1>3, <2>1 DEF Clean, SameShown
<1>5. Unreadable(new, config, folder) \subseteq Image \cup {Folder}
  BY <1>1, <1>2, <1>4, UnreadableType
<1>6. /\ reported = [loader |-> Diagnostics(disk), unreadable |-> Unreadable(new, config, folder)]
      /\ manager = v /\ theme = w.current_theme /\ wallpaper_timer = (w.entries # <<>>)
      /\ noticed = FALSE /\ reload_timer = FALSE /\ acts = Acts
  BY DEF Init, n
<1> HIDE DEF new
<1>7. /\ Proper(w) /\ Fits(w) /\ w.scale = config.scale
      /\ OneTable(config) => Exact(w)
  BY <1>1, <1>2, <1>4, ResolveType
<1> HIDE DEF w
<1>8. Proper(v) /\ SameShown(v, w) /\ w.current_theme \in Image \cup {Nothing}
  BY <1>7 DEF Proper, Manager, SameShown
<1> HIDE DEF v
<1>9. Fits(v) /\ (OneTable(config) => Exact(v)) /\ wallpaper_timer = (v.entries # <<>>)
  BY <1>6, <1>7, <1>8, SameShownKeeps DEF SameShown
<1>10. reported.loader.refused \in BOOLEAN /\ reported.unreadable \subseteq Image \cup {Folder}
  BY <1>5, <1>6 DEF Diagnostics
<1>11. OneTablePerOutput => OneTable(config)
  BY <1>1 DEF OneTablePerOutput
<1>12. Acts \in 0..Acts
  BY AppearanceAssumption
<1>13. TypeOK
  BY <1>1, <1>2, <1>6, <1>8, <1>9, <1>10, <1>12, ProperIsManager DEF TypeOK
<1>14. InForce
  <2>1. Reloaded(disk) = Refused => reported.loader.refused
    BY <1>6 DEF Diagnostics, Reloaded
  <2>2. Reloaded(disk) # Refused => config = Reloaded(disk)
    BY <1>1 DEF Loadable
  <2>3. manager.scale = config.scale
    BY <1>6, <1>7, <1>8 DEF SameShown
  <2> QED
    BY <2>1, <2>2, <2>3 DEF InForce
<1> QED
  BY <1>6, <1>8, <1>9, <1>11, <1>13, <1>14 DEF IInv

\* What the handlers have in common: what they make of the manager, they hand to the
\* end of the cycle.
LEMMA HandlerKeeps ==
  ASSUME IInv, NEW w, Proper(w), Fits(w), EndOfCycle(w),
         disk' \in Directories, noticed' \in BOOLEAN, reload_timer' \in BOOLEAN,
         config' \in Config,
         reported'.loader.refused \in BOOLEAN, reported'.unreadable \subseteq Image \cup {Folder},
         wallpaper_timer' = (w.entries # <<>>),
         folder' \in SUBSET Image, acts' \in 0..Acts
  PROVE  IInv' /\ (Exact(w) => Exact(manager')) /\ manager'.scale = w.scale
<1>1. theme \in Image \cup {Nothing}
  BY DEF IInv, TypeOK
<1>2. Proper(manager') /\ SameShown(manager', w) /\ theme' \in Image \cup {Nothing}
  BY <1>1, EndOfCycleType
<1>3. Fits(manager') /\ (Exact(w) => Exact(manager'))
  BY <1>2, SameShownKeeps
<1>4. wallpaper_timer' = (manager'.entries # <<>>)
  BY <1>2 DEF SameShown
<1>5. IsManager(manager')
  BY <1>2, ProperIsManager
<1>6. TypeOK'
  BY <1>2, <1>4, <1>5 DEF TypeOK
<1> QED
  BY <1>2, <1>3, <1>6 DEF IInv, SameShown

\* The user's edits do not reach the manager before a reload.
LEMMA SaveKeeps ==
  ASSUME IInv, NEW f \in 1..Files, Save(f)
  PROVE  IInv' /\ manager' = manager
<1>1. PICK t : t \in Contents[f] \cup {Absent, Malformed} /\ disk' = [disk EXCEPT ![f] = t]
  BY DEF Save
<1>2. disk' \in Directories
  <2> DEFINE Held == (UNION {Contents[g] : g \in 1..Files}) \cup {Absent, Malformed}
  <2>1. disk \in [1..Files -> Held] /\ \A g \in 1..Files : disk[g] \in Contents[g] \cup {Absent, Malformed}
    BY DEF IInv, TypeOK, Directories
  <2>2. t \in Held
    BY <1>1
  <2> HIDE DEF Held
  <2>3. disk' \in [1..Files -> Held] /\ \A g \in 1..Files : disk'[g] = IF g = f THEN t ELSE disk[g]
    BY <1>1, <2>1, <2>2
  <2> QED
    BY <1>1, <2>1, <2>3 DEF Directories, Held
<1>3. acts' \in 0..Acts /\ noticed' = TRUE
      /\ UNCHANGED <<reload_timer, config, reported, manager, wallpaper_timer, folder, theme>>
  BY AppearanceAssumption DEF Save, UserActs, IInv, TypeOK
<1> QED
  BY <1>2, <1>3 DEF IInv, TypeOK

\* Nor does an image that is added to the folder.
LEMMA AddImageKeeps ==
  ASSUME IInv, AddImage
  PROVE  IInv' /\ manager' = manager
<1>1. acts' \in 0..Acts /\ folder' \subseteq Image
      /\ UNCHANGED <<disk, noticed, reload_timer, config, reported, manager, wallpaper_timer, theme>>
  BY AppearanceAssumption DEF AddImage, UserActs, IInv, TypeOK
<1> QED
  BY <1>1 DEF IInv, TypeOK

\* Nor does the watcher.
LEMMA ScheduleKeeps ==
  ASSUME IInv, schedule_config_reload
  PROVE  IInv' /\ manager' = manager
BY DEF schedule_config_reload, IInv, TypeOK

\* A wallpaper set over the socket.
LEMMA set_wallpaperKeeps ==
  ASSUME IInv, set_wallpaper
  PROVE  /\ IInv' /\ (Exact(manager) => Exact(manager'))
         /\ manager'.scale = manager.scale
<1>1. PICK o \in Output \cup {Nothing}, p \in Image : EndOfCycle(SetWallpaper(manager, o, p))
  BY DEF set_wallpaper
<1>2. acts' \in 0..Acts
      /\ UNCHANGED <<disk, noticed, reload_timer, config, reported, wallpaper_timer, folder>>
  BY AppearanceAssumption DEF set_wallpaper, UserActs, IInv, TypeOK
<1> DEFINE w == SetWallpaper(manager, o, p)
<1>3. /\ Proper(w) /\ Fits(w) /\ w.entries = manager.entries /\ w.scale = manager.scale
      /\ Exact(manager) => Exact(w)
  BY SetWallpaperType DEF IInv
<1>4. EndOfCycle(w)
  BY <1>1
<1> HIDE DEF w
<1>5. wallpaper_timer' = (w.entries # <<>>)
  BY <1>2, <1>3 DEF IInv, TypeOK
<1>6. IInv' /\ (Exact(w) => Exact(manager')) /\ manager'.scale = w.scale
  <2>1. /\ disk' \in Directories /\ noticed' \in BOOLEAN /\ reload_timer' \in BOOLEAN
        /\ config' \in Config
        /\ reported'.loader.refused \in BOOLEAN /\ reported'.unreadable \subseteq Image \cup {Folder}
        /\ folder' \in SUBSET Image
    BY <1>2 DEF IInv, TypeOK
  <2> QED
    BY <1>2, <1>3, <1>4, <1>5, <2>1, HandlerKeeps
<1> QED
  BY <1>3, <1>6

\* A result, which may be late, of an image that went, or of other settings.
LEMMA receive_prefetchKeeps ==
  ASSUME IInv, NEW p \in Image, receive_prefetch(p)
  PROVE  /\ IInv' /\ (Exact(manager) => Exact(manager'))
         /\ manager'.scale = manager.scale
<1>1. PICK r \in DOMAIN manager.decoding : EndOfCycle(Delivered(manager, r))
  BY DEF receive_prefetch
<1>2. UNCHANGED <<disk, noticed, reload_timer, config, reported, wallpaper_timer, folder, acts>>
  BY DEF receive_prefetch
<1>3. r \in Request
  BY DEF IInv, TypeOK, IsManager
<1> DEFINE w == Delivered(manager, r)
<1>4. /\ Proper(w) /\ Fits(w) /\ ((w.entries = <<>>) <=> (manager.entries = <<>>))
      /\ w.scale = manager.scale
      /\ Exact(manager) => Exact(w)
  BY <1>3, DeliveredType DEF IInv
<1>5. EndOfCycle(w)
  BY <1>1
<1> HIDE DEF w
<1>6. wallpaper_timer' = (w.entries # <<>>)
  BY <1>2, <1>4 DEF IInv, TypeOK
<1>7. IInv' /\ (Exact(w) => Exact(manager')) /\ manager'.scale = w.scale
  <2>1. /\ disk' \in Directories /\ noticed' \in BOOLEAN /\ reload_timer' \in BOOLEAN
        /\ config' \in Config
        /\ reported'.loader.refused \in BOOLEAN /\ reported'.unreadable \subseteq Image \cup {Folder}
        /\ folder' \in SUBSET Image /\ acts' \in 0..Acts
    BY <1>2 DEF IInv, TypeOK
  <2> QED
    BY <1>4, <1>5, <1>6, <2>1, HandlerKeeps
<1> QED
  BY <1>4, <1>7

\* The slideshow's timer.
LEMMA SlideshowDueKeeps ==
  ASSUME IInv, SlideshowDue
  PROVE  /\ IInv' /\ (Exact(manager) => Exact(manager'))
         /\ manager'.scale = manager.scale
<1> DEFINE w == AdvanceSlideshow(manager)
<1>1. /\ EndOfCycle(w) /\ wallpaper_timer' = (w.entries # <<>>)
      /\ UNCHANGED <<disk, noticed, reload_timer, config, reported, folder, acts>>
  BY DEF SlideshowDue, rearm_wallpaper_timer
<1>2. /\ Proper(w) /\ Fits(w) /\ w.scale = manager.scale
      /\ Exact(manager) => Exact(w)
  BY AdvanceSlideshowType DEF IInv
<1> HIDE DEF w
<1>3. IInv' /\ (Exact(w) => Exact(manager')) /\ manager'.scale = w.scale
  <2>1. /\ disk' \in Directories /\ noticed' \in BOOLEAN /\ reload_timer' \in BOOLEAN
        /\ config' \in Config
        /\ reported'.loader.refused \in BOOLEAN /\ reported'.unreadable \subseteq Image \cup {Folder}
        /\ folder' \in SUBSET Image /\ acts' \in 0..Acts
    BY <1>1 DEF IInv, TypeOK
  <2> QED
    BY <1>1, <1>2, <2>1, HandlerKeeps
<1> QED
  BY <1>2, <1>3

\* A reload: a config that is refused leaves the manager, and any other starts from a
\* clean cache, as every exact one is.
LEMMA reload_configKeeps ==
  ASSUME IInv, reload_config
  PROVE  /\ IInv' /\ InForce'
         /\ OneTablePerOutput /\ Exact(manager) => Exact(manager')
<1> DEFINE c == Reloaded(disk)
           m == set_theme_params(manager, c.theme)
           w == resolve(m, c, folder)
<1>1. reload_timer' = FALSE /\ UNCHANGED <<disk, noticed, folder, acts>>
  BY DEF reload_config
<1>2. CASE c = Refused
  <2>1. /\ reported' = [loader |-> Diagnostics(disk), unreadable |-> {}]
        /\ UNCHANGED <<config, manager, wallpaper_timer, theme>>
    BY <1>2 DEF reload_config, report_config_diagnostics
  <2>2. reported'.loader.refused \in BOOLEAN /\ reported'.unreadable = {}
    BY <2>1 DEF Diagnostics
  <2>3. InForce'
    BY <1>1, <1>2, <2>1 DEF InForce, Diagnostics, Reloaded
  <2> QED
    BY <1>1, <2>1, <2>2, <2>3 DEF IInv, TypeOK
<1>3. CASE c # Refused
  <2>1. /\ config' = c /\ EndOfCycle(w) /\ wallpaper_timer' = (w.entries # <<>>)
        /\ reported' = [loader |-> Diagnostics(disk), unreadable |-> Unreadable(manager, c, folder)]
    BY <1>3 DEF reload_config, report_config_diagnostics, rearm_wallpaper_timer
  <2>2. disk \in Directories /\ folder \in SUBSET Image /\ Proper(manager)
    BY DEF IInv, TypeOK
  <2>3. c \in Config
    BY <1>3, <2>2, ReloadedType
  <2>4. OneTablePerOutput => OneTable(c)
    BY <1>3, <2>2 DEF OneTablePerOutput, Loadable
  <2>11. Reloaded(disk)' = c
    BY <1>1
  <2> HIDE DEF c
  <2>5. c.theme \in BOOLEAN
    BY <2>3 DEF Config
  <2>6. Proper(m) /\ SameShown(m, manager)
    BY <2>2, <2>5, SetThemeParamsType
  <2>7. Exact(manager) => Clean(m)
    BY <2>6, SameShownKeeps, ExactIsClean
  <2> HIDE DEF m
  <2>8. /\ Proper(w) /\ Fits(w) /\ w.scale = c.scale
        /\ Clean(m) /\ OneTable(c) => Exact(w)
    BY <2>2, <2>3, <2>6, ResolveType
  <2> HIDE DEF w
  <2>9. reported'.loader.refused \in BOOLEAN /\ reported'.unreadable \subseteq Image \cup {Folder}
    <3>1. Unreadable(manager, c, folder) \subseteq Image \cup {Folder}
      BY <2>2, <2>3, UnreadableType
    <3> QED
      BY <2>1, <3>1 DEF Diagnostics
  <2>10. IInv' /\ (Exact(w) => Exact(manager')) /\ manager'.scale = w.scale
    <3>1. /\ disk' \in Directories /\ noticed' \in BOOLEAN /\ reload_timer' \in BOOLEAN
          /\ config' \in Config /\ folder' \in SUBSET Image /\ acts' \in 0..Acts
      BY <1>1, <2>1, <2>3 DEF IInv, TypeOK
    <3> QED
      BY <2>1, <2>8, <2>9, <3>1, HandlerKeeps
  <2>12. InForce'
    BY <1>3, <2>1, <2>8, <2>10, <2>11 DEF InForce
  <2> QED
    BY <2>4, <2>7, <2>8, <2>10, <2>12
<1> QED
  BY <1>2, <1>3

\* Every step keeps the invariant, and the cache exact.
LEMMA NextKeeps ==
  ASSUME IInv, [Next]_vars
  PROVE  /\ IInv'
         /\ OneTablePerOutput /\ Exact(manager) => Exact(manager')
<1>1. ASSUME NEW f \in 1..Files, Save(f)
      PROVE  IInv' /\ (Exact(manager) => Exact(manager'))
  BY <1>1, SaveKeeps
<1>2. CASE AddImage
  BY <1>2, AddImageKeeps
<1>3. CASE set_wallpaper
  BY <1>3, set_wallpaperKeeps
<1>4. CASE schedule_config_reload
  BY <1>4, ScheduleKeeps
<1>5. CASE reload_config
  BY <1>5, reload_configKeeps
<1>6. CASE SlideshowDue
  BY <1>6, SlideshowDueKeeps
<1>7. ASSUME NEW p \in Image, receive_prefetch(p)
      PROVE  IInv' /\ (Exact(manager) => Exact(manager'))
  BY <1>7, receive_prefetchKeeps
<1>8. CASE UNCHANGED vars
  BY <1>8 DEF vars, IInv, TypeOK
<1> QED
  BY <1>1, <1>2, <1>3, <1>4, <1>5, <1>6, <1>7, <1>8 DEF Next

----------------------------------------------------------------------------
(* The theorems *)

\* The inductive invariant holds throughout, whatever the user writes into the config
\* directory and however late the workers are.
THEOREM Invariance == Spec => []IInv
<1>1. Init => IInv
  BY InitIInv
<1>2. IInv /\ [Next]_vars => IInv'
  BY NextKeeps
<1> QED
  BY <1>1, <1>2, PTL DEF Spec

\* Every variable is of its kind; above all no index of the slideshow is out of its
\* range, and the timer is armed where there is a slideshow.
THEOREM TypeCorrect == Spec => []TypeOK
<1>1. IInv => TypeOK
  BY DEF IInv
<1> QED
  BY <1>1, Invariance, PTL

\* Where no directory has two tables for an output, the cache is exact throughout:
\* reloads, swaps, late and unwanted results and wallpapers set over the socket, in any
\* order, leave no output without an image it should show, and none in memory that
\* none shows.
THEOREM CacheAlwaysExact ==
  ASSUME OneTablePerOutput
  PROVE  Spec => []CacheIsExact
<1> DEFINE Inv == IInv /\ Exact(manager)
<1>1. Init => Inv
  BY InitIInv
<1>2. Inv /\ [Next]_vars => Inv'
  BY NextKeeps
<1>3. Inv => CacheIsExact
  BY DEF Exact, CacheIsExact
<1> HIDE DEF Inv
<1> QED
  BY <1>1, <1>2, <1>3, PTL DEF Spec

\* As long as a save is on its way into force, it is with the watcher or the timer; and
\* what is saved no more does not come back there.
LEMMA NextForces ==
  ASSUME IInv, [Next]_vars
  PROVE  /\ noticed \/ reload_timer \/ InForce => (noticed \/ reload_timer \/ InForce)'
         /\ [disk' = disk]_vars /\ ~noticed => ~noticed'
         /\ [disk' = disk]_vars /\ ~noticed /\ ~reload_timer => ~reload_timer'
<1> DEFINE Kept == UNCHANGED <<disk, config, reported, noticed, reload_timer>>
                   /\ manager'.scale = manager.scale
<1>1. ASSUME NEW f \in 1..Files, Save(f)
      PROVE  noticed' /\ ~[disk' = disk]_vars
  <2>1. PICK t : t # disk[f] /\ disk' = [disk EXCEPT ![f] = t]
    BY <1>1 DEF Save
  <2>2. f \in DOMAIN disk
    BY DEF IInv, TypeOK, Directories
  <2>3. disk'[f] # disk[f]
    BY <2>1, <2>2
  <2> QED
    BY <1>1, <2>3 DEF Save, vars
<1>2. CASE AddImage
  BY <1>2 DEF AddImage, InForce
<1>3. CASE set_wallpaper
  <2>1. Kept
    BY <1>3, set_wallpaperKeeps DEF set_wallpaper
  <2> QED
    BY <2>1 DEF InForce
<1>4. CASE schedule_config_reload
  BY <1>4 DEF schedule_config_reload
<1>5. CASE reload_config
  <2>1. InForce' /\ noticed' = noticed /\ reload_timer' = FALSE
    BY <1>5, reload_configKeeps DEF reload_config
  <2> QED
    BY <2>1
<1>6. CASE SlideshowDue
  <2>1. Kept
    BY <1>6, SlideshowDueKeeps DEF SlideshowDue
  <2> QED
    BY <2>1 DEF InForce
<1>7. ASSUME NEW p \in Image, receive_prefetch(p)
      PROVE  Kept
  BY <1>7, receive_prefetchKeeps DEF receive_prefetch
<1>8. CASE UNCHANGED vars
  BY <1>8 DEF vars, InForce
<1>9. Kept => (InForce => InForce')
  BY DEF InForce
<1> QED
  BY <1>1, <1>2, <1>3, <1>4, <1>5, <1>6, <1>7, <1>8, <1>9 DEF Next

\* A directory that is left alone comes into force: config and manager go by it, or it
\* is reported as refused, whatever was saved before, and whatever the slideshow, its
\* workers and the socket do in the meantime.
THEOREM SavedTakesEffect == Spec /\ <>[][disk' = disk]_vars => ConfigTakesEffect
<1> DEFINE OnItsWay == noticed \/ reload_timer \/ InForce
<1>1. Init => OnItsWay
  BY InitIInv
<1>2. IInv /\ [Next]_vars /\ OnItsWay => OnItsWay'
  BY NextForces
<1>3. IInv /\ [Next]_vars /\ [disk' = disk]_vars =>
        /\ ~noticed => ~noticed'
        /\ ~noticed /\ ~reload_timer => ~reload_timer'
  BY NextForces
<1>4. InForce /\ Reloaded(disk) # Refused =>
        config = Reloaded(disk) /\ manager.scale = Reloaded(disk).scale
  BY DEF InForce
<1>5. InForce /\ Reloaded(disk) = Refused => reported.loader.refused
  BY DEF InForce
<1>6. Fairness => []<>~noticed /\ []<>~reload_timer
  BY DEF Fairness
<1> QED
  BY <1>1, <1>2, <1>3, <1>4, <1>5, <1>6, Invariance, PTL DEF Spec, ConfigTakesEffect
=====
