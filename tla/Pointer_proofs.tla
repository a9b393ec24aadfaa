--------------------------- MODULE Pointer_proofs ---------------------------
(***************************************************************************)
(* Theorems about Pointer.                                                 *)
(*                                                                         *)
(* AnchorHolds is not inductive as it stands: a commit places the window   *)
(* by what its surface remembers of the resize, and the end of a grab      *)
(* writes to that surface.  IsDrag says what a grab that drags knows, and  *)
(* Resizing that the surface of the window it resizes remembers the same,  *)
(* whatever requests the press made before this one.  The two action       *)
(* properties need no more than the types, and what the operators on       *)
(* constraints, rectangles and heads come to.                              *)
(***************************************************************************)
EXTENDS Pointer, SequenceTheorems, FiniteSetTheorems, WellFoundedInduction, TLAPS

----------------------------------------------------------------------------
(* Numbers *)

\* A nonempty set of naturals has a least element.
LEMMA LeastNatural ==
  ASSUME NEW T, T \subseteq Nat, T # {}
  PROVE  \E n \in T : \A k \in T : n <= k
<1> DEFINE R == OpToRel(<, Nat)
<1>1. IsWellFoundedOn(R, Nat)
  BY NatLessThanWellFounded
<1>2. \A x, y \in Nat : x < y => <<x, y>> \in R
  BY DEF OpToRel
<1> HIDE DEF R
<1>3. PICK n \in T : \A k \in T : ~(<<k, n>> \in R)
  BY <1>1, WFMin
<1>4. ASSUME NEW k \in T PROVE n <= k
  <2>1. k \in Nat /\ n \in Nat /\ ~(k < n)
    BY <1>2, <1>3
  <2> QED
    BY <2>1
<1> QED
  BY <1>4

\* And one that is bounded a greatest.
LEMMA GreatestNatural ==
  ASSUME NEW n \in Nat, NEW T, T \subseteq 0..n, T # {}
  PROVE  \E m \in T : \A k \in T : k <= m
<1> DEFINE U == {n - k : k \in T}
<1>1. U \subseteq Nat /\ U # {}
  <2>1. \A k \in T : n - k \in Nat
    OBVIOUS
  <2> QED
    BY <2>1
<1>2. PICK u \in U : \A k \in U : u <= k
  BY <1>1, LeastNatural
<1>3. PICK m \in T : u = n - m
  OBVIOUS
<1>4. ASSUME NEW k \in T PROVE k <= m
  <2>1. n - m <= n - k
    BY <1>2, <1>3
  <2> QED
    BY <2>1
<1> QED
  BY <1>4

----------------------------------------------------------------------------
(* The heads, and what stands on them *)

\* The heads lie side by side within the screen.
LEMMA HeadOnScreen ==
  ASSUME NEW h \in 1..Heads
  PROVE  /\ Extent(h).loc \in Nat /\ Extent(h).size = Width
         /\ Extent(h).loc + Width <= Heads * Width
<1>1. Heads \in Nat /\ Width \in Nat /\ h \in Nat /\ h >= 1
  BY PointerAssumption
<1>2. Extent(h).loc = (h - 1) * Width /\ Extent(h).size = Width
  BY DEF Extent
<1>3. (h - 1) * Width \in Nat
  <2>1. h - 1 \in Nat
    BY <1>1
  <2> QED
    BY <1>1, <2>1
<1>4. (h - 1) * Width + Width = h * Width
  BY <1>1
<1>5. h * Width <= Heads * Width
  <2>1. Heads - h \in Nat
    BY <1>1
  <2>2. (Heads - h) * Width \in Nat
    BY <1>1, <2>1
  <2>3. (Heads - h) * Width = Heads * Width - h * Width
    BY <1>1
  <2>4. Heads * Width \in Int /\ h * Width \in Int
    BY <1>1
  <2> QED
    BY <2>2, <2>3, <2>4
<1> QED
  BY <1>2, <1>3, <1>4, <1>5

\* What is held to the outputs is on the screen, and what is on a head is left there.
LEMMA ClampedOnScreen ==
  ASSUME NEW x \in Int
  PROVE  /\ clamp_to_outputs(x) \in Points
         /\ (\E h \in 1..Heads : Covers(Extent(h), x)) => clamp_to_outputs(x) = x
<1> DEFINE n == OutputNear(cursor)
<1>1. Heads \in Nat /\ Heads >= 1 /\ Width \in Nat /\ Heads * Width \in Nat
  BY PointerAssumption
<1>2. n \in 1..Heads
  BY <1>1 DEF OutputNear, output_at
<1>3. CASE output_at(x) # {}
  <2>1. PICK h \in 1..Heads : Covers(Extent(h), x)
    BY <1>3 DEF output_at
  <2>2. x \in Points
    BY <1>1, <2>1, HeadOnScreen DEF Covers, Points
  <2> QED
    BY <1>3, <2>2 DEF clamp_to_outputs
<1>4. CASE output_at(x) = {}
  <2>1. Extent(n).loc \in Nat /\ Extent(n).size = Width /\ Extent(n).loc + Width <= Heads * Width
    BY <1>2, HeadOnScreen
  <2>2. clamp_to_outputs(x) = Clamp(x, Extent(n).loc, Extent(n).loc + Extent(n).size)
    BY <1>4 DEF clamp_to_outputs
  <2> HIDE DEF n
  <2>3. clamp_to_outputs(x) \in Points
    BY <1>1, <2>1, <2>2 DEF Clamp, Points
  <2> QED
    BY <1>4, <2>3 DEF output_at
<1> QED
  BY <1>3, <1>4

\* Where the Space may have windows.
IsPlace(p) == DOMAIN p \subseteq Window /\ p \in [DOMAIN p -> Int]

\* What is under a point is a mapped window that covers it, or nothing.
LEMMA UnderCovers ==
  ASSUME NEW x, NEW p, NEW s, IsPlace(p), s \in Orders(DOMAIN p)
  PROVE  /\ Under(x, p, s) \in DOMAIN p \cup {Nothing}
         /\ Under(x, p, s) # Nothing => Covers(RectOf(Under(x, p, s), p), x)
<1> DEFINE n == Cardinality(DOMAIN p)
           over == {i \in DOMAIN s : Covers(RectOf(s[i], p), x)}
<1>1. n \in Nat
  BY PointerAssumption, FS_Subset, FS_CardinalityType DEF IsPlace
<1>2. DOMAIN s = 1..n /\ \A i \in 1..n : s[i] \in DOMAIN p
  BY DEF Orders
<1> HIDE DEF n
<1>3. CASE over = {}
  BY <1>3 DEF Under
<1>4. CASE over # {}
  <2>1. over \subseteq 0..n
    BY <1>1, <1>2
  <2>2. \E i \in over : \A j \in over : j <= i
    BY <1>1, <1>4, <2>1, GreatestNatural
  <2>3. PICK i \in over : Under(x, p, s) = s[i]
    BY <1>4, <2>2 DEF Under
  <2> QED
    BY <1>2, <2>3
<1> QED
  BY <1>3, <1>4

\* The part of a window on a head is a run of points.
LEMMA VisibleRun ==
  ASSUME NEW rect \in Rect, NEW h \in 1..Heads
  PROVE  \E a, b \in Int : Visible(rect)[h] = a..b /\ b - a < Width
<1> DEFINE l == Extent(h).loc
           a == IF rect.loc < l THEN l ELSE rect.loc
           b == IF rect.loc + rect.size < l + Width THEN rect.loc + rect.size - 1 ELSE l + Width - 1
<1>1. l \in Nat /\ Width \in Nat /\ rect.loc \in Int /\ rect.size \in Nat
  BY HeadOnScreen, PointerAssumption DEF Rect
<1>2. Visible(rect)[h] = {x \in l .. l + Width - 1 : rect.loc <= x /\ x < rect.loc + rect.size}
  BY DEF Visible, Covers
<1> HIDE DEF l
<1>3. {x \in l .. l + Width - 1 : rect.loc <= x /\ x < rect.loc + rect.size} = a..b
  BY <1>1
<1>4. a \in Int /\ b \in Int /\ b - a < Width
  BY <1>1
<1> QED
  BY <1>2, <1>3, <1>4

\* Of a window that some head shows, mouse_follows_focus_target is a visible point.
LEMMA TargetIsVisible ==
  ASSUME NEW rect \in Rect, \E h \in 1..Heads : Visible(rect)[h] # {}
  PROVE  \E h \in 1..Heads : mouse_follows_focus_target(rect) \in Visible(rect)[h]
<1> DEFINE part == Visible(rect)
           Size(h) == Cardinality(part[h])
           best == {h \in 1..Heads : \A k \in 1..Heads : Size(k) <= Size(h)}
           head == CHOOSE h \in best : \A k \in best : k <= h
           first == CHOOSE x \in part[head] : \A y \in part[head] : x <= y
<1>1. Heads \in Nat /\ Width \in Nat
  BY PointerAssumption
<1>2. \A h \in 1..Heads :
        \E a, b \in Int : /\ part[h] = a..b /\ b - a < Width
                          /\ Size(h) = IF a > b THEN 0 ELSE b - a + 1
  <2> SUFFICES ASSUME NEW h \in 1..Heads
               PROVE  \E a, b \in Int : /\ part[h] = a..b /\ b - a < Width
                                        /\ Size(h) = IF a > b THEN 0 ELSE b - a + 1
    OBVIOUS
  <2>1. PICK a, b \in Int : part[h] = a..b /\ b - a < Width
    BY VisibleRun
  <2>2. Cardinality(a..b) = IF a > b THEN 0 ELSE b - a + 1
    BY FS_Interval
  <2> QED
    BY <2>1, <2>2
<1>3. mouse_follows_focus_target(rect) = first + Size(head) \div 2
  BY DEF mouse_follows_focus_target
<1>4. PICK seen \in 1..Heads : part[seen] # {}
  OBVIOUS
<1> HIDE DEF part, Size
<1>5. \A h \in 1..Heads : Size(h) \in 0..Width
  BY <1>1, <1>2
<1>6. best # {}
  <2> DEFINE T == {Size(h) : h \in 1..Heads}
  <2>1. T \subseteq 0..Width /\ T # {}
    BY <1>5
  <2>2. PICK m \in T : \A k \in T : k <= m
    BY <1>1, <2>1, GreatestNatural
  <2> QED
    BY <2>2
<1>7. head \in best
  <2>1. best \subseteq 0..Heads
    BY <1>1
  <2>2. \E h \in best : \A k \in best : k <= h
    BY <1>1, <1>6, <2>1, GreatestNatural
  <2> QED
    BY <2>2
<1>8. head \in 1..Heads /\ Size(seen) <= Size(head)
  BY <1>7
<1> HIDE DEF best, head
<1>9. PICK a, b \in Int : part[head] = a..b /\ Size(head) = IF a > b THEN 0 ELSE b - a + 1
  BY <1>2, <1>8
<1>10. a <= b
  BY <1>2, <1>4, <1>5, <1>8, <1>9
<1>11. first = a
  <2>1. a \in part[head] /\ \A y \in part[head] : a <= y
    BY <1>9, <1>10
  <2>2. first \in part[head] /\ \A y \in part[head] : first <= y
    BY <2>1
  <2> QED
    BY <1>9, <2>1, <2>2
<1> HIDE DEF first
<1>12. first + Size(head) \div 2 \in a..b
  BY <1>9, <1>10, <1>11
<1>13. mouse_follows_focus_target(rect) \in part[head]
  BY <1>3, <1>9, <1>12
<1> QED
  BY <1>8, <1>13 DEF part
----------------------------------------------------------------------------
(* The invariant *)

\* A grab that drags a window knows which one, and from where.
IsDrag(g) ==
  g # Nothing /\ g.kind # "click" =>
    /\ g.window \in Window /\ g.initial \in Rect
    /\ g.kind = "resize" => g.last \in 1..MaxSize /\ g.edge \in {"left", "right"}

\* While a grab resizes a window, its surface knows of just this resize.
Resizing ==
  grab # Nothing /\ grab.kind = "resize" =>
    resize[grab.window] = [state |-> "resizing", edge |-> grab.edge, initial |-> grab.initial]

\* The inductive invariant.
IInv == TypeOK /\ IsDrag(grab) /\ Resizing /\ AnchorHolds
----------------------------------------------------------------------------
(* Types *)

\* The sizes each client is behind with.
Asks == {a \in [Window -> Seq(1..MaxSize)] : \A w \in Window : Len(a[w]) <= MaxAsked}

\* The constraints of all the surfaces.
Constraints == [Window -> Constraint \cup {Nothing}]

\* A window's rect is one.
LEMMA RectOfType ==
  ASSUME TypeOK, NEW p, IsPlace(p), NEW w \in DOMAIN p
  PROVE  RectOf(w, p) \in Rect
<1>1. p[w] \in Int /\ size[w] \in Nat
  BY PointerAssumption DEF TypeOK, IsPlace
<1> QED
  BY <1>1 DEF RectOf, Rect

\* What a client is still to see once it is asked for another size.
LEMMA ConfiguredType ==
  ASSUME TypeOK, NEW w \in Window, NEW s \in 1..MaxSize
  PROVE  Configured(w, s) \in Seq(1..MaxSize)
<1> DEFINE a == asked[w]
           sent == IF a = <<>> THEN size[w] ELSE a[Len(a)]
<1>1. a \in Seq(1..MaxSize)
  BY DEF TypeOK
<1>2. Configured(w, s) = IF s = sent THEN a ELSE Append(a, s)
  BY DEF Configured
<1> HIDE DEF a, sent
<1>3. Append(a, s) \in Seq(1..MaxSize)
  BY <1>1, AppendProperties
<1> QED
  BY <1>1, <1>2, <1>3

\* Constraints are deactivated and activated; none comes or goes by that.
LEMMA DeactivatedType ==
  ASSUME NEW c \in Constraints, NEW S
  PROVE  /\ Deactivated(c, S) \in Constraints
         /\ \A w \in Window : Deactivated(c, S)[w] = Nothing <=> c[w] = Nothing
<1> SUFFICES ASSUME NEW w \in Window
             PROVE  /\ Deactivated(c, S)[w] \in Constraint \cup {Nothing}
                    /\ Deactivated(c, S)[w] = Nothing <=> c[w] = Nothing
  BY DEF Deactivated, Constraints
<1>1. Deactivated(c, S)[w] =
        IF w \in S /\ c[w] # Nothing THEN [c[w] EXCEPT !.active = FALSE] ELSE c[w]
  BY DEF Deactivated
<1>2. c[w] # Nothing => [c[w] EXCEPT !.active = FALSE] \in Constraint
  BY DEF Constraints, Constraint
<1>3. Nothing \notin Constraint
  BY NothingAssumption
<1> QED
  BY <1>1, <1>2, <1>3 DEF Constraints

\* A constraint that is there may come into force.
LEMMA ActivatedType ==
  ASSUME NEW c \in Constraints, NEW w \in Window, c[w] # Nothing
  PROVE  Activated(c, w) \in Constraints
<1>1. [c[w] EXCEPT !.active = TRUE] \in Constraint
  BY DEF Constraints, Constraint
<1>2. Activated(c, w) = [c EXCEPT ![w] = [c[w] EXCEPT !.active = TRUE]]
  BY DEF Activated
<1> QED
  BY <1>1, <1>2 DEF Constraints

\* And so after the pointer has left a surface,
LEMMA LeavingType ==
  ASSUME NEW c \in Constraints, NEW new
  PROVE  Leaving(c, new) \in Constraints
BY DeactivatedType DEF Leaving

\* and once all but one of them are released.
LEMMA ReleasedType ==
  ASSUME NEW c \in Constraints, NEW keep
  PROVE  Released(c, keep) \in Constraints
BY DeactivatedType DEF Released

\* The parts of the type, as the lemmas below speak of them.
LEMMA TypeFacts ==
  ASSUME TypeOK
  PROVE  /\ IsPlace(place) /\ stack \in Orders(DOMAIN place)
         /\ asked \in Asks /\ constraint \in Constraints
         /\ surface_under(cursor) \in Window \cup {Nothing}
         /\ \A x : surface_under(x) \in DOMAIN place \cup {Nothing}
<1>1. IsPlace(place) /\ stack \in Orders(DOMAIN place)
  BY DEF TypeOK, IsPlace
<1>2. \A x : surface_under(x) \in DOMAIN place \cup {Nothing}
  BY <1>1, UnderCovers DEF surface_under
<1> QED
  BY <1>1, <1>2 DEF TypeOK, Asks, Constraints, IsPlace

\* The motion of a grab takes the window along, or asks for another size.
LEMMA DraggedType ==
  ASSUME TypeOK, NEW g \in Grab \cup {Nothing}, IsDrag(g), NEW x \in Points, Dragged(g, x)
  PROVE  /\ grab' \in Grab \cup {Nothing} /\ IsDrag(grab')
         /\ grab' = Nothing <=> g = Nothing
         /\ g # Nothing => /\ grab'.kind = g.kind /\ grab'.window = g.window
                           /\ grab'.edge = g.edge /\ grab'.initial = g.initial
         /\ IsPlace(place') /\ DOMAIN place' = DOMAIN place
         /\ (g = Nothing \/ g.kind # "move") => place' = place
         /\ asked' \in Asks
<1>1. CASE g = Nothing \/ g.kind = "click"
  <2>1. grab' = g /\ place' = place /\ asked' = asked
    BY <1>1 DEF Dragged
  <2> QED
    BY <2>1, TypeFacts
<1> DEFINE delta == IF g.edge = "left" THEN g.start - x ELSE x - g.start
           new == Clamp(g.initial.size + delta, 1, MaxSize)
<1>2. ASSUME g # Nothing, g.kind # "click"
      PROVE  /\ g \in Grab /\ g.window \in Window /\ g.initial \in Rect
             /\ g.initial.loc \in Int /\ g.initial.size \in Nat
             /\ delta \in Int /\ new \in 1..MaxSize
  <2>1. g \in Grab /\ g.window \in Window /\ g.initial \in Rect
    BY <1>2 DEF IsDrag
  <2>2. g.start \in Int /\ x \in Int
    <3>1. Heads * Width \in Nat
      BY PointerAssumption
    <3> QED
      BY <2>1, <3>1 DEF Grab, Points
  <2>3. delta \in Int
    BY <2>2
  <2>4. g.initial.loc \in Int /\ g.initial.size \in Nat
    BY <2>1 DEF Rect
  <2> HIDE DEF delta
  <2>5. new \in 1..MaxSize
    BY <2>3, <2>4, PointerAssumption DEF Clamp
  <2> QED
    BY <2>1, <2>3, <2>4, <2>5
<1>3. CASE g # Nothing /\ g.kind = "move"
  <2>1. /\ grab' = g /\ asked' = asked
        /\ place' = IF g.window \in DOMAIN place
                    THEN [place EXCEPT ![g.window] = g.initial.loc + delta] ELSE place
    BY <1>3 DEF Dragged
  <2>2. g.initial.loc + delta \in Int
    BY <1>2, <1>3
  <2> HIDE DEF delta
  <2>3. IsPlace(place') /\ DOMAIN place' = DOMAIN place
    BY <2>1, <2>2 DEF TypeOK, IsPlace
  <2> QED
    BY <1>3, <2>1, <2>3, TypeFacts
<1>4. CASE g # Nothing /\ g.kind # "click" /\ g.kind # "move"
  <2>1. /\ grab' = [g EXCEPT !.last = new] /\ place' = place
        /\ asked' = [asked EXCEPT ![g.window] = Configured(g.window, new)]
        /\ Len(asked'[g.window]) <= MaxAsked
    BY <1>4 DEF Dragged
  <2>2. new \in 1..MaxSize /\ g \in Grab /\ g.window \in Window /\ g.initial \in Rect
    BY <1>2, <1>4
  <2> HIDE DEF new
  <2>3. Configured(g.window, new) \in Seq(1..MaxSize)
    BY <2>2, ConfiguredType
  <2>4. asked' \in Asks
    BY <2>1, <2>2, <2>3 DEF TypeOK, Asks
  <2>5. /\ grab' \in Grab /\ grab'.last = new
        /\ grab'.kind = g.kind /\ grab'.window = g.window /\ grab'.edge = g.edge
        /\ grab'.initial = g.initial
    BY <2>1, <2>2, PointerAssumption DEF Grab
  <2>6. grab' # Nothing
    BY <2>5, NothingAssumption
  <2> QED
    BY <1>4, <2>1, <2>2, <2>4, <2>5, <2>6, TypeFacts DEF IsDrag
<1> QED
  BY <1>1, <1>3, <1>4

\* Any motion.
LEMMA MovedToType ==
  ASSUME TypeOK, IsDrag(grab), NEW x \in Points, NEW arms,
         MovedTo(x, surface_under(x), arms)
  PROVE  TypeOK' /\ IsDrag(grab')
<1> DEFINE under == surface_under(x)
           left == Leaving(constraint, FocusOf(under))
           kept == IF Hovers(under) THEN Released(left, under) ELSE left
<1>1. under \in Window \cup {Nothing}
  BY TypeFacts DEF IsPlace
<1>2. FocusOf(under) \in Window \cup {Nothing}
  BY <1>1 DEF TypeOK, FocusOf, Grab
<1>3. kept \in Constraints
  BY TypeFacts, LeavingType, ReleasedType
<1>4. constraint' \in Constraints
  <2>1. constraint' = kept \/ (under # Nothing /\ kept[under] # Nothing /\ constraint' = Activated(kept, under))
    BY DEF MovedTo
  <2> HIDE DEF kept, under
  <2> QED
    BY <1>1, <1>3, <2>1, ActivatedType
<1>5. /\ grab' \in Grab \cup {Nothing} /\ IsDrag(grab')
      /\ IsPlace(place') /\ DOMAIN place' = DOMAIN place /\ asked' \in Asks
  <2>1. Dragged(grab, x) /\ grab \in Grab \cup {Nothing}
    BY DEF MovedTo, TypeOK
  <2> QED
    BY <2>1, DraggedType
<1>6. {focus, pending, keyboard}' \subseteq Window \cup {Nothing}
  BY <1>1, <1>2 DEF MovedTo, TypeOK
<1>7. /\ cursor' = x /\ at' = x
      /\ UNCHANGED <<stack, size, last_configured, resize, hint>>
  BY DEF MovedTo
<1> QED
  BY <1>4, <1>5, <1>6, <1>7 DEF TypeOK, IsPlace, Asks, Constraints

\* A button pressed, with what is raised by it.
LEMMA PressType ==
  ASSUME TypeOK, Press
  PROVE  TypeOK' /\ IsDrag(grab')
<1>1. grab' = Rest /\ Rest \in Grab /\ Rest.kind = "click"
  BY PointerAssumption DEF Press, Rest, Grab, TypeOK
<1>2. keyboard' \in Window \cup {Nothing}
  BY TypeFacts DEF Press, IsPlace
<1>3. place' = place /\ stack' \in Orders(DOMAIN place')
  BY DEF Press, Raised
<1>4. constraint' \in Constraints
  BY TypeFacts, ReleasedType DEF Press
<1>5. UNCHANGED <<cursor, at, focus, pending, size, last_configured, asked, resize, hint>>
  BY DEF Press, clients
<1> QED
  BY <1>1, <1>2, <1>3, <1>4, <1>5 DEF TypeOK, IsDrag, Constraints

\* And one that is let go.
LEMMA ReleaseType ==
  ASSUME TypeOK, IsDrag(grab), Release
  PROVE  TypeOK' /\ IsDrag(grab')
<1>1. grab' = Nothing /\ focus' = pending /\ constraint' = Leaving(constraint, pending)
  BY DEF Release
<1>2. constraint' \in Constraints
  BY <1>1, TypeFacts, LeavingType
<1>3. asked' \in Asks /\ resize' \in [Window -> Resize \cup {Nothing}]
  <2>1. CASE grab.kind = "resize"
    <3> DEFINE w == grab.window
               r == [state |-> "waiting", edge |-> grab.edge, initial |-> grab.initial]
    <3>1. /\ w \in Window /\ grab.last \in 1..MaxSize
          /\ grab.edge \in {"left", "right"} /\ grab.initial \in Rect
      BY <2>1 DEF Release, IsDrag
    <3>2. /\ asked' = [asked EXCEPT ![w] = Configured(w, grab.last)] /\ Len(asked'[w]) <= MaxAsked
          /\ resize' = [resize EXCEPT ![w] = r]
      BY <2>1 DEF Release
    <3> HIDE DEF w
    <3>3. Configured(w, grab.last) \in Seq(1..MaxSize)
      BY <3>1, ConfiguredType
    <3>4. asked' \in Asks
      BY <3>1, <3>2, <3>3 DEF TypeOK, Asks
    <3>5. r \in Resize
      BY <3>1 DEF Resize
    <3> HIDE DEF r
    <3>6. resize' \in [Window -> Resize \cup {Nothing}]
      BY <3>1, <3>2, <3>5 DEF TypeOK
    <3> QED
      BY <3>4, <3>6
  <2>2. CASE grab.kind # "resize"
    BY <2>2, TypeFacts DEF Release, TypeOK
  <2> QED
    BY <2>1, <2>2
<1>4. UNCHANGED <<cursor, at, pending, keyboard, place, stack, size, last_configured, hint>>
  BY DEF Release, screen
<1> QED
  BY <1>1, <1>2, <1>3, <1>4 DEF TypeOK, IsDrag, Asks, Constraints

\* A grab that takes the pointer from the surface, once it has moved.
LEMMA GrabsType ==
  ASSUME TypeOK, NEW w, NEW g \in Grab, IsDrag(g), g.kind # "click", Grabs(w, g),
         resize' \in [Window -> Resize \cup {Nothing}]
  PROVE  /\ TypeOK' /\ IsDrag(grab') /\ grab' # Nothing
         /\ grab'.kind = g.kind /\ grab'.window = g.window
         /\ grab'.edge = g.edge /\ grab'.initial = g.initial
         /\ g.kind # "move" => place' = place
<1>1. Dragged(g, at) /\ at \in Points /\ g # Nothing
  BY NothingAssumption DEF Grabs, TypeOK
<1>2. /\ grab' \in Grab /\ IsDrag(grab') /\ grab' # Nothing
      /\ grab'.kind = g.kind /\ grab'.window = g.window
      /\ grab'.edge = g.edge /\ grab'.initial = g.initial
      /\ IsPlace(place') /\ DOMAIN place' = DOMAIN place /\ asked' \in Asks
      /\ g.kind # "move" => place' = place
  BY <1>1, DraggedType
<1>3. constraint' \in Constraints
  BY TypeFacts, LeavingType DEF Grabs
<1>4. {focus, pending, keyboard}' \subseteq Window \cup {Nothing}
  BY DEF Grabs, TypeOK
<1>5. UNCHANGED <<cursor, at, stack, size, last_configured, hint>>
  BY DEF Grabs
<1> QED
  BY <1>2, <1>3, <1>4, <1>5 DEF TypeOK, IsPlace, Asks, Constraints

\* A grab told to drag a window.
LEMMA GrabWithWindow ==
  ASSUME NEW g \in Grab, NEW k \in {"move", "resize"}, NEW w \in Window,
         NEW e \in {"left", "right", Nothing}, NEW rect \in Rect, NEW n \in 0..MaxSize
  PROVE  [g EXCEPT !.kind = k, !.window = w, !.edge = e, !.initial = rect, !.last = n] \in Grab
BY DEF Grab

\* What a request to be moved leaves: a grab that drags the window.
LEMMA MoveRequestType ==
  ASSUME TypeOK, NEW w \in Window, move_request(w)
  PROVE  TypeOK' /\ IsDrag(grab') /\ grab' # Nothing /\ grab'.kind = "move"
<1> DEFINE g == [grab EXCEPT !.kind = "move", !.window = w, !.edge = Nothing,
                             !.initial = RectOf(w, place), !.last = 0]
<1>1. Grabs(w, g) /\ resize' = resize
  BY DEF move_request
<1>2. grab \in Grab /\ w \in DOMAIN place
  BY <1>1 DEF Grabs, TypeOK
<1>3. RectOf(w, place) \in Rect
  BY <1>2, TypeFacts, RectOfType
<1>4. g \in Grab /\ g.kind = "move" /\ g.window = w /\ g.initial \in Rect
  <2>1. 0 \in 0..MaxSize
    BY PointerAssumption
  <2>2. g \in Grab
    BY <1>2, <1>3, <2>1, GrabWithWindow
  <2> QED
    BY <1>2, <1>3, <2>2 DEF Grab
<1> HIDE DEF g
<1> QED
  BY <1>1, <1>2, <1>4, GrabsType DEF IsDrag, TypeOK

\* And one to be resized: besides the grab, what the surface is told.
LEMMA ResizeRequestType ==
  ASSUME TypeOK, NEW w \in Window, NEW edge \in {"left", "right"}, resize_request(w, edge)
  PROVE  /\ TypeOK' /\ IsDrag(grab')
         /\ grab' # Nothing /\ grab'.kind = "resize" /\ grab'.window = w
         /\ grab'.edge = edge /\ grab'.initial = RectOf(w, place)
         /\ place' = place /\ size' = size
         /\ resize'[w] = [state |-> "resizing", edge |-> edge, initial |-> RectOf(w, place)]
<1> DEFINE g == [grab EXCEPT !.kind = "resize", !.window = w, !.edge = edge,
                             !.initial = RectOf(w, place), !.last = size[w]]
           r == [state |-> "resizing", edge |-> edge, initial |-> RectOf(w, place)]
<1>1. Grabs(w, g) /\ resize' = [resize EXCEPT ![w] = r]
  BY DEF resize_request
<1>2. grab \in Grab /\ w \in DOMAIN place /\ size' = size
  BY <1>1 DEF Grabs, TypeOK
<1>3. RectOf(w, place) \in Rect /\ size[w] \in 1..MaxSize /\ MaxSize \in Nat
  BY <1>2, TypeFacts, RectOfType, PointerAssumption DEF TypeOK
<1>4. /\ g \in Grab /\ g.kind = "resize" /\ g.window = w /\ g.initial \in Rect
      /\ g.last \in 1..MaxSize /\ g.edge = edge /\ g.initial = RectOf(w, place)
  <2>1. size[w] \in 0..MaxSize
    BY <1>3
  <2>2. g \in Grab
    BY <1>2, <1>3, <2>1, GrabWithWindow
  <2> QED
    BY <1>2, <1>3, <2>2 DEF Grab
<1>5. r \in Resize
  BY <1>3 DEF Resize
<1> HIDE DEF g, r
<1>6. resize' \in [Window -> Resize \cup {Nothing}] /\ resize'[w] = r
  BY <1>1, <1>5 DEF TypeOK
<1>7. IsDrag(g)
  BY <1>4 DEF IsDrag
<1>8. /\ TypeOK' /\ IsDrag(grab') /\ grab' # Nothing
      /\ grab'.kind = "resize" /\ grab'.window = w /\ place' = place
      /\ grab'.edge = edge /\ grab'.initial = RectOf(w, place)
  BY <1>1, <1>4, <1>6, <1>7, GrabsType
<1> QED
  BY <1>2, <1>6, <1>8 DEF r

\* A commit: the size is one the client was asked for, or the one it has.
LEMMA CommittedType ==
  ASSUME TypeOK, NEW w \in Window, Committed(w)
  PROVE  /\ size' \in [Window -> 1..MaxSize] /\ asked' \in Asks
         /\ \A v \in Window \ {w} : size'[v] = size[v]
<1>1. PICK k \in 0 .. Len(asked[w]) :
        /\ size' = IF k = 0 THEN size ELSE [size EXCEPT ![w] = asked[w][k]]
        /\ asked' = [asked EXCEPT ![w] = SubSeq(asked[w], k + 1, Len(asked[w]))]
  BY DEF Committed
<1> DEFINE a == asked[w]
           rest == SubSeq(a, k + 1, Len(a))
<1>2. a \in Seq(1..MaxSize) /\ Len(a) <= MaxAsked
  BY DEF TypeOK
<1>3. k # 0 => a[k] \in 1..MaxSize
  <2>1. k # 0 => k \in 1..Len(a)
    BY <1>1, <1>2
  <2> HIDE DEF a
  <2> QED
    BY <1>2, <2>1, ElementOfSeq
<1> HIDE DEF a
<1>4. rest \in Seq(1..MaxSize) /\ Len(rest) <= MaxAsked
  <2>1. k \in Nat /\ k <= Len(a) /\ Len(a) \in Nat /\ MaxAsked \in Nat
    BY <1>1, <1>2, PointerAssumption DEF a
  <2>2. \A i \in k + 1 .. Len(a) : a[i] \in 1..MaxSize
    <3> SUFFICES ASSUME NEW i \in k + 1 .. Len(a) PROVE a[i] \in 1..MaxSize
      OBVIOUS
    <3>1. i \in 1..Len(a)
      BY <2>1
    <3> QED
      BY <1>2, <3>1, ElementOfSeq
  <2>3. /\ rest \in Seq(1..MaxSize)
        /\ Len(rest) = IF k + 1 <= Len(a) THEN Len(a) - (k + 1) + 1 ELSE 0
    BY <1>2, <2>1, <2>2, SubSeqProperties
  <2> HIDE DEF rest
  <2> QED
    BY <1>2, <2>1, <2>3
<1> HIDE DEF rest
<1>5. asked' = [asked EXCEPT ![w] = rest]
  BY <1>1 DEF a, rest
<1> QED
  BY <1>1, <1>3, <1>4, <1>5 DEF TypeOK, Asks, a

\* What a commit does to the window it is of, and that it does nothing to another.
LEMMA HandleCommitType ==
  ASSUME TypeOK, NEW w \in Window, handle_commit(w)
  PROVE  /\ TypeOK' /\ DOMAIN place' = DOMAIN place
         /\ \A v \in DOMAIN place \ {w} : place'[v] = place[v]
         /\ \A v \in Window \ {w} : resize'[v] = resize[v] /\ size'[v] = size[v]
         /\ resize'[w] = resize[w] \/ (resize[w] # Nothing /\ resize[w].state = "waiting"
                                         /\ resize'[w] = Nothing)
         /\ w \in DOMAIN place /\ resize[w] # Nothing /\ resize[w].edge = "left" =>
              place'[w] + size'[w] = resize[w].initial.loc + resize[w].initial.size
<1>1. /\ size' \in [Window -> 1..MaxSize] /\ asked' \in Asks
      /\ \A v \in Window \ {w} : size'[v] = size[v]
  BY CommittedType DEF handle_commit
<1>2. /\ UNCHANGED <<cursor, at, focus, pending, grab, keyboard, last_configured, constraint, hint>>
  BY DEF handle_commit, seat
<1>3. CASE ~(w \in DOMAIN place /\ resize[w] # Nothing)
  <2>1. UNCHANGED <<place, stack, resize>>
    BY <1>3 DEF handle_commit
  <2> QED
    BY <1>1, <1>2, <1>3, <2>1 DEF TypeOK, Asks
<1>4. CASE w \in DOMAIN place /\ resize[w] # Nothing
  <2> DEFINE at_ == resize[w].initial.loc + (resize[w].initial.size - size'[w])
  <2>1. /\ place' = IF resize[w].edge = "left" THEN [place EXCEPT ![w] = at_] ELSE place
        /\ IF resize[w].edge = "left" THEN Raised(w) ELSE UNCHANGED stack
        /\ resize' = IF resize[w].state = "waiting" THEN [resize EXCEPT ![w] = Nothing] ELSE resize
    BY <1>4 DEF handle_commit
  <2>2. resize[w] \in Resize /\ resize[w].initial.loc \in Int /\ resize[w].initial.size \in Nat
        /\ size'[w] \in Nat
    <3>1. resize[w] \in Resize
      BY <1>4 DEF TypeOK
    <3>2. resize[w].initial \in Rect
      BY <3>1 DEF Resize
    <3>3. size'[w] \in Nat
      BY <1>1, PointerAssumption
    <3> QED
      BY <3>1, <3>2, <3>3 DEF Rect
  <2>3. at_ \in Int /\ at_ + size'[w] = resize[w].initial.loc + resize[w].initial.size
    BY <2>2
  <2> HIDE DEF at_
  <2>4. /\ IsPlace(place') /\ DOMAIN place' = DOMAIN place
        /\ \A v \in DOMAIN place \ {w} : place'[v] = place[v]
        /\ resize[w].edge = "left" => place'[w] = at_
    BY <1>4, <2>1, <2>3 DEF TypeOK, IsPlace
  <2>5. stack' \in Orders(DOMAIN place')
    BY <2>1, <2>4 DEF TypeOK, Raised
  <2>6. /\ resize' \in [Window -> Resize \cup {Nothing}]
        /\ \A v \in Window \ {w} : resize'[v] = resize[v]
        /\ resize'[w] = IF resize[w].state = "waiting" THEN Nothing ELSE resize[w]
    BY <2>1 DEF TypeOK
  <2> QED
    BY <1>1, <1>2, <1>4, <2>3, <2>4, <2>5, <2>6 DEF TypeOK, IsPlace, Asks
<1> QED
  BY <1>3, <1>4

\* A layout is in force at once, and each window it shows has been asked for its tile.
LEMMA LaidType ==
  ASSUME TypeOK, NEW l \in Layouts, NEW w, Laid(l, w)
  PROVE  /\ IsPlace(place') /\ DOMAIN place' = DOMAIN l /\ stack' \in Orders(DOMAIN place')
         /\ last_configured' \in [Window -> Tile \cup {Nothing}] /\ asked' \in Asks
         /\ \A v \in DOMAIN place' :
              last_configured'[v] # Nothing /\ last_configured'[v].loc = place'[v]
<1> DEFINE due == {v \in DOMAIN l : last_configured[v] # l[v]}
<1>1. DOMAIN l \subseteq Window /\ \A v \in DOMAIN l : l[v] \in Tile
  BY PointerAssumption
<1>2. \A v \in DOMAIN l : l[v].loc \in Int /\ l[v].size \in 1..MaxSize /\ l[v] # Nothing
  BY <1>1, NothingAssumption DEF Tile
<1>3. /\ place' = [v \in DOMAIN l |-> l[v].loc] /\ Raised(w)
      /\ last_configured' = [v \in Window |-> IF v \in due THEN l[v] ELSE last_configured[v]]
      /\ asked' = [v \in Window |-> IF v \in due THEN Configured(v, l[v].size) ELSE asked[v]]
      /\ \A v \in Window : Len(asked'[v]) <= MaxAsked
  BY DEF Laid
<1>4. IsPlace(place') /\ DOMAIN place' = DOMAIN l /\ stack' \in Orders(DOMAIN place')
  BY <1>1, <1>2, <1>3 DEF IsPlace, Raised
<1>5. \A v \in DOMAIN l : last_configured'[v] = l[v]
  BY <1>1, <1>3
<1>6. last_configured' \in [Window -> Tile \cup {Nothing}]
  BY <1>1, <1>3 DEF TypeOK
<1>7. asked' \in Asks
  <2>1. \A v \in due : Configured(v, l[v].size) \in Seq(1..MaxSize)
    BY <1>1, <1>2, ConfiguredType
  <2>2. \A v \in Window : asked[v] \in Seq(1..MaxSize)
    BY DEF TypeOK
  <2> HIDE DEF due
  <2>3. \A v \in Window : (IF v \in due THEN Configured(v, l[v].size) ELSE asked[v]) \in Seq(1..MaxSize)
    BY <2>1, <2>2
  <2>4. asked' \in [Window -> Seq(1..MaxSize)]
    BY <1>3, <2>3
  <2> QED
    BY <1>3, <2>4 DEF Asks
<1> QED
  BY <1>2, <1>3, <1>4, <1>5, <1>6, <1>7

\* The warp leaves the cursor on the screen; it lands on the window it is for.
LEMMA WarpedType ==
  ASSUME TypeOK, IsPlace(place'), stack' \in Orders(DOMAIN place'),
         NEW w, NEW called, NEW c \in Constraints, Warped(w, called, c)
  PROVE  /\ {cursor, at}' \subseteq Points
         /\ {focus, pending}' \subseteq Window \cup {Nothing}
         /\ constraint' \in Constraints
         /\ called /\ Warps(w, c) => Covers(RectOf(w, place'), cursor')
         /\ ~(called /\ Warps(w, c)) => cursor' = cursor
<1> DEFINE rect == RectOf(w, place')
           target == mouse_follows_focus_target(rect)
           x == clamp_to_outputs(target)
           under == Under(x, place', stack')
<1>1. CASE called /\ Warps(w, c)
  <2>1. /\ cursor' = x /\ at' = x /\ pending' = under /\ focus' = under
        /\ constraint' = Leaving(c, under)
    BY <1>1 DEF Warped
  <2>2. w \in DOMAIN place' /\ \E h \in 1..Heads : Visible(rect)[h] # {}
    BY <1>1 DEF Warps
  <2>3. rect \in Rect
    BY <2>2, RectOfType
  <2> HIDE DEF rect
  <2>4. PICK h \in 1..Heads : target \in Visible(rect)[h]
    BY <2>2, <2>3, TargetIsVisible
  <2> HIDE DEF target
  <2>5. target \in Int /\ Covers(rect, target) /\ Covers(Extent(h), target)
    <3>1. Extent(h).loc \in Nat /\ Extent(h).size = Width /\ Width \in Nat
      BY HeadOnScreen, PointerAssumption
    <3>2. target \in Extent(h).loc .. Extent(h).loc + Width - 1 /\ Covers(rect, target)
      BY <2>4 DEF Visible
    <3> QED
      BY <3>1, <3>2 DEF Covers
  <2>6. x \in Points /\ x = target
    BY <2>5, ClampedOnScreen
  <2> HIDE DEF x
  <2>7. under \in Window \cup {Nothing}
    BY UnderCovers DEF IsPlace
  <2> HIDE DEF under
  <2>8. constraint' \in Constraints
    BY <2>1, LeavingType
  <2> QED
    BY <1>1, <2>1, <2>5, <2>6, <2>7, <2>8 DEF rect
<1>2. CASE ~(called /\ Warps(w, c))
  <2>1. constraint' = c /\ UNCHANGED <<cursor, at, pending, focus>>
    BY <1>2 DEF Warped
  <2> QED
    BY <1>2, <2>1 DEF TypeOK
<1> QED
  BY <1>1, <1>2

\* What a layout and the warp after it leave.
LEMMA LaidAndWarped ==
  ASSUME TypeOK, IsDrag(grab), NEW l \in Layouts, NEW w, Laid(l, w),
         NEW v, NEW called, NEW c \in Constraints, Warped(v, called, c),
         keyboard' \in Window \cup {Nothing}, UNCHANGED <<grab, size, resize, hint>>
  PROVE  TypeOK' /\ IsDrag(grab')
<1>1. /\ IsPlace(place') /\ stack' \in Orders(DOMAIN place')
      /\ last_configured' \in [Window -> Tile \cup {Nothing}] /\ asked' \in Asks
  BY LaidType
<1>2. /\ {cursor, at}' \subseteq Points
      /\ {focus, pending}' \subseteq Window \cup {Nothing}
      /\ constraint' \in Constraints
  BY <1>1, WarpedType
<1> QED
  BY <1>1, <1>2 DEF TypeOK, IsPlace, Asks, Constraints

\* The layout passes: by the chords that take the focus along, by the others, by the
\* taskbar, and by any other handler.
LayoutPass(l) ==
  \/ \E w \in Window \cup {Nothing} : Chord(w, l)
  \/ \E w \in Window : Activate(w, l)
  \/ Rearrange(l) \/ Relayout(l)

\* A layout pass touches neither the grab nor what a resize is about.
LEMMA LayoutPassType ==
  ASSUME TypeOK, IsDrag(grab), NEW l \in Layouts, LayoutPass(l)
  PROVE  TypeOK' /\ IsDrag(grab') /\ UNCHANGED <<grab, size, resize>>
<1>1. ASSUME NEW w \in Window \cup {Nothing}, Chord(w, l) \/ Activate(w, l)
      PROVE  TypeOK' /\ IsDrag(grab') /\ UNCHANGED <<grab, size, resize>>
  <2>1. /\ Laid(l, w) /\ keyboard' = w /\ UNCHANGED <<grab, size, resize, hint>>
        /\ \E called \in BOOLEAN : Warped(w, called, Released(constraint, w))
    BY <1>1 DEF Chord, Activate
  <2>2. Released(constraint, w) \in Constraints
    BY TypeFacts, ReleasedType
  <2> QED
    BY <2>1, <2>2, LaidAndWarped
<1>2. CASE Rearrange(l)
  <2>1. /\ Laid(l, Nothing) /\ keyboard' = keyboard /\ UNCHANGED <<grab, size, resize, hint>>
        /\ Warped(keyboard, Shifted(keyboard), constraint)
    BY <1>2 DEF Rearrange
  <2>2. constraint \in Constraints /\ keyboard' \in Window \cup {Nothing}
    BY <2>1, TypeFacts DEF TypeOK
  <2> QED
    BY <2>1, <2>2, LaidAndWarped
<1>3. CASE Relayout(l)
  <2>1. /\ Laid(l, Nothing)
        /\ UNCHANGED <<cursor, at, focus, pending, grab, keyboard, size, resize, constraint, hint>>
    BY <1>3 DEF Relayout, seat
  <2>2. /\ IsPlace(place') /\ stack' \in Orders(DOMAIN place')
        /\ last_configured' \in [Window -> Tile \cup {Nothing}] /\ asked' \in Asks
    BY <2>1, LaidType
  <2> QED
    BY <2>1, <2>2 DEF TypeOK, IsPlace, Asks
<1> QED
  BY <1>1, <1>2, <1>3 DEF LayoutPass

\* The requests of the constraints protocol.
ConstraintRequest(w) ==
  \/ \E kind \in {"locked", "confined"}, region \in Regions : NewConstraint(w, kind, region)
  \/ RemoveConstraint(w)
  \/ \E location \in Hints : CursorPositionHint(w, location)

\* Nor do the requests of the constraints protocol.
LEMMA ConstraintRequestType ==
  ASSUME TypeOK, IsDrag(grab), NEW w \in Window, ConstraintRequest(w)
  PROVE  /\ TypeOK' /\ IsDrag(grab')
         /\ UNCHANGED <<grab, place, size, resize, last_configured>>
<1>1. ASSUME NEW kind \in {"locked", "confined"}, NEW region \in Regions,
             NewConstraint(w, kind, region)
      PROVE  TypeOK' /\ UNCHANGED <<grab, place, size, resize, last_configured>>
  <2>1. /\ constraint' = [constraint EXCEPT ![w] = [kind |-> kind, region |-> region, active |-> focus = w]]
        /\ UNCHANGED <<cursor, at, focus, pending, grab, keyboard, place, stack, size,
                       last_configured, asked, resize, hint>>
    BY <1>1 DEF NewConstraint, seat, screen, clients
  <2>2. [kind |-> kind, region |-> region, active |-> focus = w] \in Constraint
    BY PointerAssumption DEF Constraint, Locals
  <2> QED
    BY <2>1, <2>2 DEF TypeOK
<1>2. CASE RemoveConstraint(w)
  <2>1. /\ constraint' = [constraint EXCEPT ![w] = Nothing] /\ hint' = Nothing
        /\ cursor' = IF hint # Nothing /\ hint.surface = w /\ w \in DOMAIN place
                     THEN clamp_to_outputs(place[w] + hint.location) ELSE cursor
        /\ UNCHANGED <<at, focus, pending, grab, keyboard, place, stack, size,
                       last_configured, asked, resize>>
    BY <1>2 DEF RemoveConstraint, seat, screen, clients
  <2>2. cursor' \in Points
    <3>1. ASSUME hint # Nothing, w \in DOMAIN place
          PROVE  place[w] + hint.location \in Int
      <4>1. place[w] \in Int /\ hint.location \in Int
        BY <3>1, PointerAssumption DEF TypeOK
      <4> QED
        BY <4>1
    <3> QED
      BY <2>1, <3>1, ClampedOnScreen DEF TypeOK
  <2> QED
    BY <2>1, <2>2 DEF TypeOK
<1>3. ASSUME NEW location \in Hints, CursorPositionHint(w, location)
      PROVE  TypeOK' /\ UNCHANGED <<grab, place, size, resize, last_configured>>
  <2>1. /\ hint' = [surface |-> w, location |-> location]
        /\ UNCHANGED <<cursor, at, focus, pending, grab, keyboard, place, stack, size,
                       last_configured, asked, resize, constraint>>
    BY <1>3 DEF CursorPositionHint, seat, screen, clients
  <2> QED
    BY <2>1 DEF TypeOK
<1> QED
  BY <1>1, <1>2, <1>3 DEF ConstraintRequest

----------------------------------------------------------------------------
(* The invariant is one *)

\* A motion, relative or absolute, is one to a point of the screen.
LEMMA MotionIsMovedTo ==
  ASSUME TypeOK,
         (\E d \in Deltas : PointerMotion(d)) \/ (\E x \in Points : PointerMotionAbsolute(x))
  PROVE  \E x \in Points, arms \in BOOLEAN : MovedTo(x, surface_under(x), arms)
<1>1. ASSUME NEW d \in Deltas, PointerMotion(d)
      PROVE  \E x \in Points, arms \in BOOLEAN : MovedTo(x, surface_under(x), arms)
  <2> DEFINE x == clamp_to_outputs(cursor + d)
  <2>1. cursor \in Int /\ d \in Int
    BY PointerAssumption DEF TypeOK, Points
  <2>2. x \in Points
    BY <2>1, ClampedOnScreen
  <2>3. MovedTo(x, surface_under(x), TRUE)
    BY <1>1 DEF PointerMotion
  <2> QED
    BY <2>2, <2>3
<1>2. ASSUME NEW x \in Points, PointerMotionAbsolute(x)
      PROVE  \E y \in Points, arms \in BOOLEAN : MovedTo(y, surface_under(y), arms)
  BY <1>2 DEF PointerMotionAbsolute
<1> QED
  BY <1>1, <1>2

\* What a step is, by what it does to the windows.
LEMMA Steps ==
  ASSUME TypeOK, [Next]_vars
  PROVE  \/ \E x \in Points, arms \in BOOLEAN : MovedTo(x, surface_under(x), arms)
         \/ Press \/ Release
         \/ \E l \in Layouts : LayoutPass(l)
         \/ \E w \in Window : handle_commit(w) \/ ConstraintRequest(w) \/ move_request(w)
         \/ \E w \in Window, edge \in {"left", "right"} : resize_request(w, edge)
         \/ ToggleFollows \/ UNCHANGED vars
<1>1. CASE (\E d \in Deltas : PointerMotion(d)) \/ (\E x \in Points : PointerMotionAbsolute(x))
  BY <1>1, MotionIsMovedTo
<1>2. CASE Press \/ Release \/ ToggleFollows \/ UNCHANGED vars
  BY <1>2
<1>3. CASE \/ \E w \in Window, l \in Layouts : Activate(w, l)
           \/ \E w \in Window \cup {Nothing}, l \in Layouts : Chord(w, l)
           \/ \E l \in Layouts : Rearrange(l) \/ Relayout(l)
  BY <1>3 DEF LayoutPass
<1>4. ASSUME NEW w \in Window,
             \/ handle_commit(w) \/ RemoveConstraint(w)
             \/ \E kind \in {"locked", "confined"}, region \in Regions : NewConstraint(w, kind, region)
             \/ \E location \in Hints : CursorPositionHint(w, location)
             \/ move_request(w)
             \/ \E edge \in {"left", "right"} : resize_request(w, edge)
      PROVE  \/ \E v \in Window : handle_commit(v) \/ ConstraintRequest(v) \/ move_request(v)
             \/ \E v \in Window, edge \in {"left", "right"} : resize_request(v, edge)
  BY <1>4 DEF ConstraintRequest
<1> QED
  BY <1>1, <1>2, <1>3, <1>4 DEF Next

\* The settings are nobody's type but their own.
LEMMA SettingsType ==
  ASSUME TypeOK, IsDrag(grab), ToggleFollows \/ UNCHANGED vars
  PROVE  /\ TypeOK' /\ IsDrag(grab')
         /\ UNCHANGED <<grab, place, size, resize, last_configured>>
<1>1. UNCHANGED <<cursor, at, focus, pending, grab, keyboard, place, stack, size,
                  last_configured, asked, resize, constraint, hint>>
  BY DEF ToggleFollows, vars, seat, screen, clients
<1> QED
  BY <1>1 DEF TypeOK

\* A step that leaves windows and grab where they are keeps what is said of both.
LEMMA NoneMoves ==
  ASSUME IInv, UNCHANGED <<grab, place, size, resize, last_configured>>
  PROVE  AnchorHolds' /\ Resizing'
BY DEF IInv, AnchorHolds, Resizing

\* A motion keeps the invariant: the grab it goes through stays the grab it is, and only
\* a move takes a window along.
LEMMA MovedToKeeps ==
  ASSUME IInv, NEW x \in Points, NEW arms, MovedTo(x, surface_under(x), arms)
  PROVE  IInv'
<1>1. TypeOK' /\ IsDrag(grab')
  BY MovedToType DEF IInv
<1>2. /\ grab' = Nothing <=> grab = Nothing
      /\ grab # Nothing => /\ grab'.kind = grab.kind /\ grab'.window = grab.window
                           /\ grab'.edge = grab.edge /\ grab'.initial = grab.initial
      /\ (grab = Nothing \/ grab.kind # "move") => place' = place
  BY DraggedType DEF MovedTo, IInv, TypeOK
<1>3. UNCHANGED <<size, resize, last_configured>>
  BY DEF MovedTo
<1>4. CASE grab' = Nothing \/ grab'.kind # "resize"
  <2>1. AnchorHolds' /\ Resizing'
    BY <1>4 DEF AnchorHolds, Resizing
  <2> QED
    BY <1>1, <2>1 DEF IInv
<1>5. CASE grab' # Nothing /\ grab'.kind = "resize"
  <2>1. /\ place' = place /\ grab # Nothing /\ grab.kind = "resize" /\ grab'.window = grab.window
        /\ grab'.edge = grab.edge /\ grab'.initial = grab.initial
    BY <1>2, <1>5
  <2>2. Resizing'
    BY <1>3, <2>1 DEF IInv, Resizing
  <2>3. AnchorHolds'
    BY <1>3, <2>1 DEF IInv, AnchorHolds
  <2> QED
    BY <1>1, <2>2, <2>3 DEF IInv
<1> QED
  BY <1>4, <1>5

\* A press comes while nothing is dragged.
LEMMA PressKeeps ==
  ASSUME IInv, Press
  PROVE  IInv'
<1>1. TypeOK' /\ IsDrag(grab')
  BY PressType DEF IInv
<1>2. grab'.kind # "resize"
  BY DEF Press, Rest
<1>3. AnchorHolds' /\ Resizing'
  BY <1>2 DEF AnchorHolds, Resizing
<1> QED
  BY <1>1, <1>3 DEF IInv

\* With the end of a grab it resizes nothing.
LEMMA ReleaseKeeps ==
  ASSUME IInv, Release
  PROVE  IInv'
<1>1. TypeOK' /\ IsDrag(grab')
  BY ReleaseType DEF IInv
<1>2. AnchorHolds' /\ Resizing'
  BY DEF Release, AnchorHolds, Resizing
<1> QED
  BY <1>1, <1>2 DEF IInv

\* A layout puts a window that is being resized on its tile, or off the screen.
LEMMA LayoutPassKeeps ==
  ASSUME IInv, NEW l \in Layouts, LayoutPass(l)
  PROVE  IInv'
<1>1. TypeOK' /\ IsDrag(grab') /\ UNCHANGED <<grab, size, resize>>
  BY LayoutPassType DEF IInv
<1>2. \E w : Laid(l, w)
  BY DEF LayoutPass, Chord, Activate, Rearrange, Relayout
<1>3. \A v \in DOMAIN place' : last_configured'[v] # Nothing /\ last_configured'[v].loc = place'[v]
  BY <1>2, LaidType DEF IInv
<1>4. AnchorHolds'
  BY <1>1, <1>3 DEF IInv, AnchorHolds
<1>5. Resizing'
  BY <1>1 DEF IInv, Resizing
<1> QED
  BY <1>1, <1>4, <1>5 DEF IInv

\* A commit keeps the right edge of a window that is resized by its left, and is
\* what ends the resizing.
LEMMA HandleCommitKeeps ==
  ASSUME IInv, NEW w \in Window, handle_commit(w)
  PROVE  IInv'
<1>1. /\ TypeOK' /\ DOMAIN place' = DOMAIN place
      /\ \A v \in DOMAIN place \ {w} : place'[v] = place[v]
      /\ \A v \in Window \ {w} : resize'[v] = resize[v] /\ size'[v] = size[v]
      /\ resize'[w] = resize[w] \/ (resize[w] # Nothing /\ resize[w].state = "waiting"
                                      /\ resize'[w] = Nothing)
      /\ w \in DOMAIN place /\ resize[w] # Nothing /\ resize[w].edge = "left" =>
           place'[w] + size'[w] = resize[w].initial.loc + resize[w].initial.size
  BY HandleCommitType DEF IInv
<1>2. UNCHANGED <<grab, last_configured>>
  BY DEF handle_commit, seat
<1>3. CASE ~(grab # Nothing /\ grab.kind = "resize")
  BY <1>1, <1>2, <1>3 DEF IInv, AnchorHolds, Resizing
<1>4. CASE grab # Nothing /\ grab.kind = "resize"
  <2> DEFINE v == grab.window
  <2>1. /\ v \in Window
        /\ resize[v] = [state |-> "resizing", edge |-> grab.edge, initial |-> grab.initial]
    BY <1>4 DEF IInv, IsDrag, Resizing
  <2>2. /\ resize[v].state = "resizing" /\ resize[v].edge = grab.edge
        /\ resize[v].initial = grab.initial /\ resize[v] # Nothing
    <3>1. grab.edge \in {"left", "right"} /\ grab.initial \in Rect
      BY <1>4 DEF IInv, IsDrag
    <3>2. resize[v] \in Resize
      BY <2>1, <3>1 DEF Resize
    <3> HIDE DEF v
    <3> QED
      BY <2>1, <3>2, NothingAssumption
  <2>3. resize'[v] = resize[v]
    BY <1>1, <2>1, <2>2
  <2>4. Resizing'
    BY <1>2, <2>1, <2>3 DEF Resizing
  <2>5. ASSUME grab.edge = "left", v \in DOMAIN place'
        PROVE  \/ place'[v] + size'[v] = grab.initial.loc + grab.initial.size
               \/ last_configured[v] # Nothing /\ place'[v] = last_configured[v].loc
    <3>1. \/ place[v] + size[v] = grab.initial.loc + grab.initial.size
          \/ last_configured[v] # Nothing /\ place[v] = last_configured[v].loc
      BY <1>1, <1>4, <2>5 DEF IInv, AnchorHolds
    <3>2. CASE v = w
      BY <1>1, <2>2, <2>5, <3>2
    <3>3. CASE v # w
      BY <1>1, <2>1, <2>5, <3>1, <3>3
    <3> QED
      BY <3>2, <3>3
  <2>6. AnchorHolds'
    BY <1>2, <2>5 DEF AnchorHolds
  <2> QED
    BY <1>1, <1>2, <2>4, <2>6 DEF IInv
<1> QED
  BY <1>3, <1>4

\* A request to be moved ends what the grab of the press did before.
LEMMA MoveRequestKeeps ==
  ASSUME IInv, NEW w \in Window, move_request(w)
  PROVE  IInv'
<1>1. TypeOK' /\ IsDrag(grab') /\ grab'.kind = "move"
  BY MoveRequestType DEF IInv
<1>2. AnchorHolds' /\ Resizing'
  BY <1>1 DEF AnchorHolds, Resizing
<1> QED
  BY <1>1, <1>2 DEF IInv

\* A resize starts from where the window is.
LEMMA ResizeRequestKeeps ==
  ASSUME IInv, NEW w \in Window, NEW edge \in {"left", "right"}, resize_request(w, edge)
  PROVE  IInv'
<1>1. /\ TypeOK' /\ IsDrag(grab')
      /\ grab' # Nothing /\ grab'.kind = "resize" /\ grab'.window = w
      /\ grab'.edge = edge /\ grab'.initial = RectOf(w, place)
      /\ place' = place /\ size' = size
      /\ resize'[w] = [state |-> "resizing", edge |-> edge, initial |-> RectOf(w, place)]
  BY ResizeRequestType DEF IInv
<1>2. place'[w] + size'[w] = grab'.initial.loc + grab'.initial.size
  BY <1>1 DEF RectOf
<1> QED
  BY <1>1, <1>2 DEF IInv, AnchorHolds, Resizing

\* At the start nothing is on the screen, and nobody holds anything.
LEMMA InitInv ==
  ASSUME Init
  PROVE  IInv
<1>1. Heads * Width \in Nat /\ MaxAsked \in Nat /\ BornWith \in 1..MaxSize
  BY PointerAssumption
<1>2. <<>> \in Orders(DOMAIN <<>>) /\ DOMAIN <<>> = {}
  <2>1. DOMAIN <<>> = {} /\ Cardinality({}) = 0
    BY FS_EmptySet
  <2> QED
    BY <2>1 DEF Orders
<1>3. TypeOK
  BY <1>1, <1>2 DEF Init, TypeOK, Points
<1>4. IsDrag(grab) /\ Resizing /\ AnchorHolds
  BY DEF Init, IsDrag, Resizing, AnchorHolds
<1> QED
  BY <1>3, <1>4 DEF IInv

\* Every step keeps the invariant.
LEMMA StepKeepsInv ==
  ASSUME IInv, [Next]_vars
  PROVE  IInv'
<1>1. CASE \E x \in Points, arms \in BOOLEAN : MovedTo(x, surface_under(x), arms)
  BY <1>1, MovedToKeeps
<1>2. CASE Press \/ Release
  BY <1>2, PressKeeps, ReleaseKeeps
<1>3. CASE \E l \in Layouts : LayoutPass(l)
  BY <1>3, LayoutPassKeeps
<1>4. CASE \E w \in Window : handle_commit(w) \/ move_request(w)
  BY <1>4, HandleCommitKeeps, MoveRequestKeeps
<1>5. CASE \E w \in Window : ConstraintRequest(w)
  BY <1>5, ConstraintRequestType, NoneMoves DEF IInv
<1>6. CASE \E w \in Window, edge \in {"left", "right"} : resize_request(w, edge)
  BY <1>6, ResizeRequestKeeps
<1>7. CASE ToggleFollows \/ UNCHANGED vars
  BY <1>7, SettingsType, NoneMoves DEF IInv
<1> QED
  BY <1>1, <1>2, <1>3, <1>4, <1>5, <1>6, <1>7, Steps DEF IInv

\* The invariant holds throughout.
THEOREM Invariance == Spec => []IInv
<1>1. Init => IInv
  BY InitInv
<1>2. IInv /\ [Next]_vars => IInv'
  BY StepKeepsInv
<1> QED
  BY <1>1, <1>2, PTL DEF Spec

\* Every part of the state keeps its kind: the cursor never leaves the screen, the
\* windows that are mapped are the ones that are stacked, each once, and no client
\* is left behind by more than it may be.
THEOREM TypeCorrect == Spec => []TypeOK
<1>1. IInv => TypeOK
  BY DEF IInv
<1> QED
  BY <1>1, Invariance, PTL

\* A window that is resized by its left edge keeps the right one, however far its
\* client is behind, whatever layouts and commits come in between, and whatever its
\* client asked of the same press before.
THEOREM AnchorAlwaysHolds == Spec => []AnchorHolds
<1>1. IInv => AnchorHolds
  BY DEF IInv
<1> QED
  BY <1>1, Invariance, PTL

----------------------------------------------------------------------------
(* The lock *)

\* What is let go or left is not in force, and what is kept is as it was.
LEMMA DeactivatedOnly ==
  ASSUME NEW c \in Constraints, NEW S, NEW w \in Window
  PROVE  /\ w \in S => ~Active(Deactivated(c, S), w)
         /\ w \notin S => Deactivated(c, S)[w] = c[w]
         /\ Active(Deactivated(c, S), w) => Active(c, w)
<1>1. Deactivated(c, S)[w] =
        IF w \in S /\ c[w] # Nothing THEN [c[w] EXCEPT !.active = FALSE] ELSE c[w]
  BY DEF Deactivated
<1>2. c[w] # Nothing => [c[w] EXCEPT !.active = FALSE].active = FALSE
  BY DEF Constraints, Constraint
<1> QED
  BY <1>1, <1>2 DEF Active

\* After a chord or an activation that gives w the keyboard: no constraint but w's
\* own is in force, and if the cursor has moved then w's was not.
LEMMA FocusPass ==
  ASSUME TypeOK, NEW l \in Layouts, NEW w \in Window, Chord(w, l) \/ Activate(w, l)
  PROVE  /\ keyboard' = w /\ w \in DOMAIN place'
         /\ \A v \in Window \ {w} : ~Active(constraint', v)
         /\ cursor' # cursor => ~Active(constraint, w)
         /\ w # keyboard => \/ Warps(w, Released(constraint, w)) /\ Covers(RectOf(w, place'), cursor')
                            \/ ~Warps(w, Released(constraint, w)) /\ cursor' = cursor
<1> DEFINE c == Released(constraint, w)
<1>1. w # Nothing
  BY NothingAssumption
<1>2. /\ keyboard' = w /\ w \in DOMAIN l /\ Laid(l, w)
      /\ \E called \in BOOLEAN : Warped(w, called, c) /\ (w # keyboard => called)
  BY <1>1 DEF Chord, Activate
<1>3. IsPlace(place') /\ DOMAIN place' = DOMAIN l /\ stack' \in Orders(DOMAIN place')
  BY <1>2, LaidType
<1>4. c \in Constraints /\ constraint \in Constraints
  BY TypeFacts, ReleasedType
<1>5. /\ \A v \in Window \ {w} : ~Active(c, v)
      /\ Active(c, w) <=> Active(constraint, w)
  BY <1>4, DeactivatedOnly DEF Released, Active
<1> HIDE DEF c
<1>6. PICK called \in BOOLEAN : Warped(w, called, c) /\ (w # keyboard => called)
  BY <1>2
<1>7. /\ called /\ Warps(w, c) => Covers(RectOf(w, place'), cursor')
      /\ ~(called /\ Warps(w, c)) => cursor' = cursor
  BY <1>3, <1>4, <1>6, WarpedType
<1>8. \A v \in Window \ {w} : ~Active(constraint', v)
  <2>1. CASE called /\ Warps(w, c)
    <3>1. PICK under : constraint' = Leaving(c, under)
      BY <1>6, <2>1 DEF Warped
    <3> QED
      BY <1>4, <1>5, <3>1, DeactivatedOnly DEF Leaving
  <2>2. CASE ~(called /\ Warps(w, c))
    BY <1>5, <1>6, <2>2 DEF Warped
  <2> QED
    BY <2>1, <2>2
<1>9. Warps(w, c) => ~Active(constraint, w)
  BY <1>5 DEF Warps
<1> QED
  BY <1>2, <1>3, <1>6, <1>7, <1>8, <1>9 DEF c

\* What moves the cursor, where a window's lock holds it.
LEMMA LockStep ==
  ASSUME TypeOK, Next, NEW w \in Window, Holds(w), constraint[w].kind = "locked",
         keyboard = w, cursor' # cursor
  PROVE  \/ ~Active(constraint', w) \/ keyboard' # w
         \/ \E x \in Points : PointerMotionAbsolute(x)
         \/ \E v \in Window \ {w} : RemoveConstraint(v)
<1>1. Active(constraint, w) /\ w \in DOMAIN place
  <2>1. surface_under(cursor) = w /\ w # Nothing
    BY NothingAssumption DEF Holds
  <2> QED
    BY <2>1, TypeFacts DEF Holds
<1>2. ASSUME NEW d \in Deltas, PointerMotion(d) PROVE FALSE
  BY <1>1, <1>2 DEF PointerMotion
<1>3. CASE Press \/ Release \/ ToggleFollows
  BY <1>3 DEF Press, Release, ToggleFollows
<1>4. ASSUME NEW v \in Window, NEW l \in Layouts, Activate(v, l) \/ Chord(v, l) PROVE keyboard' # w
  BY <1>1, <1>4, FocusPass
<1>5. ASSUME NEW l \in Layouts, Chord(Nothing, l) PROVE keyboard' # w
  BY <1>5, NothingAssumption DEF Chord
<1>6. ASSUME NEW l \in Layouts, Rearrange(l) \/ Relayout(l) PROVE FALSE
  <2>1. Rearrange(l)
    BY <1>6 DEF Relayout
  <2>2. ~Warps(w, constraint)
    BY <1>1 DEF Warps
  <2> QED
    BY <2>1, <2>2 DEF Rearrange, Warped
<1>7. ASSUME NEW v \in Window,
             \/ handle_commit(v)
             \/ \E kind \in {"locked", "confined"}, region \in Regions : NewConstraint(v, kind, region)
             \/ \E location \in Hints : CursorPositionHint(v, location)
             \/ move_request(v)
             \/ \E edge \in {"left", "right"} : resize_request(v, edge)
      PROVE  FALSE
  BY <1>7 DEF handle_commit, NewConstraint, CursorPositionHint, move_request, resize_request, Grabs
<1>8. ASSUME RemoveConstraint(w) PROVE ~Active(constraint', w)
  BY <1>8 DEF RemoveConstraint, Active, TypeOK
<1> QED
  BY <1>2, <1>3, <1>4, <1>5, <1>6, <1>7, <1>8 DEF Next

\* A window that holds a pointer lock and the keyboard keeps the cursor where it is
\* through every motion, chord, layout, activation, drag and commit: only an absolute
\* device or the hint of another client takes it away while both last.
THEOREM LockAlwaysHolds == Spec => LockHolds
<1>1. ASSUME TypeOK, [Next]_vars
      PROVE  [\A w \in Window :
                Holds(w) /\ constraint[w].kind = "locked" /\ keyboard = w /\ cursor' # cursor =>
                  \/ ~Active(constraint', w) \/ keyboard' # w
                  \/ \E x \in Points : PointerMotionAbsolute(x)
                  \/ \E v \in Window \ {w} : RemoveConstraint(v)]_vars
  BY <1>1, LockStep DEF vars
<1> QED
  BY <1>1, TypeCorrect, PTL DEF Spec, LockHolds

----------------------------------------------------------------------------
(* The pointer and the focus *)

\* A hover gives the keyboard to what the cursor is on, and takes every other
\* constraint out of force.
LEMMA HoverLands ==
  ASSUME TypeOK, NEW x \in Points, NEW arms, MovedTo(x, surface_under(x), arms),
         NEW w \in Window, keyboard # w, keyboard' = w, grab = Nothing
  PROVE  /\ \A v \in Window \ {w} : ~Active(constraint', v)
         /\ Covers(RectOf(w, place'), cursor')
<1> DEFINE under == surface_under(x)
           left == Leaving(constraint, FocusOf(under))
<1>1. Hovers(under) /\ under = w /\ w # Nothing
  BY NothingAssumption DEF MovedTo
<1>2. left \in Constraints
  BY TypeFacts, LeavingType
<1> DEFINE kept == Released(left, w)
<1>3. /\ kept \in Constraints
      /\ constraint' = kept \/ (kept[w] # Nothing /\ constraint' = Activated(kept, w))
  BY <1>1, <1>2, ReleasedType DEF MovedTo
<1>4. \A v \in Window \ {w} : ~Active(kept, v)
  BY <1>2, DeactivatedOnly DEF Released
<1>5. \A v \in Window \ {w} : constraint'[v] = kept[v]
  <2> HIDE DEF kept
  <2> QED
    BY <1>3 DEF Activated, Constraints
<1>6. \A v \in Window \ {w} : ~Active(constraint', v)
  BY <1>4, <1>5 DEF Active
<1>7. cursor' = x /\ place' = place
  BY DEF MovedTo, Dragged
<1>8. Covers(RectOf(w, place), x)
  BY <1>1, TypeFacts, UnderCovers DEF surface_under
<1> QED
  BY <1>6, <1>7, <1>8

\* Every step that hands the keyboard over without a grab.
LEMMA FocusStep ==
  ASSUME TypeOK, Next, NEW w \in Window, keyboard # w, keyboard' = w,
         grab = Nothing, grab' = Nothing
  PROVE  /\ \A v \in Window \ {w} : ~Active(constraint', v)
         /\ mouse_follows_focus =>
              \/ Covers(RectOf(w, place'), cursor')
              \/ Active(constraint, w) /\ cursor' = cursor
              \/ \A h \in 1..Heads : Visible(RectOf(w, place'))[h] = {}
<1> DEFINE Lands ==
      /\ \A v \in Window \ {w} : ~Active(constraint', v)
      /\ mouse_follows_focus =>
           \/ Covers(RectOf(w, place'), cursor')
           \/ Active(constraint, w) /\ cursor' = cursor
           \/ \A h \in 1..Heads : Visible(RectOf(w, place'))[h] = {}
<1>1. CASE (\E d \in Deltas : PointerMotion(d)) \/ (\E x \in Points : PointerMotionAbsolute(x))
  BY <1>1, MotionIsMovedTo, HoverLands
<1>2. CASE Press
  <2>1. Rest \in Grab
    BY PointerAssumption DEF Rest, Grab, TypeOK
  <2> QED
    BY <1>2, <2>1, NothingAssumption DEF Press
<1>3. CASE Release \/ ToggleFollows
  BY <1>3 DEF Release, ToggleFollows
<1>4. ASSUME NEW v \in Window \cup {Nothing}, NEW l \in Layouts, Activate(v, l) \/ Chord(v, l)
      PROVE  Lands
  <2>1. v = w /\ w # Nothing
    BY <1>4, NothingAssumption DEF Activate, Chord
  <2>2. /\ w \in DOMAIN place'
        /\ \A u \in Window \ {w} : ~Active(constraint', u)
        /\ \/ Warps(w, Released(constraint, w)) /\ Covers(RectOf(w, place'), cursor')
           \/ ~Warps(w, Released(constraint, w)) /\ cursor' = cursor
    BY <1>4, <2>1, FocusPass
  <2>3. Active(Released(constraint, w), w) => Active(constraint, w)
    BY TypeFacts, DeactivatedOnly DEF Released
  <2> QED
    BY <2>2, <2>3 DEF Warps
<1>5. ASSUME NEW l \in Layouts, Rearrange(l) \/ Relayout(l) PROVE FALSE
  BY <1>5 DEF Rearrange, Relayout
<1>6. ASSUME NEW v \in Window,
             \/ handle_commit(v) \/ RemoveConstraint(v)
             \/ \E kind \in {"locked", "confined"}, region \in Regions : NewConstraint(v, kind, region)
             \/ \E location \in Hints : CursorPositionHint(v, location)
             \/ move_request(v)
             \/ \E edge \in {"left", "right"} : resize_request(v, edge)
      PROVE  FALSE
  BY <1>6 DEF handle_commit, RemoveConstraint, NewConstraint, CursorPositionHint, move_request,
              resize_request, Grabs
<1> QED
  BY <1>1, <1>2, <1>3, <1>4, <1>5, <1>6 DEF Next

\* Wherever the keyboard goes without a grab, no other window is left with a
\* constraint in force, and the cursor is with the window that has it, but for that
\* window's own lock and for one that no head shows.
THEOREM PointerLandsOnFocus == Spec => LandsOnFocus
<1>1. ASSUME TypeOK, [Next]_vars
      PROVE  [\A w \in Window :
                keyboard # w /\ keyboard' = w /\ grab = Nothing /\ grab' = Nothing =>
                  /\ \A v \in Window \ {w} : ~Active(constraint', v)
                  /\ mouse_follows_focus =>
                       \/ Covers(RectOf(w, place'), cursor')
                       \/ Active(constraint, w) /\ cursor' = cursor
                       \/ \A h \in 1..Heads : Visible(RectOf(w, place'))[h] = {}]_vars
  BY <1>1, FocusStep DEF vars
<1> QED
  BY <1>1, TypeCorrect, PTL DEF Spec, LandsOnFocus
=============================================================================
