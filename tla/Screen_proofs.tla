--------------------------- MODULE Screen_proofs ---------------------------
(***************************************************************************)
(* Proofs about Screen: whatever is cut short, the Space and the tweens    *)
(* together stand for the last layout asked for, hence Screen implements   *)
(* Showing.                                                                *)
(***************************************************************************)
EXTENDS Screen, TLAPS

Kinds == {"Enter", "Leave", "Move"}

\* The bookkeeping the last two conjuncts rest on: only tracked windows are in
\* the Space, and a fresh id is in none of the maps.
Tidy ==
  /\ DOMAIN space \subseteq windows
  /\ DOMAIN space \subseteq DOMAIN told
  /\ DOMAIN animations \subseteq DOMAIN told
  /\ DOMAIN last_configured \subseteq DOMAIN told
  /\ \A w \in DOMAIN animations : animations[w].kind \in Kinds

IInv == Tidy /\ DrawnOnce /\ intended = Settled

\* A layout is a function that gives rects to tracked windows (apply_layout's
\* targets).
LEMMA LayoutShape ==
  ASSUME NEW targets \in Layouts(windows)
  PROVE  /\ DOMAIN targets \subseteq windows
         /\ targets = [w \in DOMAIN targets |-> targets[w]]
         /\ targets \in Promise!Layouts(windows)
BY DEF Layouts, Promise!Layouts

\* The snap path keeps the invariant: it drops every tween and fills the Space
\* with the layout itself.
LEMMA SnapKeeps ==
  ASSUME IInv, NEW targets \in Layouts(windows), Snap(targets)
  PROVE  IInv'
<1> USE DEF Tweened
<1>1. /\ windows' = windows /\ space' = targets /\ intended' = targets
      /\ DOMAIN animations' = {}
  BY DEF Snap, Nothing
<1>2. DOMAIN targets \subseteq windows /\ targets = [w \in DOMAIN targets |-> targets[w]]
  BY LayoutShape
<1>3. Tidy'
  <2>1. DOMAIN last_configured' \subseteq DOMAIN told'
    BY DEF Snap, Over, IInv, Tidy
  <2>2. DOMAIN targets \subseteq DOMAIN told'
    BY DEF Snap, Over, IInv, Tidy
  <2> QED BY <1>1, <1>2, <2>1, <2>2 DEF Tidy
<1>4. DrawnOnce'
  BY <1>1 DEF DrawnOnce
<1>5. Settled' = [w \in DOMAIN targets |-> targets[w]]
  BY <1>1 DEF Settled
<1> QED BY <1>1, <1>2, <1>3, <1>4, <1>5 DEF IInv

\* The animated path keeps it: what the plan leaves is what the layout lacks,
\* and the rest of the plan ends where the layout says.
LEMMA AnimateKeeps ==
  ASSUME IInv, NEW targets \in Layouts(windows), NEW transition,
         Animate(targets, transition)
  PROVE  IInv'
<1> DEFINE plan == PlanTransition(targets, transition)
<1>1. DOMAIN targets \subseteq windows /\ targets = [w \in DOMAIN targets |-> targets[w]]
  BY LayoutShape
<1>2. /\ DOMAIN Settled \subseteq windows
      /\ DOMAIN Settled \subseteq DOMAIN told
  BY DEF IInv, Tidy, Settled, Tweened
<1>3. /\ windows' = windows /\ intended' = targets /\ animations' = plan
      /\ last_configured' = last_configured
      /\ DOMAIN told' = DOMAIN told \cup DOMAIN targets
      /\ space' = [w \in {v \in DOMAIN plan : ~plan[v].scale} |->
                     IF plan[w].kind = "Leave" THEN Settled[w] ELSE Flying]
  BY DEF Animate, Over
<1>4. /\ DOMAIN plan = DOMAIN targets \cup DOMAIN Settled
      /\ \A w \in DOMAIN plan :
           /\ plan[w].kind \in Kinds
           /\ plan[w].kind = "Leave" <=> w \notin DOMAIN targets
           /\ w \in DOMAIN targets => plan[w].to = targets[w]
  BY DEF PlanTransition, Kinds
<1> HIDE DEF plan
<1>5. DOMAIN space' = {v \in DOMAIN plan : ~plan[v].scale}
  BY <1>3
<1>6. Tidy'
  BY <1>1, <1>2, <1>3, <1>4, <1>5 DEF IInv, Tidy
<1>7. DrawnOnce'
  BY <1>3, <1>5 DEF DrawnOnce
<1>8. /\ Tweened({"Leave"})' = DOMAIN plan \ DOMAIN targets
      /\ Tweened({"Enter", "Move"})' = DOMAIN targets
  BY <1>1, <1>2, <1>3, <1>4 DEF Tweened, Kinds
<1>9. Settled' = [w \in DOMAIN targets |-> targets[w]]
  <2>1. (DOMAIN space' \ Tweened({"Leave"})') \cup Tweened({"Enter", "Move"})'
          = DOMAIN targets
    BY <1>5, <1>8
  <2>2. Settled' = [w \in DOMAIN targets |->
                      IF w \in DOMAIN targets THEN animations'[w].to ELSE space'[w]]
    BY <1>8, <2>1 DEF Settled
  <2> QED BY <1>3, <1>4, <2>2
<1> QED BY <1>1, <1>3, <1>6, <1>7, <1>9 DEF IInv

\* Settling early keeps it (the bail-out, and the end of an animation).
LEMMA SettlingKeeps ==
  ASSUME IInv, space' = Settled, animations' = Nothing,
         UNCHANGED <<windows, last_configured, told, intended>>
  PROVE  IInv'
<1>1. DOMAIN animations' = {} /\ Tweened({"Leave"})' = {} /\ Tweened({"Enter", "Move"})' = {}
  BY DEF Nothing, Tweened
<1>2. DOMAIN Settled \subseteq windows /\ DOMAIN Settled \subseteq DOMAIN told
  BY DEF IInv, Tidy, Settled, Tweened
<1>3. Tidy' /\ DrawnOnce'
  BY <1>1, <1>2 DEF IInv, Tidy, DrawnOnce
<1>4. Settled' = [w \in DOMAIN Settled |-> Settled[w]]
  BY <1>1 DEF Settled
<1>5. Settled = [w \in DOMAIN Settled |-> Settled[w]]
  BY DEF Settled
<1> QED BY <1>3, <1>4, <1>5 DEF IInv

\* A frame keeps it: it moves windows about, and no tween's end.
LEMMA FrameKeeps ==
  ASSUME IInv, Frame
  PROVE  IInv'
<1>1. CASE age' = Duration
  BY <1>1, SettlingKeeps DEF Frame
<1>2. CASE age' # Duration
  <2> DEFINE live == DOMAIN animations \cap windows
             scaled == {w \in live : animations[w].scale}
  <2>1. /\ space' = [w \in (DOMAIN space \cup live) \ scaled |->
                       IF w \in live THEN Flying ELSE space[w]]
        /\ UNCHANGED <<animations, windows, last_configured, told, intended>>
    BY <1>2 DEF Frame
  <2>2. DOMAIN space' = (DOMAIN space \cup live) \ scaled
    BY <2>1
  <2>3. Tidy'
    BY <2>1, <2>2 DEF IInv, Tidy
  <2>4. DrawnOnce'
    BY <2>1, <2>2, <2>3 DEF IInv, Tidy, DrawnOnce
  <2>5. /\ Tweened({"Leave"})' = Tweened({"Leave"})
        /\ Tweened({"Enter", "Move"})' = Tweened({"Enter", "Move"})
        /\ Tweened({"Leave"}) \cup Tweened({"Enter", "Move"}) = live
    BY <2>1 DEF IInv, Tidy, Tweened, Kinds
  <2>6. (DOMAIN space' \ Tweened({"Leave"})) \cup Tweened({"Enter", "Move"})
          = (DOMAIN space \ Tweened({"Leave"})) \cup Tweened({"Enter", "Move"})
    BY <2>2, <2>5
  <2>7. Settled' = Settled
    <3> DEFINE rest == (DOMAIN space \ Tweened({"Leave"})) \cup Tweened({"Enter", "Move"})
    <3>1. \A w \in rest \ Tweened({"Enter", "Move"}) : space'[w] = space[w]
      BY <2>1, <2>5
    <3> QED BY <2>1, <2>5, <2>6, <3>1 DEF Settled
  <2> QED BY <2>1, <2>3, <2>4, <2>7 DEF IInv
<1> QED BY <1>1, <1>2

\* Tracking keeps it: a fresh window is in no map, so no tween takes it up.
LEMMA TrackKeeps ==
  ASSUME IInv, NEW w, Track(w)
  PROVE  IInv'
<1>1. /\ windows' = windows \cup {w} /\ w \notin DOMAIN animations
      /\ UNCHANGED <<space, animations, last_configured, told, intended>>
  BY DEF Track, Fresh, IInv, Tidy
<1>2. \A kinds : Tweened(kinds)' = Tweened(kinds)
  BY <1>1 DEF Tweened
<1>3. Settled' = Settled
  BY <1>1, <1>2 DEF Settled
<1> QED BY <1>1, <1>3 DEF IInv, Tidy, DrawnOnce

\* So does a menu, which the Space and the layout get together.
LEMMA MenuKeeps ==
  ASSUME IInv, NEW w, NEW r, Menu(w, r)
  PROVE  IInv'
<1>1. /\ windows' = windows \cup {w}
      /\ w \notin DOMAIN animations /\ w \notin DOMAIN space
      /\ UNCHANGED <<animations, last_configured>>
      /\ space' = [v \in DOMAIN space \cup {w} |-> IF v = w THEN r ELSE space[v]]
      /\ intended' = [v \in DOMAIN Settled \cup {w} |-> IF v = w THEN r ELSE Settled[v]]
      /\ DOMAIN told' = DOMAIN told \cup {w}
  <2>1. w \notin DOMAIN told
    BY DEF Menu, Fresh
  <2> QED BY <2>1 DEF Menu, Over, IInv, Tidy
<1>2. DOMAIN space' = DOMAIN space \cup {w}
  BY <1>1
<1>3. Tidy' /\ DrawnOnce'
  BY <1>1, <1>2 DEF IInv, Tidy, DrawnOnce
<1>4. /\ Tweened({"Leave"})' = Tweened({"Leave"})
      /\ Tweened({"Enter", "Move"})' = Tweened({"Enter", "Move"})
      /\ w \notin Tweened({"Leave"}) /\ w \notin Tweened({"Enter", "Move"})
  BY <1>1 DEF Tweened
<1>5. DOMAIN Settled = (DOMAIN space \ Tweened({"Leave"})) \cup Tweened({"Enter", "Move"})
  BY DEF Settled
<1>6. Settled' = [v \in DOMAIN Settled \cup {w} |-> IF v = w THEN r ELSE Settled[v]]
  <2>1. (DOMAIN space' \ Tweened({"Leave"})') \cup Tweened({"Enter", "Move"})'
          = DOMAIN Settled \cup {w}
    BY <1>2, <1>4, <1>5
  <2>2. Settled' = [v \in DOMAIN Settled \cup {w} |->
                      IF v \in Tweened({"Enter", "Move"}) THEN animations[v].to ELSE space'[v]]
    BY <1>1, <1>4, <2>1 DEF Settled
  <2>3. \A v \in DOMAIN Settled : Settled[v] = IF v \in Tweened({"Enter", "Move"})
                                              THEN animations[v].to ELSE space[v]
    BY DEF Settled
  <2>4. \A v \in DOMAIN Settled : v # w
    BY <1>1, <1>4, <1>5
  <2>5. \A v \in DOMAIN Settled \ Tweened({"Enter", "Move"}) : space'[v] = space[v]
    BY <1>1, <1>5, <2>4
  <2>6. space'[w] = r
    BY <1>1
  <2> QED BY <1>4, <2>2, <2>3, <2>4, <2>5, <2>6
<1> QED BY <1>1, <1>3, <1>6 DEF IInv

\* So does an eviction, though the window's tween runs on.
LEMMA RemoveKeeps ==
  ASSUME IInv, NEW w, Remove(w)
  PROVE  IInv'
<1>1. /\ windows' = windows \ {w}
      /\ UNCHANGED <<animations, last_configured, told>>
      /\ space' = [v \in DOMAIN space \ {w} |-> space[v]]
      /\ intended' = [v \in DOMAIN Settled \ {w} |-> Settled[v]]
  BY DEF Remove, Without, IInv
<1>2. DOMAIN space' = DOMAIN space \ {w}
  BY <1>1
<1>3. Tidy' /\ DrawnOnce'
  BY <1>1, <1>2 DEF IInv, Tidy, DrawnOnce
<1>4. /\ Tweened({"Leave"})' = Tweened({"Leave"}) \ {w}
      /\ Tweened({"Enter", "Move"})' = Tweened({"Enter", "Move"}) \ {w}
  BY <1>1 DEF Tweened
<1>5. DOMAIN Settled = (DOMAIN space \ Tweened({"Leave"})) \cup Tweened({"Enter", "Move"})
  BY DEF Settled
<1>6. Settled' = [v \in DOMAIN Settled \ {w} |-> Settled[v]]
  <2>1. (DOMAIN space' \ Tweened({"Leave"})') \cup Tweened({"Enter", "Move"})'
          = DOMAIN Settled \ {w}
    BY <1>2, <1>4, <1>5
  <2>2. Settled' = [v \in DOMAIN Settled \ {w} |->
                      IF v \in Tweened({"Enter", "Move"})' THEN animations[v].to ELSE space'[v]]
    BY <1>1, <2>1 DEF Settled
  <2>3. \A v \in DOMAIN Settled : Settled[v] = IF v \in Tweened({"Enter", "Move"})
                                              THEN animations[v].to ELSE space[v]
    BY DEF Settled
  <2>4. \A v \in DOMAIN Settled \ {w} :
           v \notin Tweened({"Enter", "Move"}) => space'[v] = space[v]
    BY <1>1, <1>5
  <2> QED BY <1>4, <2>2, <2>3, <2>4
<1> QED BY <1>1, <1>3, <1>6 DEF IInv

----------------------------------------------------------------------------

\* Nothing is on screen at first.
LEMMA InitSettled ==
  ASSUME Init
  PROVE  IInv
<1>1. /\ DOMAIN space = {} /\ DOMAIN animations = {} /\ DOMAIN last_configured = {}
      /\ intended = Nothing
  BY DEF Init, Nothing
<1>2. Tweened({"Leave"}) = {} /\ Tweened({"Enter", "Move"}) = {}
  BY <1>1 DEF Tweened
<1>3. Settled = Nothing
  BY <1>1, <1>2 DEF Settled, Nothing
<1> QED BY <1>1, <1>3 DEF IInv, Tidy, DrawnOnce

\* Every step keeps the invariant: one case per action of Screen.
LEMMA StepKeeps ==
  ASSUME IInv, [Next]_vars
  PROVE  IInv'
<1>1. CASE UNCHANGED vars
  BY <1>1 DEF vars, IInv, Tidy, DrawnOnce, Settled, Tweened
<1>2. ASSUME NEW targets \in Layouts(windows), Snap(targets)
      PROVE  IInv'
  BY <1>2, SnapKeeps
<1>3. ASSUME NEW targets \in Layouts(windows), NEW transition \in Transitions,
             Animate(targets, transition)
      PROVE  IInv'
  BY <1>3, AnimateKeeps
<1>4. CASE Bail
  BY <1>4, SettlingKeeps DEF Bail
<1>5. CASE Frame
  BY <1>5, FrameKeeps
<1>6. ASSUME NEW w \in Windows, Track(w)
      PROVE  IInv'
  BY <1>6, TrackKeeps
<1>7. ASSUME NEW w \in Windows, Remove(w)
      PROVE  IInv'
  BY <1>7, RemoveKeeps
<1>8. ASSUME NEW w \in Windows, NEW r \in Rects, Menu(w, r)
      PROVE  IInv'
  BY <1>8, MenuKeeps
<1> QED BY <1>1, <1>2, <1>3, <1>4, <1>5, <1>6, <1>7, <1>8 DEF Next

\* At every moment the Space and the tweens stand for the last layout asked
\* for (settle_tweens would put exactly it on the screen).
THEOREM Settles == Spec => []IInv
<1>1. Init => IInv
  BY InitSettled
<1>2. IInv /\ [Next]_vars => IInv'
  BY StepKeeps
<1> QED BY <1>1, <1>2, PTL DEF Spec

\* The pointer is warped home: settled_window_location is where the last
\* layout wants the window, in the middle of a flight as well.
THEOREM PointerWarpsHome == Spec => []WarpsHome
<1>1. IInv => WarpsHome
  <2> SUFFICES ASSUME IInv, NEW w \in DOMAIN intended
               PROVE  SettledLocation(w) = intended[w]
    BY DEF WarpsHome
  <2>1. /\ DOMAIN Settled = (DOMAIN space \ Tweened({"Leave"})) \cup Tweened({"Enter", "Move"})
        /\ w \in DOMAIN Settled
        /\ intended[w] = IF w \in Tweened({"Enter", "Move"})
                         THEN animations[w].to ELSE space[w]
    BY DEF IInv, Settled
  <2>2. w \in DOMAIN animations => w \in Tweened({"Enter", "Move"})
    BY <2>1 DEF IInv, Tidy, Tweened, Kinds
  <2>3. w \in Tweened({"Enter", "Move"}) => w \in DOMAIN animations
    BY DEF Tweened
  <2> QED BY <2>1, <2>2, <2>3 DEF SettledLocation
<1> QED BY <1>1, Settles, PTL

\* A window drawn to scale is never drawn by the Space too (step_animations,
\* apply_layout).
THEOREM ScaledDrawnOnce == Spec => []DrawnOnce
<1>1. IInv => DrawnOnce
  BY DEF IInv
<1> QED BY <1>1, Settles, PTL

\* A step of Screen is a step of Showing, or changes nothing Showing sees.
LEMMA StepSimulates ==
  ASSUME IInv, IInv', [Next]_vars
  PROVE  [Promise!Next]_(Promise!vars)
<1>0. intended = Settled /\ intended' = Settled'
  BY DEF IInv
<1>1. CASE UNCHANGED vars
  BY <1>0, <1>1 DEF vars, Promise!vars
<1>2. ASSUME NEW targets \in Layouts(windows),
             Snap(targets) \/ \E transition \in Transitions : Animate(targets, transition)
      PROVE  Promise!Next
  <2>1. windows' = windows /\ Settled' = targets /\ targets \in Promise!Layouts(windows)
    BY <1>0, <1>2, LayoutShape DEF Snap, Animate
  <2> QED BY <2>1 DEF Promise!Next, Promise!Layout
<1>3. CASE Bail \/ Frame
  BY <1>0, <1>3 DEF Bail, Frame, Promise!vars
<1>4. ASSUME NEW w \in Windows, Track(w)
      PROVE  Promise!Next
  BY <1>0, <1>4 DEF Track, Promise!Next, Promise!Track
<1>5. ASSUME NEW w \in Windows, Remove(w)
      PROVE  Promise!Next
  BY <1>0, <1>5 DEF Remove, Without, Promise!Next, Promise!Remove, Promise!Without
<1>6. ASSUME NEW w \in Windows, NEW r \in Rects, Menu(w, r)
      PROVE  Promise!Next
  <2>1. /\ windows' = windows \cup {w}
        /\ Settled' = [v \in DOMAIN Settled \cup {w} |-> IF v = w THEN r ELSE Settled[v]]
    BY <1>0, <1>6 DEF Menu, Over
  <2> QED BY <2>1 DEF Promise!Next, Promise!Menu
<1> QED BY <1>1, <1>2, <1>3, <1>4, <1>5, <1>6 DEF Next

\* Screen implements Showing: animated or not, cut short or not, a layout is
\* in force as soon as apply_layout returns.
THEOREM Implements == Spec => ShowingSpec
<1>1. Init => Promise!Init
  <2> SUFFICES ASSUME Init PROVE Promise!Init
    OBVIOUS
  <2>1. intended = Settled
    BY InitSettled DEF IInv
  <2> QED BY <2>1 DEF Init, Nothing, Promise!Init
<1>2. IInv /\ IInv' /\ [Next]_vars => [Promise!Next]_(Promise!vars)
  BY StepSimulates
<1> QED BY <1>1, <1>2, Settles, PTL DEF Spec, ShowingSpec, Promise!Spec

----------------------------------------------------------------------------
(* What the clients are told, and types *)

\* A configure is lost in one way only: last_configured believes it was sent
\* (apply_layout, direct and animated).
THEOREM LostOneWay == Spec => []ToldOrBelieved
<1>1. Init => ToldOrBelieved
  BY DEF Init, Nothing, ToldOrBelieved
<1>2. IInv /\ ToldOrBelieved /\ [Next]_vars => ToldOrBelieved'
  <2> SUFFICES ASSUME IInv, ToldOrBelieved, [Next]_vars
               PROVE  ToldOrBelieved'
    OBVIOUS
  <2> USE DEF ToldOrBelieved
  <2>1. ASSUME NEW targets \in Layouts(windows), Snap(targets)
        PROVE  ToldOrBelieved'
    <3> DEFINE due == {w \in DOMAIN targets :
                         ~(w \in DOMAIN last_configured /\ last_configured[w] = targets[w])}
    <3>1. /\ intended' = targets
          /\ \A w \in due : told'[w] = targets[w] /\ w \in DOMAIN told'
          /\ \A w \in DOMAIN last_configured \ due :
               w \in DOMAIN last_configured' /\ last_configured'[w] = last_configured[w]
      BY <2>1 DEF Snap, Over
    <3>2. \A w \in DOMAIN targets \ due :
            w \in DOMAIN last_configured /\ last_configured[w] = targets[w]
      OBVIOUS
    <3> QED BY <3>1, <3>2
  <2>2. ASSUME NEW targets \in Layouts(windows), NEW transition \in Transitions,
               Animate(targets, transition)
        PROVE  ToldOrBelieved'
    BY <2>2 DEF Animate, Over
  <2>3. CASE Bail \/ Frame
    BY <2>3 DEF Bail, Frame
  <2>4. ASSUME NEW w \in Windows, Track(w)
        PROVE  ToldOrBelieved'
    BY <2>4 DEF Track
  <2>5. ASSUME NEW w \in Windows, Remove(w)
        PROVE  ToldOrBelieved'
    BY <2>5 DEF Remove, Without
  <2>6. ASSUME NEW w \in Windows, NEW r \in Rects, Menu(w, r)
        PROVE  ToldOrBelieved'
    <3>1. DOMAIN intended \subseteq DOMAIN told
      BY DEF IInv, Tidy, Settled, Tweened
    <3> QED BY <2>6, <3>1 DEF Menu, Over
  <2>7. CASE UNCHANGED vars
    BY <2>7 DEF vars
  <2> QED BY <2>1, <2>2, <2>3, <2>4, <2>5, <2>6, <2>7 DEF Next
<1> QED BY <1>1, <1>2, Settles, PTL DEF Spec

\* Spec keeps the types: what the Space holds is where a layout or a menu put
\* it, or in flight.
THEOREM TypeCorrect == Spec => []TypeOK
<1>1. Init => TypeOK
  BY ScreenAssumption DEF Init, Nothing, TypeOK, Layouts
<1>2. IInv /\ IInv' /\ TypeOK /\ [Next]_vars => TypeOK'
  <2> SUFFICES ASSUME IInv, IInv', TypeOK, [Next]_vars
               PROVE  TypeOK'
    OBVIOUS
  <2>0. DOMAIN space' \subseteq windows'
    BY DEF IInv, Tidy
  <2>1. \A w \in DOMAIN Settled : Settled[w] \in Rects \cup {Flying}
    BY DEF TypeOK, Tween, Settled, Tweened
  <2>2. ASSUME NEW targets \in Layouts(windows), Snap(targets)
        PROVE  TypeOK'
    <3>1. \A w \in DOMAIN targets : targets[w] \in Rects
      BY DEF Layouts
    <3>2. targets \in Layouts(windows) /\ DOMAIN targets \subseteq windows
      BY LayoutShape
    <3>3. /\ windows' = windows /\ space' = targets /\ intended' = targets /\ age' = 0
          /\ DOMAIN animations' = {}
      BY <2>2 DEF Snap, Nothing
    <3>4. DOMAIN last_configured' \cup DOMAIN told' \subseteq Windows
      BY <2>2, <3>2 DEF Snap, Over, TypeOK
    <3> QED BY <2>0, <3>1, <3>2, <3>3, <3>4, ScreenAssumption DEF TypeOK
  <2>3. ASSUME NEW targets \in Layouts(windows), NEW transition \in Transitions,
               Animate(targets, transition)
        PROVE  TypeOK'
    <3> DEFINE plan == PlanTransition(targets, transition)
    <3>1. \A w \in DOMAIN targets : targets[w] \in Rects
      BY DEF Layouts
    <3>2. DOMAIN targets \subseteq windows /\ DOMAIN Settled \subseteq Windows
      BY LayoutShape DEF TypeOK, Settled, Tweened
    <3>3. DOMAIN plan \subseteq Windows /\ \A w \in DOMAIN plan : plan[w] \in Tween
      BY <3>1, <3>2 DEF PlanTransition, Tween, TypeOK
    <3>4. /\ windows' = windows /\ intended' = targets /\ age' = 0 /\ animations' = plan
          /\ last_configured' = last_configured
          /\ space' = [w \in {v \in DOMAIN plan : ~plan[v].scale} |->
                         IF plan[w].kind = "Leave" THEN Settled[w] ELSE Flying]
      BY <2>3 DEF Animate
    <3>5. \A w \in DOMAIN plan : plan[w].kind = "Leave" => w \in DOMAIN Settled
      BY DEF PlanTransition
    <3>6. \A w \in DOMAIN space' : space'[w] \in Rects \cup {Flying}
      <4> HIDE DEF plan
      <4> QED BY <2>1, <3>4, <3>5
    <3>7. DOMAIN told' \subseteq Windows
      BY <2>3, <3>2 DEF Animate, Over, TypeOK
    <3> HIDE DEF plan
    <3> QED BY <2>0, <3>3, <3>4, <3>6, <3>7, ScreenAssumption DEF TypeOK
  <2>4. CASE Bail
    BY <2>0, <2>1, <2>4, ScreenAssumption DEF Bail, Nothing, TypeOK
  <2>5. CASE Frame
    <3>1. age' \in 0..Duration
      BY <2>5, ScreenAssumption DEF Frame, TypeOK
    <3>2. animations' = animations \/ animations' = Nothing
      BY <2>5 DEF Frame
    <3>3. \A w \in DOMAIN space' : space'[w] \in Rects \cup {Flying}
      BY <2>1, <2>5 DEF Frame, TypeOK
    <3> QED BY <2>0, <2>5, <3>1, <3>2, <3>3 DEF Frame, Nothing, TypeOK
  <2>6. ASSUME NEW w \in Windows, Track(w)
        PROVE  TypeOK'
    <3>1. intended \in Layouts(windows')
      BY <2>6 DEF Track, TypeOK, Layouts
    <3> QED BY <2>0, <2>6, <3>1 DEF Track, TypeOK
  <2>7. ASSUME NEW w \in Windows, Remove(w)
        PROVE  TypeOK'
    <3>1. intended' \in Layouts(windows')
      BY <2>7 DEF Remove, Without, TypeOK, Layouts
    <3> QED BY <2>0, <2>7, <3>1 DEF Remove, Without, TypeOK
  <2>8. ASSUME NEW w \in Windows, NEW r \in Rects, Menu(w, r)
        PROVE  TypeOK'
    <3>1. intended' \in Layouts(windows')
      BY <2>8 DEF Menu, Over, TypeOK, Layouts
    <3> QED BY <2>0, <2>8, <3>1 DEF Menu, Over, TypeOK
  <2>9. CASE UNCHANGED vars
    BY <2>9 DEF vars, TypeOK, Layouts
  <2> QED BY <2>2, <2>3, <2>4, <2>5, <2>6, <2>7, <2>8, <2>9 DEF Next
<1> QED BY <1>1, <1>2, Settles, PTL DEF Spec
=============================================================================
