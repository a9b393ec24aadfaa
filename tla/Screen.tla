------------------------------- MODULE Screen -------------------------------
(***************************************************************************)
(* How a layout reaches the screen (src/src/state.rs): the direct and the  *)
(* animated path of apply_layout, the tweens of plan_transition, the       *)
(* frames of step_animations, and the configure events the clients get.    *)
(*                                                                         *)
(* Which windows get which rects is the grid's business (Desktop); here    *)
(* any layout of the tracked windows may come next.  A place is an element *)
(* of Rects, or Flying while a tween moves the window.  The tweens of one  *)
(* transition start together, so one age serves them all.                  *)
(***************************************************************************)
EXTENDS Integers

CONSTANTS
  Windows,  \* the ids of a behaviour
  Rects,    \* the places and sizes a layout gives
  Flying,   \* a place between places
  Duration  \* frames of an animation

ASSUME ScreenAssumption ==
  /\ Duration \in Nat \ {0}
  /\ Flying \notin Rects

VARIABLES
  windows,         \* the tracked windows
  space,           \* smithay's Space: where each mapped window is
  animations,      \* the tween of each window that has one
  age,             \* frames since the tweens started
  last_configured, \* what apply_layout believes each client was told
  told,            \* what each client was told last
  intended         \* ghost: the layout asked for last, less what died since

vars == <<windows, space, animations, age, last_configured, told, intended>>

\* Scroll and Rotate slide what comes and goes, along different axes.
Transitions == {"Slide", "Reveal"}

Tween == [kind : {"Enter", "Leave", "Move"}, to : Rects \cup {Flying}, scale : BOOLEAN]

Layouts(tracked) == UNION {[S -> Rects] : S \in SUBSET tracked}

Without(f, S) == [w \in DOMAIN f \ S |-> f[w]]
Over(f, g)    == [w \in DOMAIN f \cup DOMAIN g |-> IF w \in DOMAIN g THEN g[w] ELSE f[w]]

Nothing == [w \in {} |-> 0]

Init ==
  /\ windows = {}
  /\ space = Nothing /\ animations = Nothing /\ age = 0
  /\ last_configured = Nothing /\ told = Nothing /\ intended = Nothing

----------------------------------------------------------------------------
(* Tweens *)

\* The windows whose tween is of the kind, dead ones left out.
Tweened(kinds) == {w \in DOMAIN animations \cap windows : animations[w].kind \in kinds}

\* Mutant of Settled: a window that is leaving stays where it is.
SettledLeavingStay ==
  [w \in DOMAIN space \cup Tweened({"Enter", "Move"}) |->
     IF w \in Tweened({"Enter", "Move"}) THEN animations[w].to ELSE space[w]]

\* settle_tweens: what the Space holds once every tween is at its end.
Settled ==
  [w \in (DOMAIN space \ Tweened({"Leave"})) \cup Tweened({"Enter", "Move"}) |->
     IF w \in Tweened({"Enter", "Move"}) THEN animations[w].to ELSE space[w]]

\* Mutant of PlanTransition: what comes in ends where it should begin.
PlanEnteringAstray(targets, transition) ==
  [w \in DOMAIN targets \cup DOMAIN Settled |->
     [kind |-> IF w \notin DOMAIN Settled THEN "Enter"
               ELSE IF w \in DOMAIN targets THEN "Move" ELSE "Leave",
      to |-> IF w \in DOMAIN targets \cap DOMAIN Settled THEN targets[w] ELSE Flying,
      scale |-> transition = "Reveal" /\ w \notin DOMAIN targets \cap DOMAIN Settled]]

\* plan_transition, from the settled Space to the targets.  Reveal grows and
\* shrinks what comes and goes, the others slide it across the edge.
PlanTransition(targets, transition) ==
  [w \in DOMAIN targets \cup DOMAIN Settled |->
     [kind |-> IF w \notin DOMAIN Settled THEN "Enter"
               ELSE IF w \in DOMAIN targets THEN "Move" ELSE "Leave",
      to |-> IF w \in DOMAIN targets THEN targets[w] ELSE Flying,
      scale |-> transition = "Reveal" /\ w \notin DOMAIN targets \cap DOMAIN Settled]]

----------------------------------------------------------------------------
(* apply_layout *)

\* Without a pending transition: settle, unmap what has no rect, configure
\* what was last configured otherwise, and map.
Snap(targets) ==
  LET due == {w \in DOMAIN targets :
                ~(w \in DOMAIN last_configured /\ last_configured[w] = targets[w])}
      configures == [w \in due |-> targets[w]]
  IN  /\ targets \in Layouts(windows)
      /\ space' = targets
      /\ animations' = Nothing /\ age' = 0
      /\ told' = Over(told, configures)
      /\ last_configured' = Over(last_configured, configures)
      /\ intended' = targets
      /\ UNCHANGED windows

\* Mutant of Animate: only what comes in is configured.
AnimateTellingArrivals(targets, transition) ==
  LET plan == PlanTransition(targets, transition)
  IN  /\ targets \in Layouts(windows)
      /\ animations' = plan /\ age' = 0
      /\ space' = [w \in {v \in DOMAIN plan : ~plan[v].scale} |->
                     IF plan[w].kind = "Leave" THEN Settled[w] ELSE Flying]
      /\ told' = Over(told, Without(targets, DOMAIN Settled))
      /\ intended' = targets
      /\ UNCHANGED <<windows, last_configured>>

\* Mutant of Animate: the scaled windows are mapped too.
AnimateMappingScaled(targets, transition) ==
  LET plan == PlanTransition(targets, transition)
  IN  /\ targets \in Layouts(windows)
      /\ animations' = plan /\ age' = 0
      /\ space' = [w \in DOMAIN plan |-> IF plan[w].kind = "Leave" THEN Settled[w] ELSE Flying]
      /\ told' = Over(told, targets)
      /\ intended' = targets
      /\ UNCHANGED <<windows, last_configured>>

\* With one: settle, configure every target, plan the tweens, and map what
\* enters and moves at the start of its way, unless it is drawn to scale.
Animate(targets, transition) ==
  LET plan == PlanTransition(targets, transition)
  IN  /\ targets \in Layouts(windows)
      /\ animations' = plan /\ age' = 0
      /\ space' = [w \in {v \in DOMAIN plan : ~plan[v].scale} |->
                     IF plan[w].kind = "Leave" THEN Settled[w] ELSE Flying]
      /\ told' = Over(told, targets)
      /\ intended' = targets
      /\ UNCHANGED <<windows, last_configured>>

\* A transition while the active monitor has no output: settle and no more.
Bail ==
  /\ space' = Settled
  /\ animations' = Nothing /\ age' = 0
  /\ UNCHANGED <<windows, last_configured, told, intended>>

----------------------------------------------------------------------------
(* Frames and windows *)

\* Mutant of Frame: a finished tween lets go of the window where it was.
FrameDropsFinished ==
  /\ animations # Nothing
  /\ age' \in age + 1 .. Duration
  /\ IF age' = Duration
     THEN space' = Without(space, Tweened({"Leave"})) /\ animations' = Nothing
     ELSE UNCHANGED <<space, animations>>
  /\ UNCHANGED <<windows, last_configured, told, intended>>

(***************************************************************************)
(* step_animations: every tween moves on with the clock, however late the  *)
(* frame is.  A window drawn to scale stays out of the Space, the others   *)
(* are mapped on their way; at the end each is mapped at rest or unmapped. *)
(***************************************************************************)
Frame ==
  /\ animations # Nothing
  /\ age' \in age + 1 .. Duration
  /\ IF age' = Duration
     THEN space' = Settled /\ animations' = Nothing
     ELSE LET live == DOMAIN animations \cap windows
              scaled == {w \in live : animations[w].scale}
          IN  /\ space' = [w \in (DOMAIN space \cup live) \ scaled |->
                             IF w \in live THEN Flying ELSE space[w]]
              /\ UNCHANGED animations
  /\ UNCHANGED <<windows, last_configured, told, intended>>

\* Ids are not used twice, which told remembers.
Fresh(w) == w \notin windows /\ w \notin DOMAIN told

\* A window becomes tracked; the layout that gives it a rect comes later.
Track(w) ==
  /\ Fresh(w)
  /\ windows' = windows \cup {w}
  /\ UNCHANGED <<space, animations, age, last_configured, told, intended>>

\* A menu is mapped where its client put it, with no configure of ours.
Menu(w, r) ==
  /\ Fresh(w)
  /\ windows' = windows \cup {w}
  /\ space' = Over(space, [v \in {w} |-> r])
  /\ intended' = Over(intended, [v \in {w} |-> r])
  /\ told' = Over(told, [v \in {w} |-> r])
  /\ UNCHANGED <<animations, age, last_configured>>

\* remove_window_by_id, which leaves the tween to run out.
Remove(w) ==
  /\ w \in windows
  /\ windows' = windows \ {w}
  /\ space' = Without(space, {w})
  /\ intended' = Without(intended, {w})
  /\ UNCHANGED <<animations, age, last_configured, told>>

Next ==
  \/ \E targets \in Layouts(windows) :
       Snap(targets) \/ \E transition \in Transitions : Animate(targets, transition)
  \/ Bail \/ Frame
  \/ \E w \in Windows : Track(w) \/ Remove(w) \/ \E r \in Rects : Menu(w, r)

\* Every frame schedules the next one: by its vblank when something was
\* drawn, by a heartbeat when nothing was.
Spec == Init /\ [][Next]_vars /\ WF_vars(Frame)
----------------------------------------------------------------------------
(* Properties *)

\* The maps are from tracked windows to what the code keeps of each; a tween may
\* outlive its window.  Proved, for every value of the constants.
TypeOK ==
  /\ windows \subseteq Windows
  /\ DOMAIN space \subseteq windows
  /\ \A w \in DOMAIN space : space[w] \in Rects \cup {Flying}
  /\ DOMAIN animations \subseteq Windows
  /\ \A w \in DOMAIN animations : animations[w] \in Tween
  /\ age \in 0..Duration
  /\ intended \in Layouts(windows)
  /\ DOMAIN last_configured \cup DOMAIN told \subseteq Windows

\* Whatever is asked for in the middle of an animation, and however many are
\* cut short, the Space together with the tweens stands for one layout: the
\* last one asked for (settle_tweens, then plan_transition).
Promise == INSTANCE Showing WITH shown <- Settled
ShowingSpec == Promise!Spec

\* The pointer is warped to where a window comes to rest, not to where a tween
\* has it now (settled_window_location, the tween before the Space).
SettledLocation(w) == IF w \in DOMAIN animations THEN animations[w].to ELSE space[w]

WarpsHome == \A w \in DOMAIN intended : SettledLocation(w) = intended[w]

\* A window drawn to scale is not drawn a second time by the Space.
DrawnOnce ==
  \A w \in DOMAIN animations : animations[w].scale => w \notin DOMAIN space

\* Once the last handler has run, every window comes to rest where the last
\* layout wants it, and every other one is gone from the screen.
ComesToRest == <>[][Frame]_vars => <>[](animations = Nothing /\ space = intended)

\* A client that has not been told where the last layout wants it is one that
\* last_configured believes was told exactly that: through snapped and animated
\* layouts in any order, a configure is lost in no other way (apply_layout).
ToldOrBelieved ==
  \A w \in DOMAIN intended : intended[w] \in {told[w]} \cup
    (IF w \in DOMAIN last_configured THEN {last_configured[w]} ELSE {})
=============================================================================
