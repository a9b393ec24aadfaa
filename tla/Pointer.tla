------------------------------ MODULE Pointer ------------------------------
(***************************************************************************)
(* The pointer: motion over windows that lock or confine it                *)
(* (src/input.rs, src/handlers/pointer_constraints.rs), the two settings   *)
(* that tie it to the keyboard focus (src/state.rs), and the grabs that    *)
(* move and resize a window (src/grabs, src/handlers/xdg_shell.rs).        *)
(*                                                                         *)
(* The screen has one dimension: heads of Width points stand side by side, *)
(* a window is a run of points, and layouts are any of Layouts, at rest    *)
(* (Screen has the animations).  There are no layer surfaces, popups or    *)
(* subsurfaces: every surface is a window's.                               *)
(*                                                                         *)
(* Of smithay it takes: that the surface the pointer leaves has its        *)
(* constraint deactivated; that a press starts a grab which keeps the      *)
(* focus, that the end of a grab gives it to what the last motion was      *)
(* over; and that a rectangle does not hold its far edge.                  *)
(***************************************************************************)
EXTENDS Integers, Sequences, FiniteSets

CONSTANTS Window,
          Nothing,     \* no value
          Heads, Width,
          MaxSize,     \* of a window, as its client lets it grow
          BornWith,    \* the size of its first buffer
          Layouts,     \* each from the windows it shows to their tiles
          Regions,     \* of constraints, as points of the surface
          Hints,       \* where clients draw their own cursor
          Scenes,      \* what the session's clients and settings are
          Deltas,      \* of a motion
          Near,        \* places from which a client still asks to drag a window
          MaxAsked     \* sizes a client may be behind with

Tile == [loc : Int, size : 1..MaxSize]

ASSUME PointerAssumption ==
  /\ IsFiniteSet(Window)
  /\ Heads \in Nat \ {0} /\ Width \in Nat \ {0} /\ MaxSize \in Nat \ {0} /\ MaxAsked \in Nat
  /\ \A l \in Layouts : DOMAIN l \subseteq Window /\ \A w \in DOMAIN l : l[w] \in Tile
  /\ Deltas \subseteq Int /\ Near \subseteq Int /\ Hints \subseteq Int /\ BornWith \in 1..MaxSize
  /\ Regions \subseteq SUBSET (0 .. MaxSize - 1)

\* The windows that constrain the pointer, the windows of the one client that asks to
\* move and resize its own, and the settings the user chooses from.
Scene == [players : SUBSET Window, drags : SUBSET Window,
          hover : SUBSET BOOLEAN, follow : SUBSET BOOLEAN]

ASSUME SceneAssumption == Scenes \subseteq Scene

VARIABLES
  scene,                 \* never changes
  cursor,                \* pointer_location
  at,                    \* where the seat's pointer was last moved to
  focus,                 \* the surface that has the pointer
  pending,               \* what the last motion was over, for the end of a grab
  keyboard,              \* the window that has the keyboard
  grab,                  \* of the pointer
  focus_follows_mouse,   \* and nothing is fullscreen
  mouse_follows_focus,
  place,                 \* where the Space has the mapped windows
  size,                  \* of each window, as committed
  stack,                 \* the Space's order, the top last
  last_configured,       \* tiles
  asked,                 \* sizes each client was sent and has not committed
  resize,                \* ResizeSurfaceState
  constraint,            \* of each surface
  hint                   \* cursor_position_hint

seat == <<at, focus, pending, grab>>
settings == <<scene, focus_follows_mouse, mouse_follows_focus>>
screen == <<place, stack>>
clients == <<size, last_configured, asked, resize>>
vars == <<cursor, seat, keyboard, settings, screen, clients, constraint, hint>>

Points == 0 .. Heads * Width
Locals == 0 .. MaxSize - 1
Constraint == [kind : {"locked", "confined"}, region : SUBSET Locals, active : BOOLEAN]
Rect == [loc : Int, size : Nat]
Grab == [kind : {"click", "move", "resize"}, start : Points, from : Window \cup {Nothing},
         window : Window \cup {Nothing}, initial : Rect \cup {Nothing},
         edge : {"left", "right", Nothing}, last : 0..MaxSize]
Resize == [state : {"resizing", "waiting"}, edge : {"left", "right"}, initial : Rect]

ASSUME NothingAssumption ==
  /\ Nothing \notin Window /\ Nothing \notin Tile /\ Nothing \notin Constraint
  /\ Nothing \notin Grab /\ Nothing \notin Resize

\* The windows S, each once.
Orders(S) == {s \in [1..Cardinality(S) -> S] : \A i, j \in DOMAIN s : s[i] = s[j] => i = j}

\* Every part of the state holds a value of its kind, and the windows that are
\* mapped are stacked.  Proved, for every value of the constants.
TypeOK ==
  /\ {cursor, at} \subseteq Points
  /\ {focus, pending, keyboard} \subseteq Window \cup {Nothing}
  /\ grab \in Grab \cup {Nothing}
  /\ DOMAIN place \subseteq Window /\ place \in [DOMAIN place -> Int]
  /\ stack \in Orders(DOMAIN place)
  /\ size \in [Window -> 1..MaxSize]
  /\ last_configured \in [Window -> Tile \cup {Nothing}]
  /\ asked \in [Window -> Seq(1..MaxSize)] /\ \A w \in Window : Len(asked[w]) <= MaxAsked
  /\ resize \in [Window -> Resize \cup {Nothing}]
  /\ constraint \in [Window -> Constraint \cup {Nothing}]
  /\ hint \in [surface : Window, location : Hints] \cup {Nothing}

----------------------------------------------------------------------------
(* Where things are *)

Covers(rect, x) == rect.loc <= x /\ x < rect.loc + rect.size

Extent(h) == [loc |-> (h - 1) * Width, size |-> Width]

\* output_at, and the head that stands in where there is none.
output_at(x) == {h \in 1..Heads : Covers(Extent(h), x)}
OutputNear(x) == IF output_at(x) = {} THEN 1 ELSE CHOOSE h \in output_at(x) : TRUE

Clamp(x, low, high) == IF x < low THEN low ELSE IF x > high THEN high ELSE x

\* Mutant of clamp_to_outputs: a cursor that is on no head is held to none.
clamp_from_outputs(x) ==
  LET head == Extent(OutputNear(cursor))
  IN  IF output_at(cursor) = {} THEN x ELSE Clamp(x, head.loc, head.loc + head.size)

\* What is on a head is taken; otherwise it is held to the cursor's head.
clamp_to_outputs(x) ==
  LET head == Extent(OutputNear(cursor))
  IN  IF output_at(x) # {} THEN x ELSE Clamp(x, head.loc, head.loc + head.size)

RectOf(w, p) == [loc |-> p[w], size |-> size[w]]

\* surface_under and window_id_at, with windows at p stacked as s.
Under(x, p, s) ==
  LET over == {i \in DOMAIN s : Covers(RectOf(s[i], p), x)}
  IN  IF over = {} THEN Nothing ELSE s[CHOOSE i \in over : \A j \in over : j <= i]

surface_under(x) == Under(x, place, stack)

Active(c, w) == c[w] # Nothing /\ c[w].active
InRegion(w, x) == x - place[w] \in constraint[w].region

----------------------------------------------------------------------------
(* Constraints *)

Deactivated(c, S) ==
  [w \in Window |-> IF w \in S /\ c[w] # Nothing THEN [c[w] EXCEPT !.active = FALSE] ELSE c[w]]

Activated(c, w) == [c EXCEPT ![w].active = TRUE]

\* Smithay, as the pointer moves from one surface to another.
Leaving(c, new) == IF focus # new THEN Deactivated(c, {focus}) ELSE c

\* release_pointer_constraints.
Released(c, keep) == Deactivated(c, Window \ {keep})

\* new_constraint.
NewConstraint(w, kind, region) ==
  /\ w \in scene.players /\ constraint[w] = Nothing
  /\ constraint' = [constraint EXCEPT ![w] =
                      [kind |-> kind, region |-> region, active |-> focus = w]]
  /\ UNCHANGED <<cursor, seat, keyboard, settings, screen, clients, hint>>

\* remove_constraint: the cursor goes where the client says it drew it.
RemoveConstraint(w) ==
  /\ constraint[w] # Nothing
  /\ constraint' = [constraint EXCEPT ![w] = Nothing]
  /\ hint' = Nothing
  /\ cursor' = IF hint # Nothing /\ hint.surface = w /\ w \in DOMAIN place
               THEN clamp_to_outputs(place[w] + hint.location) ELSE cursor
  /\ UNCHANGED <<seat, keyboard, settings, screen, clients>>

\* cursor_position_hint.
CursorPositionHint(w, location) ==
  /\ Active(constraint, w) /\ constraint[w].kind = "locked"
  /\ hint' = [surface |-> w, location |-> location]
  /\ UNCHANGED <<cursor, seat, keyboard, settings, screen, clients, constraint>>

----------------------------------------------------------------------------
(* Motion *)

\* The focus PointerHandle::motion gives, by the grab it goes through.
FocusOf(under) ==
  IF grab = Nothing THEN under ELSE IF grab.kind = "click" THEN grab.from ELSE Nothing

\* focus_follows_pointer: what takes the keyboard as the pointer comes over it.
Hovers(w) == focus_follows_mouse /\ grab = Nothing /\ w \notin {Nothing, keyboard}

\* The sizes a client has still to see, once it is sent another.
Configured(w, s) ==
  LET sent == IF asked[w] = <<>> THEN size[w] ELSE asked[w][Len(asked[w])]
  IN  IF s = sent THEN asked[w] ELSE Append(asked[w], s)

\* A grab's own motion: a move takes the window along, a resize asks it for
\* another size.  A client is not asked again while it is MaxAsked behind.
Dragged(g, x) ==
  LET w == g.window
      delta == IF g.edge = "left" THEN g.start - x ELSE x - g.start
      new == Clamp(g.initial.size + delta, 1, MaxSize)
  IN  IF g = Nothing \/ g.kind = "click" THEN grab' = g /\ UNCHANGED <<place, asked>>
      ELSE IF g.kind = "move"
      THEN /\ grab' = g
           /\ place' = IF w \in DOMAIN place
                       THEN [place EXCEPT ![w] = g.initial.loc + delta] ELSE place
           /\ UNCHANGED asked
      ELSE /\ grab' = [g EXCEPT !.last = new]
           /\ asked' = [asked EXCEPT ![w] = Configured(w, new)]
           /\ Len(asked'[w]) <= MaxAsked
           /\ UNCHANGED place

\* PointerHandle::motion to x, which is over under, then focus_follows_pointer.
\* Where it arms, the constraint of what is there comes into force.
MovedTo(x, under, arms) ==
  LET left == Leaving(constraint, FocusOf(under))
      kept == IF Hovers(under) THEN Released(left, under) ELSE left
  IN  /\ cursor' = x /\ at' = x
      /\ pending' = under /\ focus' = FocusOf(under)
      /\ Dragged(grab, x)
      /\ keyboard' = IF Hovers(under) THEN under ELSE keyboard
      /\ constraint' = IF arms /\ under # Nothing /\ kept[under] # Nothing /\ InRegion(under, x)
                       THEN Activated(kept, under) ELSE kept
      /\ UNCHANGED <<settings, stack, size, last_configured, resize, hint>>

\* The surface whose constraint binds a motion that begins at the cursor.
Holds(w) == surface_under(cursor) = w /\ Active(constraint, w) /\ InRegion(w, cursor)

\* A relative motion: a lock stops it, a confinement keeps it on its region.
PointerMotion(d) ==
  LET x == clamp_to_outputs(cursor + d)
  IN  /\ \A w \in DOMAIN place : Holds(w) =>
           /\ constraint[w].kind = "confined"
           /\ surface_under(x) = w /\ InRegion(w, x)
      /\ MovedTo(x, surface_under(x), TRUE)

\* An absolute one asks nothing of constraints.
PointerMotionAbsolute(x) ==
  /\ Covers(Extent(OutputNear(cursor)), x)
  /\ MovedTo(x, surface_under(x), FALSE)

----------------------------------------------------------------------------
(* Buttons and grabs *)

Below(s, v, w) == \E i, j \in DOMAIN s : i < j /\ s[i] = v /\ s[j] = w

\* The Space's order once it maps place': what was mapped stays in its order, what is
\* new goes on top of it, and w on top of all.
Raised(w) ==
  /\ stack' \in Orders(DOMAIN place')
  /\ w \in DOMAIN place' => stack'[Len(stack')] = w
  /\ \A u, v \in DOMAIN place' \ {w} :
       u \in DOMAIN place /\ (v \notin DOMAIN place \/ Below(stack, u, v)) => Below(stack', u, v)

Rest == [kind |-> "click", start |-> at, from |-> focus,
         window |-> Nothing, initial |-> Nothing, edge |-> Nothing, last |-> 0]

\* A press: click to focus, at the seat's own idea of where the pointer is, or
\* on nothing the end of all focus; then the grab that comes with a button.
Press ==
  LET w == surface_under(at)
  IN  /\ grab = Nothing
      /\ grab' = Rest
      /\ keyboard' = w
      /\ UNCHANGED place
      /\ Raised(w)
      /\ constraint' = IF w = Nothing THEN constraint ELSE Released(constraint, w)
      /\ UNCHANGED <<cursor, at, focus, pending, settings, clients, hint>>

\* The last button goes up: a resize sends the size it came to.
Release ==
  /\ grab # Nothing
  /\ grab' = Nothing
  /\ focus' = pending
  /\ constraint' = Leaving(constraint, pending)
  /\ IF grab.kind = "resize"
     THEN /\ asked' = [asked EXCEPT ![grab.window] = Configured(grab.window, grab.last)]
          /\ Len(asked'[grab.window]) <= MaxAsked
          /\ resize' = [resize EXCEPT ![grab.window] =
                          [state |-> "waiting", edge |-> grab.edge, initial |-> grab.initial]]
     ELSE UNCHANGED <<asked, resize>>
  /\ UNCHANGED <<cursor, at, pending, keyboard, settings, screen, size, last_configured, hint>>

\* check_grab, and set_grab, which takes the pointer from the surface: the press was
\* on a surface of the client that asks for its window w.  The grab it has may be one
\* of these already, and the new one starts where that press was, at the window as it
\* is now.  Near bounds how far a client that asks again and again drags it.
Grabs(w, g) ==
  /\ grab # Nothing /\ {grab.from, w} \subseteq scene.drags
  /\ w \in DOMAIN place /\ place[w] \in Near
  /\ Dragged(g, at)
  /\ focus' = Nothing /\ pending' \in {pending, Nothing}
  /\ constraint' = Leaving(constraint, Nothing)
  /\ UNCHANGED <<cursor, at, keyboard, settings, stack, size, last_configured, hint>>

\* A resize that the same press began is not ended: ResizeSurfaceState stays Resizing.
move_request(w) ==
  /\ Grabs(w, [grab EXCEPT !.kind = "move", !.window = w, !.edge = Nothing,
                           !.initial = RectOf(w, place), !.last = 0])
  /\ UNCHANGED resize

resize_request(w, edge) ==
  /\ Grabs(w, [grab EXCEPT !.kind = "resize", !.window = w, !.edge = edge,
                           !.initial = RectOf(w, place), !.last = size[w]])
  /\ resize' = [resize EXCEPT ![w] =
                  [state |-> "resizing", edge |-> edge, initial |-> RectOf(w, place)]]

\* A commit, of a size the client was asked for or the one it has.
Committed(w) ==
  \E k \in 0 .. Len(asked[w]) :
    /\ size' = IF k = 0 THEN size ELSE [size EXCEPT ![w] = asked[w][k]]
    /\ asked' = [asked EXCEPT ![w] = SubSeq(asked[w], k + 1, Len(asked[w]))]

\* Mutant of handle_commit: the window is put where the size it was last asked
\* for would put it.
handle_commit_early(w) ==
  /\ Committed(w)
  /\ IF w \in DOMAIN place /\ resize[w] # Nothing
     THEN /\ place' = IF resize[w].edge = "left"
                      THEN [place EXCEPT ![w] = resize[w].initial.loc + resize[w].initial.size
                              - (IF asked[w] = <<>> THEN size[w] ELSE asked[w][Len(asked[w])])]
                      ELSE place
          /\ IF resize[w].edge = "left" THEN Raised(w) ELSE UNCHANGED stack
          /\ resize' = IF resize[w].state = "waiting" THEN [resize EXCEPT ![w] = Nothing] ELSE resize
     ELSE UNCHANGED <<place, stack, resize>>
  /\ UNCHANGED <<cursor, seat, keyboard, settings, last_configured, constraint, hint>>

\* handle_commit: a window that is resized by its left edge keeps the right one,
\* by the size it has, and is mapped anew, on top.
handle_commit(w) ==
  /\ Committed(w)
  /\ IF w \in DOMAIN place /\ resize[w] # Nothing
     THEN /\ place' = IF resize[w].edge = "left"
                      THEN [place EXCEPT ![w] = resize[w].initial.loc
                                                + (resize[w].initial.size - size'[w])]
                      ELSE place
          /\ IF resize[w].edge = "left" THEN Raised(w) ELSE UNCHANGED stack
          /\ resize' = IF resize[w].state = "waiting" THEN [resize EXCEPT ![w] = Nothing] ELSE resize
     ELSE UNCHANGED <<place, stack, resize>>
  /\ UNCHANGED <<cursor, seat, keyboard, settings, last_configured, constraint, hint>>

----------------------------------------------------------------------------
(* Layouts and chords *)

\* apply_layout, at once, and the window w that is raised after it.  A window is
\* configured when its tile is another than it was last configured for.
Laid(l, w) ==
  LET due == {v \in DOMAIN l : last_configured[v] # l[v]}
  IN  /\ place' = [v \in DOMAIN l |-> l[v].loc]
      /\ Raised(w)
      /\ last_configured' = [v \in Window |-> IF v \in due THEN l[v] ELSE last_configured[v]]
      /\ asked' = [v \in Window |-> IF v \in due THEN Configured(v, l[v].size) ELSE asked[v]]
      /\ \A v \in Window : Len(asked'[v]) <= MaxAsked

Visible(rect) ==
  [h \in 1..Heads |-> {x \in Extent(h).loc .. Extent(h).loc + Width - 1 : Covers(rect, x)}]

\* Mutant of mouse_follows_focus_target: the middle of all of the window.
window_centre(rect) == rect.loc + rect.size \div 2

\* mouse_follows_focus_target, of a window that some head shows: the middle of
\* its largest visible part.
mouse_follows_focus_target(rect) ==
  LET part == Visible(rect)
      best == {h \in 1..Heads : \A k \in 1..Heads : Cardinality(part[k]) <= Cardinality(part[h])}
      h == CHOOSE h \in best : \A k \in best : k <= h
      first == CHOOSE x \in part[h] : \A y \in part[h] : x <= y
  IN  first + Cardinality(part[h]) \div 2

\* Mutant of Warps: a game that holds the pointer is not asked.
WarpsPlayers(w, c) ==
  /\ mouse_follows_focus /\ grab = Nothing
  /\ w \in DOMAIN place'
  /\ ~Covers(RectOf(w, place'), cursor)
  /\ \E h \in 1..Heads : Visible(RectOf(w, place'))[h] # {}

\* Whether warp_pointer_to_focused_window moves the cursor to w, once the layout
\* is in force and c are the constraints.
Warps(w, c) ==
  /\ mouse_follows_focus /\ grab = Nothing
  /\ w \in DOMAIN place' /\ ~Active(c, w)
  /\ ~Covers(RectOf(w, place'), cursor)
  /\ \E h \in 1..Heads : Visible(RectOf(w, place'))[h] # {}

\* warp_pointer_to_focused_window, where it is called.
Warped(w, called, c) ==
  LET x == clamp_to_outputs(mouse_follows_focus_target(RectOf(w, place')))
      under == Under(x, place', stack')
  IN  IF called /\ Warps(w, c)
      THEN /\ cursor' = x /\ at' = x
           /\ pending' = under /\ focus' = under
           /\ constraint' = Leaving(c, under)
      ELSE constraint' = c /\ UNCHANGED <<cursor, at, pending, focus>>

\* The window with the keyboard has another place after the layout.
Shifted(w) == w \in DOMAIN place /\ w \in DOMAIN place' => place'[w] # place[w]

\* dispatch_nav, for the chords that take the focus along: the layout, focus_by_id
\* with reconcile_focus_state, and the warp when focus or window have moved.
Chord(w, l) ==
  /\ w \in DOMAIN l \cup {Nothing}
  /\ Laid(l, w)
  /\ keyboard' = w
  /\ Warped(w, w # keyboard \/ Shifted(w), Released(constraint, w))
  /\ UNCHANGED <<grab, settings, size, resize, hint>>

\* And for those that leave it where it is.
Rearrange(l) ==
  /\ Laid(l, Nothing)
  /\ UNCHANGED keyboard
  /\ Warped(keyboard, Shifted(keyboard), constraint)
  /\ UNCHANGED <<grab, settings, size, resize, hint>>

\* The taskbar's Activate: focus_by_id, which reveals the window, and the warp.
Activate(w, l) ==
  /\ w \in DOMAIN l
  /\ Laid(l, w)
  /\ keyboard' = w
  /\ Warped(w, TRUE, Released(constraint, w))
  /\ UNCHANGED <<grab, settings, size, resize, hint>>

\* A layout pass of any other handler.
Relayout(l) ==
  /\ Laid(l, Nothing)
  /\ UNCHANGED <<cursor, seat, keyboard, settings, size, resize, constraint, hint>>

ToggleFollows ==
  /\ focus_follows_mouse' \in scene.hover /\ mouse_follows_focus' \in scene.follow
  /\ UNCHANGED <<scene, cursor, seat, keyboard, screen, clients, constraint, hint>>
----------------------------------------------------------------------------
Init ==
  /\ cursor = 0 /\ at = 0
  /\ focus = Nothing /\ pending = Nothing /\ keyboard = Nothing /\ grab = Nothing
  /\ scene \in Scenes
  /\ focus_follows_mouse \in scene.hover /\ mouse_follows_focus \in scene.follow
  /\ place = <<>> /\ stack = <<>>
  /\ size = [w \in Window |-> BornWith]
  /\ last_configured = [w \in Window |-> Nothing]
  /\ asked = [w \in Window |-> <<>>]
  /\ resize = [w \in Window |-> Nothing]
  /\ constraint = [w \in Window |-> Nothing]
  /\ hint = Nothing

Next ==
  \/ \E d \in Deltas : PointerMotion(d)
  \/ \E x \in Points : PointerMotionAbsolute(x)
  \/ Press \/ Release \/ ToggleFollows
  \/ \E w \in Window, l \in Layouts : Activate(w, l)
  \/ \E w \in Window \cup {Nothing}, l \in Layouts : Chord(w, l)
  \/ \E l \in Layouts : Rearrange(l) \/ Relayout(l)
  \/ \E w \in Window :
       \/ handle_commit(w) \/ RemoveConstraint(w)
       \/ \E kind \in {"locked", "confined"}, region \in Regions : NewConstraint(w, kind, region)
       \/ \E location \in Hints : CursorPositionHint(w, location)
       \/ move_request(w)
       \/ \E edge \in {"left", "right"} : resize_request(w, edge)

Spec == Init /\ [][Next]_vars
----------------------------------------------------------------------------
(* Properties *)

\* A game that holds a pointer lock and the keyboard is not teleported out from
\* under itself (src/state.rs:1989): while it keeps both, no motion, chord, layout,
\* activation or drag moves the cursor.  Two things do: an absolute device, and the
\* hint of another client, used when that one's constraint goes.
LockHolds ==
  [][\A w \in Window :
       Holds(w) /\ constraint[w].kind = "locked" /\ keyboard = w /\ cursor' # cursor =>
         \/ ~Active(constraint', w) \/ keyboard' # w
         \/ \E x \in Points : PointerMotionAbsolute(x)
         \/ \E v \in Window \ {w} : RemoveConstraint(v)]_vars

\* Wherever the keyboard goes without a grab, by chord, activation or hover, nobody
\* else is left with the pointer; and with mouse-follows-focus the cursor is on
\* the window that has it, unless that window's own lock keeps the cursor where
\* it was or no head shows the window.  So the next hover finds the focus where the
\* user put it.
LandsOnFocus ==
  [][\A w \in Window :
       keyboard # w /\ keyboard' = w /\ grab = Nothing /\ grab' = Nothing =>
         /\ \A v \in Window \ {w} : ~Active(constraint', v)
         /\ mouse_follows_focus =>
              \/ Covers(RectOf(w, place'), cursor')
              \/ Active(constraint, w) /\ cursor' = cursor
              \/ \A h \in 1..Heads : Visible(RectOf(w, place'))[h] = {}]_vars

\* For as long as a grab resizes a window by its left edge the right edge stays where
\* it was when the client asked, whatever sizes the client is behind with and whatever
\* that press did before, unless a layout has put the window on its tile.
AnchorHolds ==
  grab # Nothing /\ grab.kind = "resize" /\ grab.edge = "left" =>
    \A w \in DOMAIN place \cap {grab.window} :
      \/ place[w] + size[w] = grab.initial.loc + grab.initial.size
      \/ last_configured[w] # Nothing /\ place[w] = last_configured[w].loc
=============================================================================
