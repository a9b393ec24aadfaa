------------------------------ MODULE Showing ------------------------------
(***************************************************************************)
(* What a layout pass promises: as soon as apply_layout returns, every     *)
(* window it has a rect for is where it comes to rest, and no other window *)
(* is on screen.  Desktop relies on it; Screen is how the compositor keeps *)
(* it while windows slide and grow.                                        *)
(***************************************************************************)
CONSTANTS Windows, \* the ids of a behaviour
          Rects    \* the places a window can be given

VARIABLES windows, \* the tracked windows
          shown    \* where each window on screen comes to rest

vars == <<windows, shown>>

\* The layouts a pass may be asked for: rects for some tracked windows.
Layouts(tracked) == UNION {[S -> Rects] : S \in SUBSET tracked}

Without(f, S) == [w \in DOMAIN f \ S |-> f[w]]

Init == windows = {} /\ shown = [w \in {} |-> 0]

Track(w) == windows' = windows \cup {w} /\ UNCHANGED shown

\* A menu maps itself where its client wants it.
Menu(w, r) ==
  /\ windows' = windows \cup {w}
  /\ shown' = [v \in DOMAIN shown \cup {w} |-> IF v = w THEN r ELSE shown[v]]

Remove(w) == windows' = windows \ {w} /\ shown' = Without(shown, {w})

Layout(targets) == shown' = targets /\ UNCHANGED windows

Next ==
  \/ \E w \in Windows : Track(w) \/ Remove(w) \/ \E r \in Rects : Menu(w, r)
  \/ \E targets \in Layouts(windows) : Layout(targets)

Spec == Init /\ [][Next]_vars
=============================================================================
