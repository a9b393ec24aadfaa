----------------------------- MODULE MCPointer -----------------------------
(***************************************************************************)
(* An instance of Pointer for TLC: a game beside another window, and half  *)
(* off the right head, where it hides the other.                           *)
(***************************************************************************)
EXTENDS Pointer

CONSTANTS game, other

Tiles(loc, s) == [loc |-> loc, size |-> s]

Arrangements ==
  {[w \in {game, other} |-> IF w = game THEN Tiles(0, 2) ELSE Tiles(2, 2)],
   [w \in {game} |-> Tiles(3, 2)]}

\* Two clients that play for the pointer, and one that drags its windows about.
Sessions ==
  {[players |-> {game, other}, drags |-> {}, hover |-> BOOLEAN, follow |-> {TRUE}],
   [players |-> {}, drags |-> {other}, hover |-> {FALSE}, follow |-> {FALSE}]}

Corner == {{0}}
Steps == {-1, 1}
OnTile == {2}
=============================================================================
