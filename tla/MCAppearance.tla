---------------------------- MODULE MCAppearance ----------------------------
(***************************************************************************)
(* Instances of Appearance for TLC: what the user may write.  The main     *)
(* file holds what a config must have; the second overrides an output,     *)
(* changes the gain, turns the theme on, or sets the path, which conflicts *)
(* with a main file that sets it too; it may have a key misspelt.          *)
(***************************************************************************)
EXTENDS Appearance

Tables(p) == [name: Output, wallpaper: {p}]

TwoFiles ==
  << {[layout |-> TRUE], [layout |-> TRUE, path |-> Folder]},
     {[path |-> 1], [scale |-> 2, pth |-> 1], [theme |-> TRUE]} \cup {[output |-> <<t>>] : t \in Tables(1) \cup Tables(2)} >>

\* The premise of CacheAlwaysExact.
ASSUME OneTablePerOutput
=============================================================================
