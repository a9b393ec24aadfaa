----------------------------- MODULE MCDesktop -----------------------------
(***************************************************************************)
(* Instances of Desktop for TLC: the shells of the windows of each run.    *)
(***************************************************************************)
EXTENDS Desktop

WaylandThenX11 == [w \in Window |-> IF w = 1 THEN "wayland" ELSE "x11"]
LastX11 == [w \in Window |-> IF w = MaxWindows THEN "x11" ELSE "wayland"]
OfEachShell == [w \in Window |-> IF w = 1 THEN "wayland" ELSE IF w = 2 THEN "x11" ELSE "menu"]
=============================================================================
