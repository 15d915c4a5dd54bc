----------------------------- MODULE MCViewport -----------------------------
(* Small desktops for Viewport: a screen of 4 by 4, windows that straddle its   *)
(* borders and pages beside it. *)
EXTENDS Viewport

At(x, y) == [a \in Axis |-> IF a = "x" THEN x ELSE y]

MCScreen == At(4, 4)

\* Inside; across the right border; on the page to the right; left of the desktop.
MCPlaces == {At(1, 0), At(3, 1), At(6, 0), At(-3, 0)}

\* Tall and narrow; as wide as the screen.
MCShapes == {At(1, 4), At(4, 2)}

\* One page; three in a row; two by two.
MCDeskSizes == {At(1, 1), At(3, 1), At(2, 2)}
MCScrolls == {At(0, 0), At(4, 4), At(2, 0)}
MCJumps == {At(4, 0), At(-3, 0)}
=============================================================================
