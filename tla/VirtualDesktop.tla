--------------------------- MODULE VirtualDesktop ---------------------------
(* What the viewport promises. The screen is a port on a larger desktop. A page *)
(* is turned as one movement: every window that is not stuck to the glass       *)
(* goes the way opposite to the port, by the same distance, once; the stuck     *)
(* ones stay, and may only be put in order when the page is down. Otherwise a   *)
(* window moves because somebody handles that window.                           *)
EXTENDS Integers

CONSTANTS Windows

VARIABLES port,     \* where on the desktop the screen's corner is
          at,       \* where on the screen each window's corner is
          stuck,    \* the windows that do not move with the desktop
          turning   \* a page is being turned

desktop == <<port, at, stuck, turning>>

Axis == {"x", "y"}
Point == [Axis -> Int]
Plus(p, q) == [a \in Axis |-> p[a] + q[a]]
Minus(p, q) == [a \in Axis |-> p[a] - q[a]]

Init ==
  /\ port \in Point
  /\ at \in [Windows -> Point]
  /\ stuck \in SUBSET Windows
  /\ turning = FALSE

Turn ==
  /\ ~turning /\ turning' = TRUE
  /\ port' \in Point
  /\ at' = [w \in Windows |-> IF w \in stuck THEN at[w]
                              ELSE Plus(at[w], Minus(port, port'))]
  /\ UNCHANGED stuck

Settle ==
  /\ turning /\ turning' = FALSE
  /\ at' \in [Windows -> Point]
  /\ \A w \in Windows \ stuck : at'[w] = at[w]
  /\ UNCHANGED <<port, stuck>>

Handle(w) ==
  /\ ~turning
  /\ at' \in [Windows -> Point]
  /\ stuck' \in SUBSET Windows
  /\ \A v \in Windows \ {w} : at'[v] = at[v] /\ (v \in stuck' <=> v \in stuck)
  /\ UNCHANGED <<port, turning>>

Next == Turn \/ Settle \/ \E w \in Windows : Handle(w)

Spec == Init /\ [][Next]_desktop
=============================================================================
