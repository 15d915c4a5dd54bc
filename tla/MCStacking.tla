----------------------------- MODULE MCStacking -----------------------------
(* Instances of Stacking for TLC. *)
EXTENDS Stacking, TLC

CONSTANTS a, b, c

\* c is a dialogue of a.
Dialogue == [w \in Windows |-> IF w = c THEN a ELSE NoWindow]
=============================================================================
