------------------------------- MODULE Lists -------------------------------
(***************************************************************************)
(* Lists as the programs keep them (the focus list and the stacking ring   *)
(* of fvwm95, the work queues of the Explorer, packets in a pipe), what is *)
(* left when a loop unlinks or skips some of their elements, and the order *)
(* of two of them.                                                         *)
(***************************************************************************)
EXTENDS Naturals, Sequences

\* The elements of q that are in G, in their order: a loop over q that skips
\* the others.
Those(q, G) ==
  LET those[k \in 0 .. Len(q)] ==
        IF k = 0 THEN <<>>
        ELSE IF q[k] \in G THEN Append(those[k - 1], q[k])
        ELSE those[k - 1]
  IN those[Len(q)]

\* a is somewhere before b.
Over(q, a, b) == \E i, j \in DOMAIN q : i < j /\ q[i] = a /\ q[j] = b
=============================================================================
