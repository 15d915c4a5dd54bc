---------------------------- MODULE PacketStream ----------------------------
(***************************************************************************)
(* What fvwm95 promises a module about its packet pipe, free of slots,     *)
(* queues, write(2) and select(2):                                         *)
(*                                                                         *)
(*  - nothing is addressed to a module before it has spoken for the first  *)
(*    time (pipeOn is still -1);                                           *)
(*  - from then on packets are taken in the order they were offered, none  *)
(*    twice, none skipped;                                                 *)
(*  - only a hang-up may lose packets, and it loses a tail of what is      *)
(*    still pending, never something from the middle.                      *)
(***************************************************************************)
EXTENDS Sequences, SequencesExt

CONSTANT Modules        \* module processes

VARIABLES
  conn,                 \* conn[m]: "new", "silent", "open" or "closed"
  pending,              \* pending[m]: packets offered and not yet taken
  got                   \* got[m]: packets taken, in order

vars == <<conn, pending, got>>

Init ==
  /\ conn = [m \in Modules |-> "new"]
  /\ pending = [m \in Modules |-> <<>>]
  /\ got = [m \in Modules |-> <<>>]

Idle(m) ==
  /\ conn'[m] = conn[m]
  /\ pending'[m] = pending[m]
  /\ got'[m] = got[m]

Connect(m) ==
  /\ conn[m] = "new" /\ conn'[m] = "silent"
  /\ pending'[m] = <<>>
  /\ got'[m] = got[m]

\* The window manager offers packets to a module that has spoken, or speaks now.
Offer(m) ==
  /\ conn[m] \in {"silent", "open"} /\ conn'[m] = "open"
  /\ IsPrefix(pending[m], pending'[m])
  /\ IsInjective(got[m] \o pending'[m])
  /\ got'[m] = got[m]

Take(m) ==
  /\ pending[m] # <<>>
  /\ got'[m] = Append(got[m], Head(pending[m]))
  /\ pending'[m] = Tail(pending[m])
  /\ conn'[m] = conn[m]

HangUp(m) ==
  /\ conn[m] \in {"silent", "open", "closed"} /\ conn'[m] = "closed"
  /\ IsPrefix(pending'[m], pending[m])
  /\ got'[m] = got[m]

\* One step of the window manager may touch several modules at once (Broadcast).
Next == \A m \in Modules : Idle(m) \/ Connect(m) \/ Offer(m) \/ Take(m) \/ HangUp(m)

Spec == Init /\ [][Next]_vars
=============================================================================
