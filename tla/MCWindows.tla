----------------------------- MODULE MCWindows ------------------------------
(* Instances of Windows for TLC. *)
EXTENDS Windows, TLC

CONSTANTS a, b, c

Nowhere == [w \in Windows |-> -1]
Family == [w \in Windows |-> IF w = b THEN a ELSE NoWindow]

Command(type, w) == [type |-> type, win |-> w, desk |-> 0]
On(desk, type, w) == [type |-> type, win |-> w, desk |-> desk]

MCUserCommands ==
  {Command("Iconify", a), Command("Iconify", b), Command("Desk", NoWindow), On(1, "Desk", NoWindow),
   On(1, "WindowsDesk", a)}
MCCommands ==
  {Command("Iconify", a), Command("Focus", b), On(1, "WindowsDesk", b), On(1, "Desk", NoWindow)}

\* Everything that raises, lowers, sticks, destroys or takes the pointer.
MCRoughUser ==
  {Command("Iconify", a), Command("Lower", b), Command("Destroy", a), Command("Move", NoWindow),
   On(1, "Desk", NoWindow)}
MCRough == {Command("Raise", b), Command("Stick", a), Command("Focus", b), Command("Destroy", b)}

\* b starts on desk 1.
SecondDesk == [w \in Windows |-> IF w = b THEN 1 ELSE -1]
=============================================================================
