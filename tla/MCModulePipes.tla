--------------------------- MODULE MCModulePipes ----------------------------
(* Instances of ModulePipes for TLC. *)
EXTENDS ModulePipes, TLC

CONSTANTS m1, m2, m3

MCName == [m \in Modules |-> IF m = m3 THEN "FvwmAuto" ELSE "FvwmPager"]

Command(op) == [op |-> op, cont |-> TRUE, types |-> {}, names |-> {}, mod |-> NoModule]
Start(m) == [Command("module") EXCEPT !.mod = m]

Kill(name) == [Command("kill_module") EXCEPT !.names = {name}]
Restart(name, m) == [Command("restart") EXCEPT !.names = {name}, !.mod = m]

\* The user starts modules, kills one, and waits.
MCUserCommands == {Start(m1), Start(m2), Kill("FvwmPager"), Command("wait")}

\* Talking to modules, restarting one from another, leaving in the three ways a
\* module can, and waiting.
MCCommands ==
  {Restart("FvwmPager", m3),
   [Command("send_to_module") EXCEPT !.names = {"FvwmPager"}],
   [Command("send_list") EXCEPT !.cont = FALSE],
   [Command("set_mask") EXCEPT !.types = {"M_STRING"}],
   Command("wait"), Command("killme"), Command("config")}

\* No waiting: commands that end by themselves.
MCPlainCommands ==
  {[Command("send_to_module") EXCEPT !.names = {"FvwmPager"}],
   [Command("broadcast") EXCEPT !.types = {"M_CONFIGURE_WINDOW"}],
   Kill("FvwmPager"), Command("empty")}

MCWaitCommands == {Command("wait"), Command("config")}
MCUserWaitCommands == {Start(m1), Start(m2), Command("wait")}
MCUserKillCommands == {Start(m1), Start(m3), Kill("FvwmPager")}

MCEventTypes == {"M_CONFIGURE_WINDOW"}
MCLongTypes == {"M_STRING"}
=============================================================================
