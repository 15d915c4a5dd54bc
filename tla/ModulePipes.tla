---------------------------- MODULE ModulePipes -----------------------------
(***************************************************************************)
(* fvwm95's module interface (fvwm/module.c) and the select loop that      *)
(* serves it (My_XNextEvent in fvwm/events.c, entered again by the Wait    *)
(* builtin in fvwm/builtins.c).                                            *)
(*                                                                         *)
(* fvwm is one thread.  A pass of My_XNextEvent either takes an X event or *)
(* asks select(2) once which descriptors are ready and then scans the      *)
(* slots in order with that snapshot, reading one command and flushing one *)
(* queue per slot.  A command may close slots, open slots, and through     *)
(* Wait start a whole nested loop before the outer scan goes on.           *)
(*                                                                         *)
(* The descriptors of slot i are named by i itself: pipe(2) hands out the  *)
(* lowest free descriptors and executeModule takes the lowest free slot,   *)
(* so a reused slot gets its old descriptor numbers back.                  *)
(***************************************************************************)
EXTENDS Integers, Sequences, SequencesExt, Lists

CONSTANTS
  NPipes,       \* number of slots (GetFdWidth in the code)
  Modules,      \* module processes; each one is forked at most once
  NoModule,     \* "descriptor is -1"
  Name,         \* Name[m]: the program name m is started under
  Commands,     \* what modules may ask for
  UserCommands, \* what users may ask for, with a key, a button or a menu
  EventTypes,   \* packet types that handling an X event broadcasts
  LongTypes,    \* packet types of two chunks (a chunk is one atomic write)
  PipeCap,      \* chunks the kernel buffers in a pipe
  MaxEvents,    \* bound: X events and user commands in all
  MaxCommands,  \* bound: commands written by modules in all
  MaxNest       \* bound: nested Wait loops

Slots == 0 .. NPipes - 1
Names == {Name[m] : m \in Modules}

Types == {"M_NEW_DESK", "M_CONFIGURE_WINDOW", "M_FOCUS_CHANGE",
          "M_END_WINDOWLIST", "M_MAP", "M_STRING", "M_FUNCTION_END"}

\* A command: the builtin it names, the packet types, names or process it is
\* about, and the keep-going word that ends it.
Ops == {"broadcast", "set_mask", "send_list", "module", "kill_module",
        "restart", "send_to_module", "wait", "config", "killme", "empty"}
CommandSet ==
  [op : Ops, cont : BOOLEAN, types : SUBSET Types, names : SUBSET Names,
   mod : Modules \cup {NoModule}]

\* What a module writes: the window a command is about, then the command.
WindowId == [op |-> "window"]
Words == Commands \cup {WindowId}

ASSUME PipesAssumption ==
  /\ NPipes \in Nat \ {0}
  /\ NoModule \notin Modules
  /\ DOMAIN Name = Modules
  /\ Commands \subseteq CommandSet /\ UserCommands \subseteq CommandSet
  /\ \A c \in Commands \cup UserCommands : c.op \in {"module", "restart"} => c.mod \in Modules
  /\ EventTypes \subseteq Types /\ LongTypes \subseteq Types
  /\ PipeCap \in Nat \ {0} /\ MaxEvents \in Nat /\ MaxCommands \in Nat /\ MaxNest \in Nat

VARIABLES
  pipe,      \* pipe[i]: readPipes/writePipes, pipeOn, PipeMask, pipeName, pipeQueue of slot i
  frames,    \* activations of the event loop, the running one last
  clock,     \* number of packets made so far; names the packets
  proc,      \* proc[m]: "new", "running" or "dead"
  toFvwm,    \* toFvwm[m]: what m wrote and fvwm has not read
  toApp,     \* toApp[m]: chunks written to m and not read
  part,      \* part[m]: m is inside the body of a packet
  got,       \* got[m]: packets m read completely
  ncommands, \* commands written so far
  nevents    \* X events handled so far

appVars  == <<proc, toFvwm, toApp, part, got, ncommands>>
vars     == <<pipe, frames, clock, nevents, proc, toFvwm, toApp, part, got, ncommands>>

---------------------------------------------------------------------------
(* Packets and slots *)

Size(type) == IF type \in LongTypes THEN 2 ELSE 1
Packet == {p \in [id : Nat, type : Types, done : 0 .. 1] : p.done < Size(p.type)}
Chunk == [id : Nat, last : BOOLEAN]
LastChunk == [id : Nat, last : {TRUE}]

Slot == [mod : Modules \cup {NoModule}, on : {-1, 1}, mask : SUBSET Types,
         name : Names \cup {NoModule}, queue : Seq(Packet)]

FreeSlot == [mod |-> NoModule, on |-> -1, mask |-> Types, name |-> NoModule, queue |-> <<>>]

\* A packet is queued if the module has spoken and asked for its type.
PositiveWrite(s, type, id) ==
  IF s.on < 0 \/ type \notin s.mask
  THEN s
  ELSE [s EXCEPT !.queue = Append(@, [id |-> id, type |-> type, done |-> 0])]

Broadcast(P, type, id) == [i \in Slots |-> PositiveWrite(P[i], type, id)]
SendPacket(P, i, type, id) == [P EXCEPT ![i] = PositiveWrite(@, type, id)]

\* Mutants: the queue survives the module; pipeOn is reset to 0 instead of -1.
ClosedKeepsQueue(s) == [s EXCEPT !.mod = NoModule, !.on = -1, !.name = NoModule]
ClosedToZero(s) == [s EXCEPT !.mod = NoModule, !.on = 0, !.name = NoModule, !.queue = <<>>]

Closed(s) == [s EXCEPT !.mod = NoModule, !.on = -1, !.name = NoModule, !.queue = <<>>]
KillModule(P, i) == [P EXCEPT ![i] = Closed(@)]
KillModuleByName(P, names) ==
  [i \in Slots |-> IF P[i].name \in names THEN Closed(P[i]) ELSE P[i]]

SendStrToModule(P, names, id) ==
  [i \in Slots |-> IF P[i].name \in names THEN PositiveWrite(P[i], "M_STRING", id) ELSE P[i]]

\* Answer to Send_WindowList; Module is -1 when no module asked.
send_list_func(P, Module, id) ==
  IF Module < 0 THEN P
  ELSE SendPacket(
         Broadcast(
           SendPacket(SendPacket(P, Module, "M_NEW_DESK", id), Module, "M_CONFIGURE_WINDOW", id + 1),
           "M_FOCUS_CHANGE", id + 2),
         Module, "M_END_WINDOWLIST", id + 3)

set_mask_function(P, Module, mask) == [P EXCEPT ![Module].mask = mask]

FreeSlots(P) == {i \in Slots : P[i].mod = NoModule}
Least(S) == {k \in S : \A j \in S : k <= j}

Opened(s, m) == [s EXCEPT !.mod = m, !.on = -1, !.mask = Types, !.name = Name[m], !.queue = <<>>]

\* executeModule may find no slot, fail in pipe(2), fail in fork(2) after the
\* slot got its name, or succeed.
executeModule(P, m) ==
  {P} \cup
  {[P EXCEPT ![i].name = Name[m]] : i \in Least(FreeSlots(P))} \cup
  {[P EXCEPT ![i] = Opened(@, m)] : i \in {k \in Least(FreeSlots(P)) : proc[m] = "new"}}

\* What a builtin other than Wait does to the slots: the set of possible results.
\* Packets it makes are named from id on; it makes at most four.
Results(P, c, Module, id) ==
  CASE c.op = "broadcast"      -> {Broadcast(P, type, id) : type \in c.types}
    [] c.op = "set_mask"       -> {set_mask_function(P, Module, c.types)}
    [] c.op = "send_list"      -> {send_list_func(P, Module, id)}
    [] c.op = "module"         -> executeModule(P, c.mod)
    [] c.op = "kill_module"    -> {KillModuleByName(P, c.names)}
    [] c.op = "restart"        -> executeModule(KillModuleByName(P, c.names), c.mod)
    [] c.op = "send_to_module" -> {SendStrToModule(P, c.names, id)}
    [] OTHER                   -> {}

\* A process runs once its slot is open.
Forked(P) == [m \in Modules |-> IF proc[m] = "new" /\ \E i \in Slots : P[i].mod = m
                                THEN "running" ELSE proc[m]]

---------------------------------------------------------------------------
(* The event loop.  Position 2i of a scan reads slot i, 2i + 1 flushes it. *)

Positions == 0 .. 2 * NPipes - 1
Frame == [pc : {"poll", "scan", "body", "command", "dispatch"},
          at : Positions, in : SUBSET Slots, out : SUBSET Slots]

Polling == [pc |-> "poll", at |-> 0, in |-> {}, out |-> {}]

TopFrame == frames[Len(frames)]
SlotAt(f) == f.at \div 2

\* Where the scan with snapshot f can stop: FD_ISSET in the old snapshot, on
\* descriptors that are open now.
Due(f, P, from) ==
  {k \in Positions : /\ k >= from
                     /\ P[k \div 2].mod # NoModule
                     /\ k \div 2 \in (IF k % 2 = 0 THEN f.in ELSE f.out)}

\* The scan goes on at the next such place, or ends.
Scan(f, P, from) ==
  (IF Due(f, P, from) = {} THEN {Polling} ELSE {}) \cup
  {[f EXCEPT !.pc = "scan", !.at = k] : k \in Least(Due(f, P, from))}

\* The running activation becomes f; the running scan goes on at position k.
Running(f) == [frames EXCEPT ![Len(frames)] = f]
GoOn(P, k) == \E f \in Scan(TopFrame, P, k) : frames' = Running(f)

Readable(m) == toFvwm[m] # <<>> \/ proc[m] = "dead"
Writable(m) == Len(toApp[m]) < PipeCap \/ proc[m] = "dead"

\* Mutant: a queue is not asked for while its first packet is partly written.
SelectFresh ==
  /\ TopFrame.pc = "poll"
  /\ LET open == {i \in Slots : pipe[i].mod # NoModule}
         f == [Polling EXCEPT
                 !.in = {i \in open : Readable(pipe[i].mod)},
                 !.out = {i \in open : /\ pipe[i].queue # <<>> /\ Head(pipe[i].queue).done = 0
                                       /\ Writable(pipe[i].mod)}]
     IN /\ f.in \cup f.out # {}
        /\ \E g \in Scan(f, pipe, 0) : frames' = Running(g)
  /\ UNCHANGED <<pipe, clock, nevents>>
  /\ UNCHANGED appVars

Select ==
  /\ TopFrame.pc = "poll"
  /\ LET open == {i \in Slots : pipe[i].mod # NoModule}
         f == [Polling EXCEPT
                 !.in = {i \in open : Readable(pipe[i].mod)},
                 !.out = {i \in open : pipe[i].queue # <<>> /\ Writable(pipe[i].mod)}]
     IN /\ f.in \cup f.out # {}
        /\ \E g \in Scan(f, pipe, 0) : frames' = Running(g)
  /\ UNCHANGED <<pipe, clock, nevents>>
  /\ UNCHANGED appVars

\* XPending: an X event is handled before any module is served.
XEvent ==
  /\ TopFrame.pc = "poll"
  /\ nevents < MaxEvents /\ nevents' = nevents + 1
  /\ \E type \in EventTypes : pipe' = Broadcast(pipe, type, clock)
  /\ clock' = clock + 1
  /\ UNCHANGED frames
  /\ UNCHANGED appVars

\* A key or button bound to a command; no module is behind it (Module = -1).
UserCommand(c) ==
  /\ TopFrame.pc = "poll"
  /\ nevents < MaxEvents /\ nevents' = nevents + 1
  /\ c.op # "set_mask"
  /\ pipe' \in Results(pipe, c, -1, clock)
  /\ proc' = Forked(pipe')
  /\ clock' = clock + 4
  /\ UNCHANGED <<frames, toFvwm, toApp, part, got, ncommands>>

UserWait(c) ==
  /\ TopFrame.pc = "poll"
  /\ c.op = "wait" /\ Len(frames) <= MaxNest
  /\ nevents < MaxEvents /\ nevents' = nevents + 1
  /\ frames' = Append(Running([TopFrame EXCEPT !.pc = "dispatch"]), Polling)
  /\ UNCHANGED <<pipe, clock>>
  /\ UNCHANGED appVars

\* The window a nested loop waits for is mapped: Wait returns to the command it
\* was part of, which then finishes in the outer loop.
WaitEnds ==
  /\ Len(frames) > 1 /\ TopFrame.pc = "poll"
  /\ LET outer == frames[Len(frames) - 1]
         i == SlotAt(outer)
         P == Broadcast(pipe, "M_MAP", clock)
         Q == IF outer.pc = "dispatch" THEN P ELSE SendPacket(P, i, "M_FUNCTION_END", clock + 1)
     IN /\ pipe' = Q
        /\ \E f \in IF outer.pc = "dispatch" THEN {Polling} ELSE Scan(outer, Q, outer.at + 1) :
             frames' = Append(SubSeq(frames, 1, Len(frames) - 2), f)
  /\ clock' = clock + 2
  /\ UNCHANGED appVars /\ UNCHANGED nevents

---------------------------------------------------------------------------
(* Serving slot i in the scan *)

\* Mutant: end of file is taken for "nothing to read".
ReadEndIgnored(i) ==
  /\ TopFrame.pc \in {"scan", "body"}
  /\ SlotAt(TopFrame) = i /\ (TopFrame.pc = "scan" => TopFrame.at = 2 * i)
  /\ pipe[i].mod # NoModule
  /\ toFvwm[pipe[i].mod] = <<>> /\ proc[pipe[i].mod] = "dead"
  /\ GoOn(pipe, 2 * i + 1)
  /\ UNCHANGED <<pipe, clock, nevents>>
  /\ UNCHANGED appVars

\* read(2) returns 0: the module is gone, between commands or inside one.
ReadEnd(i) ==
  /\ \/ TopFrame.pc = "scan" /\ TopFrame.at = 2 * i
     \/ TopFrame.pc = "body" /\ SlotAt(TopFrame) = i
  /\ pipe[i].mod # NoModule
  /\ toFvwm[pipe[i].mod] = <<>> /\ proc[pipe[i].mod] = "dead"
  /\ pipe' = KillModule(pipe, i)
  /\ GoOn(pipe', 2 * i + 1)
  /\ UNCHANGED <<clock, nevents>>
  /\ UNCHANGED appVars

\* The window id is read with a blocking read(2): the step waits for data.
ReadWindow(i) ==
  /\ TopFrame.pc = "scan" /\ TopFrame.at = 2 * i
  /\ pipe[i].mod # NoModule
  /\ LET m == pipe[i].mod IN
     /\ toFvwm[m] # <<>>
     /\ toFvwm' = [toFvwm EXCEPT ![m] = Tail(@)]
  /\ frames' = Running([TopFrame EXCEPT !.pc = "body"])
  /\ UNCHANGED <<pipe, clock, proc, toApp, part, got, ncommands, nevents>>

\* The slots once the command line and the keep-going word are read.
Spoken(i, c) ==
  LET P == [pipe EXCEPT ![i].on = 1] IN IF c.cont THEN P ELSE KillModule(P, i)

\* The rest of HandleModuleInput, again with blocking reads.
HandleModuleInput(i) ==
  /\ TopFrame.pc = "body" /\ SlotAt(TopFrame) = i
  /\ LET m == pipe[i].mod
         c == Head(toFvwm[m])
         P == Spoken(i, c)
     IN /\ m # NoModule /\ toFvwm[m] # <<>>
        /\ \/ /\ c.op \in {"config", "empty"}
              /\ pipe' = P
           \/ /\ c.op = "killme"
              /\ pipe' = KillModule(P, i)
           \/ \E Q \in Results(P, c, i, clock) :
                pipe' = SendPacket(Q, i, "M_FUNCTION_END", clock + 4)
        /\ GoOn(pipe', 2 * i + 1)
        /\ toFvwm' = [toFvwm EXCEPT ![m] = Tail(@)]
        /\ proc' = Forked(pipe')
  /\ clock' = clock + 5
  /\ UNCHANGED <<toApp, part, got, ncommands, nevents>>

\* The command is a Wait: a new loop runs inside the scan.
HandleModuleWait(i) ==
  /\ TopFrame.pc = "body" /\ SlotAt(TopFrame) = i
  /\ LET m == pipe[i].mod
         c == Head(toFvwm[m])
     IN /\ m # NoModule /\ toFvwm[m] # <<>>
        /\ c.op = "wait" /\ Len(frames) <= MaxNest
        /\ pipe' = Spoken(i, c)
        /\ frames' = Append(Running([TopFrame EXCEPT !.pc = "command"]), Polling)
        /\ toFvwm' = [toFvwm EXCEPT ![m] = Tail(@)]
  /\ UNCHANGED <<clock, proc, toApp, part, got, ncommands, nevents>>

AtFlush(i) == TopFrame.pc = "scan" /\ TopFrame.at = 2 * i + 1
NextSlot(i, P) == GoOn(P, 2 * i + 2)

\* Mutant: a packet is deleted after its first write, partial or not.
FlushWriteOnce(i) ==
  /\ AtFlush(i)
  /\ pipe[i].on > 0 /\ pipe[i].queue # <<>> /\ pipe[i].mod # NoModule
  /\ LET m == pipe[i].mod
         d == Head(pipe[i].queue)
     IN /\ proc[m] # "dead" /\ Len(toApp[m]) < PipeCap
        /\ toApp' = [toApp EXCEPT ![m] = Append(@, [id |-> d.id, last |-> Size(d.type) = 1])]
        /\ pipe' = [pipe EXCEPT ![i].queue = Tail(@)]
        /\ IF pipe'[i].queue = <<>> THEN NextSlot(i, pipe') ELSE UNCHANGED frames
  /\ UNCHANGED <<clock, proc, toFvwm, part, got, ncommands, nevents>>

\* One write(2) of FlushQueue: as much of the head packet as the pipe takes.
FlushWrite(i) ==
  /\ AtFlush(i)
  /\ pipe[i].on > 0 /\ pipe[i].queue # <<>> /\ pipe[i].mod # NoModule
  /\ LET m == pipe[i].mod
         d == Head(pipe[i].queue)
         room == PipeCap - Len(toApp[m])
         rest == Size(d.type) - d.done
         n == IF rest <= room THEN rest ELSE room
     IN /\ proc[m] # "dead" /\ room > 0
        /\ toApp' = [toApp EXCEPT ![m] = @ \o
                       [k \in 1 .. n |-> [id |-> d.id, last |-> d.done + k = Size(d.type)]]]
        /\ pipe' = [pipe EXCEPT ![i].queue =
                      IF n = rest THEN Tail(@) ELSE [@ EXCEPT ![1].done = d.done + n]]
        /\ IF pipe'[i].queue = <<>> THEN NextSlot(i, pipe') ELSE UNCHANGED frames
  /\ UNCHANGED <<clock, proc, toFvwm, part, got, ncommands, nevents>>

\* The pipe is full (EAGAIN), or there is nothing to flush after all.
FlushStops(i) ==
  /\ AtFlush(i)
  /\ pipe[i].mod # NoModule
  /\ \/ pipe[i].on <= 0 \/ pipe[i].queue = <<>>
     \/ Len(toApp[pipe[i].mod]) >= PipeCap /\ proc[pipe[i].mod] # "dead"
  /\ NextSlot(i, pipe)
  /\ UNCHANGED <<pipe, clock, nevents>>
  /\ UNCHANGED appVars

\* EPIPE: the module is gone.
FlushFails(i) ==
  /\ AtFlush(i)
  /\ pipe[i].on > 0 /\ pipe[i].queue # <<>> /\ pipe[i].mod # NoModule
  /\ proc[pipe[i].mod] = "dead"
  /\ pipe' = KillModule(pipe, i)
  /\ NextSlot(i, pipe')
  /\ UNCHANGED <<clock, nevents>>
  /\ UNCHANGED appVars

---------------------------------------------------------------------------
(* A module process (libs/SendInfo.c, libs/ReadPacket.c) *)

Holds(m) == \E i \in Slots : pipe[i].mod = m
\* m has written a window id and not yet the command it belongs to
MidCommand(m) ==
  \/ toFvwm[m] # <<>> /\ Last(toFvwm[m]).op = "window"
  \/ /\ toFvwm[m] = <<>> /\ TopFrame.pc = "body"
     /\ pipe[SlotAt(TopFrame)].mod = m

SendInfoWindow(m) ==
  /\ proc[m] = "running" /\ Holds(m) /\ ~MidCommand(m)
  /\ ncommands < MaxCommands
  /\ toFvwm' = [toFvwm EXCEPT ![m] = Append(@, WindowId)]
  /\ ncommands' = ncommands + 1
  /\ UNCHANGED <<pipe, frames, clock, proc, toApp, part, got, nevents>>

SendInfoText(m) ==
  /\ proc[m] = "running" /\ Holds(m) /\ MidCommand(m)
  /\ \E c \in Commands : toFvwm' = [toFvwm EXCEPT ![m] = Append(@, c)]
  /\ UNCHANGED <<pipe, frames, clock, proc, toApp, part, got, ncommands, nevents>>

\* Read a chunk: the header, or what there is of the body.
ReadFvwmPacket(m) ==
  /\ proc[m] = "running" /\ toApp[m] # <<>>
  /\ LET chunk == Head(toApp[m]) IN
     /\ part' = [part EXCEPT ![m] = ~chunk.last]
     /\ got' = IF chunk.last THEN [got EXCEPT ![m] = Append(@, chunk.id)] ELSE got
  /\ toApp' = [toApp EXCEPT ![m] = Tail(@)]
  /\ UNCHANGED <<pipe, frames, clock, proc, toFvwm, ncommands, nevents>>

\* End of file where a header should be: DeadPipe, the module leaves.  End of
\* file inside a body makes the loop of ReadFvwmPacket spin: no step.
DeadPipe(m) ==
  /\ proc[m] = "running" /\ ~Holds(m) /\ toApp[m] = <<>> /\ ~part[m]
  /\ proc' = [proc EXCEPT ![m] = "dead"]
  /\ UNCHANGED <<pipe, frames, clock, toFvwm, toApp, part, got, ncommands, nevents>>

\* A module may exit, crash or be killed at any moment; what it has not read is gone.
ModuleDies(m) ==
  /\ proc[m] = "running"
  /\ proc' = [proc EXCEPT ![m] = "dead"]
  /\ toApp' = [toApp EXCEPT ![m] = <<>>]
  /\ UNCHANGED <<pipe, frames, clock, toFvwm, part, got, ncommands, nevents>>

---------------------------------------------------------------------------

Init ==
  /\ pipe = [i \in Slots |-> FreeSlot]
  /\ frames = <<Polling>>
  /\ clock = 0
  /\ proc = [m \in Modules |-> "new"]
  /\ toFvwm = [m \in Modules |-> <<>>]
  /\ toApp = [m \in Modules |-> <<>>]
  /\ part = [m \in Modules |-> FALSE]
  /\ got = [m \in Modules |-> <<>>]
  /\ ncommands = 0
  /\ nevents = 0

Serve(i) == \/ ReadEnd(i) \/ ReadWindow(i) \/ HandleModuleInput(i) \/ HandleModuleWait(i)
            \/ FlushWrite(i) \/ FlushStops(i) \/ FlushFails(i)

XInput == XEvent \/ \E c \in UserCommands : UserCommand(c) \/ UserWait(c)

Fvwm == Select \/ WaitEnds \/ \E i \in Slots : Serve(i)

Process(m) == \/ SendInfoWindow(m) \/ SendInfoText(m) \/ ReadFvwmPacket(m)
             \/ DeadPipe(m) \/ ModuleDies(m)

Next == XInput \/ Fvwm \/ \E m \in Modules : Process(m)

Spec == Init /\ [][Next]_vars

\* fvwm is one thread that never stops by itself; X events have priority over
\* modules but are finite in number here.  Modules read what they are sent,
\* leave when the pipe ends, and finish a command they began; nothing makes a
\* module begin one, die, or makes the window a Wait is about appear.
Fairness ==
  /\ WF_vars(Select \/ \E i \in Slots : Serve(i))
  /\ \A m \in Modules : /\ WF_vars(ReadFvwmPacket(m))
                        /\ WF_vars(DeadPipe(m))
                        /\ WF_vars(SendInfoText(m))

FairSpec == Spec /\ Fairness

---------------------------------------------------------------------------
(* Properties *)

\* The values the variables take.
TypeOK ==
  /\ pipe \in [Slots -> Slot]
  /\ frames \in Seq(Frame) /\ frames # <<>>
  /\ clock \in Nat
  /\ proc \in [Modules -> {"new", "running", "dead"}]
  /\ toFvwm \in [Modules -> Seq(Words)]
  /\ toApp \in [Modules -> Seq(Chunk)]
  /\ part \in [Modules -> BOOLEAN]
  /\ got \in [Modules -> Seq(Nat)]
  /\ ncommands \in Nat /\ nevents \in Nat

\* A slot whose descriptors are closed is off, and a slot that is off has nothing
\* queued (KillModule, PositiveWrite).  executeModule finds a slot by its
\* descriptor alone, so this is what keeps the packets queued for one module from
\* the next one in its slot, and what keeps a module from hearing anything before
\* its first command.
QuietSlot(s) ==
  /\ s.mod = NoModule => s.on = -1
  /\ s.on < 0 => s.queue = <<>>
QuietSlots == \A i \in Slots : QuietSlot(pipe[i])

\* Packets of m on their way: completely in the kernel's pipe, or still queued.
SlotsOf(m) == {i \in Slots : pipe[i].mod = m}
Ids(q) == [k \in 1 .. Len(q) |-> q[k].id]
Delivered(m) == Ids(Those(toApp[m], LastChunk))
Queued(m) == IF SlotsOf(m) = {} THEN <<>>
             ELSE Ids(pipe[CHOOSE i \in Slots : pipe[i].mod = m].queue)
Pending(m) == IF proc[m] = "dead" THEN <<>> ELSE Delivered(m) \o Queued(m)

\* The state of m's connection as PacketStream sees it.
Conn(m) ==
  IF proc[m] = "new" THEN "new"
  ELSE IF proc[m] = "dead" \/ SlotsOf(m) = {} THEN "closed"
  ELSE IF pipe[CHOOSE i \in Slots : pipe[i].mod = m].on < 0 THEN "silent" ELSE "open"

Stream == INSTANCE PacketStream WITH
            conn <- [m \in Modules |-> Conn(m)],
            pending <- [m \in Modules |-> Pending(m)]

\* fvwm keeps the promise of PacketStream.
StreamSpec == Stream!Spec

\* Where nothing waits inside a command, whatever is offered to a module is
\* read by it, however often the pipe is full, unless the module dies.
PendingRead ==
  \A m \in Modules : Pending(m) # <<>> ~> Pending(m) = <<>>

\* A dead module's slot is closed sooner or later: end of file is an input.
DeadModuleReclaimed ==
  \A m \in Modules : proc[m] = "dead" ~> ~Holds(m)

\* "Don't want to jam up fvwm because of an uncooperative module": fvwm does not
\* sit in read(2) at the start of a command that its module has not begun.
NeverJammed ==
  TopFrame.pc = "scan" /\ TopFrame.at % 2 = 0 => Readable(pipe[SlotAt(TopFrame)].mod)
=============================================================================
