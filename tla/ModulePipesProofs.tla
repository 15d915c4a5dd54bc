------------------------- MODULE ModulePipesProofs --------------------------
(***************************************************************************)
(* Proofs about ModulePipes, for any number of slots, modules, commands    *)
(* and nested loops.                                                       *)
(***************************************************************************)
EXTENDS ModulePipes, ListsProofs

\* A table of slots that is well typed and quiet.
QuietTable == [Slots -> {s \in Slot : QuietSlot(s)}]

LEMMA PositiveWriteQuiet ==
  ASSUME NEW s \in Slot, QuietSlot(s), NEW type \in Types, NEW id \in Nat
  PROVE  PositiveWrite(s, type, id) \in Slot /\ QuietSlot(PositiveWrite(s, type, id))
<1> DEFINE p == [id |-> id, type |-> type, done |-> 0]
<1>1. p \in Packet
  BY DEF Packet, Size
<1>2. Append(s.queue, p) \in Seq(Packet)
  BY <1>1 DEF Slot
<1> QED
  BY <1>2 DEF PositiveWrite, Slot, QuietSlot

LEMMA BroadcastQuiet ==
  ASSUME NEW P \in QuietTable, NEW type \in Types, NEW id \in Nat
  PROVE  Broadcast(P, type, id) \in QuietTable
BY PositiveWriteQuiet DEF Broadcast, QuietTable

LEMMA SendPacketQuiet ==
  ASSUME NEW P \in QuietTable, NEW i \in Slots, NEW type \in Types, NEW id \in Nat
  PROVE  SendPacket(P, i, type, id) \in QuietTable
BY PositiveWriteQuiet DEF SendPacket, QuietTable

LEMMA ClosedQuiet ==
  ASSUME NEW s \in Slot
  PROVE  Closed(s) \in Slot /\ QuietSlot(Closed(s))
BY EmptySeq DEF Closed, Slot, QuietSlot

LEMMA KillModuleQuiet ==
  ASSUME NEW P \in QuietTable, NEW i \in Slots
  PROVE  KillModule(P, i) \in QuietTable
BY ClosedQuiet DEF KillModule, QuietTable

LEMMA KillModuleByNameQuiet ==
  ASSUME NEW P \in QuietTable, NEW names
  PROVE  KillModuleByName(P, names) \in QuietTable
BY ClosedQuiet DEF KillModuleByName, QuietTable

LEMMA SendStrToModuleQuiet ==
  ASSUME NEW P \in QuietTable, NEW names, NEW id \in Nat
  PROVE  SendStrToModule(P, names, id) \in QuietTable
<1>1. "M_STRING" \in Types
  BY DEF Types
<1> QED
  BY <1>1, PositiveWriteQuiet DEF SendStrToModule, QuietTable


LEMMA send_list_funcQuiet ==
  ASSUME NEW P \in QuietTable, NEW Module \in Slots \cup {-1}, NEW id \in Nat
  PROVE  send_list_func(P, Module, id) \in QuietTable
<1>1. CASE Module = -1
  BY <1>1 DEF send_list_func
<1>2. CASE Module \in Slots
  <2> DEFINE A == SendPacket(P, Module, "M_NEW_DESK", id)
             B == SendPacket(A, Module, "M_CONFIGURE_WINDOW", id + 1)
             C == Broadcast(B, "M_FOCUS_CHANGE", id + 2)
             D == SendPacket(C, Module, "M_END_WINDOWLIST", id + 3)
  <2>1. {"M_NEW_DESK", "M_CONFIGURE_WINDOW", "M_FOCUS_CHANGE", "M_END_WINDOWLIST"} \subseteq Types
    BY DEF Types
  <2>2. A \in QuietTable
    BY <1>2, <2>1, SendPacketQuiet
  <2>3. B \in QuietTable
    BY <1>2, <2>1, <2>2, SendPacketQuiet
  <2>4. C \in QuietTable
    BY <2>1, <2>3, BroadcastQuiet
  <2>5. D \in QuietTable
    BY <1>2, <2>1, <2>4, SendPacketQuiet
  <2>6. ~ (Module < 0)
    BY <1>2, PipesAssumption DEF Slots
  <2> QED
    BY <2>5, <2>6 DEF send_list_func
<1> QED
  BY <1>1, <1>2

LEMMA set_mask_functionQuiet ==
  ASSUME NEW P \in QuietTable, NEW i \in Slots, NEW mask \in SUBSET Types
  PROVE  set_mask_function(P, i, mask) \in QuietTable
BY DEF set_mask_function, QuietTable, Slot, QuietSlot

LEMMA executeModuleQuiet ==
  ASSUME NEW P \in QuietTable, NEW m \in Modules
  PROVE  executeModule(P, m) \subseteq QuietTable
<1>1. Name[m] \in Names
  BY DEF Names
<1>2. ASSUME NEW i \in FreeSlots(P)
      PROVE  [P EXCEPT ![i].name = Name[m]] \in QuietTable
  BY <1>1 DEF QuietTable, Slot, QuietSlot, FreeSlots
<1>3. ASSUME NEW i \in FreeSlots(P)
      PROVE  [P EXCEPT ![i] = Opened(@, m)] \in QuietTable
  <2>1. P[i] \in Slot /\ i \in Slots
    BY DEF QuietTable, FreeSlots
  <2>2. Opened(P[i], m) \in Slot /\ QuietSlot(Opened(P[i], m))
    BY <1>1, <2>1, EmptySeq, PipesAssumption DEF Opened, Slot, QuietSlot
  <2> QED
    BY <2>1, <2>2 DEF QuietTable
<1>4. Least(FreeSlots(P)) \subseteq FreeSlots(P)
  BY DEF Least
<1> QED
  BY <1>2, <1>3, <1>4 DEF executeModule

\* The commands a user or a module can give.
AllCommands == Commands \cup UserCommands

LEMMA ResultsQuiet ==
  ASSUME NEW P \in QuietTable, NEW c \in AllCommands, NEW Module \in Slots \cup {-1},
         NEW id \in Nat, c.op = "set_mask" => Module \in Slots
  PROVE  Results(P, c, Module, id) \subseteq QuietTable
<1>1. c \in CommandSet /\ (c.op \in {"module", "restart"} => c.mod \in Modules)
  BY PipesAssumption DEF AllCommands
<1>2. c.op \in Ops /\ c.types \subseteq Types /\ c.names \subseteq Names
  BY <1>1 DEF CommandSet
<1>3. CASE c.op = "broadcast"
  BY <1>2, <1>3, BroadcastQuiet DEF Results
<1>4. CASE c.op = "set_mask"
  BY <1>2, <1>4, set_mask_functionQuiet DEF Results
<1>5. CASE c.op = "send_list"
  BY <1>5, send_list_funcQuiet DEF Results
<1>6. CASE c.op = "module"
  BY <1>1, <1>6, executeModuleQuiet DEF Results
<1>7. CASE c.op = "kill_module"
  BY <1>7, KillModuleByNameQuiet DEF Results
<1>8. CASE c.op = "restart"
  BY <1>1, <1>8, KillModuleByNameQuiet, executeModuleQuiet DEF Results
<1>9. CASE c.op = "send_to_module"
  BY <1>9, SendStrToModuleQuiet DEF Results
<1>10. CASE c.op \in {"wait", "config", "killme", "empty"}
  BY <1>10 DEF Results
<1> QED
  BY <1>2, <1>3, <1>4, <1>5, <1>6, <1>7, <1>8, <1>9, <1>10 DEF Ops

---------------------------------------------------------------------------
(* The stack of activations *)

LEMMA PositionSlot ==
  ASSUME NEW k \in Positions
  PROVE  k \div 2 \in Slots
BY PipesAssumption DEF Positions, Slots

LEMMA SlotPosition ==
  ASSUME NEW i \in Slots
  PROVE  2 * i \in Positions /\ 2 * i + 1 \in Positions
BY PipesAssumption DEF Positions, Slots

LEMMA PollingFrame == Polling \in Frame
BY PipesAssumption DEF Polling, Frame, Positions

LEMMA ScanFrame ==
  ASSUME NEW f \in Frame, NEW P, NEW from
  PROVE  Scan(f, P, from) \subseteq Frame
<1>1. Least(Due(f, P, from)) \subseteq Positions
  BY DEF Least, Due
<1>2. ASSUME NEW k \in Positions
      PROVE  [f EXCEPT !.pc = "scan", !.at = k] \in Frame
  BY DEF Frame
<1> QED
  BY <1>1, <1>2, PollingFrame DEF Scan

\* A stack of activations that is never empty.
Stacks == {s \in Seq(Frame) : s # <<>>}

LEMMA TopFrameType ==
  ASSUME frames \in Stacks
  PROVE  Len(frames) \in Nat \ {0} /\ TopFrame \in Frame
BY DEF Stacks, TopFrame

LEMMA RunningStack ==
  ASSUME frames \in Stacks, NEW f \in Frame
  PROVE  Running(f) \in Stacks
<1>1. Len(frames) \in 1 .. Len(frames)
  BY TopFrameType
<1>2. Running(f) \in Seq(Frame) /\ Len(Running(f)) = Len(frames)
  BY <1>1, ExceptSeq DEF Running, Stacks
<1> QED
  BY <1>2, TopFrameType DEF Stacks

LEMMA PushStack ==
  ASSUME NEW s \in Stacks
  PROVE  Append(s, Polling) \in Stacks
BY PollingFrame DEF Stacks

LEMMA GoOnStack ==
  ASSUME frames \in Stacks, NEW P, NEW k, GoOn(P, k)
  PROVE  frames' \in Stacks
<1>1. PICK f \in Scan(TopFrame, P, k) : frames' = Running(f)
  BY DEF GoOn
<1>2. f \in Frame
  BY TopFrameType, ScanFrame
<1> QED
  BY <1>1, <1>2, RunningStack

---------------------------------------------------------------------------
(* The invariant, action by action *)

IInv == TypeOK /\ QuietSlots

LEMMA IInvTable == IInv => pipe \in QuietTable /\ frames \in Stacks /\ clock \in Nat
BY DEF IInv, TypeOK, QuietSlots, QuietTable, Stacks

LEMMA TableInv ==
  ASSUME pipe' \in QuietTable, frames' \in Stacks, clock' \in Nat, nevents' \in Nat,
         IInv, UNCHANGED appVars
  PROVE  IInv'
BY DEF IInv, TypeOK, QuietSlots, QuietTable, Stacks, appVars

LEMMA InitInv == Init => IInv
<1> SUFFICES ASSUME Init PROVE IInv
  OBVIOUS
<1>1. FreeSlot \in Slot /\ QuietSlot(FreeSlot)
  BY EmptySeq DEF FreeSlot, Slot, QuietSlot
<1>2. frames \in Seq(Frame) /\ frames # <<>>
  BY PollingFrame DEF Init
<1> QED
  BY <1>1, <1>2 DEF Init, IInv, TypeOK, QuietSlots

LEMMA ForkedType ==
  ASSUME TypeOK, NEW P
  PROVE  Forked(P) \in [Modules -> {"new", "running", "dead"}]
BY DEF Forked, TypeOK

LEMMA SelectInv == IInv /\ Select => IInv'
<1> SUFFICES ASSUME IInv, Select PROVE IInv'
  OBVIOUS
<1> DEFINE open == {i \in Slots : pipe[i].mod # NoModule}
           f == [Polling EXCEPT
                   !.in = {i \in open : Readable(pipe[i].mod)},
                   !.out = {i \in open : pipe[i].queue # <<>> /\ Writable(pipe[i].mod)}]
<1>1. f \in Frame
  BY PollingFrame DEF Frame
<1>2. PICK g \in Scan(f, pipe, 0) : frames' = Running(g)
  BY DEF Select
<1>3. frames' \in Stacks
  BY <1>1, <1>2, ScanFrame, RunningStack, IInvTable
<1> QED
  BY <1>3, TableInv, IInvTable DEF Select, IInv, TypeOK

LEMMA XEventInv == IInv /\ XEvent => IInv'
<1> SUFFICES ASSUME IInv, XEvent PROVE IInv'
  OBVIOUS
<1>1. pipe' \in QuietTable
  BY IInvTable, BroadcastQuiet, PipesAssumption DEF XEvent
<1>2. clock' \in Nat /\ nevents' \in Nat
  BY DEF XEvent, IInv, TypeOK
<1> QED
  BY <1>1, <1>2, TableInv, IInvTable DEF XEvent

LEMMA UserCommandInv ==
  ASSUME NEW c \in UserCommands, IInv, UserCommand(c)
  PROVE  IInv'
<1>1. pipe' \in QuietTable
  BY IInvTable, ResultsQuiet DEF UserCommand, AllCommands
<1>2. clock' \in Nat /\ nevents' \in Nat
  BY DEF UserCommand, IInv, TypeOK
<1>3. proc' \in [Modules -> {"new", "running", "dead"}]
  BY ForkedType DEF UserCommand, IInv
<1> QED
  BY <1>1, <1>2, <1>3 DEF UserCommand, IInv, TypeOK, QuietSlots, QuietTable

LEMMA UserWaitInv ==
  ASSUME NEW c \in UserCommands, IInv, UserWait(c)
  PROVE  IInv'
<1>1. [TopFrame EXCEPT !.pc = "dispatch"] \in Frame
  BY IInvTable, TopFrameType DEF Frame
<1>2. frames' \in Stacks
  BY <1>1, IInvTable, RunningStack, PushStack DEF UserWait
<1>3. pipe' \in QuietTable /\ clock' \in Nat /\ nevents' \in Nat
  BY IInvTable DEF UserWait, IInv, TypeOK
<1> QED
  BY <1>2, <1>3, TableInv DEF UserWait

LEMMA WaitEndsInv == IInv /\ WaitEnds => IInv'
<1> SUFFICES ASSUME IInv, WaitEnds PROVE IInv'
  OBVIOUS
<1> DEFINE outer == frames[Len(frames) - 1]
           i == SlotAt(outer)
           P == Broadcast(pipe, "M_MAP", clock)
           Q == IF outer.pc = "dispatch" THEN P ELSE SendPacket(P, i, "M_FUNCTION_END", clock + 1)
           F == IF outer.pc = "dispatch" THEN {Polling} ELSE Scan(outer, Q, outer.at + 1)
           s == SubSeq(frames, 1, Len(frames) - 2)
<1>1. {"M_MAP", "M_FUNCTION_END"} \subseteq Types
  BY DEF Types
<1>2. outer \in Frame
  BY IInvTable DEF WaitEnds, Stacks
<1>3. i \in Slots
  BY <1>2, PositionSlot DEF SlotAt, Frame
<1>4. P \in QuietTable
  BY <1>1, IInvTable, BroadcastQuiet
<1>5. Q \in QuietTable
  BY <1>1, <1>3, <1>4, IInvTable, SendPacketQuiet
<1>6. F \subseteq Frame
  BY <1>2, ScanFrame, PollingFrame
<1>7. s \in Seq(Frame)
  BY IInvTable DEF Stacks
<1>8. PICK f \in F : frames' = Append(s, f)
  BY DEF WaitEnds
<1>9. frames' \in Stacks
  BY <1>6, <1>7, <1>8 DEF Stacks
<1>10. pipe' = Q /\ clock' \in Nat /\ nevents' \in Nat
  BY DEF WaitEnds, IInv, TypeOK
<1> QED
  BY <1>5, <1>9, <1>10, TableInv DEF WaitEnds

LEMMA ReadEndInv ==
  ASSUME NEW i \in Slots, IInv, ReadEnd(i)
  PROVE  IInv'
<1>1. pipe' \in QuietTable
  BY IInvTable, KillModuleQuiet DEF ReadEnd
<1>2. frames' \in Stacks
  BY IInvTable, GoOnStack DEF ReadEnd
<1> QED
  BY <1>1, <1>2, TableInv, IInvTable DEF ReadEnd, IInv, TypeOK

LEMMA ReadWindowInv ==
  ASSUME NEW i \in Slots, IInv, ReadWindow(i)
  PROVE  IInv'
<1> DEFINE m == pipe[i].mod
<1>1. [TopFrame EXCEPT !.pc = "body"] \in Frame
  BY IInvTable, TopFrameType DEF Frame
<1>2. frames' \in Stacks
  BY <1>1, IInvTable, RunningStack DEF ReadWindow
<1>3. m \in Modules /\ toFvwm[m] \in Seq(Words) /\ toFvwm[m] # <<>>
  BY DEF ReadWindow, IInv, TypeOK, Slot
<1>4. toFvwm' \in [Modules -> Seq(Words)]
  BY <1>3 DEF ReadWindow, IInv, TypeOK
<1> QED
  BY <1>2, <1>4, IInvTable DEF ReadWindow, IInv, TypeOK, QuietSlots, Stacks

LEMMA SpokenQuiet ==
  ASSUME IInv, NEW i \in Slots, NEW c, pipe[i].mod # NoModule
  PROVE  Spoken(i, c) \in QuietTable
<1> DEFINE P == [pipe EXCEPT ![i].on = 1]
<1>1. pipe \in QuietTable
  BY IInvTable
<1>2. pipe[i] \in Slot
  BY <1>1 DEF QuietTable
<1> DEFINE s == [pipe[i] EXCEPT !.on = 1]
<1>3. s \in Slot /\ s.on = 1 /\ s.mod = pipe[i].mod
  BY <1>2 DEF Slot
<1>4. QuietSlot(s)
  BY <1>3 DEF QuietSlot
<1>5. P \in QuietTable
  BY <1>1, <1>3, <1>4 DEF QuietTable
<1> QED
  BY <1>5, KillModuleQuiet DEF Spoken

LEMMA HandleModuleInputInv ==
  ASSUME NEW i \in Slots, IInv, HandleModuleInput(i)
  PROVE  IInv'
<1> DEFINE m == pipe[i].mod
           c == Head(toFvwm[m])
           P == Spoken(i, c)
<1>1. m \in Modules /\ toFvwm[m] \in Seq(Words) /\ toFvwm[m] # <<>>
  BY DEF HandleModuleInput, IInv, TypeOK, Slot
<1>2. c \in Words /\ Tail(toFvwm[m]) \in Seq(Words)
  BY <1>1
<1>3. P \in QuietTable
  BY <1>1, SpokenQuiet, PipesAssumption
<1>4. "M_FUNCTION_END" \in Types
  BY DEF Types
<1>5. ASSUME NEW Q \in Results(P, c, i, clock)
      PROVE  Q \in QuietTable
  <2>1. CASE c \in Commands
    BY <1>3, <1>5, <2>1, IInvTable, ResultsQuiet DEF AllCommands
  <2>2. CASE c = WindowId
    BY <1>5, <2>2 DEF Results, WindowId
  <2> QED
    BY <1>2, <2>1, <2>2 DEF Words
<1>6. pipe' \in QuietTable
  <2>1. CASE pipe' = P
    BY <1>3, <2>1
  <2>2. CASE pipe' = KillModule(P, i)
    BY <1>3, <2>2, KillModuleQuiet
  <2>3. ASSUME NEW Q \in Results(P, c, i, clock),
               pipe' = SendPacket(Q, i, "M_FUNCTION_END", clock + 4)
        PROVE  pipe' \in QuietTable
    <3>1. clock + 4 \in Nat
      BY IInvTable
    <3> QED
      BY <1>4, <1>5, <2>3, <3>1, SendPacketQuiet
  <2> QED
    BY <2>1, <2>2, <2>3 DEF HandleModuleInput
<1>7. frames' \in Stacks
  BY IInvTable, GoOnStack DEF HandleModuleInput
<1>8. toFvwm' \in [Modules -> Seq(Words)]
  BY <1>1, <1>2 DEF HandleModuleInput, IInv, TypeOK
<1>9. proc' \in [Modules -> {"new", "running", "dead"}]
  BY ForkedType DEF HandleModuleInput, IInv
<1>10. clock' \in Nat
  BY DEF HandleModuleInput, IInv, TypeOK
<1> QED
  BY <1>6, <1>7, <1>8, <1>9, <1>10
     DEF HandleModuleInput, IInv, TypeOK, QuietSlots, QuietTable, Stacks

LEMMA HandleModuleWaitInv ==
  ASSUME NEW i \in Slots, IInv, HandleModuleWait(i)
  PROVE  IInv'
<1> DEFINE m == pipe[i].mod
           c == Head(toFvwm[m])
<1>1. m \in Modules /\ toFvwm[m] \in Seq(Words) /\ toFvwm[m] # <<>>
  BY DEF HandleModuleWait, IInv, TypeOK, Slot
<1>2. pipe' \in QuietTable
  BY <1>1, SpokenQuiet, PipesAssumption DEF HandleModuleWait
<1>3. [TopFrame EXCEPT !.pc = "command"] \in Frame
  BY IInvTable, TopFrameType DEF Frame
<1>4. frames' \in Stacks
  BY <1>3, IInvTable, RunningStack, PushStack DEF HandleModuleWait
<1>5. toFvwm' \in [Modules -> Seq(Words)]
  BY <1>1 DEF HandleModuleWait, IInv, TypeOK
<1> QED
  BY <1>2, <1>4, <1>5 DEF HandleModuleWait, IInv, TypeOK, QuietSlots, QuietTable, Stacks

LEMMA FunctionSeq ==
  ASSUME NEW S, NEW n \in Nat, NEW f \in [1 .. n -> S]
  PROVE  f \in Seq(S)
BY SeqDef, Zenon

LEMMA FlushWriteInv ==
  ASSUME NEW i \in Slots, IInv, FlushWrite(i)
  PROVE  IInv'
<1> DEFINE m == pipe[i].mod
           q == pipe[i].queue
           d == Head(q)
           room == PipeCap - Len(toApp[m])
           rest == Size(d.type) - d.done
           n == IF rest <= room THEN rest ELSE room
           chunks == [k \in 1 .. n |-> [id |-> d.id, last |-> d.done + k = Size(d.type)]]
           newq == IF n = rest THEN Tail(q) ELSE [q EXCEPT ![1].done = d.done + n]
<1>a. pipe[i].mod # NoModule /\ q # <<>> /\ room > 0
  BY DEF FlushWrite
<1>b. toApp' = [toApp EXCEPT ![m] = @ \o chunks]
  BY DEF FlushWrite
<1>c. pipe[i] \in Slot /\ toApp \in [Modules -> Seq(Chunk)]
  BY DEF IInv, TypeOK
<1>1. m \in Modules /\ pipe[i] \in Slot
  BY <1>a, <1>c DEF Slot
<1>2. q \in Seq(Packet) /\ q # <<>> /\ d \in Packet
  <2>1. q \in Seq(Packet)
    BY <1>c DEF Slot
  <2> QED
    BY <1>a, <2>1
<1>3. /\ d.id \in Nat /\ d.done \in 0 .. 1 /\ Size(d.type) \in 1 .. 2
      /\ rest \in 1 .. 2
  BY <1>2 DEF Packet, Size
<1>4. toApp[m] \in Seq(Chunk) /\ room \in Int /\ room > 0
  <2>1. toApp[m] \in Seq(Chunk)
    BY <1>c, <1>1
  <2> QED
    BY <2>1, <1>a, PipesAssumption
<1>5. n \in 1 .. rest /\ (n # rest => n = 1 /\ d.done = 0 /\ Size(d.type) = 2)
  BY <1>3, <1>4
<1>6. newq \in Seq(Packet)
  <2>1. CASE n = rest
    BY <1>2, <2>1
  <2>2. CASE n # rest
    <3>1. [d EXCEPT !.done = d.done + n] \in Packet
      BY <1>2, <1>3, <1>5, <2>2 DEF Packet
    <3>2. 1 \in 1 .. Len(q) /\ d = q[1]
      BY <1>2
    <3>3. newq = [q EXCEPT ![1] = [d EXCEPT !.done = d.done + n]]
      BY <2>2, <3>2
    <3> QED
      BY <1>2, <3>1, <3>2, <3>3, ExceptSeq
  <2> QED
    BY <2>1, <2>2
<1>7. pipe' = [pipe EXCEPT ![i].queue = newq] /\ pipe[i].on > 0 /\ pipe[i].mod # NoModule
  BY DEF FlushWrite
<1> DEFINE s == [pipe[i] EXCEPT !.queue = newq]
<1>8. pipe' \in QuietTable
  <2>1. s \in Slot /\ s.on = pipe[i].on /\ s.mod = pipe[i].mod
    BY <1>1, <1>6 DEF Slot
  <2>2. pipe[i].on \in {-1, 1}
    BY <1>1 DEF Slot
  <2>3. QuietSlot(s)
    BY <1>7, <2>1, <2>2 DEF QuietSlot
  <2>4. pipe' = [pipe EXCEPT ![i] = s]
    BY <1>7
  <2> QED
    BY <2>1, <2>3, <2>4, IInvTable DEF QuietTable
<1>9. chunks \in Seq(Chunk)
  <2>1. chunks \in [1 .. n -> Chunk]
    BY <1>3 DEF Chunk
  <2>2. n \in Nat
    BY <1>3, <1>5
  <2> QED
    BY <2>1, <2>2, FunctionSeq
<1>10. toApp' \in [Modules -> Seq(Chunk)]
  <2> HIDE DEF chunks
  <2>1. toApp[m] \o chunks \in Seq(Chunk)
    BY <1>4, <1>9
  <2> QED
    BY <1>b, <1>c, <1>1, <2>1
<1>11. frames' \in Stacks
  BY IInvTable, GoOnStack DEF FlushWrite, NextSlot
<1> QED
  BY <1>8, <1>10, <1>11 DEF FlushWrite, IInv, TypeOK, QuietSlots, QuietTable, Stacks

LEMMA FlushStopsInv ==
  ASSUME NEW i \in Slots, IInv, FlushStops(i)
  PROVE  IInv'
<1>1. frames' \in Stacks
  BY IInvTable, GoOnStack DEF FlushStops, NextSlot
<1>2. pipe' \in QuietTable /\ clock' \in Nat /\ nevents' \in Nat
  BY IInvTable DEF FlushStops, IInv, TypeOK
<1> QED
  BY <1>1, <1>2, TableInv DEF FlushStops

LEMMA FlushFailsInv ==
  ASSUME NEW i \in Slots, IInv, FlushFails(i)
  PROVE  IInv'
<1>1. frames' \in Stacks
  BY IInvTable, GoOnStack DEF FlushFails, NextSlot
<1>2. pipe' \in QuietTable
  BY IInvTable, KillModuleQuiet DEF FlushFails
<1>3. clock' \in Nat /\ nevents' \in Nat
  BY DEF FlushFails, IInv, TypeOK
<1> QED
  BY <1>1, <1>2, <1>3, TableInv DEF FlushFails

LEMMA ModuleInv ==
  ASSUME NEW m \in Modules, IInv, Process(m)
  PROVE  IInv'
<1>1. CASE SendInfoWindow(m)
  <2>1. Append(toFvwm[m], WindowId) \in Seq(Words)
    BY DEF IInv, TypeOK, Words
  <2> QED
    BY <1>1, <2>1 DEF SendInfoWindow, IInv, TypeOK, QuietSlots
<1>2. CASE SendInfoText(m)
  <2>1. PICK c \in Commands : toFvwm' = [toFvwm EXCEPT ![m] = Append(@, c)]
    BY <1>2 DEF SendInfoText
  <2>2. Append(toFvwm[m], c) \in Seq(Words)
    BY DEF IInv, TypeOK, Words
  <2>3. toFvwm' \in [Modules -> Seq(Words)]
    BY <2>1, <2>2 DEF IInv, TypeOK
  <2> QED
    BY <1>2, <2>3 DEF SendInfoText, IInv, TypeOK, QuietSlots
<1>3. CASE ReadFvwmPacket(m)
  <2>1. toApp[m] \in Seq(Chunk) /\ toApp[m] # <<>>
    BY <1>3 DEF ReadFvwmPacket, IInv, TypeOK
  <2>2. Head(toApp[m]) \in Chunk
        /\ Tail(toApp[m]) \in Seq(Chunk)
    BY <2>1
  <2>3. Append(got[m], Head(toApp[m]).id) \in Seq(Nat)
    BY <2>2 DEF IInv, TypeOK, Chunk
  <2> QED
    BY <1>3, <2>2, <2>3 DEF ReadFvwmPacket, IInv, TypeOK, QuietSlots
<1>4. CASE DeadPipe(m)
  BY <1>4 DEF DeadPipe, IInv, TypeOK, QuietSlots
<1>5. CASE ModuleDies(m)
  BY <1>5, EmptySeq DEF ModuleDies, IInv, TypeOK, QuietSlots
<1> QED
  BY <1>1, <1>2, <1>3, <1>4, <1>5 DEF Process

LEMMA NextInv == IInv /\ [Next]_vars => IInv'
<1> SUFFICES ASSUME IInv, [Next]_vars PROVE IInv'
  OBVIOUS
<1>1. CASE XInput
  BY <1>1, XEventInv, UserCommandInv, UserWaitInv DEF XInput
<1>2. CASE Fvwm
  BY <1>2, SelectInv, WaitEndsInv, ReadEndInv, ReadWindowInv, HandleModuleInputInv,
     HandleModuleWaitInv, FlushWriteInv, FlushStopsInv, FlushFailsInv DEF Fvwm, Serve
<1>3. CASE \E m \in Modules : Process(m)
  BY <1>3, ModuleInv
<1>4. CASE UNCHANGED vars
  BY <1>4 DEF vars, IInv, TypeOK, QuietSlots
<1> QED
  BY <1>1, <1>2, <1>3, <1>4 DEF Next

\* The variables keep their types, whatever modules and users ask for and in
\* whatever order modules die, speak and are waited for.
THEOREM PipesTypeOK == Spec => []TypeOK
<1>1. IInv => TypeOK
  BY DEF IInv
<1> QED
  BY <1>1, InitInv, NextInv, PTL DEF Spec

\* A closed slot is off and an off slot has an empty queue: a module never gets
\* packets meant for the module that had its slot before, nor any before it spoke.
THEOREM PipesQuietSlots == Spec => []QuietSlots
<1>1. IInv => QuietSlots
  BY DEF IInv
<1> QED
  BY <1>1, InitInv, NextInv, PTL DEF Spec

---------------------------------------------------------------------------
(* The packets of a list, by name                                          *)

LEMMA IdsType ==
  ASSUME NEW S, \A x \in S : x.id \in Nat, NEW q \in Seq(S)
  PROVE  Ids(q) \in Seq(Nat) /\ Len(Ids(q)) = Len(q) /\ \A k \in 1..Len(q) : Ids(q)[k] = q[k].id
<1>1. Len(q) \in Nat /\ \A k \in 1..Len(q) : q[k] \in S
  OBVIOUS
<1>2. Ids(q) \in [1..Len(q) -> Nat]
  BY <1>1 DEF Ids
<1>3. Ids(q) \in Seq(Nat)
  BY <1>1, <1>2, FunctionSeq
<1>4. Len(Ids(q)) = Len(q)
  BY <1>1, <1>2, <1>3
<1> QED
  BY <1>3, <1>4 DEF Ids

LEMMA IdsEmpty == Ids(<<>>) = <<>>
<1>1. \A x \in {} : x.id \in Nat
  OBVIOUS
<1>2. <<>> \in Seq({}) /\ Len(<<>>) = 0
  OBVIOUS
<1>3. Ids(<<>>) \in Seq(Nat) /\ Len(Ids(<<>>)) = 0
  BY <1>1, <1>2, IdsType
<1> QED
  BY <1>3

LEMMA NoIds ==
  ASSUME NEW S, \A x \in S : x.id \in Nat, NEW q \in Seq(S), Ids(q) = <<>>
  PROVE  q = <<>>
<1>1. Len(q) = 0
  <2>1. Len(Ids(q)) = Len(q)
    BY IdsType
  <2> QED
    BY <2>1
<1> QED
  BY <1>1

LEMMA IdsConcat ==
  ASSUME NEW S, \A x \in S : x.id \in Nat, NEW p \in Seq(S), NEW q \in Seq(S)
  PROVE  Ids(p \o q) = Ids(p) \o Ids(q)
<1> DEFINE r == p \o q
           u == Ids(p)
           v == Ids(q)
           w == Ids(r)
<1>1. /\ r \in Seq(S) /\ Len(r) = Len(p) + Len(q)
      /\ \A k \in 1..Len(r) : r[k] = IF k <= Len(p) THEN p[k] ELSE q[k - Len(p)]
  OBVIOUS
<1>2. u \in Seq(Nat) /\ Len(u) = Len(p) /\ \A k \in 1..Len(p) : u[k] = p[k].id
  BY IdsType
<1>3. v \in Seq(Nat) /\ Len(v) = Len(q) /\ \A k \in 1..Len(q) : v[k] = q[k].id
  BY IdsType
<1>4. w \in Seq(Nat) /\ Len(w) = Len(r) /\ \A k \in 1..Len(r) : w[k] = r[k].id
  BY <1>1, IdsType
<1> HIDE DEF r, u, v, w
<1>5. u \o v \in Seq(Nat) /\ Len(u \o v) = Len(r)
  <2>0. u \in Seq(Nat) /\ v \in Seq(Nat)
    BY <1>2, <1>3
  <2>1. u \o v \in Seq(Nat) /\ Len(u \o v) = Len(u) + Len(v)
    BY <2>0, ConcatProperties
  <2> QED
    BY <1>1, <1>2, <1>3, <2>1
<1>6. ASSUME NEW k \in 1..Len(r) PROVE w[k] = (u \o v)[k]
  <2>1. Len(p) \in Nat /\ Len(q) \in Nat
    OBVIOUS
  <2>2. CASE k <= Len(p)
    <3>0. k \in 1..Len(p)
      BY <2>1, <2>2
    <3>1. k \in 1..Len(p) /\ w[k] = p[k].id /\ u[k] = p[k].id
      <4>1. w[k] = r[k].id
        BY <1>4
      <4>2. r[k] = p[k]
        BY <1>1, <3>0
      <4>3. u[k] = p[k].id
        BY <1>2, <3>0
      <4> QED
        BY <3>0, <4>1, <4>2, <4>3
    <3> QED
      BY <1>2, <1>3, <3>1
  <2>3. CASE ~(k <= Len(p))
    <3>1. k - Len(p) \in 1..Len(q)
      BY <1>1, <2>1, <2>3
    <3>2. w[k] = q[k - Len(p)].id /\ v[k - Len(p)] = q[k - Len(p)].id
      BY <1>1, <1>3, <1>4, <2>3, <3>1
    <3>3. (u \o v)[k] = v[k - Len(p)]
      BY <1>1, <1>2, <1>3, <2>1, <2>3
    <3> QED
      BY <3>2, <3>3
  <2> QED
    BY <2>2, <2>3
<1>7. w = u \o v
  BY <1>4, <1>5, <1>6, SeqEqual
<1> QED
  BY <1>7 DEF r, u, v, w

LEMMA NatAssoc ==
  \A a, b, c \in Seq(Nat) : (a \o b) \o c = a \o (b \o c)
BY ConcatAssociative

LEMMA IdsSingle ==
  ASSUME NEW x, x.id \in Nat
  PROVE  Ids(<<x>>) = <<x.id>>
<1>1. Len(<<x>>) = 1 /\ <<x>>[1] = x
  OBVIOUS
<1>2. Ids(<<x>>) = [k \in 1..1 |-> x.id]
  BY <1>1 DEF Ids
<1>3. <<x.id>> = [k \in 1..1 |-> x.id]
  OBVIOUS
<1> QED
  BY <1>2, <1>3

LEMMA IdsFirst ==
  ASSUME NEW S, \A x \in S : x.id \in Nat, NEW q \in Seq(S), q # <<>>
  PROVE  Ids(q) = <<Head(q).id>> \o Ids(Tail(q))
<1> DEFINE h == Head(q)
           l == <<h>>
           t == Tail(q)
<1>1. h \in S /\ l \in Seq(S) /\ t \in Seq(S) /\ q = l \o t
  OBVIOUS
<1>2. Ids(l) = <<h.id>>
  BY <1>1, IdsSingle
<1> HIDE DEF l, t
<1>3. Ids(q) = Ids(l) \o Ids(t)
  BY <1>1, IdsConcat
<1> QED
  BY <1>2, <1>3 DEF t

\* The names in list q are from lo to below hi, each greater than those before it.
Rising(q, lo, hi) ==
  /\ q \in Seq(Nat)
  /\ \A a \in ToSet(q) : lo <= a /\ a < hi
  /\ \A a, b : Over(q, a, b) => a < b

LEMMA RisingEmpty == \A lo, hi : Rising(<<>>, lo, hi)
BY MembersEmpty, OverEmpty DEF Rising

LEMMA RisingSingle ==
  ASSUME NEW a \in Nat
  PROVE  Rising(<<a>>, a, a + 1)
<1> DEFINE q == <<a>>
<1>1. q \in Seq(Nat)
  OBVIOUS
<1>2. ToSet(q) = {a} /\ \A x, y : ~Over(q, x, y)
  BY MembersSingle, OverSingle
<1> HIDE DEF q
<1>3. Rising(q, a, a + 1)
  BY <1>1, <1>2 DEF Rising
<1> QED
  BY <1>3 DEF q

LEMMA RisingWider ==
  ASSUME NEW q, NEW lo \in Nat, NEW hi \in Nat, Rising(q, lo, hi),
         NEW l \in Nat, NEW h \in Nat, l <= lo, hi <= h
  PROVE  Rising(q, l, h)
<1>1. ToSet(q) \subseteq Nat
  BY DEF Rising, ToSet
<1> QED
  BY <1>1 DEF Rising

LEMMA RisingConcat ==
  ASSUME NEW p, NEW q, NEW lo \in Nat, NEW mid \in Nat, NEW hi \in Nat,
         lo <= mid, mid <= hi, Rising(p, lo, mid), Rising(q, mid, hi)
  PROVE  Rising(p \o q, lo, hi)
<1>1. p \in Seq(Nat) /\ q \in Seq(Nat)
  BY DEF Rising
<1>2. ToSet(p \o q) = ToSet(p) \cup ToSet(q) /\ p \o q \in Seq(Nat)
  BY <1>1, MembersConcat
<1>3. \A a, b : Over(p \o q, a, b) <=> Over(p, a, b) \/ Over(q, a, b) \/ (a \in ToSet(p) /\ b \in ToSet(q))
  BY <1>1, OverConcat
<1>4. ToSet(p) \subseteq Nat /\ ToSet(q) \subseteq Nat
  BY <1>1 DEF ToSet
<1>5. \A a \in ToSet(p \o q) : lo <= a /\ a < hi
  BY <1>2, <1>4 DEF Rising
<1>6. \A a \in ToSet(p), b \in ToSet(q) : a < b
  BY <1>4 DEF Rising
<1> QED
  BY <1>2, <1>3, <1>5, <1>6 DEF Rising

LEMMA RisingPart ==
  ASSUME NEW p \in Seq(Nat), NEW q \in Seq(Nat), NEW lo, NEW hi, Rising(p \o q, lo, hi)
  PROVE  Rising(p, lo, hi)
<1>1. ToSet(p \o q) = ToSet(p) \cup ToSet(q)
  BY MembersConcat
<1>2. \A a, b : Over(p \o q, a, b) <=> Over(p, a, b) \/ Over(q, a, b) \/ (a \in ToSet(p) /\ b \in ToSet(q))
  BY OverConcat
<1> QED
  BY <1>1, <1>2 DEF Rising

LEMMA RisingOnce ==
  ASSUME NEW q, NEW lo, NEW hi, Rising(q, lo, hi)
  PROVE  IsInjective(q)
<1>1. q \in Seq(Nat) /\ \A a \in Nat : Over(q, a, a) => a < a
  BY DEF Rising
<1>2. \A a \in Nat : ~Over(q, a, a)
  BY <1>1
<1> QED
  BY <1>1, <1>2, OnceOver

---------------------------------------------------------------------------
(* What a step does to a slot and to the table of slots                    *)

\* The queue of t is that of s and new packets, and nothing is queued for a
\* module that has not spoken.
Offered(s, t, lo, hi) ==
  \E r : Rising(r, lo, hi) /\ Ids(t.queue) = Ids(s.queue) \o r /\ (t.on < 0 => r = <<>>)

\* Slot s is closed, or has had packets queued.
Written(s, t, lo, hi) ==
  t.mod = NoModule \/ (t.mod = s.mod /\ t.on = s.on /\ Offered(s, t, lo, hi))

\* The slot is given to a module that has not run before.
StartedIn(t) == t.mod \in Modules /\ proc[t.mod] = "new" /\ t.on = -1 /\ t.queue = <<>>

Became(s, t, lo, hi) == Written(s, t, lo, hi) \/ StartedIn(t)

\* The same, but the module may have spoken as well.
Moved(s, t, lo, hi) ==
  \/ t.mod = NoModule
  \/ StartedIn(t)
  \/ t.mod = s.mod /\ (s.on = 1 => t.on = 1) /\ Offered(s, t, lo, hi)

\* No module has two slots, and none has one that does not run.
Sole(P) == \A i, j \in Slots : P[i].mod = P[j].mod /\ P[i].mod # NoModule => i = j
NoneNew(P) == \A i \in Slots : P[i].mod \in Modules => proc[P[i].mod] # "new"

QuietSlotSet == {s \in Slot : QuietSlot(s)}

LEMMA SlotFacts ==
  ASSUME NEW s \in QuietSlotSet
  PROVE  /\ s.queue \in Seq(Packet) /\ s.on \in {-1, 1} /\ s.mod \in Modules \cup {NoModule}
         /\ s.mod = NoModule => s.on = -1
         /\ s.on = -1 => s.queue = <<>>
         /\ Ids(s.queue) \in Seq(Nat)
<1>1. s.queue \in Seq(Packet) /\ s.on \in {-1, 1} /\ s.mod \in Modules \cup {NoModule} /\ QuietSlot(s)
  BY DEF QuietSlotSet, Slot
<1>2. \A p \in Packet : p.id \in Nat
  BY DEF Packet
<1> QED
  BY <1>1, <1>2, IdsType DEF QuietSlot

LEMMA OfferedNothing ==
  ASSUME NEW s \in QuietSlotSet, NEW t, t.queue = s.queue, NEW lo, NEW hi
  PROVE  Offered(s, t, lo, hi)
<1>1. Ids(s.queue) \o <<>> = Ids(s.queue)
  BY SlotFacts, ConcatEmptySeq
<1> QED
  BY <1>1, RisingEmpty DEF Offered

LEMMA SameWritten ==
  ASSUME NEW s \in QuietSlotSet, NEW t, t.queue = s.queue, t.mod = s.mod, t.on = s.on, NEW lo, NEW hi
  PROVE  Written(s, t, lo, hi)
BY OfferedNothing DEF Written

LEMMA WriteWritten ==
  ASSUME NEW s \in QuietSlotSet, NEW type \in Types, NEW id \in Nat
  PROVE  Written(s, PositiveWrite(s, type, id), id, id + 1)
<1> DEFINE t == PositiveWrite(s, type, id)
           p == [id |-> id, type |-> type, done |-> 0]
           l == <<p>>
<1>1. CASE s.on < 0 \/ type \notin s.mask
  BY <1>1, SameWritten DEF PositiveWrite
<1>2. CASE ~(s.on < 0 \/ type \notin s.mask)
  <2>1. t = [s EXCEPT !.queue = Append(@, p)]
    BY <1>2 DEF PositiveWrite
  <2>2. s \in Slot /\ p \in Packet /\ p.id = id
    BY DEF QuietSlotSet, Packet, Size
  <2>3. s.queue \in Seq(Packet) /\ \A x \in Packet : x.id \in Nat
    BY SlotFacts DEF Packet
  <2> HIDE DEF p
  <2>4. t.queue = Append(s.queue, p) /\ t.mod = s.mod /\ t.on = s.on
    BY <2>1, <2>2 DEF Slot
  <2>5. l \in Seq(Packet) /\ Append(s.queue, p) = s.queue \o l
    BY <2>2, <2>3
  <2>6. Ids(l) = <<id>>
    BY <2>2, IdsSingle
  <2> HIDE DEF l, t
  <2>7. Ids(t.queue) = Ids(s.queue) \o Ids(l)
    BY <2>3, <2>4, <2>5, IdsConcat
  <2>8. Rising(<<id>>, id, id + 1)
    BY RisingSingle
  <2>9. Rising(Ids(l), id, id + 1)
    BY <2>6, <2>8, Zenon
  <2>10. ~(t.on < 0)
    BY <1>2, <2>4
  <2> QED
    BY <2>4, <2>7, <2>9, <2>10 DEF Written, Offered, t
<1> QED
  BY <1>1, <1>2

LEMMA ClosedWritten ==
  ASSUME NEW s, NEW t, t.mod = NoModule, NEW lo, NEW hi
  PROVE  Written(s, t, lo, hi)
BY DEF Written

LEMMA ClosedMod ==
  ASSUME NEW s \in QuietSlotSet
  PROVE  Closed(s).mod = NoModule
BY DEF Closed, QuietSlotSet, Slot

LEMMA WrittenWider ==
  ASSUME NEW s, NEW t, NEW lo \in Nat, NEW hi \in Nat, Written(s, t, lo, hi),
         NEW l \in Nat, NEW h \in Nat, l <= lo, hi <= h
  PROVE  Written(s, t, l, h)
BY RisingWider DEF Written, Offered

LEMMA OfferedTrans ==
  ASSUME NEW s \in QuietSlotSet, NEW t \in QuietSlotSet, NEW u \in QuietSlotSet,
         NEW lo \in Nat, NEW mid \in Nat, NEW hi \in Nat, lo <= mid, mid <= hi,
         Offered(s, t, lo, mid), Offered(t, u, mid, hi), u.on < 0 => t.on < 0
  PROVE  Offered(s, u, lo, hi)
<1>1. PICK r : Rising(r, lo, mid) /\ Ids(t.queue) = Ids(s.queue) \o r /\ (t.on < 0 => r = <<>>)
  BY DEF Offered
<1>2. PICK q : Rising(q, mid, hi) /\ Ids(u.queue) = Ids(t.queue) \o q /\ (u.on < 0 => q = <<>>)
  BY DEF Offered
<1>3. r \in Seq(Nat) /\ q \in Seq(Nat) /\ Ids(s.queue) \in Seq(Nat)
  BY <1>1, <1>2, SlotFacts DEF Rising
<1>4. Rising(r \o q, lo, hi)
  BY <1>1, <1>2, RisingConcat
<1> DEFINE a == Ids(s.queue)
<1>5. Ids(u.queue) = a \o (r \o q)
  <2>1. Ids(u.queue) = (a \o r) \o q
    BY <1>1, <1>2
  <2> HIDE DEF a
  <2>2. a \in Seq(Nat) /\ r \in Seq(Nat) /\ q \in Seq(Nat)
    BY <1>3 DEF a
  <2>3. (a \o r) \o q = a \o (r \o q)
    BY <2>2, NatAssoc, Zenon
  <2> QED
    BY <2>1, <2>3
<1>6. u.on < 0 => r \o q = <<>>
  BY <1>1, <1>2
<1> QED
  BY <1>4, <1>5, <1>6 DEF Offered

LEMMA WrittenTrans ==
  ASSUME NEW s \in QuietSlotSet, NEW t \in QuietSlotSet, NEW u \in QuietSlotSet,
         NEW lo \in Nat, NEW mid \in Nat, NEW hi \in Nat, lo <= mid, mid <= hi,
         Written(s, t, lo, mid), Written(t, u, mid, hi)
  PROVE  Written(s, u, lo, hi)
BY OfferedTrans DEF Written

LEMMA BecameTrans ==
  ASSUME NEW s \in QuietSlotSet, NEW t \in QuietSlotSet, NEW u \in QuietSlotSet,
         NEW lo \in Nat, NEW mid \in Nat, NEW hi \in Nat, lo <= mid, mid <= hi,
         Became(s, t, lo, mid), Became(t, u, mid, hi)
  PROVE  Became(s, u, lo, hi)
<1>1. CASE StartedIn(u)
  BY <1>1 DEF Became
<1>2. CASE Written(s, t, lo, mid) /\ Written(t, u, mid, hi)
  BY <1>2, WrittenTrans DEF Became
<1>3. CASE StartedIn(t) /\ Written(t, u, mid, hi)
  <2>1. CASE u.mod = NoModule
    BY <2>1 DEF Became, Written
  <2>2. CASE u.mod # NoModule
    <3>1. u.mod = t.mod /\ u.on = -1 /\ Offered(t, u, mid, hi)
      BY <1>3, <2>2 DEF Written, StartedIn
    <3>2. u.queue = <<>>
      BY <3>1, SlotFacts
    <3> QED
      BY <1>3, <3>1, <3>2 DEF Became, StartedIn
  <2> QED
    BY <2>1, <2>2
<1> QED
  BY <1>1, <1>2, <1>3 DEF Became

LEMMA BecameMoved ==
  ASSUME NEW s \in QuietSlotSet, NEW t, NEW lo, NEW hi, Became(s, t, lo, hi)
  PROVE  Moved(s, t, lo, hi)
BY DEF Became, Written, Moved

\* The module speaks, then the slot is written.
LEMMA SpokenMoved ==
  ASSUME NEW s \in QuietSlotSet, NEW t \in QuietSlotSet, t.mod = NoModule \/ (t.mod = s.mod /\ t.on = 1 /\ t.queue = s.queue),
         NEW u \in QuietSlotSet, NEW lo \in Nat, NEW hi \in Nat, lo <= hi, Became(t, u, lo, hi)
  PROVE  Moved(s, u, lo, hi)
<1>1. CASE u.mod = NoModule \/ StartedIn(u)
  BY <1>1 DEF Moved
<1>2. CASE u.mod # NoModule /\ u.mod = t.mod /\ u.on = t.on /\ Offered(t, u, lo, hi)
  <2>1. Offered(s, u, lo, hi)
    BY <1>2 DEF Offered
  <2> QED
    BY <1>2, <2>1 DEF Moved
<1> QED
  BY <1>1, <1>2 DEF Became, Written

---------------------------------------------------------------------------
(* What a builtin does to the table of slots                               *)

TableWritten(P, Q, lo, hi) == \A j \in Slots : Written(P[j], Q[j], lo, hi)
TableBecame(P, Q, lo, hi) == (\A j \in Slots : Became(P[j], Q[j], lo, hi)) /\ Sole(Q)

LEMMA TableSlots ==
  ASSUME NEW P \in QuietTable, NEW j \in Slots
  PROVE  P[j] \in QuietSlotSet
BY DEF QuietTable, QuietSlotSet

LEMMA TableSame ==
  ASSUME NEW P \in QuietTable, NEW lo, NEW hi
  PROVE  TableWritten(P, P, lo, hi)
BY TableSlots, SameWritten DEF TableWritten

LEMMA TableWider ==
  ASSUME NEW P, NEW Q, NEW lo \in Nat, NEW hi \in Nat, TableWritten(P, Q, lo, hi),
         NEW l \in Nat, NEW h \in Nat, l <= lo, hi <= h
  PROVE  TableWritten(P, Q, l, h)
BY WrittenWider DEF TableWritten

LEMMA TableTrans ==
  ASSUME NEW P \in QuietTable, NEW Q \in QuietTable, NEW R \in QuietTable,
         NEW lo \in Nat, NEW mid \in Nat, NEW hi \in Nat, lo <= mid, mid <= hi,
         TableWritten(P, Q, lo, mid), TableWritten(Q, R, mid, hi)
  PROVE  TableWritten(P, R, lo, hi)
BY TableSlots, WrittenTrans DEF TableWritten

\* Writing and closing opens no slot.
LEMMA WrittenSole ==
  ASSUME NEW P, NEW Q, NEW lo, NEW hi, TableWritten(P, Q, lo, hi)
  PROVE  /\ Sole(P) => Sole(Q)
         /\ NoneNew(P) => NoneNew(Q)
<1>1. \A j \in Slots : Q[j].mod \in {P[j].mod, NoModule}
  BY DEF TableWritten, Written
<1> QED
  BY <1>1, PipesAssumption DEF Sole, NoneNew

LEMMA WrittenBecame ==
  ASSUME NEW P, NEW Q, NEW lo, NEW hi, TableWritten(P, Q, lo, hi), Sole(P)
  PROVE  TableBecame(P, Q, lo, hi)
BY WrittenSole DEF TableBecame, TableWritten, Became

LEMMA BroadcastWritten ==
  ASSUME NEW P \in QuietTable, NEW type \in Types, NEW id \in Nat
  PROVE  TableWritten(P, Broadcast(P, type, id), id, id + 1)
BY TableSlots, WriteWritten DEF TableWritten, Broadcast

LEMMA SendPacketWritten ==
  ASSUME NEW P \in QuietTable, NEW i \in Slots, NEW type \in Types, NEW id \in Nat
  PROVE  TableWritten(P, SendPacket(P, i, type, id), id, id + 1)
<1> DEFINE Q == SendPacket(P, i, type, id)
<1>1. \A j \in Slots : Q[j] = IF j = i THEN PositiveWrite(P[i], type, id) ELSE P[j]
  BY DEF SendPacket, QuietTable
<1> HIDE DEF Q
<1>2. \A j \in Slots : Written(P[j], Q[j], id, id + 1)
  BY <1>1, TableSlots, WriteWritten, SameWritten
<1> QED
  BY <1>2 DEF TableWritten, Q

LEMMA KillModuleWritten ==
  ASSUME NEW P \in QuietTable, NEW i \in Slots, NEW lo, NEW hi
  PROVE  TableWritten(P, KillModule(P, i), lo, hi)
<1> DEFINE Q == KillModule(P, i)
<1>1. \A j \in Slots : Q[j] = IF j = i THEN Closed(P[i]) ELSE P[j]
  BY DEF KillModule, QuietTable
<1> HIDE DEF Q
<1>2. \A j \in Slots : Written(P[j], Q[j], lo, hi)
  BY <1>1, TableSlots, ClosedMod, ClosedWritten, SameWritten
<1> QED
  BY <1>2 DEF TableWritten, Q

LEMMA KillModuleByNameWritten ==
  ASSUME NEW P \in QuietTable, NEW names, NEW lo, NEW hi
  PROVE  TableWritten(P, KillModuleByName(P, names), lo, hi)
BY TableSlots, ClosedMod, ClosedWritten, SameWritten DEF TableWritten, KillModuleByName

LEMMA SendStrToModuleWritten ==
  ASSUME NEW P \in QuietTable, NEW names, NEW id \in Nat
  PROVE  TableWritten(P, SendStrToModule(P, names, id), id, id + 1)
<1>1. "M_STRING" \in Types
  BY DEF Types
<1> QED
  BY <1>1, TableSlots, WriteWritten, SameWritten DEF TableWritten, SendStrToModule

LEMMA set_mask_functionWritten ==
  ASSUME NEW P \in QuietTable, NEW i \in Slots, NEW mask, NEW lo, NEW hi
  PROVE  TableWritten(P, set_mask_function(P, i, mask), lo, hi)
<1> DEFINE Q == set_mask_function(P, i, mask)
<1>1. \A j \in Slots : Q[j] = IF j = i THEN [P[i] EXCEPT !.mask = mask] ELSE P[j]
  BY DEF set_mask_function, QuietTable
<1>2. \A j \in Slots : P[j] \in Slot
  BY DEF QuietTable
<1> HIDE DEF Q
<1>3. \A j \in Slots : Q[j].queue = P[j].queue /\ Q[j].mod = P[j].mod /\ Q[j].on = P[j].on
  BY <1>1, <1>2 DEF Slot
<1> QED
  BY <1>3, TableSlots, SameWritten DEF TableWritten, Q

LEMMA send_list_funcWritten ==
  ASSUME NEW P \in QuietTable, NEW Module \in Slots \cup {-1}, NEW id \in Nat
  PROVE  TableWritten(P, send_list_func(P, Module, id), id, id + 4)
<1>1. CASE Module = -1
  BY <1>1, TableSame DEF send_list_func
<1>2. CASE Module \in Slots
  <2> DEFINE A == SendPacket(P, Module, "M_NEW_DESK", id)
             B == SendPacket(A, Module, "M_CONFIGURE_WINDOW", id + 1)
             C == Broadcast(B, "M_FOCUS_CHANGE", id + 2)
             D == SendPacket(C, Module, "M_END_WINDOWLIST", id + 3)
  <2>1. {"M_NEW_DESK", "M_CONFIGURE_WINDOW", "M_FOCUS_CHANGE", "M_END_WINDOWLIST"} \subseteq Types
    BY DEF Types
  <2>2. A \in QuietTable /\ TableWritten(P, A, id, id + 1)
    BY <1>2, <2>1, SendPacketQuiet, SendPacketWritten
  <2> HIDE DEF A
  <2>3. B \in QuietTable /\ TableWritten(A, B, id + 1, id + 2)
    <3>1. id + 1 \in Nat /\ (id + 1) + 1 = id + 2
      OBVIOUS
    <3>2. TableWritten(A, B, id + 1, (id + 1) + 1)
      BY <1>2, <2>1, <2>2, <3>1, SendPacketWritten
    <3> QED
      BY <1>2, <2>1, <2>2, <3>1, <3>2, SendPacketQuiet
  <2> HIDE DEF B
  <2>4. C \in QuietTable /\ TableWritten(B, C, id + 2, id + 3)
    <3>1. id + 2 \in Nat /\ (id + 2) + 1 = id + 3
      OBVIOUS
    <3>2. TableWritten(B, C, id + 2, (id + 2) + 1)
      BY <2>1, <2>3, <3>1, BroadcastWritten
    <3> QED
      BY <2>1, <2>3, <3>1, <3>2, BroadcastQuiet
  <2> HIDE DEF C
  <2>5. D \in QuietTable /\ TableWritten(C, D, id + 3, id + 4)
    <3>1. id + 3 \in Nat /\ (id + 3) + 1 = id + 4
      OBVIOUS
    <3>2. TableWritten(C, D, id + 3, (id + 3) + 1)
      BY <1>2, <2>1, <2>4, <3>1, SendPacketWritten
    <3> QED
      BY <1>2, <2>1, <2>4, <3>1, <3>2, SendPacketQuiet
  <2>6. ~ (Module < 0)
    BY <1>2, PipesAssumption DEF Slots
  <2>7. send_list_func(P, Module, id) = D
    BY <2>6 DEF send_list_func, A, B, C
  <2> HIDE DEF D
  <2>8. /\ id + 1 \in Nat /\ id + 2 \in Nat /\ id + 3 \in Nat /\ id + 4 \in Nat
        /\ id <= id + 1 /\ id + 1 <= id + 2 /\ id <= id + 2 /\ id + 2 <= id + 3 /\ id <= id + 3
        /\ id + 3 <= id + 4
    OBVIOUS
  <2>9. TableWritten(P, B, id, id + 2)
    BY <2>2, <2>3, <2>8, TableTrans
  <2>10. TableWritten(P, C, id, id + 3)
    BY <2>3, <2>4, <2>8, <2>9, TableTrans
  <2>11. TableWritten(P, D, id, id + 4)
    BY <2>4, <2>5, <2>8, <2>10, TableTrans
  <2> QED
    BY <2>7, <2>11
<1> QED
  BY <1>1, <1>2

\* The only builtin that opens a slot opens it for a module that has none.
LEMMA executeModuleBecame ==
  ASSUME NEW P \in QuietTable, Sole(P), NoneNew(P), NEW m \in Modules, NEW Q \in executeModule(P, m),
         NEW lo, NEW hi
  PROVE  TableBecame(P, Q, lo, hi)
<1>1. \A j \in Slots : P[j] \in Slot /\ P[j] \in QuietSlotSet
  BY TableSlots DEF QuietTable
<1>2. CASE Q = P
  BY <1>2, TableSame, WrittenBecame
<1>3. ASSUME NEW i \in Slots, Q = [P EXCEPT ![i].name = Name[m]]
      PROVE  TableBecame(P, Q, lo, hi)
  <2>1. \A j \in Slots : Q[j] = IF j = i THEN [P[i] EXCEPT !.name = Name[m]] ELSE P[j]
    BY <1>3 DEF QuietTable
  <2>2. \A j \in Slots : Q[j].queue = P[j].queue /\ Q[j].mod = P[j].mod /\ Q[j].on = P[j].on
    BY <1>1, <2>1 DEF Slot
  <2>3. TableWritten(P, Q, lo, hi)
    BY <1>1, <2>2, SameWritten DEF TableWritten
  <2> QED
    BY <2>3, WrittenBecame
<1>4. ASSUME NEW i \in Slots, proc[m] = "new", Q = [P EXCEPT ![i] = Opened(@, m)]
      PROVE  TableBecame(P, Q, lo, hi)
  <2>1. \A j \in Slots : Q[j] = IF j = i THEN Opened(P[i], m) ELSE P[j]
    BY <1>4 DEF QuietTable
  <2>2. Q[i].mod = m /\ Q[i].on = -1 /\ Q[i].queue = <<>>
    BY <1>1, <2>1 DEF Opened, Slot
  <2>3. StartedIn(Q[i])
    BY <1>4, <2>2 DEF StartedIn
  <2>4. \A j \in Slots \ {i} : Written(P[j], Q[j], lo, hi) /\ Q[j].mod # m
    BY <1>1, <1>4, <2>1, SameWritten DEF NoneNew
  <2>5. \A j \in Slots : Became(P[j], Q[j], lo, hi)
    BY <2>3, <2>4 DEF Became
  <2>6. Sole(Q)
    BY <2>1, <2>2, <2>4 DEF Sole
  <2> QED
    BY <2>5, <2>6 DEF TableBecame
<1>5. Least(FreeSlots(P)) \subseteq Slots
  BY DEF Least, FreeSlots
<1> QED
  BY <1>2, <1>3, <1>4, <1>5 DEF executeModule

LEMMA ResultsBecame ==
  ASSUME NEW P \in QuietTable, Sole(P), NoneNew(P), NEW c \in AllCommands, NEW Module \in Slots \cup {-1},
         NEW id \in Nat, c.op = "set_mask" => Module \in Slots, NEW Q \in Results(P, c, Module, id)
  PROVE  TableBecame(P, Q, id, id + 4)
<1>1. c \in CommandSet /\ (c.op \in {"module", "restart"} => c.mod \in Modules)
  BY PipesAssumption DEF AllCommands
<1>2. c.op \in Ops /\ c.types \subseteq Types /\ c.names \subseteq Names
  BY <1>1 DEF CommandSet
<1>3. id + 1 \in Nat /\ id + 4 \in Nat /\ id <= id /\ id + 1 <= id + 4 /\ id <= id + 4
  OBVIOUS
<1>4. CASE c.op = "broadcast"
  <2>1. PICK type \in c.types : Q = Broadcast(P, type, id)
    BY <1>4 DEF Results
  <2>2. TableWritten(P, Q, id, id + 1)
    BY <1>2, <2>1, BroadcastWritten
  <2> QED
    BY <1>3, <2>2, TableWider, WrittenBecame
<1>5. CASE c.op = "set_mask"
  <2>1. Q = set_mask_function(P, Module, c.types)
    BY <1>5 DEF Results
  <2> QED
    BY <1>5, <2>1, set_mask_functionWritten, WrittenBecame
<1>6. CASE c.op = "send_list"
  <2>1. Q = send_list_func(P, Module, id)
    BY <1>6 DEF Results
  <2> QED
    BY <2>1, send_list_funcWritten, WrittenBecame
<1>7. CASE c.op = "module"
  BY <1>1, <1>7, executeModuleBecame DEF Results
<1>8. CASE c.op = "kill_module"
  <2>1. Q = KillModuleByName(P, c.names)
    BY <1>8 DEF Results
  <2> QED
    BY <2>1, KillModuleByNameWritten, WrittenBecame
<1>9. CASE c.op = "restart"
  <2> DEFINE K == KillModuleByName(P, c.names)
  <2>1. Q \in executeModule(K, c.mod)
    BY <1>9 DEF Results
  <2>2. K \in QuietTable /\ TableWritten(P, K, id, id)
    BY KillModuleByNameQuiet, KillModuleByNameWritten
  <2> HIDE DEF K
  <2>3. Sole(K) /\ NoneNew(K)
    BY <2>2, WrittenSole
  <2>4. TableBecame(K, Q, id, id + 4)
    BY <1>1, <1>9, <2>1, <2>2, <2>3, executeModuleBecame
  <2>5. Q \in QuietTable
    BY <1>1, <1>9, <2>1, <2>2, executeModuleQuiet
  <2>6. ASSUME NEW j \in Slots PROVE Became(P[j], Q[j], id, id + 4)
    <3>1. Became(P[j], K[j], id, id) /\ Became(K[j], Q[j], id, id + 4)
      BY <2>2, <2>4 DEF TableWritten, TableBecame, Became
    <3>2. P[j] \in QuietSlotSet /\ K[j] \in QuietSlotSet /\ Q[j] \in QuietSlotSet
      BY <2>2, <2>5, TableSlots
    <3> QED
      BY <1>3, <3>1, <3>2, BecameTrans
  <2> QED
    BY <2>4, <2>6 DEF TableBecame
<1>10. CASE c.op = "send_to_module"
  <2>1. Q = SendStrToModule(P, c.names, id)
    BY <1>10 DEF Results
  <2>2. TableWritten(P, Q, id, id + 1)
    BY <2>1, SendStrToModuleWritten
  <2> QED
    BY <1>3, <2>2, TableWider, WrittenBecame
<1>11. CASE c.op \in {"wait", "config", "killme", "empty"}
  BY <1>11 DEF Results
<1> QED
  BY <1>2, <1>4, <1>5, <1>6, <1>7, <1>8, <1>9, <1>10, <1>11 DEF Ops

---------------------------------------------------------------------------
(* A module's connection as PacketStream sees it, as values                *)

QueuedIn(P, m) ==
  IF {i \in Slots : P[i].mod = m} = {} THEN <<>>
  ELSE Ids(P[CHOOSE i \in Slots : P[i].mod = m].queue)
DeliveredIn(ta, m) == Ids(Those(ta[m], LastChunk))
PendingIn(P, pr, ta, m) == IF pr[m] = "dead" THEN <<>> ELSE DeliveredIn(ta, m) \o QueuedIn(P, m)
ConnIn(P, pr, m) ==
  IF pr[m] = "new" THEN "new"
  ELSE IF pr[m] = "dead" \/ {i \in Slots : P[i].mod = m} = {} THEN "closed"
  ELSE IF P[CHOOSE i \in Slots : P[i].mod = m].on < 0 THEN "silent" ELSE "open"

\* A step of PacketStream, for one module.
Moves(c, p, g, c2, p2, g2) ==
  \/ c2 = c /\ p2 = p /\ g2 = g
  \/ c = "new" /\ c2 = "silent" /\ p2 = <<>> /\ g2 = g
  \/ c \in {"silent", "open"} /\ c2 = "open" /\ IsPrefix(p, p2) /\ IsInjective(g \o p2) /\ g2 = g
  \/ p # <<>> /\ g2 = Append(g, Head(p)) /\ p2 = Tail(p) /\ c2 = c
  \/ c \in {"silent", "open", "closed"} /\ c2 = "closed" /\ IsPrefix(p2, p) /\ g2 = g

LEMMA Unslotted ==
  ASSUME NEW P, NEW pr, NEW m, \A i \in Slots : P[i].mod # m
  PROVE  /\ QueuedIn(P, m) = <<>>
         /\ ConnIn(P, pr, m) = IF pr[m] = "new" THEN "new" ELSE "closed"
<1>1. {i \in Slots : P[i].mod = m} = {}
  OBVIOUS
<1> QED
  BY <1>1 DEF QueuedIn, ConnIn

LEMMA Slotted ==
  ASSUME NEW P, NEW pr, NEW m \in Modules, Sole(P), NEW i \in Slots, P[i].mod = m
  PROVE  /\ QueuedIn(P, m) = Ids(P[i].queue)
         /\ ConnIn(P, pr, m) = IF pr[m] = "new" THEN "new"
                               ELSE IF pr[m] = "dead" THEN "closed"
                               ELSE IF P[i].on < 0 THEN "silent" ELSE "open"
<1>1. {k \in Slots : P[k].mod = m} # {}
  OBVIOUS
<1>2. m # NoModule
  BY PipesAssumption
<1>3. (CHOOSE k \in Slots : P[k].mod = m) = i
  <2>1. \A k \in Slots : P[k].mod = m => k = i
    BY <1>2 DEF Sole
  <2> QED
    BY <2>1
<1> QED
  BY <1>1, <1>3 DEF QueuedIn, ConnIn

LEMMA DeliveredType ==
  ASSUME NEW ta \in [Modules -> Seq(Chunk)], NEW m \in Modules
  PROVE  DeliveredIn(ta, m) \in Seq(Nat)
<1>1. Those(ta[m], LastChunk) \in Seq(Chunk \cap LastChunk)
  BY ThoseType
<1>2. \A x \in Chunk \cap LastChunk : x.id \in Nat
  BY DEF Chunk
<1> QED
  BY <1>1, <1>2, IdsType DEF DeliveredIn

LEMMA DeliveredEmpty ==
  ASSUME NEW ta, NEW m, ta[m] = <<>>
  PROVE  DeliveredIn(ta, m) = <<>>
BY ThoseEmpty, IdsEmpty DEF DeliveredIn

LEMMA QueuedType ==
  ASSUME NEW P \in QuietTable, Sole(P), NEW m \in Modules
  PROVE  QueuedIn(P, m) \in Seq(Nat)
<1>1. CASE \A i \in Slots : P[i].mod # m
  BY <1>1, Unslotted, EmptySeq
<1>2. ASSUME NEW i \in Slots, P[i].mod = m PROVE QueuedIn(P, m) \in Seq(Nat)
  <2>1. QueuedIn(P, m) = Ids(P[i].queue)
    BY <1>2, Slotted
  <2>2. P[i] \in QuietSlotSet
    BY TableSlots
  <2>3. Ids(P[i].queue) \in Seq(Nat)
    BY <2>2, SlotFacts
  <2> QED
    BY <2>1, <2>3
<1> QED
  BY <1>1, <1>2

LEMMA PendingType ==
  ASSUME NEW P \in QuietTable, Sole(P), NEW pr, NEW ta \in [Modules -> Seq(Chunk)], NEW m \in Modules
  PROVE  PendingIn(P, pr, ta, m) \in Seq(Nat)
BY DeliveredType, QueuedType, ConcatProperties, EmptySeq DEF PendingIn

LEMMA PrefixConcat ==
  ASSUME NEW p \in Seq(Nat), NEW q \in Seq(Nat)
  PROVE  IsPrefix(p, p \o q)
<1> DEFINE r == p \o q
<1>1. r \in Seq(Nat) /\ Len(r) = Len(p) + Len(q) /\ Len(p) \in Nat /\ Len(q) \in Nat
      /\ \A k \in 1..Len(p) : r[k] = p[k]
  OBVIOUS
<1> HIDE DEF r
<1>2. SubSeq(p, 1, Len(p)) = [k \in 1..Len(p) |-> p[k]]
  BY <1>1
<1>3. SubSeq(r, 1, Len(p)) = [k \in 1..Len(p) |-> r[k]]
  BY <1>1
<1>4. SubSeq(p, 1, Len(p)) = SubSeq(r, 1, Len(p))
  BY <1>1, <1>2, <1>3
<1>5. IsPrefix(p, r)
  BY <1>1, <1>4 DEF IsPrefix
<1> QED
  BY <1>5 DEF r

LEMMA PrefixSelf ==
  ASSUME NEW p \in Seq(Nat)
  PROVE  IsPrefix(p, p)
BY DEF IsPrefix

\* More is pending, and all of it rising.
LEMMA MorePending ==
  ASSUME NEW g \in Seq(Nat), NEW d \in Seq(Nat), NEW q \in Seq(Nat), NEW r,
         NEW lo \in Nat, NEW hi \in Nat, lo <= hi,
         Rising(g \o (d \o q), 0, lo), Rising(r, lo, hi)
  PROVE  /\ IsPrefix(d \o q, d \o (q \o r))
         /\ Rising(g \o (d \o (q \o r)), 0, hi)
         /\ IsInjective(g \o (d \o (q \o r)))
<1> DEFINE p == d \o q
           p2 == d \o (q \o r)
<1>0. r \in Seq(Nat)
  BY DEF Rising
<1>1. r \in Seq(Nat) /\ p \in Seq(Nat) /\ q \o r \in Seq(Nat)
  BY <1>0, ConcatProperties
<1>2. p2 = p \o r
  <2>1. (d \o q) \o r = d \o (q \o r)
    BY <1>0, NatAssoc, Zenon
  <2> QED
    BY <2>1
<1>3. Rising(g \o p, 0, lo)
  OBVIOUS
<1> HIDE DEF p, p2
<1>4. g \o p2 = (g \o p) \o r
  <2>1. (g \o p) \o r = g \o (p \o r)
    BY <1>1, NatAssoc, Zenon
  <2> QED
    BY <1>2, <2>1
<1>5. Rising((g \o p) \o r, 0, hi)
  BY <1>3, RisingConcat
<1>6. Rising(g \o p2, 0, hi)
  BY <1>4, <1>5
<1>7. IsInjective(g \o p2)
  BY <1>6, RisingOnce
<1>8. IsPrefix(p, p2)
  BY <1>1, <1>2, PrefixConcat
<1> QED
  BY <1>6, <1>7, <1>8 DEF p, p2

\* Some of what is pending is lost, from the end.
LEMMA LessPending ==
  ASSUME NEW g \in Seq(Nat), NEW d \in Seq(Nat), NEW q \in Seq(Nat),
         NEW lo \in Nat, NEW hi \in Nat, lo <= hi, Rising(g \o (d \o q), 0, lo)
  PROVE  /\ IsPrefix(d, d \o q) /\ IsPrefix(<<>>, d \o q)
         /\ Rising(g \o d, 0, hi) /\ Rising(g \o <<>>, 0, hi)
<1>1. g \o (d \o q) = (g \o d) \o q /\ g \o d \in Seq(Nat) /\ g \o <<>> = g
  <2>1. g \o (d \o q) = (g \o d) \o q
    BY NatAssoc, Zenon
  <2> QED
    BY <2>1, ConcatEmptySeq, ConcatProperties
<1>2. Rising(g \o d, 0, lo)
  BY <1>1, RisingPart
<1>3. Rising(g, 0, lo)
  BY <1>2, RisingPart
<1>4. d \o q \in Seq(Nat) /\ <<>> \in Seq(Nat) /\ <<>> \o (d \o q) = d \o q
  <2>1. d \o q \in Seq(Nat)
    BY ConcatProperties
  <2> QED
    BY <2>1, ConcatEmptySeq, EmptySeq
<1>5. IsPrefix(<<>>, d \o q)
  BY <1>4, PrefixConcat
<1> QED
  BY <1>1, <1>2, <1>3, <1>5, PrefixConcat, RisingWider

\* What fvwm does to the slots is, for every module, a step of PacketStream.
LEMMA TableMoves ==
  ASSUME NEW P \in QuietTable, NEW Q \in QuietTable, Sole(P), Sole(Q), NoneNew(P),
         NEW lo \in Nat, NEW hi \in Nat, lo <= hi,
         \A j \in Slots : Moved(P[j], Q[j], lo, hi),
         NEW ta \in [Modules -> Seq(Chunk)], NEW m \in Modules,
         proc \in [Modules -> {"new", "running", "dead"}],
         proc[m] = "new" => ta[m] = <<>>,
         NEW g \in Seq(Nat), Rising(g \o PendingIn(P, proc, ta, m), 0, lo)
  PROVE  /\ Moves(ConnIn(P, proc, m), PendingIn(P, proc, ta, m), g,
                  ConnIn(Q, Forked(Q), m), PendingIn(Q, Forked(Q), ta, m), g)
         /\ Rising(g \o PendingIn(Q, Forked(Q), ta, m), 0, hi)
<1> DEFINE pr2 == Forked(Q)
           d == DeliveredIn(ta, m)
           c == ConnIn(P, proc, m)
           c2 == ConnIn(Q, pr2, m)
           p == PendingIn(P, proc, ta, m)
           p2 == PendingIn(Q, pr2, ta, m)
<1>1. d \in Seq(Nat) /\ p \in Seq(Nat) /\ m # NoModule
  BY DeliveredType, PendingType, PipesAssumption
<1>2. pr2[m] = IF proc[m] = "new" /\ \E i \in Slots : Q[i].mod = m THEN "running" ELSE proc[m]
  BY DEF Forked
<1>3. Rising(g \o p, 0, lo)
  OBVIOUS
<1>4. p2 = p => Rising(g \o p2, 0, hi)
  <2>1. Rising(g \o p, 0, hi)
    BY <1>3, RisingWider
  <2> QED
    BY <2>1
<1>5. p2 = p /\ c2 = c => Moves(c, p, g, c2, p2, g) /\ Rising(g \o p2, 0, hi)
  BY <1>4 DEF Moves
<1>6. CASE proc[m] = "dead"
  <2>1. pr2[m] = "dead"
    BY <1>2, <1>6
  <2>2. p = <<>> /\ p2 = <<>> /\ c = "closed" /\ c2 = "closed"
    BY <1>6, <2>1 DEF PendingIn, ConnIn
  <2> HIDE DEF c, c2, p, p2
  <2> QED
    BY <1>5, <2>2 DEF c, c2, p, p2
<1>7. CASE proc[m] = "new"
  <2>1. \A i \in Slots : P[i].mod # m
    BY <1>7 DEF NoneNew
  <2>2. c = "new"
    BY <1>7 DEF ConnIn
  <2>3. d = <<>>
    BY <1>7, DeliveredEmpty
  <2>4. p = <<>>
    <3>1. p = d \o QueuedIn(P, m) /\ QueuedIn(P, m) = <<>>
      BY <1>7, <2>1, Unslotted DEF PendingIn
    <3> QED
      BY <2>3, <3>1, EmptySeq, ConcatEmptySeq
  <2>5. ASSUME \A i \in Slots : Q[i].mod # m PROVE p2 = p /\ c2 = c
    <3>1. pr2[m] = "new"
      BY <1>2, <1>7, <2>5
    <3>2. p2 = d \o QueuedIn(Q, m) /\ QueuedIn(Q, m) = <<>> /\ c2 = "new"
      BY <2>5, <3>1, Unslotted DEF PendingIn
    <3> QED
      BY <2>2, <2>3, <2>4, <3>2, EmptySeq, ConcatEmptySeq
  <2>6. ASSUME NEW i \in Slots, Q[i].mod = m PROVE p2 = <<>> /\ c2 = "silent"
    <3>1. pr2[m] = "running"
      BY <1>2, <1>7, <2>6
    <3>2. StartedIn(Q[i])
      BY <1>1, <2>1, <2>6 DEF Moved
    <3>3. QueuedIn(Q, m) = Ids(<<>>) /\ c2 = "silent"
      <4>1. QueuedIn(Q, m) = Ids(Q[i].queue)
            /\ c2 = IF pr2[m] = "new" THEN "new" ELSE IF pr2[m] = "dead" THEN "closed"
                    ELSE IF Q[i].on < 0 THEN "silent" ELSE "open"
        BY <2>6, Slotted
      <4> HIDE DEF c2, pr2
      <4> QED
        BY <3>1, <3>2, <4>1 DEF StartedIn
    <3>4. p2 = d \o QueuedIn(Q, m)
      BY <3>1 DEF PendingIn
    <3> QED
      BY <2>3, <3>3, <3>4, IdsEmpty, EmptySeq, ConcatEmptySeq
  <2> HIDE DEF c, c2, p, p2
  <2>7. ASSUME p2 = <<>>, c2 = "silent" PROVE Moves(c, p, g, c2, p2, g) /\ Rising(g \o p2, 0, hi)
    BY <1>4, <2>2, <2>4, <2>7 DEF Moves
  <2>8. Moves(c, p, g, c2, p2, g) /\ Rising(g \o p2, 0, hi)
    BY <1>5, <2>5, <2>6, <2>7
  <2> QED
    BY <2>8 DEF c, c2, p, p2
<1>8. CASE proc[m] = "running"
  <2>1. pr2[m] = "running"
    BY <1>2, <1>8
  <2> DEFINE q == QueuedIn(P, m)
             q2 == QueuedIn(Q, m)
  <2>2. p = d \o q /\ p2 = d \o q2
    BY <1>8, <2>1 DEF PendingIn
  <2>3. q \in Seq(Nat)
    BY QueuedType
  <2>4. ASSUME \A i \in Slots : P[i].mod # m PROVE p2 = p /\ c2 = c
    <3>1. \A i \in Slots : Q[i].mod # m
      BY <1>1, <1>8, <2>4 DEF Moved, StartedIn
    <3>2. q = <<>> /\ q2 = <<>> /\ c = "closed" /\ c2 = "closed"
      BY <1>8, <2>1, <2>4, <3>1, Unslotted
    <3> QED
      BY <2>2, <3>2
  <2>5. ASSUME NEW i \in Slots, P[i].mod = m
        PROVE  Moves(c, p, g, c2, p2, g) /\ Rising(g \o p2, 0, hi)
    <3>1. P[i] \in QuietSlotSet /\ Q[i] \in QuietSlotSet
      BY TableSlots
    <3>2. q = Ids(P[i].queue) /\ c \in {"silent", "open"} /\ (P[i].on < 0 => c = "silent")
          /\ (~(P[i].on < 0) => c = "open")
      <4>1. q = Ids(P[i].queue)
            /\ c = IF proc[m] = "new" THEN "new" ELSE IF proc[m] = "dead" THEN "closed"
                   ELSE IF P[i].on < 0 THEN "silent" ELSE "open"
        BY <2>5, Slotted
      <4> HIDE DEF c, q
      <4> QED
        BY <1>8, <4>1
    <3>3. CASE Q[i].mod = m
      <4>1. (P[i].on = 1 => Q[i].on = 1) /\ Offered(P[i], Q[i], lo, hi)
        BY <1>1, <1>8, <2>5, <3>3 DEF Moved, StartedIn
      <4>2. q2 = Ids(Q[i].queue) /\ (Q[i].on < 0 => c2 = "silent") /\ (~(Q[i].on < 0) => c2 = "open")
        BY <2>1, <3>3, Slotted
      <4>3. PICK r : Rising(r, lo, hi) /\ Ids(Q[i].queue) = Ids(P[i].queue) \o r /\ (Q[i].on < 0 => r = <<>>)
        BY <4>1 DEF Offered
      <4>4. p2 = d \o (q \o r)
        BY <2>2, <3>2, <4>2, <4>3
      <4>5. P[i].on \in {-1, 1} /\ Q[i].on \in {-1, 1}
        BY <3>1, SlotFacts
      <4>6. CASE Q[i].on = -1
        <5>1. r = <<>> /\ P[i].on = -1
          BY <4>1, <4>3, <4>5, <4>6
        <5>2. q \o r = q
          BY <2>3, <5>1, ConcatEmptySeq
        <5>3. p2 = p
          BY <2>2, <4>4, <5>2
        <5>4. c2 = c
          BY <3>2, <4>2, <4>6, <5>1
        <5> QED
          BY <1>5, <5>3, <5>4
      <4>7. CASE Q[i].on = 1
        <5>1. c2 = "open"
          BY <4>2, <4>7
        <5>2. Rising(g \o (d \o q), 0, lo)
          BY <1>3, <2>2
        <5>3. IsPrefix(p, p2) /\ Rising(g \o p2, 0, hi) /\ IsInjective(g \o p2)
          <6> HIDE DEF p, p2, d, q, q2
          <6>1. /\ IsPrefix(d \o q, d \o (q \o r))
                /\ Rising(g \o (d \o (q \o r)), 0, hi)
                /\ IsInjective(g \o (d \o (q \o r)))
            BY <1>1, <2>3, <4>3, <5>2, MorePending
          <6> QED
            BY <2>2, <4>4, <6>1
        <5> HIDE DEF c, c2, p, p2
        <5> QED
          BY <3>2, <5>1, <5>3 DEF Moves
      <4> QED
        BY <4>5, <4>6, <4>7
    <3>4. CASE Q[i].mod # m
      <4>1. \A k \in Slots : Q[k].mod # m
        <5> SUFFICES ASSUME NEW k \in Slots, Q[k].mod = m PROVE FALSE
          OBVIOUS
        <5>1. P[k].mod = m
          BY <1>1, <1>8 DEF Moved, StartedIn
        <5>2. k = i
          BY <1>1, <2>5, <5>1 DEF Sole
        <5> QED
          BY <3>4, <5>2
      <4>2. q2 = <<>> /\ c2 = "closed"
        BY <2>1, <4>1, Unslotted
      <4>3. p2 = d
        BY <1>1, <2>2, <4>2, ConcatEmptySeq
      <4>4. Rising(g \o (d \o q), 0, lo)
        BY <1>3, <2>2
      <4>5. IsPrefix(p2, p) /\ Rising(g \o p2, 0, hi)
        <5> HIDE DEF p, p2, d, q, q2
        <5>1. IsPrefix(d, d \o q) /\ Rising(g \o d, 0, hi)
          BY <1>1, <2>3, <4>4, LessPending
        <5> QED
          BY <2>2, <4>3, <5>1
      <4> HIDE DEF c, c2, p, p2
      <4> QED
        BY <3>2, <4>2, <4>5 DEF Moves
    <3> QED
      BY <3>3, <3>4
  <2> HIDE DEF c, c2, p, p2
  <2>6. Moves(c, p, g, c2, p2, g) /\ Rising(g \o p2, 0, hi)
    BY <1>5, <2>4, <2>5
  <2> QED
    BY <2>6 DEF c, c2, p, p2
<1> QED
  BY <1>6, <1>7, <1>8

---------------------------------------------------------------------------
(* The refinement, action by action                                        *)

\* A module that has not run has been sent nothing.
Fresh == \A m \in Modules : proc[m] = "new" => toApp[m] = <<>>

\* What a module has read and what is pending for it is in the order of the packets.
Ordered == \A m \in Modules : Rising(got[m] \o PendingIn(pipe, proc, toApp, m), 0, clock)

SInv == IInv /\ Sole(pipe) /\ NoneNew(pipe) /\ Fresh /\ Ordered

\* The step is one of PacketStream for every module.
Streams ==
  \A m \in Modules :
    Moves(ConnIn(pipe, proc, m), PendingIn(pipe, proc, toApp, m), got[m],
          ConnIn(pipe', proc', m), PendingIn(pipe', proc', toApp', m), got'[m])

LEMMA SInvFacts ==
  ASSUME SInv
  PROVE  /\ pipe \in QuietTable /\ Sole(pipe) /\ NoneNew(pipe)
         /\ clock \in Nat
         /\ toApp \in [Modules -> Seq(Chunk)]
         /\ got \in [Modules -> Seq(Nat)]
         /\ proc \in [Modules -> {"new", "running", "dead"}]
BY IInvTable DEF SInv, IInv, TypeOK

LEMMA IInvNextFacts ==
  ASSUME IInv'
  PROVE  /\ pipe' \in QuietTable /\ clock' \in Nat
         /\ proc' \in [Modules -> {"new", "running", "dead"}]
BY DEF IInv, TypeOK, QuietTable, QuietSlots

LEMMA TableStep ==
  ASSUME SInv, IInv', Sole(pipe'), \A j \in Slots : Moved(pipe[j], pipe'[j], clock, clock'),
         proc' = Forked(pipe'), toApp' = toApp, got' = got, clock <= clock'
  PROVE  SInv' /\ Streams
<1>1. /\ pipe \in QuietTable /\ Sole(pipe) /\ NoneNew(pipe) /\ clock \in Nat
      /\ toApp \in [Modules -> Seq(Chunk)] /\ got \in [Modules -> Seq(Nat)]
      /\ proc \in [Modules -> {"new", "running", "dead"}]
  BY SInvFacts
<1>2. pipe' \in QuietTable /\ clock' \in Nat
  BY IInvNextFacts
<1>3. ASSUME NEW m \in Modules
      PROVE  /\ Moves(ConnIn(pipe, proc, m), PendingIn(pipe, proc, toApp, m), got[m],
                      ConnIn(pipe', Forked(pipe'), m), PendingIn(pipe', Forked(pipe'), toApp, m), got[m])
             /\ Rising(got[m] \o PendingIn(pipe', Forked(pipe'), toApp, m), 0, clock')
  <2>1. proc[m] = "new" => toApp[m] = <<>>
    BY DEF SInv, Fresh
  <2>2. Rising(got[m] \o PendingIn(pipe, proc, toApp, m), 0, clock) /\ got[m] \in Seq(Nat)
    BY <1>1 DEF SInv, Ordered
  <2> QED
    BY <1>1, <1>2, <2>1, <2>2, TableMoves
<1>4. Streams
  BY <1>3 DEF Streams
<1>5. Ordered'
  BY <1>3 DEF Ordered
<1>6. \A m \in Modules : proc'[m] = IF proc[m] = "new" /\ \E i \in Slots : pipe'[i].mod = m
                                    THEN "running" ELSE proc[m]
  BY DEF Forked
<1>7. NoneNew(pipe)'
  BY <1>6 DEF NoneNew
<1>8. Fresh'
  BY <1>6 DEF SInv, Fresh
<1> QED
  BY <1>4, <1>5, <1>7, <1>8 DEF SInv

LEMMA WrittenStep ==
  ASSUME SInv, IInv', TableWritten(pipe, pipe', clock, clock'),
         proc' = proc, toApp' = toApp, got' = got, clock <= clock'
  PROVE  SInv' /\ Streams
<1>1. pipe \in QuietTable /\ Sole(pipe) /\ NoneNew(pipe)
      /\ proc \in [Modules -> {"new", "running", "dead"}]
  BY SInvFacts
<1>2. Sole(pipe') /\ NoneNew(pipe')
  BY <1>1, WrittenSole
<1>3. \A j \in Slots : Moved(pipe[j], pipe'[j], clock, clock')
  BY <1>1, TableSlots, BecameMoved DEF TableWritten, Became
<1>4. proc' = Forked(pipe')
  BY <1>1, <1>2 DEF Forked, NoneNew
<1> QED
  BY <1>2, <1>3, <1>4, TableStep

LEMMA IdleStep ==
  ASSUME SInv, IInv', pipe' = pipe, proc' = proc, toApp' = toApp, got' = got, clock' = clock
  PROVE  SInv' /\ Streams
<1>1. Streams
  BY DEF Streams, Moves
<1>2. Sole(pipe)' /\ NoneNew(pipe)' /\ Fresh' /\ Ordered'
  BY DEF SInv, Sole, NoneNew, Fresh, Ordered
<1> QED
  BY <1>1, <1>2 DEF SInv

LEMMA XEventStep == SInv /\ IInv' /\ XEvent => SInv' /\ Streams
<1> SUFFICES ASSUME SInv, IInv', XEvent PROVE SInv' /\ Streams
  OBVIOUS
<1>1. PICK type \in EventTypes : pipe' = Broadcast(pipe, type, clock)
  BY DEF XEvent
<1>2. pipe \in QuietTable /\ clock \in Nat /\ clock' = clock + 1 /\ type \in Types
  BY SInvFacts, PipesAssumption DEF XEvent
<1>3. TableWritten(pipe, pipe', clock, clock')
  BY <1>1, <1>2, BroadcastWritten
<1>4. proc' = proc /\ toApp' = toApp /\ got' = got /\ clock <= clock'
  BY <1>2 DEF XEvent, appVars
<1> QED
  BY <1>3, <1>4, WrittenStep

LEMMA UserCommandStep ==
  ASSUME NEW c \in UserCommands, SInv, IInv', UserCommand(c)
  PROVE  SInv' /\ Streams
<1>1. pipe \in QuietTable /\ Sole(pipe) /\ NoneNew(pipe) /\ clock \in Nat
  BY SInvFacts
<1>2. pipe' \in Results(pipe, c, -1, clock) /\ c \in AllCommands /\ c.op # "set_mask"
  BY DEF UserCommand, AllCommands
<1>3. clock' = clock + 4 /\ clock <= clock' /\ proc' = Forked(pipe') /\ toApp' = toApp /\ got' = got
  BY <1>1 DEF UserCommand
<1>4. TableBecame(pipe, pipe', clock, clock')
  BY <1>1, <1>2, <1>3, ResultsBecame
<1>5. Sole(pipe') /\ \A j \in Slots : Moved(pipe[j], pipe'[j], clock, clock')
  BY <1>1, <1>4, TableSlots, BecameMoved DEF TableBecame
<1> QED
  BY <1>3, <1>5, TableStep

LEMMA WaitEndsStep == SInv /\ IInv' /\ WaitEnds => SInv' /\ Streams
<1> SUFFICES ASSUME SInv, IInv', WaitEnds PROVE SInv' /\ Streams
  OBVIOUS
<1> DEFINE outer == frames[Len(frames) - 1]
           i == SlotAt(outer)
           P == Broadcast(pipe, "M_MAP", clock)
           Q == IF outer.pc = "dispatch" THEN P ELSE SendPacket(P, i, "M_FUNCTION_END", clock + 1)
<1>1. "M_MAP" \in Types /\ "M_FUNCTION_END" \in Types
  BY DEF Types
<1>2. pipe \in QuietTable /\ clock \in Nat
  BY SInvFacts
<1>3. outer \in Frame
  <2>1. frames \in Stacks
    BY IInvTable DEF SInv
  <2> QED
    BY <2>1 DEF WaitEnds, Stacks
<1>4. i \in Slots
  BY <1>3, PositionSlot DEF SlotAt, Frame
<1>5. pipe' = Q /\ clock' = clock + 2
  BY DEF WaitEnds
<1>6. P \in QuietTable /\ TableWritten(pipe, P, clock, clock + 1)
  BY <1>1, <1>2, BroadcastQuiet, BroadcastWritten
<1>7. /\ clock + 1 \in Nat /\ clock' \in Nat /\ clock <= clock /\ clock <= clock + 1
      /\ clock + 1 <= clock' /\ clock <= clock'
  BY <1>2, <1>5
<1> HIDE DEF P
<1>8. CASE outer.pc = "dispatch"
  <2>1. TableWritten(pipe, P, clock, clock')
    BY <1>2, <1>6, <1>7, TableWider
  <2> QED
    BY <1>5, <1>7, <1>8, <2>1, WrittenStep DEF WaitEnds, appVars
<1>9. CASE outer.pc # "dispatch"
  <2> DEFINE R == SendPacket(P, i, "M_FUNCTION_END", clock + 1)
  <2> HIDE DEF i
  <2>1. R \in QuietTable /\ TableWritten(P, R, clock + 1, (clock + 1) + 1)
    BY <1>1, <1>4, <1>6, <1>7, SendPacketQuiet, SendPacketWritten
  <2>2. (clock + 1) + 1 = clock'
    BY <1>2, <1>5
  <2>3. pipe' = R
    BY <1>5, <1>9
  <2> HIDE DEF R
  <2>4. TableWritten(pipe, R, clock, clock')
    BY <1>2, <1>6, <1>7, <2>1, <2>2, TableTrans
  <2> QED
    BY <1>7, <2>3, <2>4, WrittenStep DEF WaitEnds, appVars
<1> QED
  BY <1>8, <1>9

LEMMA KillStep ==
  ASSUME NEW i \in Slots, SInv, IInv', pipe' = KillModule(pipe, i), clock' = clock, UNCHANGED appVars
  PROVE  SInv' /\ Streams
<1>1. pipe \in QuietTable /\ clock \in Nat /\ clock <= clock'
  BY SInvFacts
<1>2. TableWritten(pipe, pipe', clock, clock')
  BY <1>1, KillModuleWritten
<1> QED
  BY <1>1, <1>2, WrittenStep DEF appVars

\* The module speaks, and hangs up if it does not say to keep going.
LEMMA SpokenFacts ==
  ASSUME SInv, NEW i \in Slots, NEW c, pipe[i].mod # NoModule
  PROVE  LET P == Spoken(i, c)
         IN /\ P \in QuietTable /\ Sole(P) /\ NoneNew(P)
            /\ \A j \in Slots \ {i} : P[j] = pipe[j]
            /\ P[i].mod = NoModule \/ (P[i].mod = pipe[i].mod /\ P[i].on = 1 /\ P[i].queue = pipe[i].queue)
<1> DEFINE R == [pipe EXCEPT ![i].on = 1]
           P == Spoken(i, c)
<1>1. pipe \in QuietTable /\ Sole(pipe) /\ NoneNew(pipe)
  BY SInvFacts
<1>2. P \in QuietTable
  BY SpokenQuiet DEF SInv
<1>3. pipe[i] \in Slot
  BY <1>1 DEF QuietTable
<1>4. \A j \in Slots : R[j] = IF j = i THEN [pipe[i] EXCEPT !.on = 1] ELSE pipe[j]
  BY <1>1 DEF QuietTable
<1>5. R[i] \in Slot /\ R[i].mod = pipe[i].mod /\ R[i].on = 1 /\ R[i].queue = pipe[i].queue
  BY <1>3, <1>4 DEF Slot
<1>6. DOMAIN R = Slots
  BY <1>1 DEF QuietTable
<1> HIDE DEF R
<1>7. P = R \/ P = [R EXCEPT ![i] = Closed(@)]
  BY DEF Spoken, KillModule, R
<1>8. R[i] \in Slot => Closed(R[i]).mod = NoModule
  BY DEF Closed, Slot
<1>9. \A j \in Slots : P[j] = R[j] \/ (j = i /\ P[j].mod = NoModule)
  BY <1>5, <1>6, <1>7, <1>8
<1> HIDE DEF P
<1>10. \A j \in Slots : P[j].mod = pipe[j].mod \/ P[j].mod = NoModule
  BY <1>4, <1>5, <1>9
<1>11. Sole(P) /\ NoneNew(P)
  BY <1>1, <1>10, PipesAssumption DEF Sole, NoneNew
<1>12. (\A j \in Slots \ {i} : P[j] = pipe[j])
       /\ (P[i].mod = NoModule \/ (P[i].mod = pipe[i].mod /\ P[i].on = 1 /\ P[i].queue = pipe[i].queue))
  BY <1>4, <1>5, <1>9
<1> QED
  BY <1>2, <1>11, <1>12 DEF P

\* The module speaks, and what it asks for is done.
LEMMA SpokenStep ==
  ASSUME SInv, IInv', NEW i \in Slots, NEW c, pipe[i].mod # NoModule,
         TableBecame(Spoken(i, c), pipe', clock, clock'), clock <= clock',
         proc' = Forked(pipe'), toApp' = toApp, got' = got
  PROVE  SInv' /\ Streams
<1> DEFINE P == Spoken(i, c)
<1>1. /\ P \in QuietTable
      /\ \A j \in Slots \ {i} : P[j] = pipe[j]
      /\ P[i].mod = NoModule \/ (P[i].mod = pipe[i].mod /\ P[i].on = 1 /\ P[i].queue = pipe[i].queue)
  BY SpokenFacts
<1>2. pipe \in QuietTable /\ pipe' \in QuietTable /\ clock \in Nat /\ clock' \in Nat
  BY SInvFacts, IInvNextFacts
<1> HIDE DEF P
<1>3. Sole(pipe') /\ \A j \in Slots : Became(P[j], pipe'[j], clock, clock')
  BY DEF TableBecame, P
<1>4. ASSUME NEW j \in Slots PROVE Moved(pipe[j], pipe'[j], clock, clock')
  <2>1. pipe[j] \in QuietSlotSet /\ P[j] \in QuietSlotSet /\ pipe'[j] \in QuietSlotSet
    BY <1>1, <1>2, TableSlots
  <2>2. CASE j = i
    BY <1>1, <1>2, <1>3, <2>1, <2>2, SpokenMoved
  <2>3. CASE j # i
    BY <1>1, <1>3, <2>1, <2>3, BecameMoved
  <2> QED
    BY <2>2, <2>3
<1> QED
  BY <1>3, <1>4, TableStep

LEMMA HandleModuleInputStep ==
  ASSUME NEW i \in Slots, SInv, IInv', HandleModuleInput(i)
  PROVE  SInv' /\ Streams
<1> DEFINE m == pipe[i].mod
           c == Head(toFvwm[m])
           P == Spoken(i, c)
<1>1. pipe[i].mod # NoModule
  BY DEF HandleModuleInput
<1>2. /\ P \in QuietTable /\ Sole(P) /\ NoneNew(P)
  BY <1>1, SpokenFacts
<1>3. clock \in Nat /\ clock' = clock + 5 /\ clock <= clock'
  BY SInvFacts DEF HandleModuleInput
<1>4. proc' = Forked(pipe') /\ toApp' = toApp /\ got' = got
  BY DEF HandleModuleInput
<1>5. c \in Words
  <2>1. m \in Modules /\ toFvwm[m] \in Seq(Words) /\ toFvwm[m] # <<>>
    BY DEF HandleModuleInput, SInv, IInv, TypeOK, Slot
  <2> QED
    BY <2>1
<1>6. \/ pipe' = P \/ pipe' = KillModule(P, i)
      \/ \E Q \in Results(P, c, i, clock) : pipe' = SendPacket(Q, i, "M_FUNCTION_END", clock + 4)
  BY DEF HandleModuleInput
<1>7. TableBecame(Spoken(i, c), pipe', clock, clock') => SInv' /\ Streams
  BY <1>1, <1>3, <1>4, SpokenStep
<1> HIDE DEF P
<1>8. CASE pipe' = P
  <2>1. TableBecame(P, P, clock, clock')
    BY <1>2, TableSame, WrittenBecame
  <2> QED
    BY <1>7, <1>8, <2>1 DEF P
<1>9. CASE pipe' = KillModule(P, i)
  <2> DEFINE K == KillModule(P, i)
  <2>1. TableWritten(P, K, clock, clock')
    BY <1>2, KillModuleWritten
  <2> HIDE DEF K
  <2>2. TableBecame(P, K, clock, clock')
    BY <1>2, <2>1, WrittenBecame
  <2>3. pipe' = K
    BY <1>9 DEF K
  <2> QED
    BY <1>7, <2>2, <2>3 DEF P
<1>10. ASSUME NEW Q \in Results(P, c, i, clock),
              pipe' = SendPacket(Q, i, "M_FUNCTION_END", clock + 4)
       PROVE  SInv' /\ Streams
  <2>1. "M_FUNCTION_END" \in Types
    BY DEF Types
  <2>2. c \in AllCommands
    <3>1. c # WindowId
      <4> SUFFICES ASSUME c = WindowId PROVE FALSE
        OBVIOUS
      <4>1. c.op = "window"
        BY DEF WindowId
      <4>2. Results(P, c, i, clock) = {}
        BY <4>1 DEF Results
      <4> QED
        BY <1>10, <4>2
    <3> QED
      BY <1>5, <3>1 DEF Words, AllCommands
  <2>3. TableBecame(P, Q, clock, clock + 4) /\ Q \in QuietTable
    <3>0. clock \in Nat /\ i \in Slots \cup {-1}
      BY <1>3
    <3>1. TableBecame(P, Q, clock, clock + 4)
      BY <1>2, <1>10, <2>2, <3>0, ResultsBecame
    <3>2. Q \in QuietTable
      BY <1>2, <1>10, <2>2, <3>0, ResultsQuiet
    <3> QED
      BY <3>1, <3>2
  <2> DEFINE R == SendPacket(Q, i, "M_FUNCTION_END", clock + 4)
  <2>4. clock + 4 \in Nat /\ (clock + 4) + 1 = clock' /\ clock' \in Nat
        /\ clock <= clock + 4 /\ clock + 4 <= clock'
    BY <1>3
  <2>5. R \in QuietTable /\ TableWritten(Q, R, clock + 4, (clock + 4) + 1)
    BY <2>1, <2>3, <2>4, SendPacketQuiet, SendPacketWritten
  <2> HIDE DEF R
  <2>6. TableWritten(Q, R, clock + 4, clock')
    BY <2>4, <2>5
  <2>7. Sole(R)
    BY <2>3, <2>6, WrittenSole DEF TableBecame
  <2>8. ASSUME NEW j \in Slots PROVE Became(P[j], R[j], clock, clock')
    <3>1. Became(P[j], Q[j], clock, clock + 4) /\ Became(Q[j], R[j], clock + 4, clock')
      BY <2>3, <2>6 DEF TableBecame, TableWritten, Became
    <3>2. P[j] \in QuietSlotSet /\ Q[j] \in QuietSlotSet /\ R[j] \in QuietSlotSet
      BY <1>2, <2>3, <2>5, TableSlots
    <3> QED
      BY <1>3, <2>4, <3>1, <3>2, BecameTrans
  <2>9. TableBecame(P, R, clock, clock')
    BY <2>7, <2>8 DEF TableBecame
  <2>10. pipe' = R
    BY <1>10 DEF R
  <2> QED
    BY <1>7, <2>9, <2>10 DEF P
<1> QED
  BY <1>6, <1>8, <1>9, <1>10

LEMMA HandleModuleWaitStep ==
  ASSUME NEW i \in Slots, SInv, IInv', HandleModuleWait(i)
  PROVE  SInv' /\ Streams
<1> DEFINE P == Spoken(i, Head(toFvwm[pipe[i].mod]))
<1>1. pipe[i].mod # NoModule /\ pipe' = P
  BY DEF HandleModuleWait
<1>2. P \in QuietTable /\ Sole(P) /\ NoneNew(P)
  BY <1>1, SpokenFacts
<1>3. clock \in Nat /\ clock' = clock /\ proc' = proc /\ toApp' = toApp /\ got' = got
      /\ proc \in [Modules -> {"new", "running", "dead"}]
  BY SInvFacts DEF HandleModuleWait
<1> HIDE DEF P
<1>4. TableBecame(P, pipe', clock, clock')
  BY <1>1, <1>2, TableSame, WrittenBecame
<1>5. proc' = Forked(pipe')
  BY <1>1, <1>2, <1>3 DEF Forked, NoneNew
<1>6. clock <= clock'
  BY <1>3
<1> QED
  BY <1>1, <1>3, <1>4, <1>5, <1>6, SpokenStep DEF P

---------------------------------------------------------------------------

\* The module is gone, and with it what it has not read.
LEMMA LeaveStep ==
  ASSUME NEW m \in Modules, SInv, IInv', proc[m] = "running", proc' = [proc EXCEPT ![m] = "dead"],
         \A k \in Modules \ {m} : toApp'[k] = toApp[k],
         pipe' = pipe, clock' = clock, got' = got
  PROVE  SInv' /\ Streams
<1>1. /\ pipe \in QuietTable /\ Sole(pipe) /\ NoneNew(pipe) /\ clock \in Nat
      /\ toApp \in [Modules -> Seq(Chunk)] /\ got \in [Modules -> Seq(Nat)]
      /\ proc \in [Modules -> {"new", "running", "dead"}]
  BY SInvFacts
<1>2. \A k \in Modules : proc'[k] = IF k = m THEN "dead" ELSE proc[k]
  BY <1>1
<1>3. ASSUME NEW k \in Modules \ {m}
      PROVE  ConnIn(pipe, proc', k) = ConnIn(pipe, proc, k)
             /\ PendingIn(pipe, proc', toApp', k) = PendingIn(pipe, proc, toApp, k)
  <2>1. proc'[k] = proc[k] /\ toApp'[k] = toApp[k]
    BY <1>2
  <2> QED
    BY <2>1 DEF ConnIn, PendingIn, DeliveredIn
<1>4. PendingIn(pipe, proc', toApp', m) = <<>> /\ ConnIn(pipe, proc', m) = "closed"
  BY <1>2 DEF PendingIn, ConnIn
<1>5. ConnIn(pipe, proc, m) \in {"silent", "open", "closed"}
  BY DEF ConnIn
<1>6. IsPrefix(<<>>, PendingIn(pipe, proc, toApp, m)) /\ Rising(got[m] \o <<>>, 0, clock)
  <2> DEFINE p == PendingIn(pipe, proc, toApp, m)
             g == got[m]
  <2>1. p \in Seq(Nat) /\ g \in Seq(Nat) /\ <<>> \in Seq(Nat)
    BY <1>1, PendingType, EmptySeq
  <2>2. Rising(g \o p, 0, clock)
    BY DEF SInv, Ordered
  <2> HIDE DEF p, g
  <2>3. <<>> \o p = p /\ g \o <<>> = g
    BY <2>1, ConcatEmptySeq
  <2>4. IsPrefix(<<>>, p)
    BY <2>1, <2>3, PrefixConcat
  <2>5. Rising(g, 0, clock)
    BY <2>1, <2>2, RisingPart
  <2>6. IsPrefix(<<>>, p) /\ Rising(g \o <<>>, 0, clock)
    BY <2>3, <2>4, <2>5
  <2> QED
    BY <2>6 DEF p, g
<1>7. Streams
  BY <1>3, <1>4, <1>5, <1>6 DEF Streams, Moves
<1>8. Ordered'
  BY <1>3, <1>4, <1>6 DEF SInv, Ordered
<1>9. NoneNew(pipe)' /\ Fresh' /\ Sole(pipe)'
  BY <1>1, <1>2 DEF SInv, Fresh, NoneNew, Sole
<1> QED
  BY <1>7, <1>8, <1>9 DEF SInv

\* The module reads the end of a packet, which is the oldest pending one, or
\* something before it.
LEMMA ReadFvwmPacketStep ==
  ASSUME NEW m \in Modules, SInv, IInv', ReadFvwmPacket(m)
  PROVE  SInv' /\ Streams
<1>1. /\ pipe \in QuietTable /\ Sole(pipe) /\ NoneNew(pipe) /\ clock \in Nat
      /\ toApp \in [Modules -> Seq(Chunk)] /\ got \in [Modules -> Seq(Nat)]
      /\ proc \in [Modules -> {"new", "running", "dead"}]
  BY SInvFacts
<1>2. /\ proc[m] = "running" /\ toApp[m] # <<>> /\ toApp' = [toApp EXCEPT ![m] = Tail(@)]
      /\ got' = IF Head(toApp[m]).last THEN [got EXCEPT ![m] = Append(@, Head(toApp[m]).id)] ELSE got
      /\ pipe' = pipe /\ proc' = proc /\ clock' = clock
  BY DEF ReadFvwmPacket
<1> DEFINE h == Head(toApp[m])
           t == Tail(toApp[m])
           g == got[m]
           g2 == got'[m]
           p == PendingIn(pipe, proc, toApp, m)
           p2 == PendingIn(pipe, proc, toApp', m)
           q == QueuedIn(pipe, m)
           s == <<h>>
<1>3. h \in Chunk /\ s \in Seq(Chunk) /\ t \in Seq(Chunk) /\ toApp[m] = s \o t
  <2>1. toApp[m] \in Seq(Chunk) /\ toApp[m] # <<>>
    BY <1>1, <1>2
  <2> QED
    BY <2>1
<1>4. toApp'[m] = t /\ \A k \in Modules \ {m} : toApp'[k] = toApp[k] /\ got'[k] = got[k]
  BY <1>1, <1>2
<1>5. \A x \in Chunk \cap LastChunk : x.id \in Nat
  BY DEF Chunk
<1> DEFINE d == Ids(Those(t, LastChunk))
           e == Ids(Those(s, LastChunk))
<1>6. p = DeliveredIn(toApp, m) \o q /\ p2 = d \o q
  BY <1>2, <1>4 DEF PendingIn, DeliveredIn
<1>7. d \in Seq(Nat) /\ e \in Seq(Nat) /\ q \in Seq(Nat)
  <2>1. Those(t, LastChunk) \in Seq(Chunk \cap LastChunk) /\ Those(s, LastChunk) \in Seq(Chunk \cap LastChunk)
    BY <1>3, ThoseType
  <2> QED
    BY <1>1, <1>5, <2>1, IdsType, QueuedType
<1>8. DeliveredIn(toApp, m) = e \o d
  <2> HIDE DEF s, t
  <2>1. Those(s, LastChunk) \in Seq(Chunk \cap LastChunk) /\ Those(t, LastChunk) \in Seq(Chunk \cap LastChunk)
    BY <1>3, ThoseType
  <2>2. Those(s \o t, LastChunk) = Those(s, LastChunk) \o Those(t, LastChunk)
    BY <1>3, ThoseConcat
  <2>3. Ids(Those(s, LastChunk) \o Those(t, LastChunk)) = e \o d
    BY <1>5, <2>1, IdsConcat
  <2> QED
    BY <1>3, <2>2, <2>3 DEF DeliveredIn
<1>9. g \in Seq(Nat) /\ h.id \in Nat /\ h.last \in BOOLEAN
  BY <1>1, <1>3 DEF Chunk
<1>10. Rising(g \o p, 0, clock) /\ p \in Seq(Nat) /\ p2 \in Seq(Nat)
  <2>1. d \o q \in Seq(Nat)
    BY <1>7, ConcatProperties
  <2> QED
    BY <1>1, <1>6, <2>1, PendingType DEF SInv, Ordered
<1>11. p = e \o p2
  <2> HIDE DEF d, e, q, p, p2
  <2>1. (e \o d) \o q = e \o (d \o q)
    BY <1>7, ConcatAssociative
  <2> QED
    BY <1>6, <1>8, <2>1
<1>12. ConnIn(pipe, proc', m) = ConnIn(pipe, proc, m)
  BY <1>2
<1>13. Moves(ConnIn(pipe, proc, m), p, g, ConnIn(pipe, proc', m), p2, g2) /\ Rising(g2 \o p2, 0, clock)
  <2>1. CASE h.last
    <3> DEFINE u == <<h.id>>
    <3>1. h \in LastChunk
      BY <1>3, <2>1 DEF Chunk, LastChunk
    <3>2. e = u
      BY <1>9, <3>1, ThoseSingle, IdsSingle
    <3>3. g2 = Append(g, h.id)
      BY <1>1, <1>2, <2>1
    <3> HIDE DEF e, d, q, p, p2, g, g2, h
    <3>4. p = u \o p2 /\ u \in Seq(Nat)
      BY <1>9, <1>11, <3>2
    <3>5. p # <<>> /\ Head(p) = h.id /\ Tail(p) = p2
      BY <1>9, <1>10, <3>4
    <3>6. g2 = g \o u
      BY <1>9, <3>3
    <3> HIDE DEF u
    <3>7. (g \o u) \o p2 = g \o (u \o p2)
      <4>1. g \in Seq(Nat) /\ u \in Seq(Nat) /\ p2 \in Seq(Nat)
        BY <1>9, <1>10, <3>4
      <4> QED
        BY <4>1, ConcatAssociative
    <3>8. Rising(g2 \o p2, 0, clock)
      BY <1>10, <3>4, <3>6, <3>7
    <3> QED
      BY <1>12, <3>3, <3>5, <3>8 DEF Moves
  <2>2. CASE ~h.last
    <3>1. h \notin LastChunk
      BY <2>2 DEF LastChunk
    <3>2. e = <<>>
      BY <3>1, ThoseSingle, IdsEmpty
    <3>3. g2 = g
      BY <1>2, <2>2
    <3> HIDE DEF e, d, q, p, p2, g, g2
    <3>4. p = p2
      BY <1>10, <1>11, <3>2, ConcatEmptySeq
    <3> QED
      BY <1>10, <1>12, <3>3, <3>4 DEF Moves
  <2> QED
    BY <1>9, <2>1, <2>2
<1>14. ASSUME NEW k \in Modules \ {m}
       PROVE  PendingIn(pipe, proc, toApp', k) = PendingIn(pipe, proc, toApp, k)
  BY <1>4 DEF PendingIn, DeliveredIn
<1>15. Streams
  <2> SUFFICES ASSUME NEW k \in Modules
               PROVE Moves(ConnIn(pipe, proc, k), PendingIn(pipe, proc, toApp, k), got[k],
                           ConnIn(pipe', proc', k), PendingIn(pipe', proc', toApp', k), got'[k])
    BY DEF Streams
  <2>1. CASE k = m
    BY <1>2, <1>13, <2>1
  <2>2. CASE k # m
    BY <1>2, <1>4, <1>14, <2>2 DEF Moves
  <2> QED
    BY <2>1, <2>2
<1>16. Ordered'
  <2> SUFFICES ASSUME NEW k \in Modules
               PROVE  Rising(got'[k] \o PendingIn(pipe', proc', toApp', k), 0, clock')
    BY DEF Ordered
  <2>1. CASE k = m
    BY <1>2, <1>13, <2>1
  <2>2. CASE k # m
    BY <1>2, <1>4, <1>14, <2>2 DEF SInv, Ordered
  <2> QED
    BY <2>1, <2>2
<1>17. NoneNew(pipe)' /\ Fresh' /\ Sole(pipe)'
  BY <1>2, <1>4 DEF SInv, Fresh, NoneNew, Sole
<1> QED
  BY <1>15, <1>16, <1>17 DEF SInv

---------------------------------------------------------------------------

\* Which of the chunks of one write end a packet.
LEMMA FlushedChunks ==
  ASSUME NEW d \in Packet, NEW n \in Nat, n \in 1 .. (Size(d.type) - d.done)
  PROVE  LET chunks == [k \in 1 .. n |-> [id |-> d.id, last |-> d.done + k = Size(d.type)]]
         IN Ids(Those(chunks, LastChunk)) = IF n = Size(d.type) - d.done THEN <<d.id>> ELSE <<>>
<1> DEFINE C(k) == [id |-> d.id, last |-> d.done + k = Size(d.type)]
           chunks == [k \in 1 .. n |-> C(k)]
<1>1. d.id \in Nat /\ d.done \in 0 .. 1 /\ Size(d.type) \in 1 .. 2
  BY DEF Packet, Size
<1>2. \A k \in 1 .. n : C(k) \in Chunk /\ C(k).id = d.id
                        /\ (C(k) \in LastChunk <=> d.done + k = Size(d.type))
  BY <1>1 DEF Chunk, LastChunk
<1>3. CASE n = 1
  <2>1. chunks = <<C(1)>>
    <3> HIDE DEF C
    <3> QED
      BY <1>3
  <2>2. Those(chunks, LastChunk) = IF C(1) \in LastChunk THEN <<C(1)>> ELSE <<>>
    <3> HIDE DEF C, chunks
    <3> QED
      BY <2>1, ThoseSingle
  <2>3. C(1) \in LastChunk <=> n = Size(d.type) - d.done
    BY <1>1, <1>2, <1>3
  <2>4. C(1).id = d.id
    OBVIOUS
  <2>5. Ids(Those(chunks, LastChunk)) = IF n = Size(d.type) - d.done THEN <<d.id>> ELSE <<>>
    <3> HIDE DEF C, chunks
    <3> QED
      BY <1>1, <2>2, <2>3, <2>4, IdsSingle, IdsEmpty
  <2> QED
    BY <2>5
<1>4. CASE n = 2
  <2> DEFINE a == <<C(1)>>
             b == <<C(2)>>
  <2>1. d.done = 0 /\ Size(d.type) = 2
    BY <1>1, <1>4
  <2>2. C(1) \notin LastChunk /\ C(2) \in LastChunk /\ C(1) \in Chunk /\ C(2) \in Chunk /\ C(2).id = d.id
    BY <1>2, <1>4, <2>1
  <2>3. chunks = a \o b /\ a \in Seq(Chunk) /\ b \in Seq(Chunk)
    <3> HIDE DEF C
    <3>1. a \in Seq(Chunk) /\ b \in Seq(Chunk)
      BY <2>2
    <3>2. chunks = <<C(1), C(2)>>
      BY <1>4
    <3>3. <<C(1), C(2)>> = <<C(1)>> \o <<C(2)>>
      OBVIOUS
    <3> QED
      BY <3>1, <3>2, <3>3
  <2>4. Those(a, LastChunk) = <<>> /\ Those(b, LastChunk) = b /\ Ids(b) = <<d.id>>
    <3> HIDE DEF C
    <3> QED
      BY <1>1, <2>2, ThoseSingle, IdsSingle
  <2>5. Ids(Those(chunks, LastChunk)) = <<d.id>>
    <3> HIDE DEF C, chunks, a, b
    <3>1. Those(a \o b, LastChunk) = <<>> \o b
      <4>1. Those(a \o b, LastChunk) = Those(a, LastChunk) \o Those(b, LastChunk)
        BY <2>3, ThoseConcat
      <4> QED
        BY <2>4, <4>1
    <3>2. <<>> \o b = b
      BY <2>3, ConcatEmptySeq
    <3> QED
      BY <2>3, <2>4, <3>1, <3>2
  <2> QED
    BY <1>4, <2>1, <2>5
<1>5. n = 1 \/ n = 2
  BY <1>1
<1> QED
  BY <1>3, <1>4, <1>5

\* The head packet moves on as far as it was written.
LEMMA FlushedQueue ==
  ASSUME NEW q \in Seq(Packet), q # <<>>, NEW k
  PROVE  /\ Ids([q EXCEPT ![1].done = k]) = Ids(q)
         /\ Ids(q) = <<Head(q).id>> \o Ids(Tail(q)) /\ Ids(Tail(q)) \in Seq(Nat)
<1> DEFINE r == [q EXCEPT ![1].done = k]
<1>1. \A x \in Packet : x.id \in Nat
  BY DEF Packet
<1>2. Ids(q) = <<Head(q).id>> \o Ids(Tail(q)) /\ Ids(Tail(q)) \in Seq(Nat)
  <2>1. Tail(q) \in Seq(Packet)
    OBVIOUS
  <2> QED
    BY <1>1, <2>1, IdsFirst, IdsType
<1>3. Len(q) \in Nat /\ DOMAIN q = 1 .. Len(q) /\ 1 \in 1 .. Len(q) /\ \A j \in 1 .. Len(q) : q[j] \in Packet
  OBVIOUS
<1>4. DOMAIN r = 1 .. Len(q) /\ \A j \in 1 .. Len(q) : r[j].id = q[j].id
  BY <1>3 DEF Packet
<1>5. Len(r) = Len(q)
  <2>1. r \in [1 .. Len(q) -> {r[j] : j \in 1 .. Len(q)}]
    BY <1>3, <1>4
  <2> HIDE DEF r
  <2>2. r \in Seq({r[j] : j \in 1 .. Len(q)})
    BY <1>3, <2>1, FunctionSeq
  <2> QED
    BY <1>3, <1>4, <2>2
<1> HIDE DEF r
<1>6. Ids(r) = Ids(q)
  BY <1>3, <1>4, <1>5 DEF Ids
<1> QED
  BY <1>2, <1>6 DEF r

LEMMA FlushWriteStep ==
  ASSUME NEW i \in Slots, SInv, IInv', FlushWrite(i)
  PROVE  SInv' /\ Streams
<1> DEFINE m == pipe[i].mod
           q == pipe[i].queue
           d == Head(q)
           room == PipeCap - Len(toApp[m])
           rest == Size(d.type) - d.done
           n == IF rest <= room THEN rest ELSE room
           chunks == [k \in 1 .. n |-> [id |-> d.id, last |-> d.done + k = Size(d.type)]]
           newq == IF n = rest THEN Tail(q) ELSE [q EXCEPT ![1].done = d.done + n]
<1>1. /\ pipe \in QuietTable /\ Sole(pipe) /\ NoneNew(pipe) /\ clock \in Nat
      /\ toApp \in [Modules -> Seq(Chunk)] /\ got \in [Modules -> Seq(Nat)]
      /\ proc \in [Modules -> {"new", "running", "dead"}]
  BY SInvFacts
<1>2. /\ pipe[i].on > 0 /\ q # <<>> /\ m # NoModule /\ proc[m] # "dead" /\ room > 0
      /\ toApp' = [toApp EXCEPT ![m] = @ \o chunks]
      /\ pipe' = [pipe EXCEPT ![i].queue = newq]
      /\ proc' = proc /\ got' = got /\ clock' = clock
  BY DEF FlushWrite
<1>3. pipe[i] \in Slot /\ m \in Modules /\ q \in Seq(Packet)
  <2>1. pipe[i] \in Slot
    BY <1>1 DEF QuietTable
  <2> QED
    BY <1>2, <2>1 DEF Slot
<1>4. d \in Packet
  BY <1>2, <1>3
<1>5. n \in Nat /\ n \in 1 .. rest
  <2>1. d.done \in 0 .. 1 /\ Size(d.type) \in 1 .. 2 /\ d.done < Size(d.type)
    BY <1>4 DEF Packet, Size
  <2>2. Len(toApp[m]) \in Nat
    BY <1>1, <1>3
  <2>3. room \in Int
    BY <2>2, PipesAssumption
  <2> DEFINE size == Size(d.type)
  <2>4. size \in Nat /\ d.done \in Nat /\ d.done < size /\ room > 0
    BY <1>2, <2>1
  <2>5. rest = size - d.done
    OBVIOUS
  <2> HIDE DEF size, room, rest
  <2>6. rest \in Nat /\ rest > 0
    BY <2>4, <2>5
  <2> QED
    BY <2>3, <2>4, <2>6
<1>6. Ids(Those(chunks, LastChunk)) = IF n = rest THEN <<d.id>> ELSE <<>>
  BY <1>4, <1>5, FlushedChunks
<1>7. Ids(q) = (IF n = rest THEN <<d.id>> ELSE <<>>) \o Ids(newq) /\ Ids(newq) \in Seq(Nat)
      /\ Ids(q) \in Seq(Nat)
  <2>1. /\ Ids([q EXCEPT ![1].done = d.done + n]) = Ids(q)
        /\ Ids(q) = <<d.id>> \o Ids(Tail(q)) /\ Ids(Tail(q)) \in Seq(Nat)
    BY <1>2, <1>3, FlushedQueue
  <2>2. Ids(q) \in Seq(Nat)
    BY <1>1, TableSlots, SlotFacts
  <2>3. CASE n = rest
    BY <2>1, <2>2, <2>3
  <2>4. CASE n # rest
    <3>1. newq = [q EXCEPT ![1].done = d.done + n]
      BY <2>4
    <3> HIDE DEF newq, n
    <3>2. <<>> \o Ids(newq) = Ids(newq)
      BY <2>1, <2>2, <3>1, ConcatEmptySeq
    <3> QED
      BY <2>1, <2>2, <2>4, <3>1, <3>2
  <2> QED
    BY <2>3, <2>4
<1>8. chunks \in Seq(Chunk)
  <2>1. chunks \in [1 .. n -> Chunk]
    BY <1>4, <1>5 DEF Chunk, Packet
  <2> QED
    BY <1>5, <2>1, FunctionSeq
<1>9. toApp'[m] = toApp[m] \o chunks /\ \A k \in Modules \ {m} : toApp'[k] = toApp[k]
  <2> HIDE DEF chunks
  <2> QED
    BY <1>1, <1>2, <1>3
<1> HIDE DEF chunks, newq, n, rest, room
<1>10. /\ \A j \in Slots : pipe'[j].mod = pipe[j].mod /\ pipe'[j].on = pipe[j].on
       /\ pipe'[i].queue = newq /\ \A j \in Slots \ {i} : pipe'[j].queue = pipe[j].queue
  <2>1. \A j \in Slots : pipe'[j] = IF j = i THEN [pipe[i] EXCEPT !.queue = newq] ELSE pipe[j]
    BY <1>1, <1>2 DEF QuietTable
  <2> QED
    BY <1>3, <2>1 DEF Slot
<1>11. Sole(pipe') /\ NoneNew(pipe')
  BY <1>1, <1>10 DEF Sole, NoneNew
<1>12. ASSUME NEW k \in Modules, NEW j \in Slots, pipe[j].mod = k
       PROVE  ConnIn(pipe', proc, k) = ConnIn(pipe, proc, k)
              /\ QueuedIn(pipe, k) = Ids(pipe[j].queue) /\ QueuedIn(pipe', k) = Ids(pipe'[j].queue)
  <2>1. pipe'[j].mod = k /\ pipe'[j].on = pipe[j].on
    BY <1>10, <1>12
  <2>2. QueuedIn(pipe, k) = Ids(pipe[j].queue)
        /\ ConnIn(pipe, proc, k) = IF proc[k] = "new" THEN "new"
                               ELSE IF proc[k] = "dead" THEN "closed"
                               ELSE IF pipe[j].on < 0 THEN "silent" ELSE "open"
    BY <1>1, <1>12, Slotted
  <2>3. QueuedIn(pipe', k) = Ids(pipe'[j].queue)
        /\ ConnIn(pipe', proc, k) = IF proc[k] = "new" THEN "new"
                               ELSE IF proc[k] = "dead" THEN "closed"
                               ELSE IF pipe'[j].on < 0 THEN "silent" ELSE "open"
    BY <1>11, <2>1, Slotted
  <2> QED
    BY <2>1, <2>2, <2>3
<1>13. ASSUME NEW k \in Modules, \A j \in Slots : pipe[j].mod # k
       PROVE  ConnIn(pipe', proc, k) = ConnIn(pipe, proc, k) /\ QueuedIn(pipe', k) = QueuedIn(pipe, k)
  <2>1. \A j \in Slots : pipe'[j].mod # k
    BY <1>10, <1>13
  <2>2. QueuedIn(pipe, k) = <<>> /\ ConnIn(pipe, proc, k) = IF proc[k] = "new" THEN "new" ELSE "closed"
    BY <1>13, Unslotted
  <2>3. QueuedIn(pipe', k) = <<>> /\ ConnIn(pipe', proc, k) = IF proc[k] = "new" THEN "new" ELSE "closed"
    BY <2>1, Unslotted
  <2> QED
    BY <2>2, <2>3
<1>14. DeliveredIn(toApp', m) = DeliveredIn(toApp, m) \o Ids(Those(chunks, LastChunk))
  <2> DEFINE t == toApp[m]
  <2>1. t \in Seq(Chunk)
    BY <1>1, <1>3
  <2>2. \A x \in Chunk \cap LastChunk : x.id \in Nat
    BY DEF Chunk
  <2> HIDE DEF t, m
  <2>3. Those(t, LastChunk) \in Seq(Chunk \cap LastChunk)
        /\ Those(chunks, LastChunk) \in Seq(Chunk \cap LastChunk)
    BY <1>8, <2>1, ThoseType
  <2>4. Those(t \o chunks, LastChunk) = Those(t, LastChunk) \o Those(chunks, LastChunk)
    BY <1>8, <2>1, ThoseConcat
  <2>5. Ids(Those(t, LastChunk) \o Those(chunks, LastChunk))
          = Ids(Those(t, LastChunk)) \o Ids(Those(chunks, LastChunk))
    BY <2>2, <2>3, IdsConcat
  <2> QED
    BY <1>9, <2>4, <2>5 DEF DeliveredIn, t
<1>15. PendingIn(pipe', proc, toApp', m) = PendingIn(pipe, proc, toApp, m)
  <2> DEFINE a == DeliveredIn(toApp, m)
             b == Ids(Those(chunks, LastChunk))
             c == Ids(newq)
  <2>1. a \in Seq(Nat)
    BY <1>1, <1>3, DeliveredType
  <2>2. b \in Seq(Nat) /\ c \in Seq(Nat)
    <3>1. d.id \in Nat
      BY <1>4 DEF Packet
    <3> QED
      BY <1>6, <1>7, <3>1, EmptySeq
  <2>3. QueuedIn(pipe, m) = b \o c /\ QueuedIn(pipe', m) = c
    BY <1>3, <1>6, <1>7, <1>10, <1>12
  <2>4. PendingIn(pipe, proc, toApp, m) = a \o QueuedIn(pipe, m)
    BY <1>2 DEF PendingIn
  <2>5. PendingIn(pipe', proc, toApp', m) = DeliveredIn(toApp', m) \o QueuedIn(pipe', m)
    BY <1>2 DEF PendingIn
  <2>6. DeliveredIn(toApp', m) = a \o b
    BY <1>14
  <2> HIDE DEF a, b, c
  <2>7. (a \o b) \o c = a \o (b \o c)
    BY <2>1, <2>2, NatAssoc, Zenon
  <2> QED
    BY <2>3, <2>4, <2>5, <2>6, <2>7
<1>16. ASSUME NEW k \in Modules
       PROVE  ConnIn(pipe', proc, k) = ConnIn(pipe, proc, k)
              /\ PendingIn(pipe', proc, toApp', k) = PendingIn(pipe, proc, toApp, k)
  <2>1. ConnIn(pipe', proc, k) = ConnIn(pipe, proc, k)
    BY <1>12, <1>13
  <2>2. CASE k = m
    BY <1>15, <2>1, <2>2
  <2>3. CASE k # m
    <3>1. QueuedIn(pipe', k) = QueuedIn(pipe, k)
      <4>1. CASE \A j \in Slots : pipe[j].mod # k
        BY <1>13, <4>1
      <4>2. ASSUME NEW j \in Slots, pipe[j].mod = k PROVE QueuedIn(pipe', k) = QueuedIn(pipe, k)
        <5>1. j # i
          BY <2>3, <4>2
        <5> QED
          BY <1>10, <1>12, <4>2, <5>1
      <4> QED
        BY <4>1, <4>2
    <3>2. toApp'[k] = toApp[k]
      BY <1>9, <2>3
    <3> QED
      BY <2>1, <3>1, <3>2 DEF PendingIn, DeliveredIn
  <2> QED
    BY <2>2, <2>3
<1>17. Streams
  BY <1>2, <1>16 DEF Streams, Moves
<1>18. Ordered'
  BY <1>2, <1>16 DEF SInv, Ordered
<1>19. NoneNew(pipe)' /\ Sole(pipe)'
  BY <1>2, <1>11 DEF NoneNew, Sole
<1>20. Fresh'
  <2>1. proc[m] # "new"
    BY <1>1, <1>3 DEF NoneNew
  <2> QED
    BY <1>2, <1>9, <2>1 DEF SInv, Fresh
<1> QED
  BY <1>17, <1>18, <1>19, <1>20 DEF SInv

LEMMA NextStep == SInv /\ [Next]_vars => SInv' /\ Streams
<1> SUFFICES ASSUME SInv, [Next]_vars PROVE SInv' /\ Streams
  OBVIOUS
<1>0. IInv'
  BY NextInv DEF SInv
<1>1. CASE XInput
  <2>1. CASE XEvent
    BY <1>0, <2>1, XEventStep
  <2>2. ASSUME NEW c \in UserCommands, UserCommand(c) PROVE SInv' /\ Streams
    BY <1>0, <2>2, UserCommandStep
  <2>3. ASSUME NEW c \in UserCommands, UserWait(c) PROVE SInv' /\ Streams
    BY <1>0, <2>3, IdleStep DEF UserWait, appVars
  <2> QED
    BY <1>1, <2>1, <2>2, <2>3 DEF XInput
<1>2. CASE Select
  BY <1>0, <1>2, IdleStep DEF Select, appVars
<1>3. CASE WaitEnds
  BY <1>0, <1>3, WaitEndsStep
<1>4. ASSUME NEW i \in Slots, Serve(i) PROVE SInv' /\ Streams
  <2>1. CASE ReadEnd(i)
    BY <1>0, <2>1, KillStep DEF ReadEnd
  <2>2. CASE ReadWindow(i)
    BY <1>0, <2>2, IdleStep DEF ReadWindow
  <2>3. CASE HandleModuleInput(i)
    BY <1>0, <2>3, HandleModuleInputStep
  <2>4. CASE HandleModuleWait(i)
    BY <1>0, <2>4, HandleModuleWaitStep
  <2>5. CASE FlushWrite(i)
    BY <1>0, <2>5, FlushWriteStep
  <2>6. CASE FlushStops(i)
    BY <1>0, <2>6, IdleStep DEF FlushStops, appVars
  <2>7. CASE FlushFails(i)
    BY <1>0, <2>7, KillStep DEF FlushFails
  <2> QED
    BY <1>4, <2>1, <2>2, <2>3, <2>4, <2>5, <2>6, <2>7 DEF Serve
<1>5. ASSUME NEW m \in Modules, Process(m) PROVE SInv' /\ Streams
  <2>1. CASE SendInfoWindow(m)
    BY <1>0, <2>1, IdleStep DEF SendInfoWindow
  <2>2. CASE SendInfoText(m)
    BY <1>0, <2>2, IdleStep DEF SendInfoText
  <2>3. CASE ReadFvwmPacket(m)
    BY <1>0, <2>3, ReadFvwmPacketStep
  <2>4. CASE DeadPipe(m)
    BY <1>0, <2>4, LeaveStep DEF DeadPipe
  <2>5. CASE ModuleDies(m)
    <3>1. toApp \in [Modules -> Seq(Chunk)]
      BY SInvFacts
    <3> QED
      BY <1>0, <2>5, <3>1, LeaveStep DEF ModuleDies
  <2> QED
    BY <1>5, <2>1, <2>2, <2>3, <2>4, <2>5 DEF Process
<1>6. CASE UNCHANGED vars
  BY <1>0, <1>6, IdleStep DEF vars
<1> QED
  BY <1>1, <1>2, <1>3, <1>4, <1>5, <1>6 DEF Next, Fvwm

LEMMA InitStream == Init => SInv /\ Stream!Init
<1> SUFFICES ASSUME Init PROVE SInv /\ Stream!Init
  OBVIOUS
<1>1. IInv
  BY InitInv
<1>2. \A i \in Slots : pipe[i].mod = NoModule
  BY DEF Init, FreeSlot
<1>3. Sole(pipe) /\ NoneNew(pipe) /\ Fresh
  BY <1>2, PipesAssumption DEF Sole, NoneNew, Fresh, Init
<1>4. ASSUME NEW m \in Modules
      PROVE  PendingIn(pipe, proc, toApp, m) = <<>> /\ ConnIn(pipe, proc, m) = "new" /\ got[m] = <<>>
  <2>1. \A i \in Slots : pipe[i].mod # m
    BY <1>2, PipesAssumption
  <2>2. QueuedIn(pipe, m) = <<>> /\ DeliveredIn(toApp, m) = <<>> /\ proc[m] = "new" /\ got[m] = <<>>
    BY <2>1, Unslotted, DeliveredEmpty DEF Init
  <2>3. PendingIn(pipe, proc, toApp, m) = <<>> \o <<>>
    BY <2>2 DEF PendingIn
  <2> QED
    BY <2>2, <2>3, EmptySeq, ConcatEmptySeq DEF ConnIn
<1>5. Ordered
  <2>1. <<>> \o <<>> = <<>>
    BY EmptySeq, ConcatEmptySeq
  <2> QED
    BY <1>4, <2>1, RisingEmpty DEF Ordered
<1>6. \A m \in Modules : Pending(m) = <<>> /\ Conn(m) = "new"
  BY <1>4 DEF Pending, Conn, Delivered, Queued, SlotsOf, PendingIn, ConnIn, DeliveredIn, QueuedIn
<1>7. Stream!Init
  BY <1>6 DEF Stream!Init, Init
<1> QED
  BY <1>1, <1>3, <1>5, <1>7 DEF SInv

LEMMA StreamsRefines == Streams => Stream!Next
<1> SUFFICES ASSUME Streams, NEW m \in Modules
             PROVE  Stream!Idle(m) \/ Stream!Connect(m) \/ Stream!Offer(m) \/ Stream!Take(m) \/ Stream!HangUp(m)
  BY DEF Stream!Next
<1>1. /\ Conn(m) = ConnIn(pipe, proc, m) /\ Conn(m)' = ConnIn(pipe', proc', m)
      /\ Pending(m) = PendingIn(pipe, proc, toApp, m) /\ Pending(m)' = PendingIn(pipe', proc', toApp', m)
  BY DEF Pending, Conn, Delivered, Queued, SlotsOf, PendingIn, ConnIn, DeliveredIn, QueuedIn
<1>2. Moves(Conn(m), Pending(m), got[m], Conn(m)', Pending(m)', got'[m])
  BY <1>1 DEF Streams
<1>3. \A p, q : (Stream!IsPrefix(p, q) <=> IsPrefix(p, q)) /\ (Stream!IsInjective(q) <=> IsInjective(q))
  BY DEF Stream!IsPrefix, IsPrefix, Stream!IsInjective, IsInjective
<1> QED
  BY <1>2, <1>3 DEF Moves, Stream!Idle, Stream!Connect, Stream!Offer, Stream!Take, Stream!HangUp

\* Whatever modules and users do, however slots are reused, queues overflow the
\* kernel's pipe and loops nest: a module hears nothing before it spoke, gets
\* its packets in the order they were offered, each once, and loses a tail of
\* them at most, when it is hung up on.
THEOREM PipesStream == Spec => StreamSpec
<1>1. Init => Stream!Init
  BY InitStream
<1>2. SInv /\ [Next]_vars => [Stream!Next]_(Stream!vars)
  BY NextStep, StreamsRefines
<1>3. Init => SInv
  BY InitStream
<1>4. SInv /\ [Next]_vars => SInv'
  BY NextStep
<1> QED
  BY <1>1, <1>2, <1>3, <1>4, PTL DEF Spec, StreamSpec, Stream!Spec
=============================================================================
