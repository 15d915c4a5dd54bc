---------------------------- MODULE FileChanges -----------------------------
(***************************************************************************)
(* How the Explorer learns what happened to files:                         *)
(* nautilus-file-changes-queue.c of explorer/libnautilus-private, with     *)
(* those who fill the queue (the threads of file operations, the directory *)
(* monitor, a drop saved by drag and drop) and those who empty it on the   *)
(* main thread.                                                            *)
(*                                                                         *)
(* Changes are numbered as they arrive.  Left out: which file a change is  *)
(* about, and the making of the queue by whoever is first to use it (it    *)
(* is not protected by the mutex: see README).  consume_all is TRUE in     *)
(* every call, so the limit of 20 changes is never looked at.              *)
(***************************************************************************)
EXTENDS Integers, Sequences

CONSTANTS
  Jobs,       \* file operations, each with a thread of its own
  NoChange,   \* NULL
  MaxChanges  \* bound: changes in all

FileKinds == {"FILE_ADDED", "FILE_CHANGED", "FILE_REMOVED", "FILE_MOVED"}
\* The lists of consume_changes; POSITION_REMOVE goes with POSITION_SET.
Lists == FileKinds \cup {"METADATA_COPIED", "METADATA_MOVED", "METADATA_REMOVED", "POSITION_SET"}
Kinds == Lists \cup {"POSITION_REMOVE"}
Changes == [kind : Kinds, n : Nat]

ASSUME ChangesAssumption == NoChange \notin Changes /\ MaxChanges \in Nat

VARIABLES
  queue,      \* the queue, the oldest change (its tail) first
  count,      \* changes queued so far
  job,        \* job[j]: "running", "ended" (its done callback is posted) or "done"
  idle,       \* call_consume_changes_idle_id is set
  consumer,   \* who called consume_changes: "nobody", "idle", "job" or "save"
  step,       \* where the main thread is: "position" (in a save), "get", "flush" or "stuff"
  turn,       \* the list to be sent next
  hand,       \* change
  pending,    \* additions, changes, ..., position_set_requests
  sent        \* what nautilus_directory_notify_* and _schedule_* were given, in order

consumeVars == <<turn, hand, pending, sent>>
vars == <<queue, count, job, idle, consumer, step, consumeVars>>

-----------------------------------------------------------------------------
(* Filling the queue                                                       *)

\* nautilus_file_changes_queue_add_common, for each kind
Add(k) ==
  /\ count < MaxChanges
  /\ count' = count + 1
  /\ queue' = Append(queue, [kind |-> k, n |-> count + 1])

MainLoop == consumer = "nobody"

JobAdds(j, k) ==
  /\ job[j] = "running"
  /\ Add(k)
  /\ UNCHANGED <<job, idle, consumer, step, consumeVars>>

\* g_io_scheduler_job_send_to_mainloop_async at the end of every job
JobEnds(j) ==
  /\ job[j] = "running"
  /\ job' = [job EXCEPT ![j] = "ended"]
  /\ UNCHANGED <<queue, count, idle, consumer, step, consumeVars>>

\* Mutant: a done callback that does not consume.
JobDoneQuiet(j) ==
  /\ MainLoop /\ job[j] = "ended"
  /\ job' = [job EXCEPT ![j] = "done"]
  /\ UNCHANGED <<queue, count, idle, consumer, step, consumeVars>>

\* The done callbacks of file operations end with consume_changes.
JobDone(j) ==
  /\ MainLoop /\ job[j] = "ended"
  /\ job' = [job EXCEPT ![j] = "done"]
  /\ consumer' = "job" /\ step' = "get"
  /\ UNCHANGED <<queue, count, idle, consumeVars>>

\* The directory monitor
DirChanged(k) ==
  /\ MainLoop
  /\ Add(k)
  /\ idle' = TRUE
  /\ UNCHANGED <<job, consumer, step, consumeVars>>

ConsumeAtIdle ==
  /\ MainLoop /\ idle
  /\ consumer' = "idle" /\ step' = "get"
  /\ UNCHANGED <<queue, count, job, idle, consumeVars>>

\* A file saved by drag and drop: an addition, a position, and consume_changes at once.
DirectSave ==
  /\ MainLoop
  /\ Add("FILE_ADDED")
  /\ consumer' = "save" /\ step' = "position"
  /\ UNCHANGED <<job, idle, consumeVars>>

DirectSavePosition ==
  /\ step = "position"
  /\ \/ Add("POSITION_SET")
     \/ count = MaxChanges /\ UNCHANGED <<queue, count>>
  /\ step' = "get"
  /\ UNCHANGED <<job, idle, consumer, consumeVars>>

-----------------------------------------------------------------------------
(* nautilus_file_changes_consume_changes                                   *)

List(k) == IF k = "POSITION_REMOVE" THEN "POSITION_SET" ELSE k

Positions == {"POSITION_SET", "POSITION_REMOVE"}
Arrivals == {"FILE_ADDED", "METADATA_COPIED"}
Moves == {"FILE_MOVED", "METADATA_MOVED"}
Removals == {"FILE_REMOVED", "METADATA_REMOVED"}

\* What may be collected while a list has changes in it.
Companions(l) ==
  CASE l \in Arrivals -> Arrivals \cup Positions
    [] l \in Moves -> Moves \cup Positions
    [] l \in Removals -> Removals
    [] l = "FILE_CHANGED" -> {"FILE_CHANGED"}
    [] l \in Positions -> Positions \cup Arrivals \cup Moves

\* Mutant: the test for one list is left out.
FlushNeededPositions(c) == \E l \in Lists \ {"POSITION_SET"} : pending[l] # <<>> /\ c.kind \notin Companions(l)
FlushNeeded(c) == \E l \in Lists : pending[l] # <<>> /\ c.kind \notin Companions(l)

FlushOrder == <<"FILE_REMOVED", "FILE_MOVED", "FILE_ADDED", "FILE_CHANGED",
                "METADATA_COPIED", "METADATA_MOVED", "METADATA_REMOVED", "POSITION_SET">>

\* nautilus_file_changes_queue_get_change, and whether to flush
GetChange ==
  /\ step = "get"
  /\ IF queue = <<>>
     THEN hand' = NoChange /\ step' = "flush" /\ UNCHANGED queue
     ELSE /\ hand' = Head(queue)
          /\ queue' = Tail(queue)
          /\ step' = IF FlushNeeded(Head(queue)) THEN "flush" ELSE "stuff"
  /\ turn' = 1
  /\ UNCHANGED <<count, job, idle, consumer, pending, sent>>

\* Mutant: one list too many.
SendListPast ==
  /\ step = "flush"
  /\ sent' = sent \o pending[FlushOrder[turn]]
  /\ pending' = [pending EXCEPT ![FlushOrder[turn]] = <<>>]
  /\ turn' = turn + 1 /\ UNCHANGED step
  /\ UNCHANGED <<queue, count, job, idle, consumer, hand>>

SendList ==
  /\ step = "flush"
  /\ sent' = sent \o pending[FlushOrder[turn]]
  /\ pending' = [pending EXCEPT ![FlushOrder[turn]] = <<>>]
  /\ IF turn = 8 THEN step' = "stuff" /\ UNCHANGED turn
                 ELSE turn' = turn + 1 /\ UNCHANGED step
  /\ UNCHANGED <<queue, count, job, idle, consumer, hand>>

\* Mutant: the list is replaced.
AddToListAlone ==
  /\ step = "stuff" /\ hand # NoChange
  /\ pending' = [pending EXCEPT ![List(hand.kind)] = <<hand>>]
  /\ step' = "get"
  /\ UNCHANGED <<queue, count, job, idle, consumer, turn, hand, sent>>

AddToList ==
  /\ step = "stuff" /\ hand # NoChange
  /\ pending' = [pending EXCEPT ![List(hand.kind)] = Append(@, hand)]
  /\ step' = "get"
  /\ UNCHANGED <<queue, count, job, idle, consumer, turn, hand, sent>>

\* call_consume_changes_idle_id is reset after the call.
Return ==
  /\ step = "stuff" /\ hand = NoChange
  /\ consumer' = "nobody" /\ step' = "none"
  /\ idle' = (idle /\ consumer # "idle")
  /\ UNCHANGED <<queue, count, job, consumeVars>>

ConsumeChanges == GetChange \/ SendList \/ AddToList \/ Return

-----------------------------------------------------------------------------
Init ==
  /\ queue = <<>> /\ count = 0
  /\ job = [j \in Jobs |-> "running"]
  /\ idle = FALSE /\ consumer = "nobody" /\ step = "none"
  /\ turn = 1 /\ hand = NoChange
  /\ pending = [l \in Lists |-> <<>>]
  /\ sent = <<>>

Next ==
  \/ \E j \in Jobs : (\E k \in Kinds : JobAdds(j, k)) \/ JobEnds(j) \/ JobDone(j)
  \/ \E k \in {"FILE_ADDED", "FILE_CHANGED", "FILE_REMOVED"} : DirChanged(k)
  \/ ConsumeAtIdle \/ DirectSave \/ DirectSavePosition \/ ConsumeChanges

Spec == Init /\ [][Next]_vars

\* The main thread goes on, jobs end, and the main loop comes to each of its sources.
Fairness ==
  /\ WF_vars(ConsumeChanges) /\ WF_vars(DirectSavePosition) /\ WF_vars(ConsumeAtIdle)
  /\ \A j \in Jobs : WF_vars(JobEnds(j)) /\ WF_vars(JobDone(j))

FairSpec == Spec /\ Fairness

-----------------------------------------------------------------------------
(* Properties                                                              *)

TypeOK ==
  /\ queue \in Seq(Changes) /\ count \in Nat
  /\ job \in [Jobs -> {"running", "ended", "done"}]
  /\ idle \in BOOLEAN
  /\ consumer \in {"nobody", "idle", "job", "save"}
  /\ step \in {"none", "position", "get", "flush", "stuff"}
  /\ turn \in 1..8
  /\ hand \in Changes \cup {NoChange}
  /\ pending \in [Lists -> Seq(Changes)]
  /\ sent \in Seq(Changes)

\* nautilus-file-changes-queue.c:373-377: changes are sent off in the order they arrived,
\* whatever threads queue them and however they are collected.  What the code makes of this:
\* only requests to keep metadata and positions are overtaken, by what is collected with
\* them, and never by a change of their own list.
OrderKept ==
  \A i, j \in 1..Len(sent) :
    i < j /\ sent[j].n < sent[i].n =>
      sent[i].kind \in Companions(sent[j].kind) /\ List(sent[i].kind) # List(sent[j].kind)

\* So additions, changes, removals and moves of files are told in the very order they were queued
\* (it follows: FileChangesProofs).
FilesInOrder ==
  \A i, j \in 1..Len(sent) :
    i < j /\ sent[i].kind \in FileKinds /\ sent[j].kind \in FileKinds => sent[i].n < sent[j].n

\* When consume_changes has returned its lists are empty, and what is in the queue has
\* somebody coming for it: the idle function or a job that has not called back.
SomebodyComes ==
  MainLoop =>
    /\ \A l \in Lists : pending[l] = <<>>
    /\ queue # <<>> => idle \/ \E j \in Jobs : job[j] # "done"

\* No change is lost between the queue, the lists and the directories, none is sent twice,
\* and somebody comes for them.
NothingLost ==
  /\ \A n \in 1..count :
       \/ \E i \in 1..Len(queue) : queue[i].n = n
       \/ \E l \in Lists : \E i \in 1..Len(pending[l]) : pending[l][i].n = n
       \/ \E i \in 1..Len(sent) : sent[i].n = n
       \/ step \in {"flush", "stuff"} /\ hand # NoChange /\ hand.n = n
  /\ \A i, j \in 1..Len(sent) : sent[i].n = sent[j].n => i = j
  /\ SomebodyComes

\* Every change is sent in the end.
AllSent == \A n \in 1..MaxChanges : count >= n ~> \E i \in 1..Len(sent) : sent[i].n = n
=============================================================================
