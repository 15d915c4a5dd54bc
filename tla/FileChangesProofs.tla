------------------------- MODULE FileChangesProofs --------------------------
(* Proofs about FileChanges: every invariant of its run, for any number of jobs and changes. *)
EXTENDS FileChanges, TLAPS

InHand == step \in {"flush", "stuff"} /\ hand # NoChange

\* What the main thread is doing, and what is left of its lists then.
Progress ==
  /\ MainLoop <=> step = "none"
  /\ step \in {"none", "position"} => \A l \in Lists : pending[l] = <<>>
  /\ step = "stuff" /\ hand = NoChange => \A l \in Lists : pending[l] = <<>>
  /\ step = "flush" => \A k \in 1..8 : k < turn => pending[FlushOrder[k]] = <<>>

\* The queue is in the order of arrival, behind everything that was taken from it.
QueueBehind ==
  /\ \A i \in 1..Len(queue) : queue[i].n \in 1..count
  /\ \A i, j \in 1..Len(queue) : i < j => queue[i].n < queue[j].n
  /\ InHand => /\ hand.n \in 1..count
               /\ \A i \in 1..Len(queue) : hand.n < queue[i].n

\* What is collected came before what is in hand, and what is in hand before the queue.
PendingBefore ==
  \A l \in Lists : \A i \in 1..Len(pending[l]) :
    /\ List(pending[l][i].kind) = l
    /\ pending[l][i].n \in 1..count
    /\ \A j \in 1..Len(queue) : pending[l][i].n < queue[j].n
    /\ InHand => pending[l][i].n < hand.n
    /\ \A j \in 1..Len(pending[l]) : i < j => pending[l][i].n < pending[l][j].n

\* What is collected together may be.
Together ==
  /\ \A l, m \in Lists : \A i \in 1..Len(pending[l]), j \in 1..Len(pending[m]) :
       l # m => \/ pending[l][i].n < pending[m][j].n /\ pending[m][j].kind \in Companions(l)
                \/ pending[m][j].n < pending[l][i].n /\ pending[l][i].kind \in Companions(m)
  /\ step = "stuff" /\ hand # NoChange => ~FlushNeeded(hand)

SentBefore ==
  \A i \in 1..Len(sent) :
    /\ sent[i].n \in 1..count
    /\ \A j \in 1..Len(queue) : sent[i].n < queue[j].n
    /\ InHand => sent[i].n < hand.n

\* Change c, on its way to list l or in it, may come after s was sent.
MayFollow(s, c) ==
  \/ s.n < c.n
  \/ c.n < s.n /\ s.kind \in Companions(List(c.kind)) /\ List(s.kind) # List(c.kind)

SentAhead == \A i \in 1..Len(sent), l \in Lists : \A j \in 1..Len(pending[l]) : MayFollow(sent[i], pending[l][j])

Order == \A i, j \in 1..Len(sent) : i < j => MayFollow(sent[i], sent[j])

Somewhere(n) ==
  \/ \E i \in 1..Len(queue) : queue[i].n = n
  \/ \E l \in Lists : \E i \in 1..Len(pending[l]) : pending[l][i].n = n
  \/ \E i \in 1..Len(sent) : sent[i].n = n
  \/ InHand /\ hand.n = n

Ordered ==
  /\ QueueBehind /\ PendingBefore /\ Together /\ SentBefore /\ SentAhead /\ Order
  /\ \A n \in 1..count : Somewhere(n)

\* Once nothing was left to take, what arrives comes from a job that will call back.
Coming ==
  /\ step \in {"flush", "stuff"} /\ hand = NoChange /\ queue # <<>> => \E j \in Jobs : job[j] # "done"
  /\ MainLoop /\ queue # <<>> => idle \/ \E j \in Jobs : job[j] # "done"

\* The inductive invariant: a change moves from the queue to the hand, to a list, to the
\* directories, and where it is tells how it stands to all the others.
IInv == TypeOK /\ Progress /\ Ordered /\ Coming

-----------------------------------------------------------------------------
(* Lists and what they take                                                *)

\* Every kind has a list, a list takes its own kinds, and each list has its turn in a flush.
LEMMA ListFacts ==
  /\ \A k \in Kinds : List(k) \in Lists /\ k \in Companions(List(k)) /\ Companions(List(k)) = Companions(k)
  /\ \A l \in Lists : l \in Kinds /\ List(l) = l
  /\ \A t \in 1..8 : FlushOrder[t] \in Lists
  /\ \A l \in Lists : \E t \in 1..8 : FlushOrder[t] = l
<1>1. \A k \in Kinds : List(k) \in Lists /\ k \in Companions(List(k)) /\ Companions(List(k)) = Companions(k)
  BY DEF Kinds, Lists, FileKinds, List, Companions, Positions, Arrivals, Moves, Removals
<1>2. \A l \in Lists : l \in Kinds /\ List(l) = l
  BY DEF Kinds, Lists, FileKinds, List
<1>3. \A t \in 1..8 : FlushOrder[t] \in Lists
  BY DEF Lists, FileKinds, FlushOrder
<1>4. \A l \in Lists : \E t \in 1..8 : FlushOrder[t] = l
  <2>1. /\ FlushOrder[1] = "FILE_REMOVED" /\ FlushOrder[2] = "FILE_MOVED" /\ FlushOrder[3] = "FILE_ADDED"
        /\ FlushOrder[4] = "FILE_CHANGED" /\ FlushOrder[5] = "METADATA_COPIED"
        /\ FlushOrder[6] = "METADATA_MOVED" /\ FlushOrder[7] = "METADATA_REMOVED"
        /\ FlushOrder[8] = "POSITION_SET"
    BY DEF FlushOrder
  <2>2. 1 \in 1..8 /\ 2 \in 1..8 /\ 3 \in 1..8 /\ 4 \in 1..8 /\ 5 \in 1..8 /\ 6 \in 1..8 /\ 7 \in 1..8 /\ 8 \in 1..8
    OBVIOUS
  <2> QED BY <2>1, <2>2 DEF Lists, FileKinds
<1> QED BY <1>1, <1>2, <1>3, <1>4

\* No list of file changes takes another kind of file change.
LEMMA FileKindsApart ==
  ASSUME NEW l \in FileKinds, NEW m \in FileKinds, l \in Companions(m)
  PROVE  l = m
BY DEF FileKinds, Companions, Positions, Arrivals, Moves, Removals

-----------------------------------------------------------------------------
(* Types                                                                   *)

\* A number given to a change.
LEMMA AddType ==
  ASSUME NEW k \in Kinds, queue \in Seq(Changes), count \in Nat, Add(k)
  PROVE  queue' \in Seq(Changes) /\ count' \in Nat
<1>1. [kind |-> k, n |-> count + 1] \in Changes
  BY DEF Changes
<1> QED BY <1>1 DEF Add

\* Every step keeps the types.
LEMMA TypeStep ==
  ASSUME TypeOK, [Next]_vars
  PROVE  TypeOK'
<1> USE DEF TypeOK, consumeVars
<1>1. ASSUME NEW j \in Jobs, NEW k \in Kinds, JobAdds(j, k) PROVE TypeOK'
  BY <1>1, AddType DEF JobAdds
<1>2. ASSUME NEW j \in Jobs, JobEnds(j) PROVE TypeOK'
  BY <1>2 DEF JobEnds
<1>3. ASSUME NEW j \in Jobs, JobDone(j) PROVE TypeOK'
  BY <1>3 DEF JobDone
<1>4. ASSUME NEW k \in {"FILE_ADDED", "FILE_CHANGED", "FILE_REMOVED"}, DirChanged(k) PROVE TypeOK'
  BY <1>4, AddType DEF DirChanged, Kinds, Lists, FileKinds
<1>5. CASE ConsumeAtIdle
  BY <1>5 DEF ConsumeAtIdle
<1>6. CASE DirectSave
  BY <1>6, AddType DEF DirectSave, Kinds, Lists, FileKinds
<1>7. CASE DirectSavePosition
  BY <1>7, AddType DEF DirectSavePosition, Kinds, Lists, FileKinds
<1>8. CASE GetChange
  <2>1. CASE queue = <<>>
    BY <1>8, <2>1 DEF GetChange
  <2>2. CASE queue # <<>>
    <3>1. Head(queue) \in Changes /\ Tail(queue) \in Seq(Changes)
      BY <2>2
    <3>2. step' \in {"flush", "stuff"} /\ hand' = Head(queue) /\ queue' = Tail(queue) /\ turn' = 1
      BY <1>8, <2>2 DEF GetChange
    <3>3. UNCHANGED <<count, job, idle, consumer, pending, sent>>
      BY <1>8 DEF GetChange
    <3> QED BY <3>1, <3>2, <3>3
  <2> QED BY <2>1, <2>2
<1>9. CASE SendList
  <2>1. FlushOrder[turn] \in Lists
    BY ListFacts
  <2>2. turn' \in 1..8
    BY <1>9 DEF SendList
  <2>3. sent' \in Seq(Changes) /\ pending' \in [Lists -> Seq(Changes)]
    BY <1>9, <2>1 DEF SendList
  <2> QED BY <1>9, <2>2, <2>3 DEF SendList
<1>10. CASE AddToList
  <2>1. hand \in Changes /\ List(hand.kind) \in Lists
    BY <1>10, ListFacts DEF AddToList, Changes
  <2>2. pending' \in [Lists -> Seq(Changes)]
    BY <1>10, <2>1 DEF AddToList
  <2> QED BY <1>10, <2>2 DEF AddToList
<1>11. CASE Return
  BY <1>11 DEF Return
<1>12. CASE UNCHANGED vars
  BY <1>12 DEF vars
<1> QED
  BY <1>1, <1>2, <1>3, <1>4, <1>5, <1>6, <1>7, <1>8, <1>9, <1>10, <1>11, <1>12 DEF Next, ConsumeChanges

\* Every variable keeps its type: a flush never goes past its eight lists, and a list holds changes.
THEOREM ChangesTypeOK == Spec => []TypeOK
<1>1. Init => TypeOK
  <2> SUFFICES ASSUME Init PROVE TypeOK
    OBVIOUS
  <2>1. job \in [Jobs -> {"running", "ended", "done"}] /\ turn \in 1..8
    BY DEF Init
  <2>2. pending \in [Lists -> Seq(Changes)] /\ queue \in Seq(Changes) /\ sent \in Seq(Changes)
    BY DEF Init
  <2> QED BY <2>1, <2>2 DEF Init, TypeOK
<1>2. TypeOK /\ [Next]_vars => TypeOK'
  BY TypeStep
<1> QED BY <1>1, <1>2, PTL DEF Spec

-----------------------------------------------------------------------------
(* The order                                                               *)

\* What a call of add does to the list.
LEMMA AddFacts ==
  ASSUME TypeOK, NEW k \in Kinds, Add(k)
  PROVE  /\ count' = count + 1 /\ Len(queue') = Len(queue) + 1
         /\ \A i \in 1..Len(queue) : queue'[i] = queue[i]
         /\ queue'[Len(queue) + 1].n = count + 1
<1>1. [kind |-> k, n |-> count + 1] \in Changes
  BY DEF Changes, TypeOK
<1> QED BY <1>1 DEF Add, TypeOK

\* Whoever queues a change keeps the order.
LEMMA AddOrdered ==
  ASSUME TypeOK, Ordered, NEW k \in Kinds, Add(k), UNCHANGED <<hand, pending, sent>>,
         InHand' <=> InHand, step' = "stuff" => step = "stuff"
  PROVE  Ordered'
<1>1. /\ count' = count + 1 /\ Len(queue') = Len(queue) + 1 /\ count \in Nat /\ Len(queue) \in Nat
      /\ \A i \in 1..Len(queue) : queue'[i] = queue[i]
      /\ queue'[Len(queue) + 1].n = count + 1
  BY AddFacts DEF TypeOK
<1>2. QueueBehind'
  BY <1>1, SMTT(30) DEF Ordered, QueueBehind
<1>3. PendingBefore'
  BY <1>1, SMTT(30) DEF Ordered, PendingBefore
<1>4. Together'
  BY DEF Ordered, Together, FlushNeeded
<1>5. SentBefore'
  <2> SUFFICES ASSUME NEW i \in 1..Len(sent)
               PROVE  /\ sent[i].n \in 1..count'
                      /\ \A j \in 1..Len(queue') : sent[i].n < queue'[j].n
                      /\ InHand' => sent[i].n < hand.n
    BY DEF SentBefore
  <2>1. /\ sent[i].n \in 1..count /\ (InHand => sent[i].n < hand.n)
        /\ \A j \in 1..Len(queue) : sent[i].n < queue[j].n
    BY DEF Ordered, SentBefore
  <2>2. ASSUME NEW j \in 1..Len(queue') PROVE sent[i].n < queue'[j].n
    <3>1. j \in 1..Len(queue) \/ j = Len(queue) + 1
      BY <1>1
    <3> QED BY <1>1, <2>1, <3>1
  <2> QED BY <1>1, <2>1, <2>2
<1>6. SentAhead' /\ Order'
  BY DEF Ordered, SentAhead, Order
<1>7. ASSUME NEW n \in 1..count' PROVE Somewhere(n)'
  <2>1. CASE n = count + 1
    <3>1. Len(queue) + 1 \in 1..Len(queue')
      BY <1>1
    <3> QED BY <1>1, <2>1, <3>1 DEF Somewhere
  <2>2. CASE n \in 1..count
    <3>1. Somewhere(n)
      BY <2>2 DEF Ordered
    <3>2. ASSUME NEW i \in 1..Len(queue), queue[i].n = n PROVE i \in 1..Len(queue') /\ queue'[i].n = n
      BY <1>1, <3>2
    <3> QED BY <3>1, <3>2 DEF Somewhere
  <2> QED BY <1>1, <2>1, <2>2
<1> QED BY <1>2, <1>3, <1>4, <1>5, <1>6, <1>7 DEF Ordered

\* So does whoever leaves changes alone.
LEMMA StillOrdered ==
  ASSUME Ordered, UNCHANGED <<queue, count, hand, pending, sent>>,
         InHand' <=> InHand, step' = "stuff" => step = "stuff"
  PROVE  Ordered'
<1>1. QueueBehind' /\ PendingBefore' /\ SentBefore'
  BY DEF Ordered, QueueBehind, PendingBefore, SentBefore
<1>2. Together' /\ SentAhead' /\ Order'
  BY DEF Ordered, Together, FlushNeeded, SentAhead, Order
<1>3. \A n \in 1..count' : Somewhere(n)'
  BY DEF Ordered, Somewhere
<1> QED BY <1>1, <1>2, <1>3 DEF Ordered

\* Taking a change: it was behind everything collected or sent, and is ahead of the queue.
LEMMA GetOrdered ==
  ASSUME TypeOK, Ordered, GetChange
  PROVE  Ordered'
<1>1. step = "get" /\ ~InHand /\ UNCHANGED <<count, pending, sent>>
  BY DEF GetChange, InHand
<1>2. CASE queue = <<>>
  <2>1. UNCHANGED queue /\ hand' = NoChange /\ step' = "flush" /\ ~InHand'
    BY <1>2 DEF GetChange, InHand
  <2>2. QueueBehind' /\ PendingBefore' /\ SentBefore'
    BY <1>1, <2>1 DEF Ordered, QueueBehind, PendingBefore, SentBefore
  <2>3. Together' /\ SentAhead' /\ Order'
    BY <1>1, <2>1 DEF Ordered, Together, SentAhead, Order
  <2>4. \A n \in 1..count' : Somewhere(n)'
    BY <1>1, <2>1 DEF Ordered, Somewhere
  <2> QED BY <2>2, <2>3, <2>4 DEF Ordered
<1>3. CASE queue # <<>>
  <2>1. /\ hand' = queue[1] /\ queue' = Tail(queue) /\ step' \in {"flush", "stuff"}
        /\ step' = "stuff" => ~FlushNeeded(queue[1])
    BY <1>3 DEF GetChange, TypeOK
  <2>2. /\ Len(queue) \in Nat /\ Len(queue) >= 1 /\ Len(queue') = Len(queue) - 1
        /\ \A i \in 1..Len(queue') : queue'[i] = queue[i + 1] /\ i + 1 \in 1..Len(queue)
    BY <1>3, <2>1 DEF TypeOK
  <2>3. hand' # NoChange /\ InHand' /\ 1 \in 1..Len(queue)
    BY <2>1, <2>2, ChangesAssumption DEF TypeOK, InHand
  <2>4. QueueBehind'
    BY <1>1, <2>1, <2>2, <2>3 DEF Ordered, QueueBehind
  <2>5. PendingBefore'
    BY <1>1, <2>1, <2>2, <2>3 DEF Ordered, PendingBefore
  <2>6. Together'
    BY <1>1, <2>1 DEF Ordered, Together, FlushNeeded
  <2>7. SentBefore'
    BY <1>1, <2>1, <2>2, <2>3 DEF Ordered, SentBefore
  <2>8. SentAhead' /\ Order'
    BY <1>1 DEF Ordered, SentAhead, Order
  <2>9. ASSUME NEW n \in 1..count' PROVE Somewhere(n)'
    <3>1. Somewhere(n)
      BY <1>1, <2>9 DEF Ordered
    <3>2. ASSUME NEW i \in 1..Len(queue), queue[i].n = n
          PROVE  (InHand' /\ hand'.n = n) \/ \E j \in 1..Len(queue') : queue'[j].n = n
      <4>1. CASE i = 1
        BY <3>2, <4>1, <2>1, <2>3
      <4>2. CASE i # 1
        <5>1. i - 1 \in 1..Len(queue') /\ queue'[i - 1] = queue[i]
          BY <4>2, <2>2
        <5> QED BY <3>2, <5>1
      <4> QED BY <4>1, <4>2
    <3> QED BY <1>1, <3>1, <3>2 DEF Somewhere
  <2> QED BY <2>4, <2>5, <2>6, <2>7, <2>8, <2>9 DEF Ordered
<1> QED BY <1>2, <1>3

\* The lists before the turn are empty; after the last one all are.
LEMMA Flushed ==
  ASSUME TypeOK, Progress, SendList
  PROVE  /\ step' = "stuff" => \A l \in Lists : pending'[l] = <<>>
         /\ step' = "flush" => \A k \in 1..8 : k < turn' => pending'[FlushOrder[k]] = <<>>
<1> DEFINE x == FlushOrder[turn]
<1>1. /\ step = "flush" /\ turn \in 1..8 /\ pending' = [pending EXCEPT ![x] = <<>>]
      /\ IF turn = 8 THEN step' = "stuff" ELSE turn' = turn + 1 /\ step' = "flush"
      /\ pending \in [Lists -> Seq(Changes)] /\ x \in Lists
  BY ListFacts DEF SendList, TypeOK
<1>2. \A k \in 1..8 : k <= turn => pending'[FlushOrder[k]] = <<>>
  <2> SUFFICES ASSUME NEW k \in 1..8, k <= turn PROVE pending'[FlushOrder[k]] = <<>>
    OBVIOUS
  <2>1. FlushOrder[k] \in Lists
    BY ListFacts
  <2>2. CASE k = turn
    BY <1>1, <2>2
  <2>3. CASE k < turn
    <3>1. pending[FlushOrder[k]] = <<>>
      BY <1>1, <2>3 DEF Progress
    <3> HIDE DEF x
    <3> QED BY <1>1, <2>1, <3>1
  <2> QED BY <1>1, <2>2, <2>3
<1>3. turn = 8 => \A l \in Lists : pending'[l] = <<>>
  BY <1>2, ListFacts
<1> QED BY <1>1, <1>2, <1>3

\* What is sent of list x follows what was sent and may precede what is still collected.
LEMMA SendOrdered ==
  ASSUME TypeOK, Progress, Ordered, SendList
  PROVE  Ordered'
<1> DEFINE x == FlushOrder[turn]
<1>1. /\ x \in Lists /\ List(x) = x /\ UNCHANGED <<queue, count, hand>> /\ count \in Nat
      /\ step = "flush" /\ step' \in {"flush", "stuff"} /\ (InHand' <=> InHand)
  BY ListFacts DEF SendList, TypeOK, InHand
<1>2. /\ pending \in [Lists -> Seq(Changes)] /\ pending' = [pending EXCEPT ![x] = <<>>]
      /\ sent' = sent \o pending[x] /\ sent \in Seq(Changes)
  BY DEF SendList, TypeOK
<1>3. pending'[x] = <<>> /\ Len(pending'[x]) = 0 /\ \A l \in Lists : l # x => pending'[l] = pending[l]
  BY <1>1, <1>2
<1>4. \A l \in Lists : \A i \in 1..Len(pending'[l]) : l # x /\ pending'[l] = pending[l]
  BY <1>1, <1>3
<1>5. /\ Len(sent') = Len(sent) + Len(pending[x]) /\ Len(sent) \in Nat /\ Len(pending[x]) \in Nat
      /\ \A i \in 1..Len(sent) : sent'[i] = sent[i]
      /\ \A i \in 1..Len(pending[x]) : sent'[Len(sent) + i] = pending[x][i]
  BY <1>1, <1>2
<1> HIDE DEF x
<1>6. \A i \in 1..Len(sent') :
        \/ i \in 1..Len(sent) /\ sent'[i] = sent[i]
        \/ i - Len(sent) \in 1..Len(pending[x]) /\ sent'[i] = pending[x][i - Len(sent)]
  <2> TAKE i \in 1..Len(sent')
  <2>1. CASE i <= Len(sent)
    <3>1. i \in 1..Len(sent)
      BY <2>1, <1>5
    <3> QED BY <3>1, <1>5
  <2>2. CASE ~(i <= Len(sent))
    <3>1. i - Len(sent) \in 1..Len(pending[x]) /\ Len(sent) + (i - Len(sent)) = i
      BY <2>2, <1>5
    <3> QED BY <3>1, <1>5
  <2> QED BY <2>1, <2>2
<1>7. QueueBehind'
  BY <1>1 DEF Ordered, QueueBehind
<1>8. PendingBefore'
  <2> SUFFICES ASSUME NEW l \in Lists, NEW i \in 1..Len(pending'[l])
               PROVE  /\ List(pending'[l][i].kind) = l
                      /\ pending'[l][i].n \in 1..count
                      /\ \A j \in 1..Len(queue) : pending'[l][i].n < queue[j].n
                      /\ InHand => pending'[l][i].n < hand.n
                      /\ \A j \in 1..Len(pending'[l]) : i < j => pending'[l][i].n < pending'[l][j].n
    BY <1>1 DEF PendingBefore
  <2> QED BY <1>4 DEF Ordered, PendingBefore
<1>9. Together'
  <2>1. ASSUME NEW l \in Lists, NEW m \in Lists, NEW i \in 1..Len(pending'[l]), NEW j \in 1..Len(pending'[m]), l # m
        PROVE  \/ pending'[l][i].n < pending'[m][j].n /\ pending'[m][j].kind \in Companions(l)
               \/ pending'[m][j].n < pending'[l][i].n /\ pending'[l][i].kind \in Companions(m)
    BY <1>4, <2>1 DEF Ordered, Together
  <2>2. ~(step' = "stuff" /\ hand' # NoChange /\ FlushNeeded(hand)')
    BY Flushed DEF FlushNeeded
  <2> QED BY <2>1, <2>2 DEF Together
<1>10. SentBefore'
  <2> SUFFICES ASSUME NEW i \in 1..Len(sent')
               PROVE  /\ sent'[i].n \in 1..count
                      /\ \A j \in 1..Len(queue) : sent'[i].n < queue[j].n
                      /\ InHand => sent'[i].n < hand.n
    BY <1>1 DEF SentBefore
  <2>1. CASE i \in 1..Len(sent) /\ sent'[i] = sent[i]
    BY <2>1 DEF Ordered, SentBefore
  <2>2. CASE i - Len(sent) \in 1..Len(pending[x]) /\ sent'[i] = pending[x][i - Len(sent)]
    BY <1>1, <2>2 DEF Ordered, PendingBefore
  <2> QED BY <1>6, <2>1, <2>2
<1>11. ASSUME NEW i \in 1..Len(pending[x]), NEW l \in Lists, l # x, NEW j \in 1..Len(pending[l])
       PROVE  MayFollow(pending[x][i], pending[l][j])
  <2>1. List(pending[l][j].kind) = l /\ List(pending[x][i].kind) = x
    BY <1>1 DEF Ordered, PendingBefore
  <2>2. \/ pending[x][i].n < pending[l][j].n
        \/ pending[l][j].n < pending[x][i].n /\ pending[x][i].kind \in Companions(l)
    BY <1>1, <1>11 DEF Ordered, Together
  <2> QED BY <1>11, <2>1, <2>2 DEF MayFollow
<1>12. SentAhead'
  <2> SUFFICES ASSUME NEW i \in 1..Len(sent'), NEW l \in Lists, NEW j \in 1..Len(pending'[l])
               PROVE  MayFollow(sent'[i], pending'[l][j])
    BY DEF SentAhead, MayFollow
  <2>1. l # x /\ pending'[l] = pending[l] /\ j \in 1..Len(pending[l])
    BY <1>4
  <2>2. CASE i \in 1..Len(sent) /\ sent'[i] = sent[i]
    BY <2>1, <2>2 DEF Ordered, SentAhead
  <2>3. CASE i - Len(sent) \in 1..Len(pending[x]) /\ sent'[i] = pending[x][i - Len(sent)]
    BY <1>11, <2>1, <2>3
  <2> QED BY <1>6, <2>2, <2>3
<1>13. Order'
  <2> SUFFICES ASSUME NEW i \in 1..Len(sent'), NEW j \in 1..Len(sent'), i < j
               PROVE  MayFollow(sent'[i], sent'[j])
    BY DEF Order, MayFollow
  <2>1. CASE j \in 1..Len(sent) /\ sent'[j] = sent[j]
    <3>1. i \in 1..Len(sent) /\ sent'[i] = sent[i]
      BY <2>1, <1>5
    <3> QED BY <2>1, <3>1 DEF Ordered, Order
  <2>2. CASE /\ i \in 1..Len(sent) /\ sent'[i] = sent[i]
             /\ j - Len(sent) \in 1..Len(pending[x]) /\ sent'[j] = pending[x][j - Len(sent)]
    BY <1>1, <2>2 DEF Ordered, SentAhead
  <2>3. CASE /\ i - Len(sent) \in 1..Len(pending[x]) /\ sent'[i] = pending[x][i - Len(sent)]
             /\ j - Len(sent) \in 1..Len(pending[x]) /\ sent'[j] = pending[x][j - Len(sent)]
    <3>1. i - Len(sent) < j - Len(sent)
      BY <1>5
    <3>2. pending[x][i - Len(sent)].n < pending[x][j - Len(sent)].n
      BY <1>1, <2>3, <3>1 DEF Ordered, PendingBefore
    <3> QED BY <2>3, <3>2 DEF MayFollow
  <2> QED BY <1>6, <2>1, <2>2, <2>3
<1>14. ASSUME NEW n \in 1..count' PROVE Somewhere(n)'
  <2>1. Somewhere(n)
    BY <1>1, <1>14 DEF Ordered
  <2>2. ASSUME NEW l \in Lists, NEW i \in 1..Len(pending[l]), pending[l][i].n = n
        PROVE  \/ \E m \in Lists : \E j \in 1..Len(pending'[m]) : pending'[m][j].n = n
               \/ \E j \in 1..Len(sent') : sent'[j].n = n
    <3>1. CASE l = x
      <4>1. Len(sent) + i \in 1..Len(sent') /\ sent'[Len(sent) + i].n = n
        BY <1>5, <2>2, <3>1
      <4> QED BY <4>1
    <3>2. CASE l # x
      BY <1>3, <2>2, <3>2
    <3> QED BY <3>1, <3>2
  <2>3. ASSUME NEW i \in 1..Len(sent), sent[i].n = n PROVE \E j \in 1..Len(sent') : sent'[j].n = n
    BY <1>5, <2>3
  <2> QED BY <1>1, <2>1, <2>2, <2>3 DEF Somewhere
<1> QED BY <1>7, <1>8, <1>9, <1>10, <1>12, <1>13, <1>14 DEF Ordered

\* What is in hand is the last to arrive of all that is collected or sent.
LEMMA StuffOrdered ==
  ASSUME TypeOK, Ordered, AddToList
  PROVE  Ordered'
<1> DEFINE y == List(hand.kind)
<1>1. /\ InHand /\ ~InHand' /\ step = "stuff" /\ step' = "get" /\ ~FlushNeeded(hand)
      /\ hand \in Changes /\ hand.kind \in Kinds /\ hand.n \in Nat /\ y \in Lists
      /\ UNCHANGED <<queue, count, hand, sent>>
  <2>1. hand \in Changes /\ hand.kind \in Kinds /\ hand.n \in Nat
    BY DEF AddToList, TypeOK, Changes
  <2> QED BY <2>1, ListFacts DEF AddToList, InHand, Ordered, Together
<1> HIDE DEF y
<1>2. /\ pending \in [Lists -> Seq(Changes)] /\ pending' = [pending EXCEPT ![y] = Append(@, hand)]
  BY DEF AddToList, TypeOK, y
<1>3. /\ pending'[y] = Append(pending[y], hand) /\ \A l \in Lists : l # y => pending'[l] = pending[l]
      /\ pending[y] \in Seq(Changes)
  BY <1>1, <1>2
<1>4. /\ Len(pending'[y]) = Len(pending[y]) + 1 /\ Len(pending[y]) \in Nat
      /\ \A i \in 1..Len(pending[y]) : pending'[y][i] = pending[y][i]
      /\ pending'[y][Len(pending[y]) + 1] = hand
  BY <1>1, <1>3
<1>5. \A l \in Lists : \A i \in 1..Len(pending'[l]) :
        \/ i \in 1..Len(pending[l]) /\ pending'[l][i] = pending[l][i]
        \/ l = y /\ i = Len(pending[y]) + 1 /\ pending'[l][i] = hand
  <2> TAKE l \in Lists
  <2> TAKE i \in 1..Len(pending'[l])
  <2>1. CASE l # y
    BY <1>3, <2>1
  <2>2. CASE l = y
    <3>1. i \in 1..Len(pending[y]) \/ i = Len(pending[y]) + 1
      BY <1>4, <2>2
    <3> QED BY <1>4, <2>2, <3>1
  <2> QED BY <2>1, <2>2
<1>6. /\ hand.n \in 1..count /\ \A j \in 1..Len(queue) : hand.n < queue[j].n
      /\ \A l \in Lists : \A i \in 1..Len(pending[l]) : pending[l][i].n < hand.n
      /\ \A i \in 1..Len(sent) : sent[i].n < hand.n
  BY <1>1 DEF Ordered, QueueBehind, PendingBefore, SentBefore
<1>7. QueueBehind'
  BY <1>1 DEF Ordered, QueueBehind
<1>8. PendingBefore'
  <2> SUFFICES ASSUME NEW l \in Lists, NEW i \in 1..Len(pending'[l])
               PROVE  /\ List(pending'[l][i].kind) = l
                      /\ pending'[l][i].n \in 1..count
                      /\ \A j \in 1..Len(queue) : pending'[l][i].n < queue[j].n
                      /\ \A j \in 1..Len(pending'[l]) : i < j => pending'[l][i].n < pending'[l][j].n
    BY <1>1 DEF PendingBefore
  <2>1. CASE i \in 1..Len(pending[l]) /\ pending'[l][i] = pending[l][i]
    <3>1. ASSUME NEW j \in 1..Len(pending'[l]), i < j PROVE pending'[l][i].n < pending'[l][j].n
      <4>1. CASE j \in 1..Len(pending[l]) /\ pending'[l][j] = pending[l][j]
        BY <2>1, <3>1, <4>1 DEF Ordered, PendingBefore
      <4>2. CASE pending'[l][j] = hand
        BY <1>6, <2>1, <4>2
      <4> QED BY <1>5, <4>1, <4>2
    <3>2. /\ List(pending[l][i].kind) = l
          /\ pending[l][i].n \in 1..count
          /\ \A j \in 1..Len(queue) : pending[l][i].n < queue[j].n
      BY <2>1 DEF Ordered, PendingBefore
    <3> QED BY <2>1, <3>1, <3>2
  <2>2. CASE l = y /\ i = Len(pending[y]) + 1 /\ pending'[l][i] = hand
    <3>1. \A j \in 1..Len(pending'[l]) : ~(i < j)
      BY <1>4, <2>2
    <3> QED BY <1>6, <2>2, <3>1 DEF y
  <2> QED BY <1>5, <2>1, <2>2
<1>9. Together'
  <2>1. ASSUME NEW l \in Lists, l # y, NEW i \in 1..Len(pending[l])
        PROVE  pending[l][i].n < hand.n /\ hand.kind \in Companions(l)
    <3>1. pending[l] # <<>>
      BY <2>1
    <3> QED BY <1>1, <1>6, <2>1, <3>1 DEF FlushNeeded
  <2>2. ASSUME NEW l \in Lists, NEW m \in Lists, NEW i \in 1..Len(pending'[l]), NEW j \in 1..Len(pending'[m]), l # m
        PROVE  \/ pending'[l][i].n < pending'[m][j].n /\ pending'[m][j].kind \in Companions(l)
               \/ pending'[m][j].n < pending'[l][i].n /\ pending'[l][i].kind \in Companions(m)
    <3>1. CASE /\ i \in 1..Len(pending[l]) /\ pending'[l][i] = pending[l][i]
               /\ j \in 1..Len(pending[m]) /\ pending'[m][j] = pending[m][j]
      BY <2>2, <3>1 DEF Ordered, Together
    <3>2. CASE /\ i \in 1..Len(pending[l]) /\ pending'[l][i] = pending[l][i]
               /\ m = y /\ pending'[m][j] = hand
      BY <2>1, <2>2, <3>2
    <3>3. CASE /\ l = y /\ pending'[l][i] = hand
               /\ j \in 1..Len(pending[m]) /\ pending'[m][j] = pending[m][j]
      BY <2>1, <2>2, <3>3
    <3> QED BY <1>5, <2>2, <3>1, <3>2, <3>3
  <2> QED BY <1>1, <2>2 DEF Together
<1>10. SentBefore' /\ Order'
  BY <1>1 DEF Ordered, SentBefore, Order
<1>11. SentAhead'
  <2> SUFFICES ASSUME NEW i \in 1..Len(sent), NEW l \in Lists, NEW j \in 1..Len(pending'[l])
               PROVE  MayFollow(sent[i], pending'[l][j])
    BY <1>1 DEF SentAhead, MayFollow
  <2>1. CASE j \in 1..Len(pending[l]) /\ pending'[l][j] = pending[l][j]
    BY <2>1 DEF Ordered, SentAhead
  <2>2. CASE pending'[l][j] = hand
    BY <1>6, <2>2 DEF MayFollow
  <2> QED BY <1>5, <2>1, <2>2
<1>12. ASSUME NEW n \in 1..count' PROVE Somewhere(n)'
  <2>1. Somewhere(n)
    BY <1>1, <1>12 DEF Ordered
  <2>2. ASSUME hand.n = n PROVE \E m \in Lists : \E j \in 1..Len(pending'[m]) : pending'[m][j].n = n
    <3>1. Len(pending[y]) + 1 \in 1..Len(pending'[y])
      BY <1>4
    <3> QED BY <1>1, <1>4, <2>2, <3>1
  <2>3. ASSUME NEW l \in Lists, NEW i \in 1..Len(pending[l]), pending[l][i].n = n
        PROVE  \E m \in Lists : \E j \in 1..Len(pending'[m]) : pending'[m][j].n = n
    <3>1. i \in 1..Len(pending'[l]) /\ pending'[l][i] = pending[l][i]
      BY <1>3, <1>4
    <3> QED BY <2>3, <3>1
  <2> QED BY <1>1, <2>1, <2>2, <2>3 DEF Somewhere
<1> QED BY <1>7, <1>8, <1>9, <1>10, <1>11, <1>12 DEF Ordered

\* Every step keeps the order of the changes.
LEMMA OrderedStep ==
  ASSUME TypeOK, Progress, Ordered, [Next]_vars
  PROVE  Ordered'
<1> USE DEF consumeVars
<1>1. ASSUME NEW j \in Jobs, NEW k \in Kinds, JobAdds(j, k) PROVE Ordered'
  BY <1>1, AddOrdered DEF JobAdds, InHand
<1>2. ASSUME NEW j \in Jobs, JobEnds(j) PROVE Ordered'
  BY <1>2, StillOrdered DEF JobEnds, InHand
<1>3. ASSUME NEW j \in Jobs, JobDone(j) PROVE Ordered'
  BY <1>3, StillOrdered DEF JobDone, InHand, Progress
<1>4. ASSUME NEW k \in {"FILE_ADDED", "FILE_CHANGED", "FILE_REMOVED"}, DirChanged(k) PROVE Ordered'
  <2>1. k \in Kinds
    BY DEF Kinds, Lists, FileKinds
  <2> QED BY <1>4, <2>1, AddOrdered DEF DirChanged, InHand
<1>5. CASE ConsumeAtIdle
  BY <1>5, StillOrdered DEF ConsumeAtIdle, InHand, Progress
<1>6. CASE DirectSave
  <2>1. "FILE_ADDED" \in Kinds
    BY DEF Kinds, Lists, FileKinds
  <2> QED BY <1>6, <2>1, AddOrdered DEF DirectSave, InHand, Progress
<1>7. CASE DirectSavePosition
  <2>1. "POSITION_SET" \in Kinds
    BY DEF Kinds, Lists
  <2>2. UNCHANGED <<hand, pending, sent>> /\ (InHand' <=> InHand) /\ step' # "stuff"
    BY <1>7 DEF DirectSavePosition, InHand
  <2>3. CASE Add("POSITION_SET")
    BY <2>1, <2>2, <2>3, AddOrdered
  <2>4. CASE UNCHANGED <<queue, count>>
    BY <2>2, <2>4, StillOrdered
  <2> QED BY <1>7, <2>3, <2>4 DEF DirectSavePosition
<1>8. CASE Return
  BY <1>8, StillOrdered DEF Return, InHand
<1>9. CASE UNCHANGED vars
  BY <1>9, StillOrdered DEF vars, InHand
<1> QED
  BY <1>1, <1>2, <1>3, <1>4, <1>5, <1>6, <1>7, <1>8, <1>9, GetOrdered, SendOrdered, StuffOrdered
  DEF Next, ConsumeChanges

\* Every step keeps what is known of a change in progress.
LEMMA ProgressStep ==
  ASSUME TypeOK, Progress, [Next]_vars
  PROVE  Progress'
<1> USE DEF consumeVars, MainLoop
<1>1. ASSUME NEW j \in Jobs, NEW k \in Kinds, JobAdds(j, k) PROVE Progress'
  BY <1>1 DEF JobAdds, Progress
<1>2. ASSUME NEW j \in Jobs, JobEnds(j) \/ JobDone(j) PROVE Progress'
  BY <1>2 DEF JobEnds, JobDone, Progress
<1>3. ASSUME NEW k \in {"FILE_ADDED", "FILE_CHANGED", "FILE_REMOVED"}, DirChanged(k) PROVE Progress'
  BY <1>3 DEF DirChanged, Progress
<1>4. CASE ConsumeAtIdle \/ DirectSave
  BY <1>4 DEF ConsumeAtIdle, DirectSave, Progress
<1>5. CASE DirectSavePosition
  BY <1>5 DEF DirectSavePosition, Progress
<1>6. CASE GetChange
  <2>1. /\ step = "get" /\ step' \in {"flush", "stuff"} /\ turn' = 1 /\ UNCHANGED <<consumer, pending>>
        /\ ~(step' = "stuff" /\ hand' = NoChange)
    <3>1. CASE queue = <<>>
      BY <1>6, <3>1 DEF GetChange
    <3>2. CASE queue # <<>>
      <4>1. Head(queue) \in Changes
        BY <3>2 DEF TypeOK
      <4> QED BY <1>6, <3>2, <4>1, ChangesAssumption DEF GetChange
    <3> QED BY <3>1, <3>2
  <2> QED BY <2>1 DEF Progress
<1>7. CASE SendList
  BY <1>7, Flushed DEF SendList, Progress
<1>8. CASE AddToList
  BY <1>8 DEF AddToList, Progress
<1>9. CASE Return
  BY <1>9 DEF Return, Progress
<1>10. CASE UNCHANGED vars
  BY <1>10 DEF vars, Progress
<1> QED
  BY <1>1, <1>2, <1>3, <1>4, <1>5, <1>6, <1>7, <1>8, <1>9, <1>10 DEF Next, ConsumeChanges

\* Every step leaves somebody to come for the list.
LEMMA ComingStep ==
  ASSUME TypeOK, Progress, Coming, [Next]_vars
  PROVE  Coming'
<1> USE DEF consumeVars, MainLoop, Coming
<1>1. ASSUME NEW j \in Jobs, NEW k \in Kinds, JobAdds(j, k) PROVE Coming'
  BY <1>1 DEF JobAdds
<1>2. ASSUME NEW j \in Jobs, JobEnds(j) PROVE Coming'
  <2>1. UNCHANGED <<queue, step, hand, idle, consumer>>
    BY <1>2 DEF JobEnds
  <2>2. \A i \in Jobs : job[i] # "done" => job'[i] # "done"
    BY <1>2 DEF JobEnds, TypeOK
  <2> QED BY <2>1, <2>2
<1>3. ASSUME NEW j \in Jobs, JobDone(j) PROVE Coming'
  BY <1>3 DEF JobDone
<1>4. ASSUME NEW k \in {"FILE_ADDED", "FILE_CHANGED", "FILE_REMOVED"}, DirChanged(k) PROVE Coming'
  BY <1>4 DEF DirChanged, Progress
<1>5. CASE ConsumeAtIdle \/ DirectSave
  BY <1>5 DEF ConsumeAtIdle, DirectSave
<1>6. CASE DirectSavePosition
  BY <1>6 DEF DirectSavePosition, Progress
<1>7. CASE GetChange
  <2>1. CASE queue = <<>>
    BY <1>7, <2>1 DEF GetChange, Progress
  <2>2. CASE queue # <<>>
    <3>1. Head(queue) \in Changes
      BY <2>2 DEF TypeOK
    <3>2. hand' # NoChange /\ consumer' # "nobody"
      BY <1>7, <2>2, <3>1, ChangesAssumption DEF GetChange, Progress
    <3> QED BY <3>2
  <2> QED BY <2>1, <2>2
<1>8. CASE SendList
  <2>1. step = "flush" /\ consumer # "nobody" /\ UNCHANGED <<queue, job, idle, consumer, hand>>
    BY <1>8 DEF SendList, Progress
  <2> QED BY <2>1
<1>9. CASE AddToList
  BY <1>9 DEF AddToList, Progress
<1>10. CASE Return
  BY <1>10 DEF Return
<1>11. CASE UNCHANGED vars
  BY <1>11 DEF vars
<1> QED
  BY <1>1, <1>2, <1>3, <1>4, <1>5, <1>6, <1>7, <1>8, <1>9, <1>10, <1>11 DEF Next, ConsumeChanges

\* The inductive invariant holds in every state the queue reaches.
LEMMA Invariance == Spec => []IInv
<1>1. Init => IInv
  <2> SUFFICES ASSUME Init PROVE IInv
    OBVIOUS
  <2>1. TypeOK
    <3>1. job \in [Jobs -> {"running", "ended", "done"}] /\ turn \in 1..8
      BY DEF Init
    <3>2. pending \in [Lists -> Seq(Changes)] /\ queue \in Seq(Changes) /\ sent \in Seq(Changes)
      BY DEF Init
    <3> QED BY <3>1, <3>2 DEF Init, TypeOK
  <2>2. Progress /\ Coming
    BY DEF Init, Progress, Coming, MainLoop
  <2>3. /\ step = "none" /\ count = 0 /\ ~InHand /\ Len(queue) = 0 /\ Len(sent) = 0
        /\ \A l \in Lists : Len(pending[l]) = 0
    BY DEF Init, InHand
  <2>4. QueueBehind /\ PendingBefore /\ SentBefore
    BY <2>3 DEF QueueBehind, PendingBefore, SentBefore
  <2>5. Together /\ SentAhead /\ Order
    BY <2>3 DEF Together, SentAhead, Order
  <2>6. \A n \in 1..count : Somewhere(n)
    BY <2>3
  <2> QED BY <2>1, <2>2, <2>4, <2>5, <2>6 DEF IInv, Ordered
<1>2. IInv /\ [Next]_vars => IInv'
  BY TypeStep, ProgressStep, OrderedStep, ComingStep DEF IInv
<1> QED BY <1>1, <1>2, PTL DEF Spec

-----------------------------------------------------------------------------
(* Theorems                                                                *)

\* Changes are sent off in the order they arrived, except that requests to keep metadata and
\* positions may be overtaken by what is collected with them (consume_changes).
THEOREM ChangesOrderKept == Spec => []OrderKept
<1>1. IInv => OrderKept
  <2> SUFFICES ASSUME IInv, NEW i \in 1..Len(sent), NEW j \in 1..Len(sent), i < j, sent[j].n < sent[i].n
               PROVE  sent[i].kind \in Companions(sent[j].kind) /\ List(sent[i].kind) # List(sent[j].kind)
    BY DEF OrderKept
  <2>1. sent[i] \in Changes /\ sent[j] \in Changes
    BY DEF IInv, TypeOK
  <2>2. sent[j].kind \in Kinds /\ sent[i].n \in Nat /\ sent[j].n \in Nat
    BY <2>1 DEF Changes
  <2>3. MayFollow(sent[i], sent[j])
    BY DEF IInv, Ordered, Order
  <2> QED BY <2>2, <2>3, ListFacts DEF MayFollow
<1> QED BY <1>1, Invariance, PTL

\* Additions, changes, removals and moves of files reach the directories in the order in which
\* they were queued, whoever queued them.
THEOREM ChangesFilesInOrder == Spec => []FilesInOrder
<1>1. IInv => FilesInOrder
  <2> SUFFICES ASSUME IInv, NEW i \in 1..Len(sent), NEW j \in 1..Len(sent), i < j,
                      sent[i].kind \in FileKinds, sent[j].kind \in FileKinds
               PROVE  sent[i].n < sent[j].n
    BY DEF FilesInOrder
  <2>1. MayFollow(sent[i], sent[j])
    BY DEF IInv, Ordered, Order
  <2>2. List(sent[i].kind) = sent[i].kind /\ List(sent[j].kind) = sent[j].kind
    BY ListFacts DEF Lists
  <2> QED BY <2>1, <2>2, FileKindsApart DEF MayFollow
<1> QED BY <1>1, Invariance, PTL

\* Every change is in the queue, in a list, in hand or sent, sent only once, and somebody comes
\* for what is not.
THEOREM ChangesNothingLost == Spec => []NothingLost
<1>1. IInv => NothingLost
  <2> SUFFICES ASSUME IInv PROVE NothingLost
    OBVIOUS
  <2>1. \A n \in 1..count : Somewhere(n)
    BY DEF IInv, Ordered
  <2>2. ASSUME NEW i \in 1..Len(sent), NEW j \in 1..Len(sent), sent[i].n = sent[j].n PROVE i = j
    <3>1. sent[i] \in Changes /\ sent[j] \in Changes
      BY DEF IInv, TypeOK
    <3>2. sent[i].n \in Nat /\ sent[j].n \in Nat
      BY <3>1 DEF Changes
    <3>3. ~(i < j) /\ ~(j < i)
      BY <2>2, <3>2 DEF IInv, Ordered, Order, MayFollow
    <3> QED BY <3>3
  <2>3. SomebodyComes
    BY DEF IInv, Progress, Coming, SomebodyComes
  <2> QED BY <2>1, <2>2, <2>3 DEF NothingLost, Somewhere, InHand
<1> QED BY <1>1, Invariance, PTL

\* When the main thread is back in its loop nothing is left in the lists, and what is in the
\* queue has an idle function or the done callback of a job to come for it.
THEOREM ChangesSomebodyComes == Spec => []SomebodyComes
<1>1. IInv => SomebodyComes
  BY DEF IInv, Progress, Coming, SomebodyComes
<1> QED BY <1>1, Invariance, PTL
=============================================================================
