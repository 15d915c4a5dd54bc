-------------------------- MODULE ThumbnailsProofs --------------------------
(* Proofs about Thumbnails: every invariant of its runs, for any number of files, threads,
   changes and freed NautilusFiles. *)
EXTENDS Thumbnails, SequenceTheorems, TLAPS

In(q, f) == \E i \in 1..Len(q) : q[i] = f
Once(q) == \A i, j \in 1..Len(q) : q[i] = q[j] => i = j

\* There is one thread, or one to come, or none; who is not running holds nothing.
Alone ==
  /\ OneThread
  /\ starter => ~running
  /\ ~running => current = NoFile
  /\ \A t \in Threads : at[t] = "none" => info[t] = NoFile

\* What is owed is the time on the queue.
Owed == \A f \in Files : owed[f] = IF Queued(f) THEN original[f] ELSE 0

\* Once a thread has told of a file whose request was not renewed, and nobody asked too late, a
\* file still said to be thumbnailing is asked for right now, or the notice is on its way.
Told ==
  \A t \in Threads :
    at[t] = "lock" /\ current # NoFile /\ original[current] = originalMtime[t] =>
      \/ current \notin thumbnailing \ overtaken
      \/ creating.file = current \/ notices[current] > 0

IInv == TypeOK /\ Alone /\ SomebodyMakes /\ InHand /\ Owed /\ Told /\ NoticeComes

-----------------------------------------------------------------------------
(* The queue                                                               *)

\* Without takes f out of a queue in which every file is once, and nothing else.
LEMMA WithoutRemoves ==
  ASSUME NEW q \in Seq(Files), Once(q), NEW f, In(q, f)
  PROVE  /\ Without(q, f) \in Seq(Files)
         /\ Once(Without(q, f))
         /\ \A g : In(Without(q, f), g) <=> In(q, g) /\ g # f
<1> DEFINE k == Place(q, f)
           w == Without(q, f)
<1>1. k \in 1..Len(q) /\ q[k] = f
  BY DEF In, Place
<1> DEFINE a == SubSeq(q, 1, k - 1)
           b == SubSeq(q, k + 1, Len(q))
<1>2. a \in Seq(Files) /\ Len(a) = k - 1 /\ \A i \in 1..(k - 1) : a[i] = q[i]
  BY <1>1
<1>3. b \in Seq(Files) /\ Len(b) = Len(q) - k /\ \A i \in 1..(Len(q) - k) : b[i] = q[k + i]
  BY <1>1
<1>4. w \in Seq(Files) /\ Len(w) = Len(q) - 1
      /\ \A i \in 1..(Len(q) - 1) : w[i] = IF i < k THEN q[i] ELSE q[i + 1]
  <2>1. w = a \o b
    BY DEF Without
  <2> HIDE DEF k, a, b, w
  <2>2. w \in Seq(Files) /\ Len(w) = Len(a) + Len(b)
        /\ \A i \in 1..(Len(a) + Len(b)) : w[i] = IF i <= Len(a) THEN a[i] ELSE b[i - Len(a)]
    BY ONLY <1>2, <1>3, <2>1, ConcatProperties
  <2>3. Len(w) = Len(q) - 1
    BY <1>1, <1>2, <1>3, <2>2
  <2>4. ASSUME NEW i \in 1..(Len(q) - 1)
        PROVE  w[i] = IF i < k THEN q[i] ELSE q[i + 1]
    <3>1. Len(q) \in Nat /\ i \in 1..(Len(a) + Len(b)) /\ Len(a) = k - 1 /\ (i <= Len(a) <=> i < k)
      BY <1>1, <1>2, <1>3
    <3>2. w[i] = IF i <= Len(a) THEN a[i] ELSE b[i - Len(a)]
      BY <3>1, <2>2
    <3>3. CASE i < k
      <4>1. i \in 1..(k - 1)
        BY <3>3, <1>1
      <4> QED
        BY <3>3, <3>1, <3>2, <4>1, <1>2
    <3>4. CASE ~(i < k)
      <4>1. i - (k - 1) \in 1..(Len(q) - k) /\ k + (i - (k - 1)) = i + 1
        BY <3>4, <1>1
      <4>2. w[i] = b[i - (k - 1)]
        BY <3>4, <3>1, <3>2
      <4> QED
        BY <3>4, <4>1, <4>2, <1>3
    <3> QED
      BY <3>3, <3>4
  <2> QED
    BY <2>2, <2>3, <2>4
<1> HIDE DEF k, w
<1>5. Once(w)
  <2> SUFFICES ASSUME NEW i \in 1..Len(w), NEW j \in 1..Len(w), w[i] = w[j]
               PROVE  i = j
    BY DEF Once
  <2> QED
    BY <1>1, <1>4 DEF Once
<1>6. ASSUME NEW g, In(w, g)
      PROVE  In(q, g) /\ g # f
  <2>1. PICK i \in 1..Len(w) : w[i] = g
    BY <1>6 DEF In
  <2> QED
    BY <2>1, <1>1, <1>4 DEF In, Once
<1>7. ASSUME NEW g, In(q, g), g # f
      PROVE  In(w, g)
  <2>1. PICK i \in 1..Len(q) : q[i] = g
    BY <1>7 DEF In
  <2>2. CASE i < k
    BY <2>1, <2>2, <1>1, <1>4 DEF In
  <2>3. CASE i > k
    <3>1. i - 1 \in 1..Len(w) /\ w[i - 1] = g
      BY <2>1, <2>3, <1>1, <1>4
    <3> QED
      BY <3>1 DEF In
  <2> QED
    BY <2>1, <2>2, <2>3, <1>1, <1>7
<1> QED
  BY <1>4, <1>5, <1>6, <1>7 DEF w

\* A request at the tail is a new member of the queue, once.
LEMMA AppendAdds ==
  ASSUME NEW q \in Seq(Files), Once(q), NEW f \in Files, ~In(q, f)
  PROVE  /\ Append(q, f) \in Seq(Files)
         /\ Once(Append(q, f))
         /\ \A g : In(Append(q, f), g) <=> In(q, g) \/ g = f
BY DEF In, Once

\* So is one at the head.
LEMMA PushAdds ==
  ASSUME NEW q \in Seq(Files), Once(q), NEW f \in Files, ~In(q, f)
  PROVE  /\ <<f>> \o q \in Seq(Files)
         /\ Once(<<f>> \o q)
         /\ \A g : In(<<f>> \o q, g) <=> In(q, g) \/ g = f
<1> DEFINE p == <<f>> \o q
<1>1. p \in Seq(Files) /\ Len(p) = Len(q) + 1 /\ p[1] = f /\ \A i \in 1..Len(q) : p[i + 1] = q[i]
  BY ConcatProperties
<1>2. \A j \in 1..Len(p) : j = 1 \/ (j - 1 \in 1..Len(q) /\ p[j] = q[j - 1])
  BY <1>1
<1> HIDE DEF p
<1>3. Once(p)
  <2> SUFFICES ASSUME NEW i \in 1..Len(p), NEW j \in 1..Len(p), p[i] = p[j]
               PROVE  i = j
    BY DEF Once
  <2>1. CASE i = 1 \/ j = 1
    BY <2>1, <1>1, <1>2 DEF In
  <2>2. CASE i # 1 /\ j # 1
    BY <2>2, <1>1, <1>2 DEF Once
  <2> QED
    BY <2>1, <2>2
<1>4. ASSUME NEW g PROVE In(p, g) <=> In(q, g) \/ g = f
  <2>1. ASSUME In(q, g) PROVE In(p, g)
    <3>1. PICK i \in 1..Len(q) : q[i] = g
      BY <2>1 DEF In
    <3>2. i + 1 \in 1..Len(p) /\ p[i + 1] = g
      BY <3>1, <1>1
    <3> QED
      BY <3>2 DEF In
  <2>2. ASSUME g = f PROVE In(p, g)
    <3>1. 1 \in 1..Len(p) /\ p[1] = g
      BY <2>2, <1>1
    <3> QED
      BY <3>1 DEF In
  <2>3. ASSUME In(p, g), g # f PROVE In(q, g)
    <3>1. PICK j \in 1..Len(p) : p[j] = g
      BY <2>3 DEF In
    <3>2. j - 1 \in 1..Len(q) /\ q[j - 1] = g
      BY <3>1, <2>3, <1>1, <1>2
    <3> QED
      BY <3>2 DEF In
  <2> QED
    BY <2>1, <2>2, <2>3
<1> QED
  BY <1>1, <1>3, <1>4 DEF p

-----------------------------------------------------------------------------
(* Types                                                                   *)

USE ThumbnailsAssumption

\* The queue has every file once.
LEMMA QueueOnce ==
  ASSUME IInv
  PROVE  /\ toMake \in Seq(Files) /\ Once(toMake)
         /\ \A f : Queued(f) <=> In(toMake, f)
<1>1. toMake \in Seq(Files)
  BY DEF IInv, TypeOK, QueueTypes
<1>2. Once(toMake)
  BY DEF IInv, InHand, Once
<1>3. \A f : Queued(f) <=> In(toMake, f)
  BY DEF Queued, In
<1> QED
  BY <1>1, <1>2, <1>3

\* Taking a request off it keeps that.
LEMMA QueueWithout ==
  ASSUME IInv, NEW f, Queued(f)
  PROVE  /\ Without(toMake, f) \in Seq(Files)
         /\ Once(Without(toMake, f))
         /\ \A g : In(Without(toMake, f), g) <=> Queued(g) /\ g # f
BY QueueOnce, WithoutRemoves

\* The types hold at the start.
LEMMA InitType == Init => TypeOK
<1> SUFFICES ASSUME Init PROVE TypeOK
  OBVIOUS
<1>1. FileTypes
  <2>1. answer \in [Files -> Answers]
    BY DEF Init, NoAnswer, Answers
  <2> QED
    BY <2>1 DEF Init, FileTypes
<1>2. QueueTypes
  BY EmptySeq DEF Init, QueueTypes
<1>3. ThreadTypes
  BY DEF Init, ThreadTypes
<1>4. running \in BOOLEAN /\ starter \in BOOLEAN
  BY DEF Init
<1> QED
  BY <1>1, <1>2, <1>3, <1>4 DEF TypeOK

\* What is written, told and read of a file, with no thumbnail asked for
Known(f) ==
  \/ FileChanges(f) \/ TimePasses(f) \/ MonitorTells(f) \/ QueryInfo(f) \/ InfoAnswered(f)
  \/ StartThumbnail(f) \/ LoadThumbnail(f) \/ ThumbnailRead(f)

\* It keeps the types.
LEMMA KnownType ==
  ASSUME TypeOK, NEW f \in Files, Known(f)
  PROVE  TypeOK'
<1>0. NoAnswer \in Answers /\ OnDisk(f) \in Answers
  BY DEF NoAnswer, OnDisk, Answers, TypeOK, FileTypes
<1>1. CASE FileChanges(f)
  <2>4. FileTypes'
    BY <1>1 DEF FileChanges, TypeOK, FileTypes, file, flags
  <2>5. QueueTypes'
    BY <1>1 DEF FileChanges, TypeOK, QueueTypes, requests, history
  <2>6. ThreadTypes'
    BY <1>1 DEF FileChanges, TypeOK, ThreadTypes, locals
  <2>7. running' \in BOOLEAN /\ starter' \in BOOLEAN
    BY <1>1 DEF FileChanges, TypeOK, thread
  <2> QED
    BY <2>4, <2>5, <2>6, <2>7 DEF TypeOK
<1>2. CASE TimePasses(f)
  <2>4. FileTypes'
    BY <1>2 DEF TimePasses, TypeOK, FileTypes, file, flags
  <2>5. QueueTypes'
    BY <1>2 DEF TimePasses, TypeOK, QueueTypes, requests, history
  <2>6. ThreadTypes'
    BY <1>2 DEF TimePasses, TypeOK, ThreadTypes, locals
  <2>7. running' \in BOOLEAN /\ starter' \in BOOLEAN
    BY <1>2 DEF TimePasses, TypeOK, thread
  <2> QED
    BY <2>4, <2>5, <2>6, <2>7 DEF TypeOK
<1>3. CASE MonitorTells(f)
  <2>4. FileTypes'
    BY <1>3 DEF MonitorTells, TypeOK, FileTypes, flags
  <2>5. QueueTypes'
    BY <1>3 DEF MonitorTells, TypeOK, QueueTypes, requests, history
  <2>6. ThreadTypes'
    BY <1>3 DEF MonitorTells, TypeOK, ThreadTypes, locals
  <2>7. running' \in BOOLEAN /\ starter' \in BOOLEAN
    BY <1>3 DEF MonitorTells, TypeOK, thread
  <2> QED
    BY <2>4, <2>5, <2>6, <2>7 DEF TypeOK
<1>4. CASE QueryInfo(f)
  <2>1. answer' \in [Files -> Answers]
    BY <1>0, <1>4 DEF QueryInfo, TypeOK, FileTypes
  <2>4. FileTypes'
    BY <1>4, <2>1 DEF QueryInfo, TypeOK, FileTypes, disk, flags
  <2>5. QueueTypes'
    BY <1>4 DEF QueryInfo, TypeOK, QueueTypes, requests, history
  <2>6. ThreadTypes'
    BY <1>4 DEF QueryInfo, TypeOK, ThreadTypes, locals
  <2>7. running' \in BOOLEAN /\ starter' \in BOOLEAN
    BY <1>4 DEF QueryInfo, TypeOK, thread
  <2> QED
    BY <2>4, <2>5, <2>6, <2>7 DEF TypeOK
<1>5. CASE InfoAnswered(f)
  <2>1. answer' \in [Files -> Answers] /\ answer[f].mtime \in Nat
    BY <1>0, <1>5 DEF InfoAnswered, TypeOK, FileTypes, Answers
  <2>4. FileTypes'
    BY <1>5, <2>1 DEF InfoAnswered, TypeOK, FileTypes, UpdateInfo, disk
  <2>5. QueueTypes'
    BY <1>5 DEF InfoAnswered, TypeOK, QueueTypes, requests, history
  <2>6. ThreadTypes'
    BY <1>5 DEF InfoAnswered, TypeOK, ThreadTypes, locals
  <2>7. running' \in BOOLEAN /\ starter' \in BOOLEAN
    BY <1>5 DEF InfoAnswered, TypeOK, thread
  <2> QED
    BY <2>4, <2>5, <2>6, <2>7 DEF TypeOK
<1>6. CASE StartThumbnail(f)
  <2>4. FileTypes'
    BY <1>6 DEF StartThumbnail, TypeOK, FileTypes, disk, flags
  <2>5. QueueTypes'
    BY <1>6 DEF StartThumbnail, TypeOK, QueueTypes, requests, history
  <2>6. ThreadTypes'
    BY <1>6 DEF StartThumbnail, TypeOK, ThreadTypes, locals
  <2>7. running' \in BOOLEAN /\ starter' \in BOOLEAN
    BY <1>6 DEF StartThumbnail, TypeOK, thread
  <2> QED
    BY <2>4, <2>5, <2>6, <2>7 DEF TypeOK
<1>7. CASE LoadThumbnail(f)
  <2>4. FileTypes'
    BY <1>7 DEF LoadThumbnail, TypeOK, FileTypes, disk, flags
  <2>5. QueueTypes'
    BY <1>7 DEF LoadThumbnail, TypeOK, QueueTypes, requests, history
  <2>6. ThreadTypes'
    BY <1>7 DEF LoadThumbnail, TypeOK, ThreadTypes, locals
  <2>7. running' \in BOOLEAN /\ starter' \in BOOLEAN
    BY <1>7 DEF LoadThumbnail, TypeOK, thread
  <2> QED
    BY <2>4, <2>5, <2>6, <2>7 DEF TypeOK
<1>8. CASE ThumbnailRead(f)
  <2>4. FileTypes'
    BY <1>8 DEF ThumbnailRead, TypeOK, FileTypes, disk
  <2>5. QueueTypes'
    BY <1>8 DEF ThumbnailRead, TypeOK, QueueTypes, requests, history
  <2>6. ThreadTypes'
    BY <1>8 DEF ThumbnailRead, TypeOK, ThreadTypes, locals
  <2>7. running' \in BOOLEAN /\ starter' \in BOOLEAN
    BY <1>8 DEF ThumbnailRead, TypeOK, thread
  <2> QED
    BY <2>4, <2>5, <2>6, <2>7 DEF TypeOK
<1> QED
  BY <1>1, <1>2, <1>3, <1>4, <1>5, <1>6, <1>7, <1>8 DEF Known

\* Nothing is under way for a file that nothing is read of.
LEMMA StopReadingType ==
  ASSUME TypeOK, NEW f \in Files, StopReading(f)
  PROVE  answer' \in [Files -> Answers] /\ loading' \subseteq Files /\ loaded' \in [Files -> Nat]
BY DEF StopReading, NoAnswer, Answers, TypeOK, FileTypes

\* Requests and notices on the main thread keep the types.
LEMMA AskedType ==
  ASSUME IInv, NEW f \in Files,
         GetIcon(f) \/ CreateThumbnail \/ Prioritize(f) \/ Forget(f) \/ NotifyFileChanged(f)
  PROVE  TypeOK'
<1>0. TypeOK
  BY DEF IInv
<1>1. CASE GetIcon(f)
  <2>4. FileTypes'
    BY <1>1, <1>0 DEF GetIcon, TypeOK, FileTypes, disk, file
  <2>5. QueueTypes'
    <3>1. NewRequest(f) \in Requests
      BY <1>0 DEF NewRequest, Requests, TypeOK, FileTypes
    <3>2. creating' \in Requests \cup {NoInfo}
      BY <1>1, <1>0, <3>1 DEF GetIcon, TypeOK, QueueTypes
    <3> QED
      BY <1>1, <1>0, <3>2 DEF GetIcon, TypeOK, QueueTypes, requests, history
  <2>6. ThreadTypes'
    BY <1>1, <1>0 DEF GetIcon, TypeOK, ThreadTypes, locals
  <2>7. running' \in BOOLEAN /\ starter' \in BOOLEAN
    BY <1>1, <1>0 DEF GetIcon, TypeOK, thread
  <2> QED
    BY <2>4, <2>5, <2>6, <2>7 DEF TypeOK
<1>2. CASE CreateThumbnail
  <2>1. creating \in Requests
    BY <1>0, <1>2 DEF CreateThumbnail, MainLoop, TypeOK, QueueTypes
  <2>2. toMake' \in Seq(Files)
    BY <1>0, <1>2, <2>1 DEF CreateThumbnail, Requests, TypeOK, QueueTypes
  <2>4. FileTypes'
    BY <1>2, <1>0 DEF CreateThumbnail, TypeOK, FileTypes, disk, file, flags
  <2>5. QueueTypes'
    BY <1>2, <1>0, <2>1, <2>2 DEF CreateThumbnail, TypeOK, QueueTypes, Requests
  <2>6. ThreadTypes'
    BY <1>2, <1>0 DEF CreateThumbnail, TypeOK, ThreadTypes, locals
  <2>7. running' \in BOOLEAN /\ starter' \in BOOLEAN
    BY <1>2, <1>0 DEF CreateThumbnail, TypeOK
  <2> QED
    BY <2>4, <2>5, <2>6, <2>7 DEF TypeOK
<1>3. CASE Prioritize(f)
  <2>1. Without(toMake, f) \in Seq(Files)
    BY <1>3, QueueWithout DEF Prioritize
  <2>2. toMake' \in Seq(Files)
    BY <1>3, <2>1 DEF Prioritize
  <2>4. FileTypes'
    BY <1>3, <1>0 DEF Prioritize, TypeOK, FileTypes, disk, file, flags
  <2>5. QueueTypes'
    BY <1>3, <1>0, <2>2 DEF Prioritize, TypeOK, QueueTypes, history
  <2>6. ThreadTypes'
    BY <1>3, <1>0 DEF Prioritize, TypeOK, ThreadTypes, locals
  <2>7. running' \in BOOLEAN /\ starter' \in BOOLEAN
    BY <1>3, <1>0 DEF Prioritize, TypeOK, thread
  <2> QED
    BY <2>4, <2>5, <2>6, <2>7 DEF TypeOK
<1>4. CASE Forget(f)
  <2>1. toMake' \in Seq(Files) /\ original' \in [Files -> Nat] /\ owed' \in [Files -> Nat]
    <3>1. CASE f \in thumbnailing /\ Queued(f) /\ current # f
      <4>1. Without(toMake, f) \in Seq(Files)
        BY <3>1, QueueWithout
      <4>2. /\ toMake' = Without(toMake, f)
            /\ original' = [original EXCEPT ![f] = 0] /\ owed' = [owed EXCEPT ![f] = 0]
        BY <1>4, <3>1 DEF Forget, RemoveFromQueue
      <4>3. original \in [Files -> Nat] /\ owed \in [Files -> Nat]
        BY <1>0 DEF TypeOK, QueueTypes
      <4> QED
        BY <4>1, <4>2, <4>3
    <3>2. CASE ~(f \in thumbnailing /\ Queued(f) /\ current # f)
      BY <1>0, <1>4, <3>2 DEF Forget, RemoveFromQueue, TypeOK, QueueTypes
    <3> QED
      BY <3>1, <3>2
  <2>3. answer' \in [Files -> Answers] /\ loading' \subseteq Files /\ loaded' \in [Files -> Nat]
    BY <1>4, <1>0, StopReadingType DEF Forget
  <2>4. FileTypes'
    BY <1>4, <1>0, <2>3 DEF Forget, TypeOK, FileTypes, disk
  <2>5. QueueTypes'
    <3>1. forgotten' \in [Files -> Nat]
      BY <1>4, <1>0 DEF Forget, TypeOK, QueueTypes
    <3> QED
      BY <1>4, <1>0, <2>1, <3>1 DEF Forget, TypeOK, QueueTypes
  <2>6. ThreadTypes'
    BY <1>4, <1>0 DEF Forget, TypeOK, ThreadTypes, locals
  <2>7. running' \in BOOLEAN /\ starter' \in BOOLEAN
    BY <1>4, <1>0 DEF Forget, TypeOK, thread
  <2> QED
    BY <2>4, <2>5, <2>6, <2>7 DEF TypeOK
<1>5. CASE NotifyFileChanged(f)
  <2>3. answer' \in [Files -> Answers] /\ loading' \subseteq Files /\ loaded' \in [Files -> Nat]
    BY <1>5, <1>0, StopReadingType DEF NotifyFileChanged
  <2>4. FileTypes'
    BY <1>5, <1>0, <2>3 DEF NotifyFileChanged, TypeOK, FileTypes, disk
  <2>5. QueueTypes'
    BY <1>5, <1>0 DEF NotifyFileChanged, TypeOK, QueueTypes, requests, history
  <2>6. ThreadTypes'
    BY <1>5, <1>0 DEF NotifyFileChanged, TypeOK, ThreadTypes, locals
  <2>7. running' \in BOOLEAN /\ starter' \in BOOLEAN
    BY <1>5, <1>0 DEF NotifyFileChanged, TypeOK, thread
  <2> QED
    BY <2>4, <2>5, <2>6, <2>7 DEF TypeOK
<1> QED
  BY <1>1, <1>2, <1>3, <1>4, <1>5

\* A thread at work on a thumbnail has the current request.
LEMMA AtWork ==
  ASSUME IInv, NEW t \in Threads, at[t] \in {"make", "tell"}
  PROVE  info[t] = current /\ current \in Files /\ Queued(current)
BY DEF IInv, InHand, TypeOK, QueueTypes

\* The queue loses nothing but the request in hand.
LEMMA LeftRemoves ==
  ASSUME IInv, NEW t \in Threads
  PROVE  /\ Left(t) \in Seq(Files)
         /\ Once(Left(t))
         /\ \A g : In(Left(t), g) <=> Queued(g) /\ ~(Ended(t) /\ g = current)
<1>1. CASE Ended(t)
  <2>1. Queued(current) /\ Left(t) = Without(toMake, current)
    BY <1>1 DEF IInv, InHand, Ended, Left
  <2> QED
    BY <1>1, <2>1, QueueWithout
<1>2. CASE ~Ended(t)
  BY <1>2, QueueOnce DEF Left
<1> QED
  BY <1>1, <1>2

\* So does the thread.
LEMMA WorkType ==
  ASSUME IInv, NEW t \in Threads, StartThread(t) \/ Work(t)
  PROVE  TypeOK'
<1>0. TypeOK
  BY DEF IInv
<1>1. CASE StartThread(t)
  <2>4. FileTypes'
    BY <1>1, <1>0 DEF StartThread, TypeOK, FileTypes, disk, file, flags
  <2>5. QueueTypes'
    BY <1>1, <1>0 DEF StartThread, TypeOK, QueueTypes, requests, history
  <2>6. ThreadTypes'
    BY <1>1, <1>0 DEF StartThread, TypeOK, ThreadTypes
  <2>7. running' \in BOOLEAN /\ starter' \in BOOLEAN
    BY <1>1, <1>0 DEF StartThread, TypeOK
  <2> QED
    BY <2>4, <2>5, <2>6, <2>7 DEF TypeOK
<1>2. CASE NextThumbnail(t)
  <2>1. toMake' \in Seq(Files)
    BY <1>2, LeftRemoves DEF NextThumbnail
  <2>2. original' \in [Files -> Nat] /\ owed' \in [Files -> Nat]
    <3>1. original \in [Files -> Nat] /\ owed \in [Files -> Nat]
      BY <1>0 DEF TypeOK, QueueTypes
    <3>2. CASE Ended(t)
      BY <1>2, <3>1, <3>2 DEF NextThumbnail
    <3>3. CASE ~Ended(t)
      BY <1>2, <3>1, <3>3 DEF NextThumbnail
    <3> QED
      BY <3>2, <3>3
  <2>3. ~NothingLeft(t) => Head(Left(t)) \in Files
    BY LeftRemoves DEF NothingLeft
  <2>4. FileTypes'
    BY <1>2, <1>0 DEF NextThumbnail, TypeOK, FileTypes, disk, file, flags
  <2>5. QueueTypes'
    BY <1>2, <1>0, <2>1, <2>2, <2>3 DEF NextThumbnail, TypeOK, QueueTypes, ThreadEnds, Peek
  <2>6. ThreadTypes'
    <3>1. CASE NothingLeft(t)
      BY <1>2, <1>0, <3>1 DEF NextThumbnail, TypeOK, ThreadTypes, ThreadEnds
    <3>2. CASE ~NothingLeft(t)
      <4> DEFINE f == Head(Left(t))
      <4>1. Peek(t, f)
        BY <1>2, <3>2 DEF NextThumbnail
      <4>2. f \in Files /\ original \in [Files -> Nat] /\ ThreadTypes
        BY <1>0, <2>3, <3>2 DEF TypeOK, QueueTypes
      <4> HIDE DEF f
      <4> QED
        BY <4>1, <4>2 DEF Peek, ThreadTypes
    <3> QED
      BY <3>1, <3>2
  <2>7. running' \in BOOLEAN /\ starter' \in BOOLEAN
    BY <1>2, <1>0 DEF NextThumbnail, TypeOK, ThreadEnds, Peek
  <2> QED
    BY <2>4, <2>5, <2>6, <2>7 DEF TypeOK
<1>3. CASE SkipThumbnail(t)
  <2>4. FileTypes'
    BY <1>3, <1>0 DEF SkipThumbnail, TypeOK, FileTypes, disk, file, flags
  <2>5. QueueTypes'
    <3>1. notices' = [notices EXCEPT ![info[t]] = @ + 1]
      BY <1>3 DEF SkipThumbnail
    <3>2. notices' \in [Files -> Nat]
      <4>1. info[t] \in Files
        BY <1>3, AtWork DEF SkipThumbnail
      <4> QED
        BY <1>0, <3>1, <4>1 DEF TypeOK, QueueTypes
    <3> QED
      BY <1>3, <1>0, <3>2 DEF SkipThumbnail, TypeOK, QueueTypes, requests, history
  <2>6. ThreadTypes'
    BY <1>3, <1>0 DEF SkipThumbnail, TypeOK, ThreadTypes
  <2>7. running' \in BOOLEAN /\ starter' \in BOOLEAN
    BY <1>3, <1>0 DEF SkipThumbnail, TypeOK, thread
  <2> QED
    BY <2>4, <2>5, <2>6, <2>7 DEF TypeOK
<1>4. CASE MakeThumbnail(t)
  <2>4. FileTypes'
    BY <1>4, <1>0 DEF MakeThumbnail, TypeOK, FileTypes, ThreadTypes, file, flags
  <2>5. QueueTypes'
    BY <1>4, <1>0 DEF MakeThumbnail, TypeOK, QueueTypes, requests, history
  <2>6. ThreadTypes'
    BY <1>4, <1>0 DEF MakeThumbnail, TypeOK, ThreadTypes
  <2>7. running' \in BOOLEAN /\ starter' \in BOOLEAN
    BY <1>4, <1>0 DEF MakeThumbnail, TypeOK, thread
  <2> QED
    BY <2>4, <2>5, <2>6, <2>7 DEF TypeOK
<1>5. CASE TellMainLoop(t)
  <2>4. FileTypes'
    BY <1>5, <1>0 DEF TellMainLoop, TypeOK, FileTypes, disk, file, flags
  <2>5. QueueTypes'
    <3>1. notices' = [notices EXCEPT ![info[t]] = @ + 1]
      BY <1>5 DEF TellMainLoop
    <3>2. notices' \in [Files -> Nat]
      <4>1. info[t] \in Files
        BY <1>5, AtWork DEF TellMainLoop
      <4> QED
        BY <1>0, <3>1, <4>1 DEF TypeOK, QueueTypes
    <3> QED
      BY <1>5, <1>0, <3>2 DEF TellMainLoop, TypeOK, QueueTypes, requests, history
  <2>6. ThreadTypes'
    BY <1>5, <1>0 DEF TellMainLoop, TypeOK, ThreadTypes
  <2>7. running' \in BOOLEAN /\ starter' \in BOOLEAN
    BY <1>5, <1>0 DEF TellMainLoop, TypeOK, thread
  <2> QED
    BY <2>4, <2>5, <2>6, <2>7 DEF TypeOK
<1> QED
  BY <1>1, <1>2, <1>3, <1>4, <1>5 DEF Work

-----------------------------------------------------------------------------
(* The other parts of the invariant, step by step                          *)

\* They are about the queue, the threads and the notices only.
Rest == Alone /\ SomebodyMakes /\ InHand /\ Owed /\ Told /\ NoticeComes

\* A step that leaves those alone keeps them.
LEMMA RestUnchanged ==
  ASSUME IInv, UNCHANGED <<thumbnailing, creating, requests, thread, locals, notices, owed, overtaken>>
  PROVE  Rest'
<1> USE DEF requests, thread, locals
<1>1. Alone'
  BY DEF IInv, Alone, OneThread
<1>2. SomebodyMakes'
  BY DEF IInv, SomebodyMakes
<1>3. InHand'
  BY DEF IInv, InHand, Queued
<1>4. Owed'
  BY DEF IInv, Owed, Queued
<1>5. Told'
  BY DEF IInv, Told
<1>6. NoticeComes'
  BY DEF IInv, NoticeComes, Queued
<1> QED
  BY <1>1, <1>2, <1>3, <1>4, <1>5, <1>6 DEF Rest

\* Drawing an icon announces a request for it.
LEMMA RestGetIcon ==
  ASSUME IInv, NEW f \in Files, GetIcon(f)
  PROVE  Rest'
<1> USE DEF requests, thread, locals, history
<1>1. Alone'
  BY DEF GetIcon, IInv, Alone, OneThread
<1>2. SomebodyMakes'
  BY DEF GetIcon, IInv, SomebodyMakes
<1>3. InHand'
  BY DEF GetIcon, IInv, InHand, Queued
<1>4. Owed'
  BY DEF GetIcon, IInv, Owed, Queued
<1>5. \A g : creating.file = g => g = NoFile
  BY DEF GetIcon, MainLoop, NoInfo
<1>6. /\ \A g : Queued(g)' <=> Queued(g)
      /\ \A g \in thumbnailing' : g \in thumbnailing \/ creating'.file = g
  BY DEF GetIcon, NewRequest, Queued
<1>7. Told'
  BY <1>5, <1>6 DEF GetIcon, IInv, Told
<1>8. NoticeComes'
  BY <1>5, <1>6 DEF GetIcon, IInv, NoticeComes, TypeOK, FileTypes
<1> QED
  BY <1>1, <1>2, <1>3, <1>4, <1>7, <1>8 DEF Rest

\* A request is added or renewed.
LEMMA RestCreate ==
  ASSUME IInv, CreateThumbnail
  PROVE  Rest'
<1> DEFINE f == creating.file
           m == creating.mtime
<1>1. creating \in Requests /\ f \in Files /\ m \in Nat
  BY DEF IInv, TypeOK, QueueTypes, CreateThumbnail, MainLoop, Requests
<1>2. /\ toMake' = IF Queued(f) THEN toMake ELSE Append(toMake, f)
      /\ original' = [original EXCEPT ![f] = m]
      /\ starter' = (starter \/ (~Queued(f) /\ ~running))
      /\ owed' = [owed EXCEPT ![f] = m]
      /\ overtaken' = IF Announced(f, m) /\ notices[f] = 0 THEN overtaken \cup {f} ELSE overtaken
      /\ UNCHANGED <<thumbnailing, current, running, at, info, originalMtime, notices>>
  BY DEF CreateThumbnail, flags, locals
<1>3. /\ original \in [Files -> Nat] /\ owed \in [Files -> Nat] /\ notices \in [Files -> Nat]
      /\ current \in Files \cup {NoFile} /\ thumbnailing \subseteq Files
  BY DEF IInv, TypeOK, QueueTypes, FileTypes
<1> HIDE DEF f, m
<1>4. Once(toMake') /\ \A g : Queued(g)' <=> Queued(g) \/ g = f
  <2>1. CASE Queued(f)
    BY <1>2, <2>1, QueueOnce DEF Queued
  <2>2. CASE ~Queued(f)
    <3>1. Once(Append(toMake, f)) /\ \A g : In(Append(toMake, f), g) <=> In(toMake, g) \/ g = f
      BY <1>1, <2>2, QueueOnce, AppendAdds
    <3>2. toMake' = Append(toMake, f) /\ \A g : Queued(g)' <=> In(toMake', g)
      BY <1>2, <2>2 DEF Queued, In
    <3> QED
      BY <3>1, <3>2, QueueOnce
  <2> QED
    BY <2>1, <2>2
<1>5. Alone'
  BY <1>2 DEF IInv, Alone, OneThread
<1>6. SomebodyMakes'
  BY <1>2 DEF IInv, SomebodyMakes
<1>7. InHand'
  BY <1>2, <1>4 DEF IInv, InHand, Once
<1>8. Owed'
  BY <1>1, <1>2, <1>3, <1>4 DEF IInv, Owed
<1>9. Told'
  <2> SUFFICES ASSUME NEW t \in Threads, at'[t] = "lock", current' # NoFile,
                      original'[current'] = originalMtime'[t]
               PROVE  \/ current' \notin thumbnailing' \ overtaken'
                      \/ creating'.file = current' \/ notices'[current'] > 0
    BY DEF Told
  <2>1. CASE current # f
    <3>1. original[current] = originalMtime[t]
      BY <1>2, <1>3, <2>1
    <3> QED
      BY <1>2, <1>3, <2>1, <3>1 DEF IInv, Told, f
  <2>2. CASE current = f
    <3>1. m = originalMtime[t]
      BY <1>1, <1>2, <1>3, <2>2
    <3>2. info[t] = current
      BY <1>2 DEF IInv, InHand
    <3>3. Announced(f, m)
      BY <1>2, <2>2, <3>1, <3>2 DEF Announced
    <3>4. notices[f] = 0 \/ notices[f] > 0
      BY <1>1, <1>3
    <3> QED
      BY <1>2, <2>2, <3>3, <3>4
  <2> QED
    BY <2>1, <2>2
<1>10. NoticeComes'
  <2> SUFFICES ASSUME NEW g \in thumbnailing' \ overtaken'
               PROVE  Queued(g)' \/ notices'[g] > 0
    BY DEF NoticeComes
  <2>1. CASE g = f
    BY <1>4, <2>1
  <2>2. CASE g # f
    BY <1>2, <1>4, <2>2 DEF IInv, NoticeComes, f
  <2> QED
    BY <2>1, <2>2
<1> QED
  BY <1>5, <1>6, <1>7, <1>8, <1>9, <1>10 DEF Rest

\* A request goes to the head of the queue.
LEMMA RestPrioritize ==
  ASSUME IInv, NEW f \in Files, Prioritize(f)
  PROVE  Rest'
<1>1. /\ toMake' = <<f>> \o Without(toMake, f)
      /\ Queued(f)
      /\ UNCHANGED <<thumbnailing, creating, original, current, running, starter, at, info,
                     originalMtime, notices, owed, overtaken>>
  BY DEF Prioritize, flags, thread, locals, history
<1>2. Once(toMake') /\ \A g : Queued(g)' <=> Queued(g)
  <2>1. /\ Without(toMake, f) \in Seq(Files) /\ Once(Without(toMake, f))
        /\ \A g : In(Without(toMake, f), g) <=> Queued(g) /\ g # f
    BY <1>1, QueueWithout
  <2>2. Once(toMake') /\ \A g : In(toMake', g) <=> In(Without(toMake, f), g) \/ g = f
    BY <1>1, <2>1, PushAdds
  <2>3. \A g : Queued(g)' <=> In(toMake', g)
    BY DEF Queued, In
  <2> QED
    BY <1>1, <2>1, <2>2, <2>3
<1>3. toMake # <<>>
  BY <1>1 DEF Queued
<1>4. Alone'
  BY <1>1 DEF IInv, Alone, OneThread
<1>5. SomebodyMakes'
  BY <1>1, <1>3 DEF IInv, SomebodyMakes
<1>6. InHand'
  BY <1>1, <1>2 DEF IInv, InHand, Once
<1>7. Owed'
  BY <1>1, <1>2 DEF IInv, Owed
<1>8. Told'
  BY <1>1 DEF IInv, Told
<1>9. NoticeComes'
  BY <1>1, <1>2 DEF IInv, NoticeComes
<1> QED
  BY <1>4, <1>5, <1>6, <1>7, <1>8, <1>9 DEF Rest

\* A freed NautilusFile takes its request with it, but for the one in hand.
LEMMA RestForget ==
  ASSUME IInv, NEW f \in Files, Forget(f)
  PROVE  Rest'
<1>1. /\ RemoveFromQueue(f)
      /\ thumbnailing' = thumbnailing \ {f}
      /\ UNCHANGED <<creating, current, running, starter, at, info, originalMtime, notices, overtaken>>
  BY DEF Forget, thread, locals
<1>2. original \in [Files -> Nat] /\ owed \in [Files -> Nat]
  BY DEF IInv, TypeOK, QueueTypes
<1>3. CASE ~(f \in thumbnailing /\ Queued(f) /\ current # f)
  <2>1. UNCHANGED <<toMake, original, owed>>
    BY <1>1, <1>3 DEF RemoveFromQueue
  <2>2. \A g : Queued(g)' <=> Queued(g)
    BY <2>1 DEF Queued
  <2>3. Alone'
    BY <1>1 DEF IInv, Alone, OneThread
  <2>4. SomebodyMakes'
    BY <1>1, <2>1 DEF IInv, SomebodyMakes
  <2>5. InHand'
    BY <1>1, <2>1, <2>2 DEF IInv, InHand
  <2>6. Owed'
    BY <2>1, <2>2 DEF IInv, Owed
  <2>7. Told'
    BY <1>1, <2>1 DEF IInv, Told
  <2>8. NoticeComes'
    BY <1>1, <2>2 DEF IInv, NoticeComes
  <2> QED
    BY <2>3, <2>4, <2>5, <2>6, <2>7, <2>8 DEF Rest
<1>4. CASE f \in thumbnailing /\ Queued(f) /\ current # f
  <2>1. /\ toMake' = Without(toMake, f)
        /\ original' = [original EXCEPT ![f] = 0] /\ owed' = [owed EXCEPT ![f] = 0]
    BY <1>1, <1>4 DEF RemoveFromQueue
  <2>2. Once(toMake') /\ \A g : Queued(g)' <=> Queued(g) /\ g # f
    <3>1. \A g : Queued(g)' <=> In(toMake', g)
      BY DEF Queued, In
    <3> QED
      BY <1>4, <2>1, <3>1, QueueWithout
  <2>3. toMake # <<>>
    BY <1>4 DEF Queued
  <2>4. Alone'
    BY <1>1 DEF IInv, Alone, OneThread
  <2>5. SomebodyMakes'
    BY <1>1, <2>3 DEF IInv, SomebodyMakes
  <2>6. InHand'
    BY <1>1, <1>4, <2>2 DEF IInv, InHand, Once
  <2>7. Owed'
    BY <1>2, <2>1, <2>2 DEF IInv, Owed
  <2>8. Told'
    BY <1>1, <1>2, <1>4, <2>1 DEF IInv, Told, TypeOK, QueueTypes
  <2>9. NoticeComes'
    BY <1>1, <2>2 DEF IInv, NoticeComes
  <2> QED
    BY <2>4, <2>5, <2>6, <2>7, <2>8, <2>9 DEF Rest
<1> QED
  BY <1>3, <1>4

\* A notice arrives.
LEMMA RestNotify ==
  ASSUME IInv, NEW f \in Files, NotifyFileChanged(f)
  PROVE  Rest'
<1>1. /\ notices' = [notices EXCEPT ![f] = @ - 1] /\ thumbnailing' = thumbnailing \ {f}
      /\ UNCHANGED <<creating, toMake, original, current, running, starter, at, info,
                     originalMtime, owed, overtaken>>
  BY DEF NotifyFileChanged, requests, thread, locals, history
<1>2. notices \in [Files -> Nat] /\ current \in Files \cup {NoFile} /\ thumbnailing \subseteq Files
  BY DEF IInv, TypeOK, QueueTypes, FileTypes
<1>3. \A g : Queued(g)' <=> Queued(g)
  BY <1>1 DEF Queued
<1>4. Alone'
  BY <1>1 DEF IInv, Alone, OneThread
<1>5. SomebodyMakes'
  BY <1>1 DEF IInv, SomebodyMakes
<1>6. InHand'
  BY <1>1, <1>3 DEF IInv, InHand
<1>7. Owed'
  BY <1>1, <1>3 DEF IInv, Owed
<1>8. Told'
  BY <1>1, <1>2 DEF IInv, Told
<1>9. NoticeComes'
  BY <1>1, <1>2, <1>3 DEF IInv, NoticeComes
<1> QED
  BY <1>4, <1>5, <1>6, <1>7, <1>8, <1>9 DEF Rest

\* A thread is started when there is none.
LEMMA RestStart ==
  ASSUME IInv, NEW t \in Threads, StartThread(t)
  PROVE  Rest'
<1>1. /\ starter /\ starter' = FALSE /\ running' = TRUE
      /\ at' = [at EXCEPT ![t] = "lock"]
      /\ UNCHANGED <<thumbnailing, creating, toMake, original, current, info, originalMtime,
                     notices, owed, overtaken>>
  BY DEF StartThread, flags, requests, history
<1>2. at \in [Threads -> {"none", "lock", "make", "tell"}]
  BY DEF IInv, TypeOK, ThreadTypes
<1>3. /\ current = NoFile
      /\ \A u \in Threads : at[u] = "none" /\ info[u] = NoFile
  BY <1>1 DEF IInv, Alone, OneThread
<1>4. \A g : Queued(g)' <=> Queued(g)
  BY <1>1 DEF Queued
<1>5. Alone'
  BY <1>1, <1>2, <1>3 DEF Alone, OneThread
<1>6. SomebodyMakes'
  BY <1>1 DEF SomebodyMakes
<1>7. InHand'
  BY <1>1, <1>2, <1>3, <1>4 DEF IInv, InHand
<1>8. Owed'
  BY <1>1, <1>4 DEF IInv, Owed
<1>9. Told'
  BY <1>1, <1>3 DEF Told
<1>10. NoticeComes'
  BY <1>1, <1>4 DEF IInv, NoticeComes
<1> QED
  BY <1>5, <1>6, <1>7, <1>8, <1>9, <1>10 DEF Rest

\* The thread goes from its thumbnail to the next, or ends.
LEMMA RestNext ==
  ASSUME IInv, NEW t \in Threads, NextThumbnail(t)
  PROVE  Rest'
<1>1. /\ at[t] = "lock" /\ toMake' = Left(t)
      /\ UNCHANGED <<thumbnailing, creating, starter, notices, overtaken>>
  BY DEF NextThumbnail, flags
<1>2. /\ at \in [Threads -> {"none", "lock", "make", "tell"}]
      /\ info \in [Threads -> Files \cup {NoFile}] /\ originalMtime \in [Threads -> Nat]
      /\ original \in [Files -> Nat] /\ owed \in [Files -> Nat]
      /\ current \in Files \cup {NoFile}
  BY DEF IInv, TypeOK, ThreadTypes, QueueTypes
<1>3. /\ Left(t) \in Seq(Files) /\ Once(Left(t))
      /\ \A g : In(Left(t), g) <=> Queued(g) /\ ~(Ended(t) /\ g = current)
  BY LeftRemoves
<1>4. \A g : Queued(g)' <=> Queued(g) /\ ~(Ended(t) /\ g = current)
  <2>1. \A g : Queued(g)' <=> In(Left(t), g)
    BY <1>1 DEF Queued, In
  <2> QED
    BY <1>3, <2>1
<1>5. running /\ \A u \in Threads \ {t} : at[u] = "none" /\ info[u] = NoFile
  BY <1>1, <1>2 DEF IInv, Alone, OneThread
<1>6. Owed'
  <2>1. CASE Ended(t)
    <3>1. /\ current \in Files /\ original[current] = originalMtime[t] /\ Queued(current)
      BY <1>2, <2>1 DEF Ended, IInv, InHand
    <3>2. owed[current] = originalMtime[t]
      BY <3>1 DEF IInv, Owed
    <3>3. original' = [original EXCEPT ![current] = 0] /\ owed' = [owed EXCEPT ![current] = 0]
      BY <2>1, <3>2 DEF NextThumbnail
    <3> QED
      BY <1>2, <1>4, <2>1, <3>1, <3>3 DEF IInv, Owed
  <2>2. CASE ~Ended(t)
    BY <1>4, <2>2 DEF NextThumbnail, IInv, Owed
  <2> QED
    BY <2>1, <2>2
<1>7. NoticeComes'
  <2> SUFFICES ASSUME NEW g \in thumbnailing \ overtaken, Ended(t), g = current
               PROVE  creating.file = g \/ notices[g] > 0
    BY <1>1, <1>4 DEF IInv, NoticeComes
  <2> QED
    BY <1>1 DEF Ended, IInv, Told
<1>8. CASE NothingLeft(t)
  <2>1. /\ current' = NoFile /\ running' = FALSE
        /\ at' = [at EXCEPT ![t] = "none"] /\ info' = [info EXCEPT ![t] = NoFile]
    BY <1>8 DEF NextThumbnail, ThreadEnds
  <2>2. \A u \in Threads : at'[u] = "none" /\ info'[u] = NoFile
    BY <1>2, <1>5, <2>1
  <2>3. Alone'
    BY <1>1, <1>5, <2>1, <2>2 DEF IInv, Alone, OneThread
  <2>4. SomebodyMakes'
    BY <1>1, <1>8 DEF NothingLeft, SomebodyMakes
  <2>5. InHand'
    BY <1>1, <1>3, <2>1, <2>2 DEF InHand, Once
  <2>6. Told'
    BY <2>1 DEF Told
  <2> QED
    BY <1>6, <1>7, <2>3, <2>4, <2>5, <2>6 DEF Rest
<1>9. CASE ~NothingLeft(t)
  <2>1. /\ current' = Head(Left(t)) /\ running' = running
        /\ at' = [at EXCEPT ![t] = "make"] /\ info' = [info EXCEPT ![t] = current']
    BY <1>9 DEF NextThumbnail, Peek
  <2>2. Head(Left(t)) \in Files /\ In(Left(t), Head(Left(t)))
    BY <1>3, <1>9 DEF NothingLeft, In
  <2>3. /\ at'[t] = "make" /\ info'[t] = current'
        /\ \A u \in Threads \ {t} : at'[u] = "none" /\ info'[u] = NoFile
    BY <1>2, <1>5, <2>1
  <2>4. Alone'
    BY <1>1, <1>5, <2>1, <2>3 DEF IInv, Alone, OneThread
  <2>5. SomebodyMakes'
    BY <1>5, <2>1 DEF SomebodyMakes
  <2>6. InHand'
    <3>1. Queued(current)'
      BY <1>1, <2>1, <2>2 DEF Queued, In
    <3>2. Once(toMake')
      BY <1>1, <1>3
    <3>3. current' # NoFile
      BY <2>1, <2>2
    <3> QED
      BY <2>3, <3>1, <3>2, <3>3 DEF InHand, Once
  <2>7. Told'
    BY <2>3 DEF Told
  <2> QED
    BY <1>6, <1>7, <2>4, <2>5, <2>6, <2>7 DEF Rest
<1> QED
  BY <1>8, <1>9

\* The notice is sent: the request in hand stays on the queue until NextThumbnail.
LEMMA RestTell ==
  ASSUME IInv, NEW t \in Threads, SkipThumbnail(t) \/ TellMainLoop(t)
  PROVE  Rest'
<1>1. /\ at[t] \in {"make", "tell"}
      /\ at' = [at EXCEPT ![t] = "lock"]
      /\ notices' = [notices EXCEPT ![info[t]] = @ + 1]
      /\ UNCHANGED <<thumbnailing, creating, toMake, original, current, running, starter, info,
                     originalMtime, owed, overtaken>>
  BY DEF SkipThumbnail, TellMainLoop, flags, requests, thread, history
<1>2. /\ at \in [Threads -> {"none", "lock", "make", "tell"}]
      /\ notices \in [Files -> Nat] /\ thumbnailing \subseteq Files
  BY DEF IInv, TypeOK, ThreadTypes, QueueTypes, FileTypes
<1>3. info[t] = current /\ current \in Files /\ Queued(current)
  BY <1>1, AtWork
<1>4. \A g \in Files : notices'[g] >= notices[g] /\ notices'[current] > 0
  BY <1>1, <1>2, <1>3
<1>5. \A g : Queued(g)' <=> Queued(g)
  BY <1>1 DEF Queued
<1>6. \A u \in Threads : at'[u] = IF u = t THEN "lock" ELSE at[u]
  BY <1>1, <1>2
<1>7. Alone'
  BY <1>1, <1>6 DEF IInv, Alone, OneThread
<1>8. SomebodyMakes'
  BY <1>1 DEF IInv, SomebodyMakes
<1>9. InHand'
  BY <1>1, <1>3, <1>5, <1>6 DEF IInv, InHand
<1>10. Owed'
  BY <1>1, <1>5 DEF IInv, Owed
<1>11. Told'
  BY <1>1, <1>3, <1>4 DEF Told
<1>12. NoticeComes'
  <2> SUFFICES ASSUME NEW g \in thumbnailing \ overtaken, ~(creating.file = g), ~Queued(g)
               PROVE  notices'[g] > 0
    BY <1>1, <1>5 DEF NoticeComes
  <2>1. notices[g] > 0 /\ g \in Files
    BY <1>2 DEF IInv, NoticeComes
  <2> QED
    BY <1>1, <1>2, <2>1, <1>3
<1> QED
  BY <1>7, <1>8, <1>9, <1>10, <1>11, <1>12 DEF Rest

\* The thumbnail is made.
LEMMA RestMake ==
  ASSUME IInv, NEW t \in Threads, MakeThumbnail(t)
  PROVE  Rest'
<1>1. /\ at[t] = "make" /\ at' = [at EXCEPT ![t] = "tell"]
      /\ UNCHANGED <<thumbnailing, creating, toMake, original, current, running, starter, info,
                     originalMtime, notices, owed, overtaken>>
  BY DEF MakeThumbnail, flags, requests, thread, history
<1>2. at \in [Threads -> {"none", "lock", "make", "tell"}]
  BY DEF IInv, TypeOK, ThreadTypes
<1>3. \A u \in Threads : at'[u] = IF u = t THEN "tell" ELSE at[u]
  BY <1>1, <1>2
<1>4. \A g : Queued(g)' <=> Queued(g)
  BY <1>1 DEF Queued
<1>5. Alone'
  BY <1>1, <1>3 DEF IInv, Alone, OneThread
<1>6. SomebodyMakes'
  BY <1>1 DEF IInv, SomebodyMakes
<1>7. InHand'
  BY <1>1, <1>3, <1>4 DEF IInv, InHand
<1>8. Owed'
  BY <1>1, <1>4 DEF IInv, Owed
<1>9. Told'
  BY <1>1, <1>3 DEF IInv, Told
<1>10. NoticeComes'
  BY <1>1, <1>4 DEF IInv, NoticeComes
<1> QED
  BY <1>5, <1>6, <1>7, <1>8, <1>9, <1>10 DEF Rest

-----------------------------------------------------------------------------
(* The theorems                                                            *)

\* The invariant holds at the start.
LEMMA InitIInv == Init => IInv
<1> SUFFICES ASSUME Init PROVE IInv
  OBVIOUS
<1>1. toMake = <<>> /\ \A f : ~Queued(f)
  BY DEF Init, Queued
<1>2. Alone
  BY DEF Init, Alone, OneThread
<1>3. SomebodyMakes
  BY <1>1 DEF SomebodyMakes
<1>4. InHand
  BY <1>1 DEF Init, InHand
<1>5. Owed
  BY <1>1 DEF Init, Owed
<1>6. Told /\ NoticeComes
  BY DEF Init, Told, NoticeComes
<1> QED
  BY <1>2, <1>3, <1>4, <1>5, <1>6, InitType DEF IInv

\* A step that changes nothing keeps the types.
LEMMA StutterType ==
  ASSUME TypeOK, UNCHANGED vars
  PROVE  TypeOK'
<1> USE DEF vars, disk, file, flags, requests, thread, locals, history
<1>1. FileTypes'
  BY DEF TypeOK, FileTypes
<1>2. QueueTypes'
  BY DEF TypeOK, QueueTypes
<1>3. ThreadTypes'
  BY DEF TypeOK, ThreadTypes
<1>4. running' \in BOOLEAN /\ starter' \in BOOLEAN
  BY DEF TypeOK
<1> QED
  BY <1>1, <1>2, <1>3, <1>4 DEF TypeOK

\* Every step keeps the invariant.
LEMMA NextIInv == IInv /\ [Next]_vars => IInv'
<1> SUFFICES ASSUME IInv, [Next]_vars PROVE TypeOK' /\ Rest'
  BY DEF IInv, Rest
<1>0. TypeOK
  BY DEF IInv
<1>1. ASSUME NEW f \in Files,
             Known(f)
      PROVE  TypeOK' /\ Rest'
  <2>1. TypeOK'
    BY <1>0, <1>1, KnownType
  <2>2. UNCHANGED <<thumbnailing, creating, requests, thread, locals, notices, owed, overtaken>>
    BY <1>1 DEF Known, FileChanges, TimePasses, MonitorTells, QueryInfo, InfoAnswered, StartThumbnail,
                LoadThumbnail, ThumbnailRead, flags, history
  <2> QED
    BY <2>1, <2>2, RestUnchanged
<1>2. ASSUME NEW f \in Files, GetIcon(f) \/ Prioritize(f) \/ Forget(f) \/ NotifyFileChanged(f)
      PROVE  TypeOK' /\ Rest'
  BY <1>2, AskedType, RestGetIcon, RestPrioritize, RestForget, RestNotify
<1>3. ASSUME CreateThumbnail PROVE TypeOK' /\ Rest'
  <2>1. Rest'
    BY <1>3, RestCreate
  <2>2. creating.file \in Files
    BY <1>3 DEF IInv, TypeOK, QueueTypes, CreateThumbnail, MainLoop, Requests
  <2>3. TypeOK'
    BY <1>3, <2>2, AskedType
  <2> QED
    BY <2>1, <2>3
<1>4. ASSUME NEW t \in Threads, StartThread(t) \/ Work(t) PROVE TypeOK' /\ Rest'
  <2>1. TypeOK'
    BY <1>4, WorkType
  <2>2. Rest'
    BY <1>4, RestStart, RestNext, RestTell, RestMake DEF Work
  <2> QED
    BY <2>1, <2>2
<1>5. ASSUME UNCHANGED vars PROVE TypeOK' /\ Rest'
  <2>1. UNCHANGED <<thumbnailing, creating, requests, thread, locals, notices, owed, overtaken>>
    BY <1>5 DEF vars, flags, history
  <2> QED
    BY <1>0, <1>5, <2>1, StutterType, RestUnchanged
<1> QED
  BY <1>1, <1>2, <1>3, <1>4, <1>5 DEF Next, MainThread, Known

\* The invariant holds in every state the Explorer reaches.
THEOREM ThumbnailsInvariant == Spec => []IInv
BY InitIInv, NextIInv, PTL DEF Spec

\* The types always hold: no request is for NULL, no count of notices is negative.
THEOREM ThumbnailsTypeOK == Spec => []TypeOK
<1>1. IInv => TypeOK
  BY DEF IInv
<1> QED
  BY <1>1, ThumbnailsInvariant, PTL

\* However requests and an ending thread interleave, thumbnail_thread_is_running is true exactly
\* while there is a thread, and there are never two.
THEOREM ThumbnailsOneThread == Spec => []OneThread
<1>1. IInv => OneThread
  BY DEF IInv, Alone
<1> QED
  BY <1>1, ThumbnailsInvariant, PTL

\* No request is left on the queue with nobody to work it off.
THEOREM ThumbnailsSomebodyMakes == Spec => []SomebodyMakes
<1>1. IInv => SomebodyMakes
  BY DEF IInv
<1> QED
  BY <1>1, ThumbnailsInvariant, PTL

\* The request a thread works on without the mutex is on the queue, once, and nobody frees it.
THEOREM ThumbnailsInHand == Spec => []InHand
<1>1. IInv => InHand
  BY DEF IInv
<1> QED
  BY <1>1, ThumbnailsInvariant, PTL

\* A request renewed while its thumbnail is made stays on the queue until the new one is made.
THEOREM ThumbnailsNewestMade == Spec => []NewestMade
<1>1. IInv => NewestMade
  BY DEF IInv, Owed, NewestMade
<1> QED
  BY <1>1, ThumbnailsInvariant, PTL

\* A file said to be thumbnailing has a request or a notice coming, unless its request was renewed
\* between the notice and its end.
THEOREM ThumbnailsNoticeComes == Spec => []NoticeComes
<1>1. IInv => NoticeComes
  BY DEF IInv
<1> QED
  BY <1>1, ThumbnailsInvariant, PTL
=============================================================================
