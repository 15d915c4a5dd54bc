------------------------- MODULE DirectoryJobsProofs --------------------------
EXTENDS DirectoryJobs, ListsProofs, FiniteSetTheorems

-----------------------------------------------------------------------------
(* The stack of calls                                                      *)

\* A call is made before those of r.
Push(c, r) == <<c>> \o r

\* A call of routine x for directory d is still to be made.
On(s, x, d) == \E i \in DOMAIN s : s[i].do = x /\ s[i].dir = d
\* File f will be queued again.
Requeued(s, f) == \E i \in DOMAIN s : s[i].do = "cancelled" /\ s[i].file = f

Loads == {"load cancel", "load ended"}
Bases == {"reload", "unloaded", "reloaded"}

\* Where a call may stand: a service loop goes through its four parts in turn and is not entered
\* twice, the load of a directory is ended once, and a reload is not made by another routine.
Legal(c, r) ==
  /\ c.do = "file list" =>
       On(r, "stop", c.dir) /\ ~On(r, "file list", c.dir)
  /\ c.do = "stop" =>
       On(r, "queues", c.dir) /\ ~On(r, "file list", c.dir) /\ ~On(r, "stop", c.dir)
  /\ c.do = "queues" =>
       /\ On(r, "ready", c.dir) /\ ~On(r, "file list", c.dir) /\ ~On(r, "stop", c.dir)
       /\ ~On(r, "queues", c.dir)
  /\ c.do = "ready" =>
       /\ ~On(r, "ready", c.dir) /\ ~On(r, "file list", c.dir) /\ ~On(r, "stop", c.dir)
       /\ ~On(r, "queues", c.dir)
  /\ c.do \in Loads =>
       /\ ~On(r, "load cancel", c.dir) /\ ~On(r, "load ended", c.dir)
       /\ r = <<>> \/ \E d \in Dirs : On(r, "ready", d) \/ On(r, "unloaded", d)
  /\ c.do \in Bases => r = <<>>

\* What is below the call at place i.
Below(s, i) == [k \in 1..(Len(s) - i) |-> s[k + i]]
Lawful(s) == \A i \in DOMAIN s : Legal(s[i], Below(s, i))

\* The arguments of a call, when no file moves.
Plain(c) ==
  /\ c.do \notin {"detach", "attach"}
  /\ c.do \in {"invalidate", "cancelled"} => c.set \subseteq Kinds
  /\ c.do = "cancelled" => c.file \in Files
PlainCalls(s) == \A i \in DOMAIN s : Plain(s[i])

\* The load of d is being cancelled by the service loop of d.
Held(s, d) ==
  \E i, j \in DOMAIN s : i < j /\ s[i].do \in Loads /\ s[i].dir = d /\ s[j].do = "ready" /\ s[j].dir = d

\* A call on top of others.
LEMMA PushFacts ==
  ASSUME NEW r \in Seq(Frames), NEW c \in Frames
  PROVE  LET t == Push(c, r)
         IN /\ t \in Seq(Frames) /\ t # <<>> /\ Head(t) = c /\ Tail(t) = r
            /\ Len(r) \in Nat /\ Len(t) = Len(r) + 1 /\ DOMAIN t = 1..(Len(r) + 1) /\ DOMAIN r = 1..Len(r)
            /\ t[1] = c /\ \A i \in 1..Len(r) : t[i + 1] = r[i]
<1> DEFINE t == Push(c, r)
<1>1. /\ t \in Seq(Frames) /\ Len(t) = Len(r) + 1 /\ Len(r) \in Nat /\ t[1] = c
      /\ \A i \in 1..Len(r) : t[i + 1] = r[i]
  BY DEF Push
<1>2. t # <<>> /\ Head(t) = c
  BY <1>1
<1>3. Tail(t) \in Seq(Frames) /\ Len(Tail(t)) = Len(r) /\ \A i \in 1..Len(r) : Tail(t)[i] = t[i + 1]
  BY <1>1
<1>4. Tail(t) = r
  <2>1. \A i \in 1..Len(r) : Tail(t)[i] = r[i]
    BY <1>1, <1>3
  <2> HIDE DEF t
  <2> QED
    BY <1>3, <2>1
<1> QED
  BY <1>1, <1>2, <1>4

\* Every stack that is not empty has a top.
LEMMA TopFacts ==
  ASSUME NEW s \in Seq(Frames), s # <<>>
  PROVE  Head(s) \in Frames /\ Tail(s) \in Seq(Frames) /\ s = Push(Head(s), Tail(s))
<1>1. /\ Head(s) \in Frames /\ Tail(s) \in Seq(Frames) /\ Len(s) \in Nat /\ Len(Tail(s)) = Len(s) - 1
      /\ \A i \in 1..(Len(s) - 1) : Tail(s)[i] = s[i + 1]
      /\ Head(s) = s[1] /\ Len(s) > 0
  OBVIOUS
<1> DEFINE t == Push(Head(s), Tail(s))
<1>2. /\ t \in Seq(Frames) /\ Len(t) = Len(s) /\ t[1] = s[1]
      /\ \A i \in 1..(Len(s) - 1) : t[i + 1] = Tail(s)[i]
  <2> DEFINE c == Head(s)
             r == Tail(s)
  <2>1. r \in Seq(Frames) /\ c \in Frames /\ c = s[1]
    BY <1>1
  <2>2. (Len(s) - 1) + 1 = Len(s) /\ Len(r) = Len(s) - 1
    BY <1>1
  <2> HIDE DEF c, r
  <2>3. /\ Push(c, r) \in Seq(Frames) /\ Len(Push(c, r)) = Len(r) + 1 /\ Push(c, r)[1] = c
        /\ \A i \in 1..Len(r) : Push(c, r)[i + 1] = r[i]
    BY <2>1, PushFacts
  <2> QED
    BY <2>1, <2>2, <2>3 DEF c, r
<1>3. \A i \in 1..Len(s) : t[i] = s[i]
  <2> SUFFICES ASSUME NEW i \in 1..Len(s), i # 1 PROVE t[i] = s[i]
    BY <1>2
  <2>1. i - 1 \in 1..(Len(s) - 1) /\ (i - 1) + 1 = i
    BY <1>1
  <2> QED
    BY <1>1, <1>2, <2>1
<1> HIDE DEF t
<1> QED
  BY <1>1, <1>2, <1>3 DEF t

\* What a new call adds to what is said of a stack.
LEMMA PushOn ==
  ASSUME NEW r \in Seq(Frames), NEW c \in Frames
  PROVE  LET t == Push(c, r)
         IN /\ \A x, d : On(t, x, d) <=> (c.do = x /\ c.dir = d) \/ On(r, x, d)
            /\ \A f : Requeued(t, f) <=> (c.do = "cancelled" /\ c.file = f) \/ Requeued(r, f)
            /\ \A d : Held(t, d) <=> (c.do \in Loads /\ c.dir = d /\ On(r, "ready", d)) \/ Held(r, d)
<1> DEFINE t == Push(c, r)
<1>1. /\ Len(r) \in Nat /\ DOMAIN t = 1..(Len(r) + 1) /\ DOMAIN r = 1..Len(r)
      /\ t[1] = c /\ \A i \in 1..Len(r) : t[i + 1] = r[i]
  BY PushFacts
<1> HIDE DEF t
<1>2. \A i \in DOMAIN r : i + 1 \in DOMAIN t /\ t[i + 1] = r[i] /\ 1 < i + 1
  BY <1>1
<1>3. \A i \in DOMAIN t : i = 1 \/ (i - 1 \in DOMAIN r /\ t[i] = r[i - 1] /\ i > 1)
  <2> SUFFICES ASSUME NEW i \in DOMAIN t, i # 1 PROVE i - 1 \in DOMAIN r /\ t[i] = r[i - 1] /\ i > 1
    OBVIOUS
  <2>1. i - 1 \in 1..Len(r) /\ (i - 1) + 1 = i /\ i > 1
    BY <1>1
  <2> QED
    BY <1>1, <2>1
<1>4. ASSUME NEW x, NEW d PROVE On(t, x, d) <=> (c.do = x /\ c.dir = d) \/ On(r, x, d)
  BY <1>1, <1>3, <1>2 DEF On
<1>5. ASSUME NEW f PROVE Requeued(t, f) <=> (c.do = "cancelled" /\ c.file = f) \/ Requeued(r, f)
  <2>1. Requeued(t, f) => (c.do = "cancelled" /\ c.file = f) \/ Requeued(r, f)
    BY <1>1, <1>3 DEF Requeued
  <2>2. c.do = "cancelled" /\ c.file = f => Requeued(t, f)
    BY <1>1 DEF Requeued
  <2>3. Requeued(r, f) => Requeued(t, f)
    BY <1>2 DEF Requeued
  <2> QED
    BY <2>1, <2>2, <2>3
<1>6. ASSUME NEW d PROVE Held(t, d) <=> (c.do \in Loads /\ c.dir = d /\ On(r, "ready", d)) \/ Held(r, d)
  <2>1. ASSUME Held(t, d), ~(c.do \in Loads /\ c.dir = d /\ On(r, "ready", d)) PROVE Held(r, d)
    <3>1. PICK i, j \in DOMAIN t : /\ i < j /\ t[i].do \in Loads /\ t[i].dir = d
                                   /\ t[j].do = "ready" /\ t[j].dir = d
      BY <2>1 DEF Held
    <3>2. j - 1 \in DOMAIN r /\ t[j] = r[j - 1]
      BY <1>1, <1>3, <3>1
    <3>3. i # 1
      BY <1>1, <2>1, <3>1, <3>2 DEF On
    <3>4. i - 1 \in DOMAIN r /\ t[i] = r[i - 1] /\ i - 1 < j - 1
      BY <1>1, <1>3, <3>1, <3>3
    <3> QED
      BY <3>1, <3>2, <3>4 DEF Held
  <2>2. ASSUME c.do \in Loads, c.dir = d, On(r, "ready", d) PROVE Held(t, d)
    <3>1. PICK j \in DOMAIN r : r[j].do = "ready" /\ r[j].dir = d
      BY <2>2 DEF On
    <3>2. /\ j + 1 \in DOMAIN t /\ t[j + 1] = r[j] /\ 1 < j + 1 /\ 1 \in DOMAIN t /\ t[1] = c
      BY <1>1, <1>2
    <3> QED
      BY <2>2, <3>1, <3>2 DEF Held
  <2>3. ASSUME Held(r, d) PROVE Held(t, d)
    <3>1. PICK i, j \in DOMAIN r : /\ i < j /\ r[i].do \in Loads /\ r[i].dir = d
                                   /\ r[j].do = "ready" /\ r[j].dir = d
      BY <2>3 DEF Held
    <3>2. /\ i + 1 \in DOMAIN t /\ t[i + 1] = r[i] /\ j + 1 \in DOMAIN t /\ t[j + 1] = r[j]
          /\ i + 1 < j + 1
      BY <1>1, <1>2, <3>1
    <3> QED
      BY <3>1, <3>2 DEF Held
  <2> QED
    BY <2>1, <2>2, <2>3
<1> QED
  BY <1>4, <1>5, <1>6 DEF t

\* A stack is lawful if its top may stand where it does and the rest is lawful.
LEMMA PushLawful ==
  ASSUME NEW r \in Seq(Frames), NEW c \in Frames
  PROVE  Lawful(Push(c, r)) <=> Legal(c, r) /\ Lawful(r)
<1> DEFINE t == Push(c, r)
<1>1. /\ Len(r) \in Nat /\ DOMAIN t = 1..(Len(r) + 1) /\ DOMAIN r = 1..Len(r)
      /\ t[1] = c /\ (\A i \in 1..Len(r) : t[i + 1] = r[i]) /\ Len(t) = Len(r) + 1
  BY PushFacts
<1> HIDE DEF t
<1>2. Below(t, 1) = r
  BY <1>1 DEF Below
<1>3. ASSUME NEW i \in 1..Len(r) PROVE Below(t, i + 1) = Below(r, i)
  <2>1. (Len(r) + 1) - (i + 1) = Len(r) - i
    BY <1>1
  <2>2. \A k \in 1..(Len(r) - i) : t[k + (i + 1)] = r[k + i]
    <3> SUFFICES ASSUME NEW k \in 1..(Len(r) - i) PROVE t[k + (i + 1)] = r[k + i]
      OBVIOUS
    <3>1. k + i \in 1..Len(r) /\ (k + i) + 1 = k + (i + 1)
      BY <1>1
    <3> QED
      BY <1>1, <3>1
  <2> QED
    BY <1>1, <2>1, <2>2 DEF Below
<1>4. Lawful(t) => Legal(c, r)
  <2>1. 1 \in DOMAIN t
    BY <1>1
  <2> QED
    BY <1>1, <1>2, <2>1 DEF Lawful
<1>5. Lawful(t) => Lawful(r)
  <2> SUFFICES ASSUME Lawful(t), NEW i \in DOMAIN r PROVE Legal(r[i], Below(r, i))
    BY DEF Lawful
  <2>1. i \in 1..Len(r) /\ i + 1 \in DOMAIN t
    BY <1>1
  <2>2. Legal(t[i + 1], Below(t, i + 1))
    BY <2>1 DEF Lawful
  <2> QED
    BY <1>1, <1>3, <2>1, <2>2
<1>6. ASSUME Legal(c, r), Lawful(r) PROVE Lawful(t)
  <2> SUFFICES ASSUME NEW i \in DOMAIN t PROVE Legal(t[i], Below(t, i))
    BY DEF Lawful
  <2>1. CASE i = 1
    BY <1>1, <1>2, <1>6, <2>1
  <2>2. CASE i # 1
    <3>1. i - 1 \in 1..Len(r) /\ (i - 1) + 1 = i
      BY <1>1, <2>2
    <3>2. Legal(r[i - 1], Below(r, i - 1))
      BY <1>1, <1>6, <3>1 DEF Lawful
    <3> QED
      BY <1>1, <1>3, <3>1, <3>2
  <2> QED
    BY <2>1, <2>2
<1> QED
  BY <1>4, <1>5, <1>6 DEF t

LEMMA PushPlain ==
  ASSUME NEW r \in Seq(Frames), NEW c \in Frames
  PROVE  PlainCalls(Push(c, r)) <=> Plain(c) /\ PlainCalls(r)
<1> DEFINE t == Push(c, r)
<1>1. /\ Len(r) \in Nat /\ DOMAIN t = 1..(Len(r) + 1) /\ DOMAIN r = 1..Len(r)
      /\ t[1] = c /\ (\A i \in 1..Len(r) : t[i + 1] = r[i])
  BY PushFacts
<1> HIDE DEF t
<1>2. PlainCalls(t) => Plain(c)
  <2>1. 1 \in DOMAIN t
    BY <1>1
  <2> QED
    BY <1>1, <2>1 DEF PlainCalls
<1>3. PlainCalls(t) => PlainCalls(r)
  <2> SUFFICES ASSUME PlainCalls(t), NEW i \in DOMAIN r PROVE Plain(r[i])
    BY DEF PlainCalls
  <2>1. i \in 1..Len(r) /\ i + 1 \in DOMAIN t
    BY <1>1
  <2>2. Plain(t[i + 1])
    BY <2>1 DEF PlainCalls
  <2> QED
    BY <1>1, <2>1, <2>2
<1>4. ASSUME Plain(c), PlainCalls(r) PROVE PlainCalls(t)
  <2> SUFFICES ASSUME NEW i \in DOMAIN t PROVE Plain(t[i])
    BY DEF PlainCalls
  <2>1. CASE i = 1
    BY <1>1, <1>4, <2>1
  <2>2. CASE i # 1
    <3>1. i - 1 \in 1..Len(r) /\ (i - 1) + 1 = i
      BY <1>1, <2>2
    <3>2. Plain(r[i - 1])
      BY <1>1, <1>4, <3>1 DEF PlainCalls
    <3> QED
      BY <1>1, <3>1, <3>2
  <2> QED
    BY <2>1, <2>2
<1> QED
  BY <1>2, <1>3, <1>4 DEF t

LEMMA PairIsTwo ==
  ASSUME NEW a \in Frames, NEW b \in Frames
  PROVE  <<a, b>> = <<a>> \o <<b>>
<1> DEFINE p == <<a>> \o <<b>>
           q == <<a, b>>
<1>1. p \in Seq(Frames) /\ Len(p) = 2
  OBVIOUS
<1>2. p[1] = a
  OBVIOUS
<1>3. p[2] = b
  OBVIOUS
<1>4. q \in Seq(Frames) /\ Len(q) = 2 /\ q[1] = a /\ q[2] = b
  OBVIOUS
<1> HIDE DEF p, q
<1>5. \A i \in 1..2 : q[i] = p[i]
  BY <1>2, <1>3, <1>4
<1> QED
  BY <1>1, <1>4, <1>5, SeqEqual DEF p, q

\* Several calls are made one on top of the other.
LEMMA PushTwo ==
  \A r \in Seq(Frames) : \A a, b \in Frames : <<a, b>> \o r = Push(a, Push(b, r))
<1> SUFFICES ASSUME NEW r \in Seq(Frames), NEW a \in Frames, NEW b \in Frames
             PROVE  <<a, b>> \o r = Push(a, Push(b, r))
  BY Zenon
<1>1. <<a>> \in Seq(Frames) /\ <<b>> \in Seq(Frames)
  OBVIOUS
<1>2. (<<a>> \o <<b>>) \o r = <<a>> \o (<<b>> \o r)
  BY <1>1, ConcatAssociative
<1> QED
  BY <1>2, PairIsTwo, Zenon DEF Push

Four(a, b, c, d, r) == <<a, b, c, d>> \o r

LEMMA PushFour ==
  ASSUME NEW r \in Seq(Frames), NEW a \in Frames, NEW b \in Frames, NEW c \in Frames, NEW d \in Frames
  PROVE  Four(a, b, c, d, r) = Push(a, Push(b, Push(c, Push(d, r))))
<1>1. \A p, q \in Seq(Frames) : (p \o q) \o r = p \o (q \o r)
  BY ConcatAssociative
<1>2. <<a>> \in Seq(Frames) /\ <<b>> \in Seq(Frames) /\ <<c, d>> \in Seq(Frames) /\ <<b, c, d>> \in Seq(Frames)
  OBVIOUS
<1>3. <<c, d>> \o r = Push(c, Push(d, r))
  BY PushTwo, Zenon
<1>4. <<b, c, d>> \o r = Push(b, Push(c, Push(d, r)))
  <2>1. (<<b>> \o <<c, d>>) \o r = <<b>> \o (<<c, d>> \o r)
    BY <1>1, <1>2, Zenon
  <2>2. <<b, c, d>> = <<b>> \o <<c, d>>
    OBVIOUS
  <2> QED
    BY <2>1, <2>2, <1>3, Zenon DEF Push
<1>5. (<<a>> \o <<b, c, d>>) \o r = <<a>> \o (<<b, c, d>> \o r)
  BY <1>1, <1>2, Zenon
<1>6. <<a, b, c, d>> = <<a>> \o <<b, c, d>>
  OBVIOUS
<1> QED
  BY <1>4, <1>5, <1>6, Zenon DEF Push, Four

\* Calls made from the main loop, where no others are left to be made.
LEMMA PushAlone ==
  /\ \A a : <<a>> = Push(a, <<>>)
  /\ \A a, b \in Frames : <<a, b>> = Push(a, Push(b, <<>>))
<1>1. \A a : <<a>> = Push(a, <<>>)
  <2> SUFFICES ASSUME NEW a PROVE <<a>> = <<a>> \o <<>>
    BY DEF Push
  <2> QED
    OBVIOUS
<1>2. ASSUME NEW a \in Frames, NEW b \in Frames PROVE <<a, b>> = Push(a, Push(b, <<>>))
  <2> DEFINE r == <<>>
  <2>1. r \in Seq(Frames) /\ <<a, b>> = <<a, b>> \o r
    OBVIOUS
  <2> HIDE DEF r
  <2>2. <<a, b>> \o r = Push(a, Push(b, r))
    BY <2>1, PushTwo, Zenon
  <2> QED
    BY <2>1, <2>2, Zenon DEF r
<1> QED
  BY <1>1, <1>2

LEMMA FourAlone ==
  \A a, b, c, d \in Frames : <<a, b, c, d>> = Push(a, Push(b, Push(c, Push(d, <<>>))))
<1> SUFFICES ASSUME NEW a \in Frames, NEW b \in Frames, NEW c \in Frames, NEW d \in Frames
             PROVE  <<a, b, c, d>> = Push(a, Push(b, Push(c, Push(d, <<>>))))
  BY Zenon
<1> DEFINE r == <<>>
<1>1. r \in Seq(Frames) /\ <<a, b, c, d>> = Four(a, b, c, d, r)
  BY DEF Four
<1> HIDE DEF r
<1>2. Four(a, b, c, d, r) = Push(a, Push(b, Push(c, Push(d, r))))
  BY <1>1, PushFour
<1> QED
  BY <1>1, <1>2, Zenon DEF r

LEMMA NothingOn ==
  /\ <<>> \in Seq(Frames) /\ Lawful(<<>>) /\ PlainCalls(<<>>)
  /\ \A x, d : ~On(<<>>, x, d)
  /\ \A f : ~Requeued(<<>>, f)
  /\ \A d : ~Held(<<>>, d)
BY DEF Lawful, PlainCalls, On, Requeued, Held

\* What is called is a call.
LEMMA CallFacts ==
  ASSUME NEW x \in Routines, NEW d \in Dirs
  PROVE  /\ Call(x, d) \in Frames /\ Call(x, d).do = x /\ Call(x, d).dir = d
         /\ Call(x, d).file = NoFile /\ Call(x, d).set = {}
BY DEF Call, Frames

LEMMA CallForFacts ==
  ASSUME NEW x \in Routines, NEW d \in Dirs, NEW f \in Files \cup {NoFile}, NEW s \in SUBSET (Kinds \cup Monitors)
  PROVE  /\ CallFor(x, d, f, s) \in Frames /\ CallFor(x, d, f, s).do = x /\ CallFor(x, d, f, s).dir = d
         /\ CallFor(x, d, f, s).file = f /\ CallFor(x, d, f, s).set = s
BY DEF CallFor, Frames

\* The service loop of d is entered, or goes round once more.
Entered(d, r) == Four(Call("file list", d), Call("stop", d), Call("queues", d), Call("ready", d), r)

LEMMA EnteredFacts ==
  ASSUME NEW r \in Seq(Frames), NEW d \in Dirs
  PROVE  LET t == Entered(d, r)
         IN /\ t \in Seq(Frames) /\ (PlainCalls(t) <=> PlainCalls(r))
            /\ \A x, e : On(t, x, e) <=> (e = d /\ x \in {"file list", "stop", "queues", "ready"}) \/ On(r, x, e)
            /\ \A f : Requeued(t, f) <=> Requeued(r, f)
            /\ \A e : Held(t, e) <=> Held(r, e)
            /\ Lawful(r) /\ ~On(r, "ready", d) /\ ~On(r, "queues", d) /\ ~On(r, "stop", d) /\ ~On(r, "file list", d)
                 => Lawful(t)
<1> DEFINE a == Call("file list", d)
           b == Call("stop", d)
           c == Call("queues", d)
           e == Call("ready", d)
           t3 == Push(e, r)
           t2 == Push(c, t3)
           t1 == Push(b, t2)
           t0 == Push(a, t1)
<1>1. /\ a \in Frames /\ a.do = "file list" /\ a.dir = d
      /\ b \in Frames /\ b.do = "stop" /\ b.dir = d
      /\ c \in Frames /\ c.do = "queues" /\ c.dir = d
      /\ e \in Frames /\ e.do = "ready" /\ e.dir = d
  <2>1. {"file list", "stop", "queues", "ready"} \subseteq Routines
    BY DEF Routines
  <2> QED
    BY <2>1, CallFacts
<1> HIDE DEF a, b, c, e
<1>2. Entered(d, r) = t0
  <2>1. Four(a, b, c, e, r) = Push(a, Push(b, Push(c, Push(e, r))))
    <3>1. a \in Frames /\ b \in Frames /\ c \in Frames /\ e \in Frames
      BY <1>1
    <3> QED
      BY <3>1, PushFour
  <2> QED
    BY <2>1 DEF Entered, a, b, c, e
<1>3. t3 \in Seq(Frames) /\ t2 \in Seq(Frames) /\ t1 \in Seq(Frames) /\ t0 \in Seq(Frames)
  BY <1>1, PushFacts
<1>9. PlainCalls(t0) <=> PlainCalls(r)
  <2>1. Plain(a) /\ Plain(b) /\ Plain(c) /\ Plain(e)
    BY <1>1 DEF Plain
  <2>2. PlainCalls(t3) <=> PlainCalls(r)
    BY <1>1, <2>1, PushPlain
  <2> HIDE DEF t3
  <2>3. PlainCalls(t2) <=> PlainCalls(t3)
    BY <1>1, <1>3, <2>1, PushPlain
  <2> HIDE DEF t2
  <2>4. PlainCalls(t1) <=> PlainCalls(t2)
    BY <1>1, <1>3, <2>1, PushPlain
  <2> HIDE DEF t1
  <2>5. PlainCalls(t0) <=> PlainCalls(t1)
    BY <1>1, <1>3, <2>1, PushPlain
  <2> QED
    BY <2>2, <2>3, <2>4, <2>5
<1>4. /\ \A x, g : On(t3, x, g) <=> (x = "ready" /\ g = d) \/ On(r, x, g)
      /\ \A f : Requeued(t3, f) <=> Requeued(r, f)
      /\ \A g : Held(t3, g) <=> Held(r, g)
  BY <1>1, PushOn DEF Loads
<1> HIDE DEF t3
<1>5. /\ \A x, g : On(t2, x, g) <=> (x = "queues" /\ g = d) \/ On(t3, x, g)
      /\ \A f : Requeued(t2, f) <=> Requeued(t3, f)
      /\ \A g : Held(t2, g) <=> Held(t3, g)
  BY <1>1, <1>3, PushOn DEF Loads
<1> HIDE DEF t2
<1>6. /\ \A x, g : On(t1, x, g) <=> (x = "stop" /\ g = d) \/ On(t2, x, g)
      /\ \A f : Requeued(t1, f) <=> Requeued(t2, f)
      /\ \A g : Held(t1, g) <=> Held(t2, g)
  BY <1>1, <1>3, PushOn DEF Loads
<1> HIDE DEF t1
<1>7. /\ \A x, g : On(t0, x, g) <=> (x = "file list" /\ g = d) \/ On(t1, x, g)
      /\ \A f : Requeued(t0, f) <=> Requeued(t1, f)
      /\ \A g : Held(t0, g) <=> Held(t1, g)
  BY <1>1, <1>3, PushOn DEF Loads
<1> HIDE DEF t0
<1>8. ASSUME Lawful(r), ~On(r, "ready", d), ~On(r, "queues", d), ~On(r, "stop", d), ~On(r, "file list", d)
      PROVE  Lawful(t0)
  <2>1. Lawful(t3)
    <3>1. Legal(e, r)
      BY <1>1, <1>8 DEF Legal, Loads, Bases
    <3> QED
      BY <1>1, <1>8, <3>1, PushLawful DEF t3
  <2>2. Lawful(t2)
    <3>1. Legal(c, t3)
      BY <1>1, <1>4, <1>8 DEF Legal, Loads, Bases
    <3> QED
      BY <1>1, <1>3, <2>1, <3>1, PushLawful DEF t2
  <2>3. Lawful(t1)
    <3>1. Legal(b, t2)
      BY <1>1, <1>4, <1>5, <1>8 DEF Legal, Loads, Bases
    <3> QED
      BY <1>1, <1>3, <2>2, <3>1, PushLawful DEF t1
  <2>4. Legal(a, t1)
    BY <1>1, <1>4, <1>5, <1>6, <1>8 DEF Legal, Loads, Bases
  <2> QED
    BY <1>1, <1>3, <2>3, <2>4, PushLawful DEF t0
<1> QED
  BY <1>2, <1>3, <1>4, <1>5, <1>6, <1>7, <1>8, <1>9

\* A call that may stand anywhere.
LEMMA Anywhere ==
  ASSUME NEW r, NEW c,
         c.do \notin {"file list", "stop", "queues", "ready"} \cup Loads \cup Bases
  PROVE  Legal(c, r)
BY DEF Legal, Loads, Bases

-----------------------------------------------------------------------------
(* Types                                                                   *)

JobsTyped ==
  /\ waiting \subseteq Dirs /\ ops \subseteq Operations
  /\ \A o \in ops : o.kind # "list" => o.file \in Files
QueuesTyped ==
  high \in [Dirs -> Seq(Files)] /\ low \in [Dirs -> Seq(Files)] /\ extension \in [Dirs -> Seq(Files)]
ListsTyped ==
  /\ monitored \subseteq Dirs /\ loaded \subseteq Dirs /\ told \subseteq Dirs
  /\ inLoop \subseteq Dirs /\ again \subseteq Dirs /\ idle \subseteq Dirs
ClientsTyped ==
  /\ monitors \subseteq Monitors
  /\ calls \in [Callbacks -> {"none", "active", "ready", "called", "cancelled"}]
  /\ listed \in [Callbacks -> Dirs]
  /\ nrequests \in 0..MaxRequests
FilesTyped ==
  /\ directory = StartDir /\ gone \subseteq Files /\ loading \subseteq Files
  /\ upToDate \in [Files -> SUBSET Kinds] /\ stale \subseteq (Files \cup {NoFile}) \X (Kinds \cup {"list"})
StackTyped ==
  todo \in Seq(Frames) /\ PlainCalls(todo) /\ waking \in BOOLEAN /\ aborted \in BOOLEAN

Typed == JobsTyped /\ QueuesTyped /\ ListsTyped /\ ClientsTyped /\ FilesTyped /\ StackTyped

\* The call being made and the ones left.
LEMMA TopIs ==
  ASSUME StackTyped, NEW x, Running(x)
  PROVE  /\ This \in Frames /\ Rest \in Seq(Frames) /\ todo = Push(This, Rest) /\ This.do = x
         /\ Plain(This) /\ PlainCalls(Rest)
         /\ This.dir \in Dirs /\ This.file \in Files \cup {NoFile} /\ This.set \subseteq Kinds \cup Monitors
<1>1. todo \in Seq(Frames) /\ todo # <<>> /\ This.do = x
  BY DEF Running, StackTyped, This
<1>2. This \in Frames /\ Rest \in Seq(Frames) /\ todo = Push(This, Rest)
  BY <1>1, TopFacts DEF This, Rest
<1>3. Plain(This) /\ PlainCalls(Rest)
  BY <1>2, PushPlain DEF StackTyped
<1> QED
  BY <1>1, <1>2, <1>3 DEF Frames

\* Nothing moves.
LEMMA NothingMoves ==
  ASSUME Typed, "Moved" \notin Changes
  PROVE  ~Detach /\ ~Attach /\ \A f, d : ~NotifyFileMoved(f, d)
<1>1. ~Running("detach") /\ ~Running("attach")
  BY TopIs DEF Typed, Plain
<1> QED
  BY <1>1 DEF Detach, Attach, NotifyFileMoved

\* The steps of the system when nothing moves.
LEMMA StepsAre ==
  ASSUME Typed, Next, "Moved" \notin Changes
  PROVE  \/ StateChanged \/ FileListStartOrStop \/ LoadCancel \/ LoadEnded \/ Stop
         \/ HighPriorityQueue \/ LowPriorityQueue \/ ExtensionQueue \/ QueuesEmpty
         \/ CallReadyCallbacks \/ WakeUp \/ Waking \/ Told
         \/ Invalidate \/ Cancelled \/ Reload \/ Unloaded \/ Reloaded
         \/ (\E m \in Monitors : MonitorAdd(m)) \/ (\E m \in Monitors : MonitorRemove(m))
         \/ (\E c \in Callbacks : CallWhenReady(c)) \/ (\E c \in Callbacks : CancelCallback(c))
         \/ (\E f \in Files : NotifyFileChanged(f)) \/ (\E f \in Files : NotifyFileRemoved(f))
         \/ (\E f \in Files : InvalidateFile(f, AllAttributes)) \/ (\E d \in Dirs : ForceReload(d))
         \/ (\E d \in Dirs, k \in Kinds : Answer(d, k)) \/ (\E d \in Dirs : DirectoryLoadDone(d))
         \/ (\E d \in Dirs : CallReadyCallbacksAtIdle(d)) \/ (\E d \in Dirs : DirectoryReads(d))
BY NothingMoves, Zenon DEF Next, Service, Client, Change, Answered

\* Where clients and directories point.
LEMMA PlaceTyped ==
  ASSUME Typed, NEW x \in Monitors \cup Callbacks
  PROVE  Place(x) \in Dirs /\ At[x] \in Dirs /\ About[x] \in Files \cup {AllFiles} /\ AllFiles \notin Files
BY JobsAssumption DEF Typed, FilesTyped, Place

LEMMA StandingTyped ==
  ASSUME NEW d \in Dirs
  PROVE  /\ Standing(d) \in Files \cup {NoFile} /\ ParentCount(d) \in Frames
         /\ ParentCount(d).do = "invalidate" /\ ParentCount(d).dir = d /\ ParentCount(d).file = Standing(d)
         /\ ParentCount(d).set = {"count"}
<1>1. Standing(d) \in Files \cup {NoFile}
  BY JobsAssumption DEF Standing
<1>2. {"count"} \in SUBSET (Kinds \cup Monitors) /\ "invalidate" \in Routines
  BY DEF Kinds, Routines
<1> QED
  BY <1>1, <1>2, CallForFacts DEF ParentCount

LEMMA DirectoryTyped ==
  ASSUME Typed, NEW f \in Files
  PROVE  directory[f] \in Dirs
BY JobsAssumption DEF Typed, FilesTyped

LEMMA FileListTyped ==
  ASSUME NEW d
  PROVE  FileList(d) \subseteq Files /\ IsFiniteSet(FileList(d)) /\ Cardinality(FileList(d)) \in Nat
<1>1. FileList(d) \subseteq Files
  BY DEF FileList
<1> QED
  BY <1>1, JobsAssumption, FS_Subset, FS_CardinalityType

\* Jobs that start and jobs that are cancelled leave operations.
LEMMA StartedTyped ==
  ASSUME JobsTyped, NEW d \in Dirs, NEW f \in Files, NEW kinds \in SUBSET Kinds, StartJobs(d, f, kinds)
  PROVE  JobsTyped'
<1>1. \A k \in kinds : Operation(d, k, f) \in Operations /\ Operation(d, k, f).file \in Files
  BY DEF Operation, Operations
<1>2. PICK started \in SUBSET kinds : ops' = ops \cup {Operation(d, k, f) : k \in started}
  BY DEF StartJobs
<1>3. waiting' \subseteq Dirs
  BY DEF StartJobs, JobsTyped
<1> QED
  BY <1>1, <1>2, <1>3 DEF JobsTyped

\* What is left of an operation.
LEMMA CancelledOps ==
  ASSUME JobsTyped, NEW S, NEW outdated, CancelJobs(S, outdated)
  PROVE  /\ JobsTyped' /\ waiting' = waiting
         /\ \A o \in ops : ~(o \in S /\ o.kind # "count") =>
              \E p \in ops' : /\ p.dir = o.dir /\ p.kind = o.kind /\ p.file = o.file
                              /\ p.live = (o.live /\ o \notin S) /\ p.fresh = (o.fresh /\ o \notin outdated)
         /\ \A p \in ops' : \E o \in ops :
              /\ ~(o \in S /\ o.kind # "count")
              /\ p.dir = o.dir /\ p.kind = o.kind /\ p.file = o.file
              /\ p.live = (o.live /\ o \notin S) /\ p.fresh = (o.fresh /\ o \notin outdated)
<1> DEFINE Left(o) == [o EXCEPT !.live = @ /\ o \notin S, !.fresh = @ /\ o \notin outdated]
           kept == ops \ {o \in S : o.kind # "count"}
<1>1. ops' = {Left(o) : o \in kept} /\ waiting' = waiting
  BY DEF CancelJobs
<1>2. ASSUME NEW o \in ops
      PROVE  /\ Left(o) \in Operations /\ Left(o).dir = o.dir /\ Left(o).kind = o.kind /\ Left(o).file = o.file
             /\ Left(o).live = (o.live /\ o \notin S) /\ Left(o).fresh = (o.fresh /\ o \notin outdated)
  <2>1. o \in Operations
    BY DEF JobsTyped
  <2> QED
    BY <2>1 DEF Operations
<1>3. kept \subseteq ops /\ \A o \in ops : o \in kept <=> ~(o \in S /\ o.kind # "count")
  OBVIOUS
<1> HIDE DEF Left, kept
<1> QED
  BY <1>1, <1>2, <1>3 DEF JobsTyped

LEMMA JobsTypedKept ==
  ASSUME Typed, Next, "Moved" \notin Changes
  PROVE  JobsTyped'
<1>0. JobsTyped
  BY DEF Typed
<1>1. CASE StateChanged
  BY <1>1, <1>0 DEF StateChanged, jobVars, JobsTyped
<1>2. CASE FileListStartOrStop
  <2>1. This.dir \in Dirs
    BY <1>2, TopIs DEF FileListStartOrStop, Typed
  <2>2. Operation(This.dir, "list", Standing(This.dir)) \in Operations /\ Operation(This.dir, "list", Standing(This.dir)).kind = "list"
    BY <2>1, StandingTyped DEF Operation, Operations
  <2> QED
    BY <1>2, <1>0, <2>1, <2>2 DEF FileListStartOrStop, jobVars, JobsTyped
<1>3. CASE LoadCancel
  BY <1>3, <1>0 DEF LoadCancel, jobVars, JobsTyped
<1>4. CASE LoadEnded
  BY <1>0, <1>4 DEF LoadEnded, JobsTyped
<1>5. CASE Stop
  <2>1. CASE UNCHANGED jobVars
    BY <1>0, <2>1 DEF jobVars, JobsTyped
  <2>2. CASE ~UNCHANGED jobVars
    <3>1. PICK S : CancelJobs(S, {})
      BY <1>5, <2>2 DEF Stop
    <3> QED
      BY <3>1, <1>0, CancelledOps
  <2> QED
    BY <2>1, <2>2
<1>6. CASE HighPriorityQueue
  <2>1. This.dir \in Dirs /\ Head(high[This.dir]) \in Files
    BY <1>6, TopIs DEF HighPriorityQueue, Typed, QueuesTyped
  <2>2. CASE UNCHANGED jobVars
    BY <1>0, <2>2 DEF jobVars, JobsTyped
  <2>3. CASE ~UNCHANGED jobVars
    <3>1. PICK kinds \in SUBSET Kinds : StartJobs(This.dir, Head(high[This.dir]), kinds)
      BY <1>6, <2>3 DEF HighPriorityQueue, Kinds
    <3> QED
      BY <2>1, <3>1, <1>0, StartedTyped
  <2> QED
    BY <2>2, <2>3
<1>7. CASE LowPriorityQueue
  <2>1. This.dir \in Dirs /\ Head(low[This.dir]) \in Files
    BY <1>7, TopIs DEF LowPriorityQueue, Typed, QueuesTyped
  <2>2. CASE UNCHANGED jobVars
    BY <1>0, <2>2 DEF jobVars, JobsTyped
  <2>3. CASE ~UNCHANGED jobVars
    <3>1. PICK kinds \in SUBSET Kinds : StartJobs(This.dir, Head(low[This.dir]), kinds)
      BY <1>7, <2>3 DEF LowPriorityQueue, Kinds, Low
    <3> QED
      BY <2>1, <3>1, <1>0, StartedTyped
  <2> QED
    BY <2>2, <2>3
<1>8. CASE ExtensionQueue
  <2>1. This.dir \in Dirs /\ Head(extension[This.dir]) \in Files
    BY <1>8, TopIs DEF ExtensionQueue, Typed, QueuesTyped
  <2>2. CASE UNCHANGED jobVars
    BY <1>0, <2>2 DEF jobVars, JobsTyped
  <2>3. CASE ~UNCHANGED jobVars
    <3>1. PICK kinds \in SUBSET Kinds : StartJobs(This.dir, Head(extension[This.dir]), kinds)
      BY <1>8, <2>3 DEF ExtensionQueue, Kinds
    <3> QED
      BY <2>1, <3>1, <1>0, StartedTyped
  <2> QED
    BY <2>2, <2>3
<1>9. CASE QueuesEmpty
  BY <1>9, <1>0 DEF QueuesEmpty, jobVars, JobsTyped
<1>10. CASE CallReadyCallbacks
  BY <1>10, <1>0 DEF CallReadyCallbacks, jobVars, JobsTyped
<1>11. CASE WakeUp
  BY <1>11, <1>0 DEF WakeUp, jobVars, JobsTyped
<1>12. CASE Waking
  BY <1>0, <1>12 DEF Waking, JobsTyped
<1>13. CASE Told
  BY <1>13, <1>0 DEF Told, jobVars, JobsTyped
<1>14. CASE Invalidate
  <2>1. CASE UNCHANGED jobVars
    BY <1>0, <2>1 DEF jobVars, JobsTyped
  <2>2. CASE ~UNCHANGED jobVars
    <3>1. PICK S, T : CancelJobs(S, T)
      BY <1>14, <2>2 DEF Invalidate, CancelLoadingFileAttributes
    <3> QED
      BY <3>1, <1>0, CancelledOps
  <2> QED
    BY <2>1, <2>2
<1>15. CASE Cancelled
  BY <1>15, <1>0 DEF Cancelled, jobVars, JobsTyped
<1>16. CASE Reload
  BY <1>16, <1>0 DEF Reload, jobVars, JobsTyped
<1>17. CASE Unloaded
  BY <1>17, <1>0 DEF Unloaded, jobVars, JobsTyped
<1>18. CASE Reloaded
  BY <1>18, <1>0 DEF Reloaded, jobVars, JobsTyped
<1>19. ASSUME NEW m \in Monitors, MonitorAdd(m) PROVE JobsTyped'
  BY <1>19, <1>0 DEF MonitorAdd, jobVars, JobsTyped
<1>20. ASSUME NEW m \in Monitors, MonitorRemove(m) PROVE JobsTyped'
  BY <1>20, <1>0 DEF MonitorRemove, jobVars, JobsTyped
<1>21. ASSUME NEW c \in Callbacks, CallWhenReady(c) PROVE JobsTyped'
  BY <1>21, <1>0 DEF CallWhenReady, jobVars, JobsTyped
<1>22. ASSUME NEW c \in Callbacks, CancelCallback(c) PROVE JobsTyped'
  BY <1>22, <1>0 DEF CancelCallback, jobVars, JobsTyped
<1>23. ASSUME NEW f \in Files, NotifyFileChanged(f) PROVE JobsTyped'
  <2>1. PICK S, T : CancelJobs(S, T)
    BY <1>23 DEF NotifyFileChanged
  <2> QED
    BY <2>1, <1>0, CancelledOps
<1>24. ASSUME NEW f \in Files, NotifyFileRemoved(f) PROVE JobsTyped'
  BY <1>24, <1>0 DEF NotifyFileRemoved, jobVars, JobsTyped
<1>25. ASSUME NEW f \in Files, InvalidateFile(f, AllAttributes) PROVE JobsTyped'
  <2>1. PICK S, T : CancelJobs(S, T)
    BY <1>25 DEF InvalidateFile, CancelLoadingFileAttributes
  <2> QED
    BY <2>1, <1>0, CancelledOps
<1>26. ASSUME NEW d \in Dirs, ForceReload(d) PROVE JobsTyped'
  <2>1. PICK S, T : CancelJobs(S, T)
    BY <1>26 DEF ForceReload
  <2> QED
    BY <2>1, <1>0, CancelledOps
<1>27. ASSUME NEW d \in Dirs, NEW k \in Kinds, Answer(d, k) PROVE JobsTyped'
  BY <1>0, <1>27 DEF Answer, JobsTyped
<1>28. ASSUME NEW d \in Dirs, DirectoryLoadDone(d) PROVE JobsTyped'
  BY <1>28, <1>0 DEF DirectoryLoadDone, jobVars, JobsTyped
<1>29. ASSUME NEW d \in Dirs, CallReadyCallbacksAtIdle(d) PROVE JobsTyped'
  BY <1>29, <1>0 DEF CallReadyCallbacksAtIdle, jobVars, JobsTyped
<1>30. ASSUME NEW d \in Dirs, DirectoryReads(d) PROVE JobsTyped'
  BY <1>30, <1>0 DEF DirectoryReads, jobVars, JobsTyped
<1> QED
  BY StepsAre, <1>1, <1>2, <1>3, <1>4, <1>5, <1>6, <1>7, <1>8, <1>9, <1>10, <1>11, <1>12, <1>13, <1>14, <1>15, <1>16, <1>17, <1>18, <1>19, <1>20, <1>21, <1>22, <1>23, <1>24, <1>25, <1>26, <1>27, <1>28, <1>29, <1>30

-----------------------------------------------------------------------------
(* The work queues                                                         *)

LEMMA QueuedMember == \A q \in Seq(Files) : \A f : Queued(q, f) <=> f \in ToSet(q)
BY DEF Queued, ToSet

\* What the operations of a queue leave in it.
LEMMA QueueFacts ==
  ASSUME NEW q \in Seq(Files)
  PROVE  /\ \A f \in Files : /\ Enqueue(q, f) \in Seq(Files) /\ Append(q, f) \in Seq(Files)
                             /\ \A g : Queued(Enqueue(q, f), g) <=> Queued(q, g) \/ g = f
                             /\ \A g : Queued(Append(q, f), g) <=> Queued(q, g) \/ g = f
         /\ \A G : /\ Those(q, G) \in Seq(Files)
                   /\ \A g : Queued(Those(q, G), g) <=> Queued(q, g) /\ g \in G
         /\ q # <<>> => /\ Tail(q) \in Seq(Files) /\ Head(q) \in Files
                        /\ \A g : Queued(q, g) <=> g = Head(q) \/ Queued(Tail(q), g)
         /\ (q = <<>>) <=> (\A g : ~Queued(q, g))
         /\ \A g : Queued(q, g) => g \in Files
<1>1. ASSUME NEW f \in Files
      PROVE  /\ Append(q, f) \in Seq(Files)
             /\ \A g : Queued(Append(q, f), g) <=> Queued(q, g) \/ g = f
  <2>1. Append(q, f) \in Seq(Files)
    OBVIOUS
  <2>2. ToSet(Append(q, f)) = ToSet(q) \cup {f}
    BY MembersAppend
  <2> QED
    BY <2>1, <2>2, QueuedMember
<1>2. ASSUME NEW f \in Files
      PROVE  /\ Enqueue(q, f) \in Seq(Files)
             /\ \A g : Queued(Enqueue(q, f), g) <=> Queued(q, g) \/ g = f
  BY <1>1 DEF Enqueue
<1>3. ASSUME NEW G
      PROVE  /\ Those(q, G) \in Seq(Files)
             /\ \A g : Queued(Those(q, G), g) <=> Queued(q, g) /\ g \in G
  <2>1. Those(q, G) \in Seq(Files \cap G)
    BY ThoseType
  <2>2. Seq(Files \cap G) \subseteq Seq(Files)
    OBVIOUS
  <2>3. ToSet(Those(q, G)) = ToSet(q) \cap G
    BY MembersThose
  <2> QED
    BY <2>1, <2>2, <2>3, QueuedMember
<1>4. ASSUME q # <<>>
      PROVE  /\ Tail(q) \in Seq(Files) /\ Head(q) \in Files
             /\ \A g : Queued(q, g) <=> g = Head(q) \/ Queued(Tail(q), g)
  <2>1. /\ Tail(q) \in Seq(Files) /\ Head(q) \in Files /\ Head(q) = q[1] /\ Len(q) \in Nat \ {0}
        /\ Len(Tail(q)) = Len(q) - 1 /\ \A i \in 1..(Len(q) - 1) : Tail(q)[i] = q[i + 1]
    BY <1>4
  <2>2. ASSUME NEW g, Queued(q, g), g # Head(q) PROVE Queued(Tail(q), g)
    <3>1. PICK i \in 1..Len(q) : q[i] = g
      BY <2>2 DEF Queued
    <3>2. i - 1 \in 1..(Len(q) - 1) /\ (i - 1) + 1 = i
      BY <2>1, <2>2, <3>1
    <3>3. Tail(q)[i - 1] = g
      BY <2>1, <3>1, <3>2
    <3> QED
      BY <2>1, <3>2, <3>3 DEF Queued
  <2>3. ASSUME NEW g, Queued(Tail(q), g) PROVE Queued(q, g)
    <3>1. PICK i \in 1..(Len(q) - 1) : Tail(q)[i] = g
      BY <2>1, <2>3 DEF Queued
    <3>2. i + 1 \in 1..Len(q) /\ q[i + 1] = g
      BY <2>1, <3>1
    <3> QED
      BY <3>2 DEF Queued
  <2>4. Queued(q, Head(q))
    BY <2>1 DEF Queued
  <2> QED
    BY <2>1, <2>2, <2>3, <2>4
<1>5. (q = <<>>) <=> (\A g : ~Queued(q, g))
  <2>1. q # <<>> => Queued(q, Head(q))
    BY <1>4
  <2>2. q = <<>> => \A g : ~Queued(q, g)
    BY DEF Queued
  <2> QED
    BY <2>1, <2>2
<1>6. \A g : Queued(q, g) => g \in Files
  BY DEF Queued
<1> QED
  BY <1>1, <1>2, <1>3, <1>4, <1>5, <1>6

\* Every file of a finite set has a place in every order of it.
LEMMA OrdersHaveAll ==
  ASSUME NEW S, IsFiniteSet(S), S \subseteq Files, NEW s \in Orders(S)
  PROVE  s \in Seq(Files) /\ \A f : Queued(s, f) <=> f \in S
<1> DEFINE n == Cardinality(S)
<1>1. n \in Nat
  BY FS_CardinalityType
<1>2. s \in [1..n -> S] /\ \A i, j \in DOMAIN s : s[i] = s[j] => i = j
  BY DEF Orders
<1>3. s \in Seq(Files) /\ Len(s) = n /\ DOMAIN s = 1..n
  BY <1>1, <1>2
<1>4. s \in Injection(1..n, S)
  BY <1>2 DEF Injection, IsInjective
<1>5. IsFiniteSet(1..n) /\ Cardinality(1..n) = n
  BY <1>1, FS_Interval
<1>6. s \in Surjection(1..n, S)
  BY <1>4, <1>5, FS_Injection
<1>7. \A f \in S : \E i \in 1..n : s[i] = f
  BY <1>6 DEF Surjection
<1> QED
  BY <1>2, <1>3, <1>7 DEF Queued

\* What the work queues of the directories hold.
Holds(q, d, f) == Queued(q[d], f)

LEMMA AddedFacts ==
  ASSUME QueuesTyped, NEW d \in Dirs, NEW f \in Files, AddToWorkQueue(d, f)
  PROVE  /\ QueuesTyped' /\ low' = low /\ extension' = extension
         /\ \A e \in Dirs : \A g : Holds(high', e, g) <=> Holds(high, e, g) \/ (e = d /\ g = f)
<1>1. high' = [high EXCEPT ![d] = Enqueue(@, f)] /\ low' = low /\ extension' = extension
  BY DEF AddToWorkQueue
<1>2. high[d] \in Seq(Files) /\ high \in [Dirs -> Seq(Files)]
  BY DEF QueuesTyped
<1>3. Enqueue(high[d], f) \in Seq(Files) /\ \A g : Queued(Enqueue(high[d], f), g) <=> Queued(high[d], g) \/ g = f
  BY <1>2, QueueFacts
<1>4. high' \in [Dirs -> Seq(Files)] /\ \A e \in Dirs : high'[e] = IF e = d THEN Enqueue(high[d], f) ELSE high[e]
  BY <1>1, <1>2, <1>3
<1> QED
  BY <1>1, <1>3, <1>4 DEF QueuesTyped, Holds

LEMMA AddedAllFacts ==
  ASSUME QueuesTyped, NEW d \in Dirs, AddAllToWorkQueue(d)
  PROVE  /\ QueuesTyped' /\ low' = low /\ extension' = extension
         /\ \A e \in Dirs : \A g : Holds(high', e, g) <=> Holds(high, e, g) \/ (e = d /\ g \in FileList(d))
<1> DEFINE G == {f \in Files : ~Queued(high[d], f)}
<1>1. /\ low' = low /\ extension' = extension
      /\ \E s \in Orders(FileList(d)) : high' = [high EXCEPT ![d] = @ \o Those(s, G)]
  BY DEF AddAllToWorkQueue
<1>2. PICK s \in Orders(FileList(d)) : high' = [high EXCEPT ![d] = @ \o Those(s, G)]
  BY <1>1
<1>3. high[d] \in Seq(Files) /\ high \in [Dirs -> Seq(Files)]
  BY DEF QueuesTyped
<1>4. s \in Seq(Files) /\ \A f : Queued(s, f) <=> f \in FileList(d)
  BY FileListTyped, OrdersHaveAll
<1>5. Those(s, G) \in Seq(Files) /\ \A g : Queued(Those(s, G), g) <=> Queued(s, g) /\ g \in G
  <2> HIDE DEF G
  <2> QED
    BY <1>4, QueueFacts
<1> DEFINE t == Those(s, G)
           u == high[d] \o t
<1>6. u \in Seq(Files) /\ \A g : Queued(u, g) <=> Queued(high[d], g) \/ Queued(t, g)
  <2>1. t \in Seq(Files)
    BY <1>5
  <2> HIDE DEF t
  <2>2. u \in Seq(Files)
    BY <1>3, <2>1
  <2>3. ToSet(u) = ToSet(high[d]) \cup ToSet(t)
    BY <1>3, <2>1, MembersConcat
  <2> QED
    BY <1>3, <2>1, <2>2, <2>3, QueuedMember
<1>7. \A g : Queued(u, g) <=> Queued(high[d], g) \/ g \in FileList(d)
  BY <1>4, <1>5, <1>6, FileListTyped
<1>8. high' \in [Dirs -> Seq(Files)] /\ \A e \in Dirs : high'[e] = IF e = d THEN u ELSE high[e]
  <2>1. high' = [high EXCEPT ![d] = u]
    BY <1>2, <1>3
  <2> HIDE DEF u
  <2> QED
    BY <1>3, <1>6, <2>1
<1> HIDE DEF u
<1> QED
  BY <1>1, <1>7, <1>8 DEF QueuesTyped, Holds

\* Files of S leave the queues of d.
Taken(p, q, d, G) == d \in Dirs /\ q \in [Dirs -> Seq(Files)] /\ p = [q EXCEPT ![d] = Those(@, G)]

LEMMA TakenFacts ==
  \A p, q, d, G : Taken(p, q, d, G) =>
    /\ p \in [Dirs -> Seq(Files)]
    /\ \A e \in Dirs : \A g : Holds(p, e, g) <=> Holds(q, e, g) /\ (e = d => g \in G)
<1> SUFFICES ASSUME NEW q, NEW p, NEW d, NEW G, Taken(p, q, d, G)
             PROVE  /\ p \in [Dirs -> Seq(Files)]
                    /\ \A e \in Dirs : \A g : Holds(p, e, g) <=> Holds(q, e, g) /\ (e = d => g \in G)
  BY Zenon
<1>0. d \in Dirs /\ q \in [Dirs -> Seq(Files)] /\ p = [q EXCEPT ![d] = Those(@, G)]
  BY DEF Taken
<1>1. Those(q[d], G) \in Seq(Files) /\ \A g : Queued(Those(q[d], G), g) <=> Queued(q[d], g) /\ g \in G
  BY <1>0, QueueFacts
<1>2. p \in [Dirs -> Seq(Files)] /\ \A e \in Dirs : p[e] = IF e = d THEN Those(q[d], G) ELSE q[e]
  BY <1>0, <1>1
<1> QED
  BY <1>1, <1>2 DEF Holds

LEMMA RemovedFacts ==
  ASSUME QueuesTyped, NEW d \in Dirs, NEW f, RemoveFromWorkQueue(d, f)
  PROVE  /\ QueuesTyped'
         /\ \A e \in Dirs : \A g : /\ Holds(high', e, g) <=> Holds(high, e, g) /\ ~(e = d /\ g = f)
                                   /\ Holds(low', e, g) <=> Holds(low, e, g) /\ ~(e = d /\ g = f)
                                   /\ Holds(extension', e, g) <=> Holds(extension, e, g) /\ ~(e = d /\ g = f)
<1> DEFINE G == Files \ {f}
<1>1. Taken(high', high, d, G) /\ Taken(low', low, d, G) /\ Taken(extension', extension, d, G)
  BY DEF RemoveFromWorkQueue, Without, QueuesTyped, Taken
<1>2. /\ high \in [Dirs -> Seq(Files)] /\ low \in [Dirs -> Seq(Files)] /\ extension \in [Dirs -> Seq(Files)]
  BY DEF QueuesTyped
<1> HIDE DEF G
<1>3. /\ high' \in [Dirs -> Seq(Files)]
      /\ \A e \in Dirs : \A g : Holds(high', e, g) <=> Holds(high, e, g) /\ (e = d => g \in G)
  BY <1>1, TakenFacts
<1>4. /\ low' \in [Dirs -> Seq(Files)]
      /\ \A e \in Dirs : \A g : Holds(low', e, g) <=> Holds(low, e, g) /\ (e = d => g \in G)
  BY <1>1, TakenFacts
<1>5. /\ extension' \in [Dirs -> Seq(Files)]
      /\ \A e \in Dirs : \A g : Holds(extension', e, g) <=> Holds(extension, e, g) /\ (e = d => g \in G)
  BY <1>1, TakenFacts
<1>6. \A e \in Dirs : \A g : Holds(high, e, g) \/ Holds(low, e, g) \/ Holds(extension, e, g) => (g \in G <=> g # f)
  BY <1>2, QueueFacts DEF Holds, G
<1> QED
  BY <1>3, <1>4, <1>5, <1>6 DEF QueuesTyped

LEMMA MarkedGoneFacts ==
  ASSUME QueuesTyped, NEW d \in Dirs, NEW S, MarkGone(d, S)
  PROVE  /\ QueuesTyped'
         /\ \A e \in Dirs : \A g : /\ Holds(high', e, g) <=> Holds(high, e, g) /\ ~(e = d /\ g \in S)
                                   /\ Holds(low', e, g) <=> Holds(low, e, g) /\ ~(e = d /\ g \in S)
                                   /\ Holds(extension', e, g) <=> Holds(extension, e, g) /\ ~(e = d /\ g \in S)
<1> DEFINE G == Files \ S
<1>1. Taken(high', high, d, G) /\ Taken(low', low, d, G) /\ Taken(extension', extension, d, G)
  BY DEF MarkGone, QueuesTyped, Taken
<1>2. /\ high \in [Dirs -> Seq(Files)] /\ low \in [Dirs -> Seq(Files)] /\ extension \in [Dirs -> Seq(Files)]
  BY DEF QueuesTyped
<1> HIDE DEF G
<1>3. /\ high' \in [Dirs -> Seq(Files)]
      /\ \A e \in Dirs : \A g : Holds(high', e, g) <=> Holds(high, e, g) /\ (e = d => g \in G)
  BY <1>1, TakenFacts
<1>4. /\ low' \in [Dirs -> Seq(Files)]
      /\ \A e \in Dirs : \A g : Holds(low', e, g) <=> Holds(low, e, g) /\ (e = d => g \in G)
  BY <1>1, TakenFacts
<1>5. /\ extension' \in [Dirs -> Seq(Files)]
      /\ \A e \in Dirs : \A g : Holds(extension', e, g) <=> Holds(extension, e, g) /\ (e = d => g \in G)
  BY <1>1, TakenFacts
<1>6. \A e \in Dirs : \A g : Holds(high, e, g) \/ Holds(low, e, g) \/ Holds(extension, e, g) => (g \in G <=> g \notin S)
  BY <1>2, QueueFacts DEF Holds, G
<1> QED
  BY <1>3, <1>4, <1>5, <1>6 DEF QueuesTyped

\* The first file of a queue goes on to the next one.
PassedOn(from, to, p, q, d) ==
  /\ d \in Dirs /\ from \in [Dirs -> Seq(Files)] /\ to \in [Dirs -> Seq(Files)] /\ from[d] # <<>>
  /\ p = [from EXCEPT ![d] = Tail(@)]
  /\ q = [to EXCEPT ![d] = Enqueue(@, Head(from[d]))]

LEMMA PassedOnFacts ==
  \A from, to, p, q, d : PassedOn(from, to, p, q, d) =>
    /\ p \in [Dirs -> Seq(Files)] /\ q \in [Dirs -> Seq(Files)] /\ Head(from[d]) \in Files
    /\ \A e \in Dirs : \A g :
         /\ Holds(from, e, g) <=> Holds(p, e, g) \/ (e = d /\ g = Head(from[d]))
         /\ Holds(q, e, g) <=> Holds(to, e, g) \/ (e = d /\ g = Head(from[d]))
<1> SUFFICES ASSUME NEW from, NEW to, NEW p, NEW q, NEW d, PassedOn(from, to, p, q, d)
             PROVE  /\ p \in [Dirs -> Seq(Files)] /\ q \in [Dirs -> Seq(Files)] /\ Head(from[d]) \in Files
                    /\ \A e \in Dirs : \A g :
                         /\ Holds(from, e, g) <=> Holds(p, e, g) \/ (e = d /\ g = Head(from[d]))
                         /\ Holds(q, e, g) <=> Holds(to, e, g) \/ (e = d /\ g = Head(from[d]))
  BY Zenon
<1> DEFINE f == Head(from[d])
           a == Tail(from[d])
           b == Enqueue(to[d], f)
<1>1. /\ d \in Dirs /\ from \in [Dirs -> Seq(Files)] /\ to \in [Dirs -> Seq(Files)] /\ from[d] # <<>>
      /\ p = [from EXCEPT ![d] = a] /\ q = [to EXCEPT ![d] = b]
  BY DEF PassedOn
<1>2. from[d] \in Seq(Files) /\ to[d] \in Seq(Files)
  BY <1>1
<1>3. a \in Seq(Files) /\ f \in Files /\ \A g : Queued(from[d], g) <=> g = f \/ Queued(a, g)
  BY <1>1, <1>2, QueueFacts
<1> HIDE DEF f, a
<1>4. b \in Seq(Files) /\ \A g : Queued(b, g) <=> Queued(to[d], g) \/ g = f
  BY <1>2, <1>3, QueueFacts
<1> HIDE DEF b
<1>5. p \in [Dirs -> Seq(Files)] /\ \A e \in Dirs : p[e] = IF e = d THEN a ELSE from[e]
  BY <1>1, <1>3
<1>6. q \in [Dirs -> Seq(Files)] /\ \A e \in Dirs : q[e] = IF e = d THEN b ELSE to[e]
  BY <1>1, <1>4
<1>7. \A e \in Dirs : \A g : /\ Queued(from[e], g) <=> Queued(p[e], g) \/ (e = d /\ g = f)
                             /\ Queued(q[e], g) <=> Queued(to[e], g) \/ (e = d /\ g = f)
  BY <1>3, <1>4, <1>5, <1>6
<1> QED
  BY <1>3, <1>5, <1>6, <1>7 DEF f, Holds

\* A file that has gone is put back.
LEMMA PutBackFacts ==
  ASSUME Typed, NEW f \in Files, NotifyFileRemoved(f)
  PROVE  /\ QueuesTyped'
         /\ \A e \in Dirs : \A g :
              /\ Holds(high', e, g) <=> Holds(high, e, g) \/ (e = directory[f] /\ g = f)
              /\ Holds(low', e, g) <=> Holds(low, e, g) /\ ~(e = directory[f] /\ g = f)
              /\ Holds(extension', e, g) <=> Holds(extension, e, g) /\ ~(e = directory[f] /\ g = f)
<1> DEFINE d == directory[f]
           G == Files \ {f}
           t == Those(high[d], G)
           u == Append(t, f)
<1>1. d \in Dirs
  BY DirectoryTyped
<1>2. /\ high \in [Dirs -> Seq(Files)] /\ low \in [Dirs -> Seq(Files)] /\ extension \in [Dirs -> Seq(Files)]
  BY DEF Typed, QueuesTyped
<1>3. high' = [high EXCEPT ![d] = u] /\ Taken(low', low, d, G) /\ Taken(extension', extension, d, G)
  BY <1>1, <1>2 DEF Without, NotifyFileRemoved, Taken
<1> HIDE DEF d
<1>4. high[d] \in Seq(Files)
  BY <1>1, <1>2
<1>5. t \in Seq(Files) /\ \A g : Queued(t, g) <=> Queued(high[d], g) /\ g \in G
  <2> HIDE DEF G
  <2> QED
    BY <1>4, QueueFacts
<1>6. u \in Seq(Files) /\ \A g : Queued(u, g) <=> Queued(t, g) \/ g = f
  <2>1. t \in Seq(Files)
    BY <1>5
  <2> HIDE DEF t
  <2> QED
    BY <2>1, QueueFacts
<1>7. \A g : Queued(u, g) <=> Queued(high[d], g) \/ g = f
  <2>1. \A g : Queued(high[d], g) => g \in Files
    BY <1>4, QueueFacts
  <2> HIDE DEF t, u
  <2> QED
    BY <1>5, <1>6, <2>1
<1>8. u \in Seq(Files)
  BY <1>6
<1> HIDE DEF t, u
<1>9. high' \in [Dirs -> Seq(Files)] /\ \A e \in Dirs : high'[e] = IF e = d THEN u ELSE high[e]
  BY <1>1, <1>2, <1>3, <1>8
<1> HIDE DEF G
<1>10. /\ low' \in [Dirs -> Seq(Files)]
       /\ \A e \in Dirs : \A g : Holds(low', e, g) <=> Holds(low, e, g) /\ (e = d => g \in G)
  BY <1>3, TakenFacts
<1>11. /\ extension' \in [Dirs -> Seq(Files)]
       /\ \A e \in Dirs : \A g : Holds(extension', e, g) <=> Holds(extension, e, g) /\ (e = d => g \in G)
  BY <1>3, TakenFacts
<1>12. \A e \in Dirs : \A g : Holds(low, e, g) \/ Holds(extension, e, g) => (g \in G <=> g # f)
  BY <1>2, QueueFacts DEF Holds, G
<1>13. \A e \in Dirs : \A g : Holds(high', e, g) <=> Holds(high, e, g) \/ (e = d /\ g = f)
  BY <1>7, <1>9 DEF Holds
<1> QED
  BY <1>9, <1>10, <1>11, <1>12, <1>13 DEF QueuesTyped, d

LEMMA QueuesTypedKept ==
  ASSUME Typed, Next, "Moved" \notin Changes
  PROVE  QueuesTyped'
<1>0. QueuesTyped
  BY DEF Typed
<1>1. CASE StateChanged
  BY <1>1, <1>0 DEF StateChanged, queues, QueuesTyped
<1>2. CASE FileListStartOrStop
  BY <1>2, <1>0 DEF FileListStartOrStop, queues, QueuesTyped
<1>3. CASE LoadCancel
  BY <1>3, <1>0 DEF LoadCancel, queues, QueuesTyped
<1>4. CASE LoadEnded
  BY <1>4, <1>0 DEF LoadEnded, queues, QueuesTyped
<1>5. CASE Stop
  BY <1>5, <1>0 DEF Stop, queues, QueuesTyped
<1>6. CASE HighPriorityQueue
  <2>1. This.dir \in Dirs
    BY <1>6, TopIs DEF HighPriorityQueue, Typed
  <2>2. CASE UNCHANGED queues
    BY <1>0, <2>2 DEF queues, QueuesTyped
  <2>3. CASE ~UNCHANGED queues
    <3>1. PassedOn(high, low, high', low', This.dir) /\ extension' = extension
      BY <1>6, <1>0, <2>1, <2>3 DEF HighPriorityQueue, QueuesTyped, PassedOn
    <3>2. high' \in [Dirs -> Seq(Files)] /\ low' \in [Dirs -> Seq(Files)]
      BY <3>1, PassedOnFacts
    <3> QED
      BY <1>0, <3>1, <3>2 DEF QueuesTyped
  <2> QED
    BY <2>2, <2>3
<1>7. CASE LowPriorityQueue
  <2>1. This.dir \in Dirs
    BY <1>7, TopIs DEF LowPriorityQueue, Typed
  <2>2. CASE UNCHANGED queues
    BY <1>0, <2>2 DEF queues, QueuesTyped
  <2>3. CASE ~UNCHANGED queues
    <3>1. PassedOn(low, extension, low', extension', This.dir) /\ high' = high
      BY <1>7, <1>0, <2>1, <2>3 DEF LowPriorityQueue, QueuesTyped, PassedOn
    <3>2. low' \in [Dirs -> Seq(Files)] /\ extension' \in [Dirs -> Seq(Files)]
      BY <3>1, PassedOnFacts
    <3> QED
      BY <1>0, <3>1, <3>2 DEF QueuesTyped
  <2> QED
    BY <2>2, <2>3
<1>8. CASE ExtensionQueue
  <2>1. This.dir \in Dirs
    BY <1>8, TopIs DEF ExtensionQueue, Typed
  <2>2. CASE UNCHANGED queues
    BY <1>0, <2>2 DEF queues, QueuesTyped
  <2>3. CASE ~UNCHANGED queues
    BY <1>8, <2>3, <1>0, <2>1, RemovedFacts DEF ExtensionQueue
  <2> QED
    BY <2>2, <2>3
<1>9. CASE QueuesEmpty
  BY <1>9, <1>0 DEF QueuesEmpty, queues, QueuesTyped
<1>10. CASE CallReadyCallbacks
  BY <1>10, <1>0 DEF CallReadyCallbacks, queues, QueuesTyped
<1>11. CASE WakeUp
  BY <1>11, <1>0 DEF WakeUp, queues, QueuesTyped
<1>12. CASE Waking
  BY <1>12, <1>0 DEF Waking, queues, QueuesTyped
<1>13. CASE Told
  BY <1>13, <1>0 DEF Told, queues, QueuesTyped
<1>14. CASE Invalidate
  <2>1. CASE UNCHANGED queues
    BY <1>0, <2>1 DEF queues, QueuesTyped
  <2>2. CASE ~UNCHANGED queues
    BY <1>14, <2>2, TopIs, DirectoryTyped, <1>0, RemovedFacts DEF Invalidate, CancelLoadingFileAttributes, Typed
  <2> QED
    BY <2>1, <2>2
<1>15. CASE Cancelled
  <2>1. AddToWorkQueue(directory[This.file], This.file)
    BY <1>15 DEF Cancelled
  <2>2. This.file \in Files
    BY <1>15, TopIs DEF Cancelled, Typed, Plain
  <2>3. directory[This.file] \in Dirs
    BY <2>2, DirectoryTyped
  <2> QED
    BY <1>0, <2>1, <2>2, <2>3, AddedFacts
<1>16. CASE Reload
  BY <1>16, <1>0 DEF Reload, queues, QueuesTyped
<1>17. CASE Unloaded
  BY <1>17, <1>0 DEF Unloaded, queues, QueuesTyped
<1>18. CASE Reloaded
  BY <1>18, TopIs, <1>0, AddedAllFacts DEF Reloaded, Typed
<1>19. ASSUME NEW m \in Monitors, MonitorAdd(m) PROVE QueuesTyped'
  <2>1. Place(m) \in Dirs /\ At[m] \in Dirs /\ About[m] \in Files \cup {AllFiles}
    BY PlaceTyped
  <2>2. CASE About[m] = AllFiles
    BY <1>19, <2>2, <1>0, <2>1, AddedAllFacts DEF MonitorAdd
  <2>3. CASE About[m] # AllFiles
    BY <1>19, <2>3, <2>1, <1>0, AddedFacts DEF MonitorAdd
  <2> QED
    BY <2>2, <2>3
<1>20. ASSUME NEW m \in Monitors, MonitorRemove(m) PROVE QueuesTyped'
  BY <1>20, <1>0 DEF MonitorRemove, queues, QueuesTyped
<1>21. ASSUME NEW c \in Callbacks, CallWhenReady(c) PROVE QueuesTyped'
  <2>1. Place(c) \in Dirs /\ At[c] \in Dirs /\ About[c] \in Files \cup {AllFiles}
    BY PlaceTyped
  <2>2. CASE About[c] = AllFiles
    BY <1>21, <2>2, <1>0, <2>1, AddedAllFacts DEF CallWhenReady
  <2>3. CASE About[c] # AllFiles
    BY <1>21, <2>3, <2>1, <1>0, AddedFacts DEF CallWhenReady
  <2> QED
    BY <2>2, <2>3
<1>22. ASSUME NEW c \in Callbacks, CancelCallback(c) PROVE QueuesTyped'
  BY <1>22, <1>0 DEF CancelCallback, queues, QueuesTyped
<1>23. ASSUME NEW f \in Files, NotifyFileChanged(f) PROVE QueuesTyped'
  BY <1>23, DirectoryTyped, <1>0, AddedFacts DEF NotifyFileChanged
<1>24. ASSUME NEW f \in Files, NotifyFileRemoved(f) PROVE QueuesTyped'
  BY <1>24, PutBackFacts
<1>25. ASSUME NEW f \in Files, InvalidateFile(f, AllAttributes) PROVE QueuesTyped'
  BY <1>25, DirectoryTyped, <1>0, RemovedFacts DEF InvalidateFile, CancelLoadingFileAttributes
<1>26. ASSUME NEW d \in Dirs, ForceReload(d) PROVE QueuesTyped'
  BY <1>26, <1>0 DEF ForceReload, queues, QueuesTyped
<1>27. ASSUME NEW d \in Dirs, NEW k \in Kinds, Answer(d, k) PROVE QueuesTyped'
  <2>1. CASE UNCHANGED queues
    BY <1>0, <2>1 DEF queues, QueuesTyped
  <2>2. CASE ~UNCHANGED queues
    <3>1. PICK o \in ops : o.kind # "list" /\ MarkGone(directory[o.file], {o.file})
      BY <1>27, <2>2 DEF Answer
    <3>2. directory[o.file] \in Dirs
      BY <3>1, DirectoryTyped DEF Typed, JobsTyped
    <3> QED
      BY <1>0, <3>1, <3>2, MarkedGoneFacts
  <2> QED
    BY <2>1, <2>2
<1>28. ASSUME NEW d \in Dirs, DirectoryLoadDone(d) PROVE QueuesTyped'
  <2>1. PICK missing : MarkGone(d, missing)
    BY <1>28 DEF DirectoryLoadDone
  <2> QED
    BY <1>0, <2>1, MarkedGoneFacts
<1>29. ASSUME NEW d \in Dirs, CallReadyCallbacksAtIdle(d) PROVE QueuesTyped'
  BY <1>29, <1>0 DEF CallReadyCallbacksAtIdle, queues, QueuesTyped
<1>30. ASSUME NEW d \in Dirs, DirectoryReads(d) PROVE QueuesTyped'
  BY <1>30, <1>0 DEF DirectoryReads, queues, QueuesTyped
<1> QED
  BY StepsAre, <1>1, <1>2, <1>3, <1>4, <1>5, <1>6, <1>7, <1>8, <1>9, <1>10, <1>11, <1>12, <1>13, <1>14, <1>15, <1>16, <1>17, <1>18, <1>19, <1>20, <1>21, <1>22, <1>23, <1>24, <1>25, <1>26, <1>27, <1>28, <1>29, <1>30

LEMMA ListsTypedKept ==
  ASSUME Typed, Next, "Moved" \notin Changes
  PROVE  ListsTyped'
<1>0. ListsTyped
  BY DEF Typed
<1>1. CASE StateChanged
  BY <1>1, TopIs, <1>0 DEF StateChanged, Typed, lists, ListsTyped
<1>2. CASE FileListStartOrStop
  BY <1>2, TopIs, <1>0 DEF FileListStartOrStop, Typed, ListsTyped
<1>3. CASE LoadCancel
  BY <1>3, <1>0 DEF LoadCancel, lists, ListsTyped
<1>4. CASE LoadEnded
  BY <1>4, <1>0 DEF LoadEnded, lists, ListsTyped
<1>5. CASE Stop
  BY <1>5, <1>0 DEF Stop, lists, ListsTyped
<1>6. CASE HighPriorityQueue
  BY <1>6, <1>0 DEF HighPriorityQueue, lists, ListsTyped
<1>7. CASE LowPriorityQueue
  BY <1>7, TopIs, <1>0 DEF LowPriorityQueue, Typed, lists, ListsTyped
<1>8. CASE ExtensionQueue
  BY <1>8, TopIs, <1>0 DEF ExtensionQueue, Typed, lists, ListsTyped
<1>9. CASE QueuesEmpty
  BY <1>9, <1>0 DEF QueuesEmpty, lists, ListsTyped
<1>10. CASE CallReadyCallbacks
  BY <1>10, TopIs, <1>0 DEF CallReadyCallbacks, Typed, lists, ListsTyped
<1>11. CASE WakeUp
  BY <1>11, <1>0 DEF WakeUp, lists, ListsTyped
<1>12. CASE Waking
  BY <1>12, <1>0 DEF Waking, lists, ListsTyped
<1>13. CASE Told
  BY <1>13, TopIs, <1>0 DEF Told, Typed, ListsTyped
<1>14. CASE Invalidate
  BY <1>14, <1>0 DEF Invalidate, lists, ListsTyped
<1>15. CASE Cancelled
  BY <1>15, <1>0 DEF Cancelled, lists, ListsTyped
<1>16. CASE Reload
  BY <1>16, <1>0 DEF Reload, lists, ListsTyped
<1>17. CASE Unloaded
  BY <1>17, TopIs, <1>0 DEF Unloaded, Typed, ListsTyped
<1>18. CASE Reloaded
  BY <1>18, <1>0 DEF Reloaded, lists, ListsTyped
<1>19. ASSUME NEW m \in Monitors, MonitorAdd(m) PROVE ListsTyped'
  BY <1>19, <1>0 DEF MonitorAdd, lists, ListsTyped
<1>20. ASSUME NEW m \in Monitors, MonitorRemove(m) PROVE ListsTyped'
  BY <1>20, <1>0 DEF MonitorRemove, lists, ListsTyped
<1>21. ASSUME NEW c \in Callbacks, CallWhenReady(c) PROVE ListsTyped'
  BY <1>21, <1>0 DEF CallWhenReady, lists, ListsTyped
<1>22. ASSUME NEW c \in Callbacks, CancelCallback(c) PROVE ListsTyped'
  BY <1>22, <1>0 DEF CancelCallback, lists, ListsTyped
<1>23. ASSUME NEW f \in Files, NotifyFileChanged(f) PROVE ListsTyped'
  BY <1>23, <1>0 DEF NotifyFileChanged, lists, ListsTyped
<1>24. ASSUME NEW f \in Files, NotifyFileRemoved(f) PROVE ListsTyped'
  BY <1>24, <1>0 DEF NotifyFileRemoved, lists, ListsTyped
<1>25. ASSUME NEW f \in Files, InvalidateFile(f, AllAttributes) PROVE ListsTyped'
  BY <1>25, <1>0 DEF InvalidateFile, lists, ListsTyped
<1>26. ASSUME NEW d \in Dirs, ForceReload(d) PROVE ListsTyped'
  BY <1>26, <1>0 DEF ForceReload, lists, ListsTyped
<1>27. ASSUME NEW d \in Dirs, NEW k \in Kinds, Answer(d, k) PROVE ListsTyped'
  BY <1>27, <1>0 DEF Answer, lists, ListsTyped
<1>28. ASSUME NEW d \in Dirs, DirectoryLoadDone(d) PROVE ListsTyped'
  BY <1>28, <1>0 DEF DirectoryLoadDone, ListsTyped
<1>29. ASSUME NEW d \in Dirs, CallReadyCallbacksAtIdle(d) PROVE ListsTyped'
  BY <1>29, <1>0 DEF CallReadyCallbacksAtIdle, lists, ListsTyped
<1>30. ASSUME NEW d \in Dirs, DirectoryReads(d) PROVE ListsTyped'
  BY <1>30, <1>0 DEF DirectoryReads, lists, ListsTyped
<1> QED
  BY StepsAre, <1>1, <1>2, <1>3, <1>4, <1>5, <1>6, <1>7, <1>8, <1>9, <1>10, <1>11, <1>12, <1>13, <1>14, <1>15, <1>16, <1>17, <1>18, <1>19, <1>20, <1>21, <1>22, <1>23, <1>24, <1>25, <1>26, <1>27, <1>28, <1>29, <1>30

LEMMA AskedTyped ==
  ASSUME ClientsTyped, Ask
  PROVE  nrequests' \in 0..MaxRequests
<1>1. MaxRequests \in Nat
  BY JobsAssumption
<1> QED
  BY <1>1 DEF ClientsTyped, Ask

LEMMA ClientsTypedKept ==
  ASSUME Typed, Next, "Moved" \notin Changes
  PROVE  ClientsTyped'
<1>0. ClientsTyped
  BY DEF Typed
<1>1. CASE StateChanged
  BY <1>1, <1>0 DEF StateChanged, clients, ClientsTyped
<1>2. CASE FileListStartOrStop
  BY <1>2, <1>0 DEF FileListStartOrStop, clients, ClientsTyped
<1>3. CASE LoadCancel
  BY <1>3, <1>0 DEF LoadCancel, clients, ClientsTyped
<1>4. CASE LoadEnded
  BY <1>4, <1>0 DEF LoadEnded, clients, ClientsTyped
<1>5. CASE Stop
  BY <1>5, <1>0 DEF Stop, clients, ClientsTyped
<1>6. CASE HighPriorityQueue
  BY <1>6, <1>0 DEF HighPriorityQueue, clients, ClientsTyped
<1>7. CASE LowPriorityQueue
  BY <1>7, <1>0 DEF LowPriorityQueue, clients, ClientsTyped
<1>8. CASE ExtensionQueue
  BY <1>8, <1>0 DEF ExtensionQueue, clients, ClientsTyped
<1>9. CASE QueuesEmpty
  BY <1>9, <1>0 DEF QueuesEmpty, clients, ClientsTyped
<1>10. CASE CallReadyCallbacks
  BY <1>10, <1>0 DEF CallReadyCallbacks, ClientsTyped
<1>11. CASE WakeUp
  BY <1>11, <1>0 DEF WakeUp, clients, ClientsTyped
<1>12. CASE Waking
  BY <1>12, <1>0 DEF Waking, clients, ClientsTyped
<1>13. CASE Told
  BY <1>13, <1>0 DEF Told, clients, ClientsTyped
<1>14. CASE Invalidate
  BY <1>14, <1>0 DEF Invalidate, clients, ClientsTyped
<1>15. CASE Cancelled
  BY <1>15, <1>0 DEF Cancelled, clients, ClientsTyped
<1>16. CASE Reload
  BY <1>16, <1>0 DEF Reload, clients, ClientsTyped
<1>17. CASE Unloaded
  BY <1>17, <1>0 DEF Unloaded, clients, ClientsTyped
<1>18. CASE Reloaded
  BY <1>18, <1>0 DEF Reloaded, clients, ClientsTyped
<1>19. ASSUME NEW m \in Monitors, MonitorAdd(m) PROVE ClientsTyped'
  BY <1>19, <1>0, AskedTyped DEF MonitorAdd, ClientsTyped
<1>20. ASSUME NEW m \in Monitors, MonitorRemove(m) PROVE ClientsTyped'
  BY <1>20, <1>0, AskedTyped DEF MonitorRemove, ClientsTyped
<1>21. ASSUME NEW c \in Callbacks, CallWhenReady(c) PROVE ClientsTyped'
  <2>1. Place(c) \in Dirs
    BY PlaceTyped
  <2> QED
    BY <1>21, <1>0, <2>1, AskedTyped DEF CallWhenReady, ClientsTyped
<1>22. ASSUME NEW c \in Callbacks, CancelCallback(c) PROVE ClientsTyped'
  BY <1>22, <1>0, AskedTyped DEF CancelCallback, ClientsTyped
<1>23. ASSUME NEW f \in Files, NotifyFileChanged(f) PROVE ClientsTyped'
  BY <1>23, <1>0, AskedTyped DEF NotifyFileChanged, clients, ClientsTyped
<1>24. ASSUME NEW f \in Files, NotifyFileRemoved(f) PROVE ClientsTyped'
  BY <1>24, <1>0, AskedTyped DEF NotifyFileRemoved, clients, ClientsTyped
<1>25. ASSUME NEW f \in Files, InvalidateFile(f, AllAttributes) PROVE ClientsTyped'
  BY <1>25, <1>0, AskedTyped DEF InvalidateFile, clients, ClientsTyped
<1>26. ASSUME NEW d \in Dirs, ForceReload(d) PROVE ClientsTyped'
  BY <1>26, <1>0, AskedTyped DEF ForceReload, clients, ClientsTyped
<1>27. ASSUME NEW d \in Dirs, NEW k \in Kinds, Answer(d, k) PROVE ClientsTyped'
  BY <1>27, <1>0 DEF Answer, clients, ClientsTyped
<1>28. ASSUME NEW d \in Dirs, DirectoryLoadDone(d) PROVE ClientsTyped'
  BY <1>28, <1>0 DEF DirectoryLoadDone, clients, ClientsTyped
<1>29. ASSUME NEW d \in Dirs, CallReadyCallbacksAtIdle(d) PROVE ClientsTyped'
  BY <1>29, <1>0 DEF CallReadyCallbacksAtIdle, ClientsTyped
<1>30. ASSUME NEW d \in Dirs, DirectoryReads(d) PROVE ClientsTyped'
  BY <1>30, <1>0 DEF DirectoryReads, clients, ClientsTyped
<1> QED
  BY StepsAre, <1>1, <1>2, <1>3, <1>4, <1>5, <1>6, <1>7, <1>8, <1>9, <1>10, <1>11, <1>12, <1>13, <1>14, <1>15, <1>16, <1>17, <1>18, <1>19, <1>20, <1>21, <1>22, <1>23, <1>24, <1>25, <1>26, <1>27, <1>28, <1>29, <1>30

LEMMA FilesTypedKept ==
  ASSUME Typed, Next, "Moved" \notin Changes
  PROVE  FilesTyped'
<1>0. FilesTyped
  BY DEF Typed
<1>1. CASE StateChanged
  BY <1>1, <1>0 DEF StateChanged, files, FilesTyped
<1>2. CASE FileListStartOrStop
  BY <1>2, <1>0 DEF FileListStartOrStop, FilesTyped
<1>3. CASE LoadCancel
  BY <1>3, <1>0 DEF LoadCancel, FilesTyped
<1>4. CASE LoadEnded
  BY <1>4, <1>0 DEF LoadEnded, files, FilesTyped
<1>5. CASE Stop
  BY <1>5, <1>0 DEF Stop, files, FilesTyped
<1>6. CASE HighPriorityQueue
  BY <1>6, <1>0 DEF HighPriorityQueue, files, FilesTyped
<1>7. CASE LowPriorityQueue
  <2>1. CASE UNCHANGED upToDate
    BY <1>7, <1>0, <2>1 DEF LowPriorityQueue, FilesTyped
  <2>2. CASE ~UNCHANGED upToDate
    <3>1. PICK empty \in SUBSET Kinds : upToDate' = [upToDate EXCEPT ![Head(low[This.dir])] = @ \cup empty]
      BY <1>7, <2>2 DEF LowPriorityQueue, Low, Kinds
    <3>2. upToDate' \in [Files -> SUBSET Kinds]
      BY <1>0, <3>1 DEF FilesTyped
    <3> QED
      BY <1>7, <1>0, <3>2 DEF LowPriorityQueue, FilesTyped
  <2> QED
    BY <2>1, <2>2
<1>8. CASE ExtensionQueue
  BY <1>8, <1>0 DEF ExtensionQueue, FilesTyped, Kinds
<1>9. CASE QueuesEmpty
  BY <1>9, <1>0 DEF QueuesEmpty, files, FilesTyped
<1>10. CASE CallReadyCallbacks
  BY <1>10, <1>0 DEF CallReadyCallbacks, files, FilesTyped
<1>11. CASE WakeUp
  BY <1>11, <1>0 DEF WakeUp, files, FilesTyped
<1>12. CASE Waking
  BY <1>12, <1>0 DEF Waking, files, FilesTyped
<1>13. CASE Told
  BY <1>13, <1>0 DEF Told, files, FilesTyped
<1>14. CASE Invalidate
  BY <1>14, <1>0 DEF Invalidate, files, FilesTyped
<1>15. CASE Cancelled
  <2>1. PICK S \in SUBSET Files, kinds \in SUBSET Kinds : Invalidated(S, kinds)
    <3>1. This.file \in Files /\ This.set \subseteq Kinds
      BY <1>15, TopIs DEF Cancelled, Typed, Plain
    <3> QED
      BY <1>15, <3>1 DEF Cancelled
  <2>2. upToDate' \in [Files -> SUBSET Kinds] /\ stale' \subseteq (Files \cup {NoFile}) \X (Kinds \cup {"list"})
    BY <1>0, <2>1 DEF Invalidated, FilesTyped
  <2> QED
    BY <1>15, <1>0, <2>2 DEF Cancelled, FilesTyped
<1>16. CASE Reload
  <2>1. PICK S \in SUBSET Files, kinds \in SUBSET Kinds : Invalidated(S, kinds)
    BY <1>16, FileListTyped DEF Reload, AllAttributes
  <2>2. upToDate' \in [Files -> SUBSET Kinds] /\ stale' \subseteq (Files \cup {NoFile}) \X (Kinds \cup {"list"})
    BY <1>0, <2>1 DEF Invalidated, FilesTyped
  <2> QED
    BY <1>16, <1>0, <2>2 DEF Reload, FilesTyped
<1>17. CASE Unloaded
  BY <1>17, <1>0 DEF Unloaded, files, FilesTyped
<1>18. CASE Reloaded
  BY <1>18, <1>0 DEF Reloaded, files, FilesTyped
<1>19. ASSUME NEW m \in Monitors, MonitorAdd(m) PROVE FilesTyped'
  BY <1>19, <1>0 DEF MonitorAdd, files, FilesTyped
<1>20. ASSUME NEW m \in Monitors, MonitorRemove(m) PROVE FilesTyped'
  BY <1>20, <1>0 DEF MonitorRemove, files, FilesTyped
<1>21. ASSUME NEW c \in Callbacks, CallWhenReady(c) PROVE FilesTyped'
  BY <1>21, <1>0 DEF CallWhenReady, files, FilesTyped
<1>22. ASSUME NEW c \in Callbacks, CancelCallback(c) PROVE FilesTyped'
  BY <1>22, <1>0 DEF CancelCallback, files, FilesTyped
<1>23. ASSUME NEW f \in Files, NotifyFileChanged(f) PROVE FilesTyped'
  <2>1. PICK S \in SUBSET Files, kinds \in SUBSET Kinds : Invalidated(S, kinds)
    BY <1>23 DEF NotifyFileChanged, Kinds
  <2>2. upToDate' \in [Files -> SUBSET Kinds] /\ stale' \subseteq (Files \cup {NoFile}) \X (Kinds \cup {"list"})
    BY <1>0, <2>1 DEF Invalidated, FilesTyped
  <2> QED
    BY <1>23, <1>0, <2>2 DEF NotifyFileChanged, FilesTyped
<1>24. ASSUME NEW f \in Files, NotifyFileRemoved(f) PROVE FilesTyped'
  BY <1>24, <1>0 DEF NotifyFileRemoved, FilesTyped
<1>25. ASSUME NEW f \in Files, InvalidateFile(f, AllAttributes) PROVE FilesTyped'
  BY <1>25, <1>0 DEF InvalidateFile, files, FilesTyped
<1>26. ASSUME NEW d \in Dirs, ForceReload(d) PROVE FilesTyped'
  BY <1>26, <1>0 DEF ForceReload, files, FilesTyped
<1>27. ASSUME NEW d \in Dirs, NEW k \in Kinds, Answer(d, k) PROVE FilesTyped'
  <2>1. PICK o \in ops : /\ o.kind = k /\ k # "list"
                         /\ upToDate' = IF o.live THEN [upToDate EXCEPT ![o.file] = @ \cup {k}] ELSE upToDate
                         /\ stale' = IF o.live /\ ~o.fresh THEN stale \cup {<<o.file, k>>} ELSE stale
                         /\ UNCHANGED gone \/ gone' = gone \cup {o.file}
    BY <1>27 DEF Answer, MarkGone
  <2>2. o.file \in Files
    BY <2>1 DEF Typed, JobsTyped
  <2>3. upToDate' \in [Files -> SUBSET Kinds] /\ stale' \subseteq (Files \cup {NoFile}) \X (Kinds \cup {"list"}) /\ gone' \subseteq Files
    BY <1>0, <2>1, <2>2 DEF FilesTyped
  <2> QED
    BY <1>27, <1>0, <2>3 DEF Answer, FilesTyped
<1>28. ASSUME NEW d \in Dirs, DirectoryLoadDone(d) PROVE FilesTyped'
  <2>1. PICK missing \in SUBSET FileList(d) :
          /\ MarkGone(d, missing)
          /\ \E o \in ops, read \in SUBSET (FileList(d) \ missing) :
               /\ o.dir = d /\ o.kind = "list"
               /\ upToDate' = [f \in Files |-> upToDate[f] \cup (IF f \in read THEN {"info"} ELSE {})
                                                           \cup (IF f = o.file THEN {"count"} ELSE {})]
               /\ stale' = IF o.fresh THEN stale \ {<<o.file, "list">>} ELSE stale \cup {<<o.file, "list">>}
    BY <1>28 DEF DirectoryLoadDone
  <2>2. gone' \subseteq Files
    BY <1>0, <2>1, FileListTyped DEF MarkGone, FilesTyped
  <2>3. upToDate' \in [Files -> SUBSET Kinds]
    BY <1>0, <2>1 DEF FilesTyped, Kinds
  <2>4. PICK o \in ops : stale' \subseteq stale \cup {<<o.file, "list">>}
    BY <2>1
  <2>5. o.file \in Files \cup {NoFile}
    BY DEF Typed, JobsTyped, Operations
  <2>6. stale' \subseteq (Files \cup {NoFile}) \X (Kinds \cup {"list"})
    BY <1>0, <2>4, <2>5 DEF FilesTyped
  <2> QED
    BY <1>28, <1>0, <2>2, <2>3, <2>6 DEF DirectoryLoadDone, FilesTyped
<1>29. ASSUME NEW d \in Dirs, CallReadyCallbacksAtIdle(d) PROVE FilesTyped'
  BY <1>29, <1>0 DEF CallReadyCallbacksAtIdle, files, FilesTyped
<1>30. ASSUME NEW d \in Dirs, DirectoryReads(d) PROVE FilesTyped'
  <2>1. PICK read \in SUBSET Files :
          upToDate' = [f \in Files |-> upToDate[f] \cup (IF f \in read THEN {"info"} ELSE {})]
    BY <1>30, FileListTyped DEF DirectoryReads
  <2>2. upToDate' \in [Files -> SUBSET Kinds]
    BY <1>0, <2>1 DEF FilesTyped, Kinds
  <2> QED
    BY <1>30, <1>0, <2>2 DEF DirectoryReads, FilesTyped
<1> QED
  BY StepsAre, <1>1, <1>2, <1>3, <1>4, <1>5, <1>6, <1>7, <1>8, <1>9, <1>10, <1>11, <1>12, <1>13, <1>14, <1>15, <1>16, <1>17, <1>18, <1>19, <1>20, <1>21, <1>22, <1>23, <1>24, <1>25, <1>26, <1>27, <1>28, <1>29, <1>30

\* What the call being made adds to the stack, and what is left without it.
LEMMA TopOn ==
  ASSUME StackTyped, NEW x, Running(x)
  PROVE  /\ \A y, e : On(todo, y, e) <=> (y = x /\ e = This.dir) \/ On(Rest, y, e)
         /\ \A f : Requeued(todo, f) <=> (x = "cancelled" /\ f = This.file) \/ Requeued(Rest, f)
         /\ \A e : Held(todo, e) <=> (x \in Loads /\ e = This.dir /\ On(Rest, "ready", e)) \/ Held(Rest, e)
         /\ Lawful(todo) <=> Legal(This, Rest) /\ Lawful(Rest)
<1> DEFINE c == This
           r == Rest
<1>1. c \in Frames /\ r \in Seq(Frames) /\ todo = Push(c, r) /\ c.do = x
  BY TopIs
<1> HIDE DEF c, r
<1>2. /\ \A y, e : On(todo, y, e) <=> (c.do = y /\ c.dir = e) \/ On(r, y, e)
      /\ \A f : Requeued(todo, f) <=> (c.do = "cancelled" /\ c.file = f) \/ Requeued(r, f)
      /\ \A e : Held(todo, e) <=> (c.do \in Loads /\ c.dir = e /\ On(r, "ready", e)) \/ Held(r, e)
  BY <1>1, PushOn
<1>3. Lawful(todo) <=> Legal(c, r) /\ Lawful(r)
  BY <1>1, PushLawful
<1> QED
  BY <1>1, <1>2, <1>3 DEF c, r

\* A call is made with nothing but its directory.
LEMMA CallOn ==
  ASSUME NEW r \in Seq(Frames), NEW d \in Dirs, NEW x \in Routines \ {"detach", "attach", "cancelled"}
  PROVE  LET t == Push(Call(x, d), r)
         IN /\ t \in Seq(Frames) /\ (PlainCalls(t) <=> PlainCalls(r))
            /\ \A y, e : On(t, y, e) <=> (y = x /\ e = d) \/ On(r, y, e)
            /\ \A f : Requeued(t, f) <=> Requeued(r, f)
            /\ \A e : Held(t, e) <=> (x \in Loads /\ e = d /\ On(r, "ready", e)) \/ Held(r, e)
            /\ Lawful(t) <=> Legal(Call(x, d), r) /\ Lawful(r)
<1> DEFINE c == Call(x, d)
<1>1. c \in Frames /\ c.do = x /\ c.dir = d /\ c.set = {}
  BY CallFacts
<1> HIDE DEF c
<1>2. Plain(c)
  BY <1>1 DEF Plain
<1>3. Push(c, r) \in Seq(Frames) /\ (PlainCalls(Push(c, r)) <=> PlainCalls(r))
  BY <1>1, <1>2, PushFacts, PushPlain
<1>4. /\ \A y, e : On(Push(c, r), y, e) <=> (c.do = y /\ c.dir = e) \/ On(r, y, e)
      /\ \A f : Requeued(Push(c, r), f) <=> (c.do = "cancelled" /\ c.file = f) \/ Requeued(r, f)
      /\ \A e : Held(Push(c, r), e) <=> (c.do \in Loads /\ c.dir = e /\ On(r, "ready", e)) \/ Held(r, e)
  BY <1>1, PushOn
<1>5. Lawful(Push(c, r)) <=> Legal(c, r) /\ Lawful(r)
  BY <1>1, PushLawful
<1> QED
  BY <1>1, <1>3, <1>4, <1>5 DEF c

\* A call that may stand anywhere is made.
LEMMA FreeOn ==
  ASSUME NEW r \in Seq(Frames), NEW d \in Dirs, NEW x \in {"state changed", "wake up", "waking", "told"}
  PROVE  LET t == Push(Call(x, d), r)
         IN /\ t \in Seq(Frames) /\ (PlainCalls(t) <=> PlainCalls(r)) /\ (Lawful(t) <=> Lawful(r))
            /\ \A y, e : On(t, y, e) <=> (y = x /\ e = d) \/ On(r, y, e)
            /\ \A f : Requeued(t, f) <=> Requeued(r, f)
            /\ \A e : Held(t, e) <=> Held(r, e)
<1>1. x \in Routines \ {"detach", "attach", "cancelled"} /\ x \notin Loads
  BY DEF Routines, Loads
<1>2. Legal(Call(x, d), r)
  BY <1>1, CallFacts, Anywhere DEF Bases
<1> DEFINE t == Push(Call(x, d), r)
<1>3. /\ t \in Seq(Frames) /\ (PlainCalls(t) <=> PlainCalls(r))
      /\ \A y, e : On(t, y, e) <=> (y = x /\ e = d) \/ On(r, y, e)
      /\ \A f : Requeued(t, f) <=> Requeued(r, f)
      /\ \A e : Held(t, e) <=> (x \in Loads /\ e = d /\ On(r, "ready", e)) \/ Held(r, e)
      /\ Lawful(t) <=> Legal(Call(x, d), r) /\ Lawful(r)
  BY <1>1, CallOn
<1> HIDE DEF t
<1> QED
  BY <1>1, <1>2, <1>3 DEF t

\* The rest of an invalidation is made for a file.
LEMMA CancelledOn ==
  ASSUME NEW r \in Seq(Frames), NEW d \in Dirs, NEW g \in Files, NEW s \in SUBSET Kinds
  PROVE  LET t == Push(CallFor("cancelled", d, g, s), r)
         IN /\ t \in Seq(Frames) /\ (PlainCalls(t) <=> PlainCalls(r)) /\ (Lawful(t) <=> Lawful(r))
            /\ \A y, e : On(t, y, e) <=> (y = "cancelled" /\ e = d) \/ On(r, y, e)
            /\ \A f : Requeued(t, f) <=> f = g \/ Requeued(r, f)
            /\ \A e : Held(t, e) <=> Held(r, e)
<1> DEFINE c == CallFor("cancelled", d, g, s)
<1>1. c \in Frames /\ c.do = "cancelled" /\ c.dir = d /\ c.file = g /\ c.set = s
  <2>1. "cancelled" \in Routines /\ s \in SUBSET (Kinds \cup Monitors)
    BY DEF Routines
  <2> QED
    BY <2>1, CallForFacts
<1> HIDE DEF c
<1>2. Plain(c) /\ Legal(c, r)
  BY <1>1, Anywhere DEF Plain, Loads, Bases
<1>3. Push(c, r) \in Seq(Frames) /\ (PlainCalls(Push(c, r)) <=> PlainCalls(r)) /\ (Lawful(Push(c, r)) <=> Lawful(r))
  BY <1>1, <1>2, PushFacts, PushPlain, PushLawful
<1>4. /\ \A y, e : On(Push(c, r), y, e) <=> (c.do = y /\ c.dir = e) \/ On(r, y, e)
      /\ \A f : Requeued(Push(c, r), f) <=> (c.do = "cancelled" /\ c.file = f) \/ Requeued(r, f)
      /\ \A e : Held(Push(c, r), e) <=> (c.do \in Loads /\ c.dir = e /\ On(r, "ready", e)) \/ Held(r, e)
  BY <1>1, PushOn
<1> QED
  BY <1>1, <1>3, <1>4 DEF c, Loads

\* The count of the items of d, which its parent shows, is invalidated.
LEMMA ParentCountOn ==
  ASSUME NEW r \in Seq(Frames), NEW d \in Dirs
  PROVE  LET t == Push(ParentCount(d), r)
         IN /\ t \in Seq(Frames) /\ (PlainCalls(t) <=> PlainCalls(r)) /\ (Lawful(t) <=> Lawful(r))
            /\ \A y, e : On(t, y, e) <=> (y = "invalidate" /\ e = d) \/ On(r, y, e)
            /\ \A f : Requeued(t, f) <=> Requeued(r, f)
            /\ \A e : Held(t, e) <=> Held(r, e)
<1> DEFINE c == ParentCount(d)
<1>1. c \in Frames /\ c.do = "invalidate" /\ c.dir = d /\ c.set = {"count"}
  BY StandingTyped
<1> HIDE DEF c
<1>2. Plain(c) /\ Legal(c, r)
  BY <1>1, Anywhere DEF Plain, Loads, Bases, Kinds
<1>3. Push(c, r) \in Seq(Frames) /\ (PlainCalls(Push(c, r)) <=> PlainCalls(r)) /\ (Lawful(Push(c, r)) <=> Lawful(r))
  BY <1>1, <1>2, PushFacts, PushPlain, PushLawful
<1>4. /\ \A y, e : On(Push(c, r), y, e) <=> (c.do = y /\ c.dir = e) \/ On(r, y, e)
      /\ \A f : Requeued(Push(c, r), f) <=> (c.do = "cancelled" /\ c.file = f) \/ Requeued(r, f)
      /\ \A e : Held(Push(c, r), e) <=> (c.do \in Loads /\ c.dir = e /\ On(r, "ready", e)) \/ Held(r, e)
  BY <1>1, PushOn
<1> QED
  BY <1>1, <1>3, <1>4 DEF c, Loads

-----------------------------------------------------------------------------
(* What each step makes of the stack                                       *)

LEMMA StateChangedStack ==
  ASSUME Typed, StateChanged
  PROVE  /\ This.dir \in inLoop => todo' = Rest /\ inLoop' = inLoop /\ again' = again \cup {This.dir}
         /\ This.dir \notin inLoop => /\ todo' = Entered(This.dir, Rest)
                                      /\ inLoop' = inLoop \cup {This.dir} /\ again' = again \ {This.dir}
BY DEF StateChanged, Return, Then, Entered, Four

LEMMA FileListStack ==
  ASSUME Typed, FileListStartOrStop
  PROVE  \/ This.dir \notin monitored /\ InProgress(This.dir, "list")
         \/ todo' = IF ~IsAnyoneMonitoringFileList(This.dir) /\ This.dir \in monitored
                    THEN Push(Call("load cancel", This.dir), Rest) ELSE Rest
BY DEF FileListStartOrStop, Return, Then, Push

LEMMA LoadCancelStack ==
  ASSUME Typed, LoadCancel
  PROVE  \/ ~InProgress(This.dir, "list") /\ todo' = Rest
         \/ /\ InProgress(This.dir, "list")
            /\ \/ LoadFile(This.dir) \notin Files \/ directory[LoadFile(This.dir)] = This.dir
            /\ todo' = Push(Call("load ended", This.dir), Rest)
         \/ /\ InProgress(This.dir, "list")
            /\ LoadFile(This.dir) \in Files /\ directory[LoadFile(This.dir)] # This.dir
            /\ todo' = Push(Call("state changed", directory[LoadFile(This.dir)]),
                            Push(Call("load ended", This.dir), Rest))
<1> DEFINE d == This.dir
           f == LoadFile(d)
           a == Call("state changed", directory[f])
           b == Call("load ended", d)
<1>1. d \in Dirs /\ Rest \in Seq(Frames)
  BY TopIs DEF LoadCancel, Typed
<1>2. b \in Frames
  BY <1>1, CallFacts DEF Routines
<1>3. CASE ~InProgress(d, "list")
  BY <1>3 DEF LoadCancel, Return
<1>4. CASE InProgress(d, "list")
  <2> DEFINE parent == {directory[g] : g \in {f} \cap Files} \ {d}
  <2>1. todo' = ((IF parent = {} THEN <<>> ELSE <<a>>) \o <<b>>) \o Rest
    BY <1>4 DEF LoadCancel, Then
  <2>2. parent # {} <=> f \in Files /\ directory[f] # d
    <3> HIDE DEF f
    <3> QED
      OBVIOUS
  <2> HIDE DEF parent
  <2>3. CASE parent = {}
    <3>1. <<>> \o <<b>> = <<b>>
      <4> HIDE DEF b
      <4>1. <<b>> \in Seq(Frames)
        BY <1>2
      <4> QED
        BY <4>1, ConcatEmptySeq
    <3>2. todo' = <<b>> \o Rest
      BY <2>1, <2>3, <3>1, Zenon
    <3> QED
      BY <1>4, <2>2, <2>3, <3>2 DEF Push
  <2>4. CASE parent # {}
    <3>1. a \in Frames
      BY <2>2, <2>4, DirectoryTyped, CallFacts DEF Routines
    <3> HIDE DEF a, b, f
    <3>2. <<a, b>> = <<a>> \o <<b>>
      BY <1>2, <3>1, PairIsTwo
    <3>3. todo' = <<a, b>> \o Rest
      BY <2>1, <2>4, <3>2, Zenon
    <3>4. <<a, b>> \o Rest = Push(a, Push(b, Rest))
      BY <1>1, <1>2, <3>1, PushTwo, Zenon
    <3> QED
      BY <1>4, <2>2, <2>4, <3>3, <3>4, Zenon DEF a, b, f
  <2> QED
    BY <2>3, <2>4
<1> QED
  BY <1>3, <1>4

LEMMA CallReadyStack ==
  ASSUME Typed, CallReadyCallbacks
  PROVE  /\ again' = again \ {This.dir}
         /\ \/ /\ todo' = Entered(This.dir, Rest) /\ inLoop' = inLoop
            \/ /\ This.dir \notin again /\ Found(This.dir) = {}
               /\ todo' = Push(Call("wake up", This.dir), Rest) /\ inLoop' = inLoop \ {This.dir}
BY DEF CallReadyCallbacks, Then, Entered, Four, Push

LEMMA InvalidateStack ==
  ASSUME Typed, Invalidate
  PROVE  \/ This.file = NoFile /\ todo' = Rest
         \/ /\ This.file \in Files /\ This.set \in SUBSET Kinds
            /\ todo' = Push(Call("state changed", directory[This.file]),
                            Push(CallFor("cancelled", directory[This.file], This.file, This.set), Rest))
<1> DEFINE f == This.file
           a == Call("state changed", directory[f])
           b == CallFor("cancelled", directory[f], f, This.set)
<1>1. Rest \in Seq(Frames) /\ f \in Files \cup {NoFile} /\ This.set \subseteq Kinds
  BY TopIs DEF Invalidate, Typed, Plain
<1>2. CASE f = NoFile
  BY <1>2 DEF Invalidate, Return
<1>3. CASE f # NoFile
  <2>1. todo' = <<a, b>> \o Rest
    BY <1>3 DEF Invalidate, Then
  <2>2. f \in Files
    BY <1>1, <1>3
  <2>3. directory[f] \in Dirs
    BY <2>2, DirectoryTyped
  <2>4. a \in Frames
    BY <2>3, CallFacts DEF Routines
  <2>5. b \in Frames
    BY <1>1, <2>3, CallForFacts DEF Routines
  <2> HIDE DEF a, b
  <2>6. <<a, b>> \o Rest = Push(a, Push(b, Rest))
    BY <1>1, <2>4, <2>5, PushTwo, Zenon
  <2> QED
    BY <1>1, <2>1, <2>2, <2>6 DEF a, b
<1> QED
  BY <1>2, <1>3

LEMMA ReloadStack ==
  ASSUME Typed, Reload
  PROVE  todo' = Push(Call("load cancel", This.dir), Push(Call("unloaded", This.dir), Rest))
<1> DEFINE a == Call("load cancel", This.dir)
           b == Call("unloaded", This.dir)
<1>1. This.dir \in Dirs /\ Rest \in Seq(Frames)
  BY TopIs DEF Reload, Typed
<1>2. a \in Frames /\ b \in Frames
  BY <1>1, CallFacts DEF Routines
<1>3. todo' = <<a, b>> \o Rest
  BY DEF Reload, Then
<1> HIDE DEF a, b
<1>4. <<a, b>> \o Rest = Push(a, Push(b, Rest))
  BY <1>1, <1>2, PushTwo, Zenon
<1> QED
  BY <1>3, <1>4 DEF a, b

LEMMA UnloadedStack ==
  ASSUME Typed, Unloaded
  PROVE  todo' = Push(ParentCount(This.dir), Push(Call("reloaded", This.dir), Rest))
<1> DEFINE a == ParentCount(This.dir)
           b == Call("reloaded", This.dir)
<1>1. This.dir \in Dirs /\ Rest \in Seq(Frames)
  BY TopIs DEF Unloaded, Typed
<1>2. a \in Frames /\ b \in Frames
  BY <1>1, CallFacts, StandingTyped DEF Routines
<1>3. todo' = <<a, b>> \o Rest
  BY DEF Unloaded, Then
<1> HIDE DEF a, b
<1>4. <<a, b>> \o Rest = Push(a, Push(b, Rest))
  BY <1>1, <1>2, PushTwo, Zenon
<1> QED
  BY <1>3, <1>4 DEF a, b

LEMMA NotifyFileRemovedStack ==
  ASSUME Typed, NEW f \in Files, NotifyFileRemoved(f)
  PROVE  todo' = Push(Call("state changed", directory[f]), Push(ParentCount(directory[f]), <<>>))
<1> DEFINE a == Call("state changed", directory[f])
           b == ParentCount(directory[f])
<1>1. directory[f] \in Dirs
  BY DirectoryTyped
<1>2. a \in Frames /\ b \in Frames
  BY <1>1, CallFacts, StandingTyped DEF Routines
<1>3. todo' = <<a, b>>
  BY DEF NotifyFileRemoved
<1> HIDE DEF a, b
<1>4. <<a, b>> = Push(a, Push(b, <<>>))
  BY <1>2, PushAlone, Zenon
<1> QED
  BY <1>3, <1>4 DEF a, b

LEMMA InvalidateFileStack ==
  ASSUME Typed, NEW f \in Files, InvalidateFile(f, AllAttributes)
  PROVE  /\ AllAttributes \in SUBSET Kinds
         /\ todo' = Push(Call("state changed", directory[f]),
                         Push(CallFor("cancelled", directory[f], f, AllAttributes), <<>>))
<1> DEFINE a == Call("state changed", directory[f])
           b == CallFor("cancelled", directory[f], f, AllAttributes)
<1>1. directory[f] \in Dirs
  BY DirectoryTyped
<1>2. AllAttributes \in SUBSET Kinds /\ AllAttributes \in SUBSET (Kinds \cup Monitors) /\ "cancelled" \in Routines
  BY DEF AllAttributes, Routines
<1>3. a \in Frames
  BY <1>1, CallFacts DEF Routines
<1>4. b \in Frames
  BY <1>1, <1>2, CallForFacts
<1>5. todo' = <<a, b>>
  BY DEF InvalidateFile
<1> HIDE DEF a, b
<1>6. <<a, b>> = Push(a, Push(b, <<>>))
  BY <1>3, <1>4, PushAlone, Zenon
<1> QED
  BY <1>2, <1>5, <1>6 DEF a, b

LEMMA ForceReloadStack ==
  ASSUME NEW d \in Dirs, ForceReload(d)
  PROVE  todo' = Push(Call("state changed", d), Push(Call("reload", d), <<>>))
<1> DEFINE a == Call("state changed", d)
           b == Call("reload", d)
<1>1. a \in Frames /\ b \in Frames
  BY CallFacts DEF Routines
<1>2. todo' = <<a, b>>
  BY DEF ForceReload
<1> HIDE DEF a, b
<1>3. <<a, b>> = Push(a, Push(b, <<>>))
  BY <1>1, PushAlone, Zenon
<1> QED
  BY <1>2, <1>3 DEF a, b

LEMMA AfterLoadStack ==
  ASSUME NEW d \in Dirs
  PROVE  AfterLoad(d) = Push(Call("state changed", d), Push(Call("told", d),
                          Push(Call("state changed", d), Push(Call("load cancel", d), <<>>))))
<1> DEFINE a == Call("state changed", d)
           b == Call("told", d)
           c == Call("load cancel", d)
<1>1. a \in Frames /\ b \in Frames /\ c \in Frames
  BY CallFacts DEF Routines
<1>2. AfterLoad(d) = <<a, b, a, c>>
  BY DEF AfterLoad
<1> HIDE DEF a, b, c
<1>3. <<a, b, a, c>> = Push(a, Push(b, Push(a, Push(c, <<>>))))
  BY <1>1, FourAlone
<1> QED
  BY <1>2, <1>3 DEF a, b, c

-----------------------------------------------------------------------------
(* What is on the stack after each step                                    *)

\* t is r with calls C on top, given by their routines and directories.
More(t, r, C) ==
  /\ t \in Seq(Frames) /\ (PlainCalls(t) <=> PlainCalls(r))
  /\ \A y, e : On(t, y, e) <=> <<y, e>> \in C \/ On(r, y, e)
\* None of them is held, and no file waits to be queued again.
Plainly(t, r) ==
  /\ \A f : Requeued(t, f) <=> Requeued(r, f)
  /\ \A e : Held(t, e) <=> Held(r, e)

LoopCalls(d) == {"file list", "stop", "queues", "ready"} \X {d}

LEMMA EnteredMore ==
  ASSUME NEW r \in Seq(Frames), NEW d \in Dirs
  PROVE  /\ More(Entered(d, r), r, LoopCalls(d)) /\ Plainly(Entered(d, r), r)
         /\ Lawful(r) /\ ~On(r, "ready", d) /\ ~On(r, "queues", d) /\ ~On(r, "stop", d) /\ ~On(r, "file list", d)
              => Lawful(Entered(d, r))
<1> DEFINE t == Entered(d, r)
<1>1. /\ t \in Seq(Frames) /\ (PlainCalls(t) <=> PlainCalls(r))
      /\ \A x, e : On(t, x, e) <=> (e = d /\ x \in {"file list", "stop", "queues", "ready"}) \/ On(r, x, e)
      /\ \A f : Requeued(t, f) <=> Requeued(r, f)
      /\ \A e : Held(t, e) <=> Held(r, e)
      /\ Lawful(r) /\ ~On(r, "ready", d) /\ ~On(r, "queues", d) /\ ~On(r, "stop", d) /\ ~On(r, "file list", d)
           => Lawful(t)
  BY EnteredFacts
<1> HIDE DEF t
<1> QED
  BY <1>1 DEF t, More, Plainly, LoopCalls

LEMMA FreeMore ==
  ASSUME NEW r \in Seq(Frames), NEW d \in Dirs, NEW x \in {"state changed", "wake up", "waking", "told"}
  PROVE  LET t == Push(Call(x, d), r)
         IN More(t, r, {<<x, d>>}) /\ Plainly(t, r) /\ (Lawful(t) <=> Lawful(r))
<1> DEFINE t == Push(Call(x, d), r)
<1>1. /\ t \in Seq(Frames) /\ (PlainCalls(t) <=> PlainCalls(r)) /\ (Lawful(t) <=> Lawful(r))
      /\ \A y, e : On(t, y, e) <=> (y = x /\ e = d) \/ On(r, y, e)
      /\ \A f : Requeued(t, f) <=> Requeued(r, f)
      /\ \A e : Held(t, e) <=> Held(r, e)
  BY FreeOn
<1> HIDE DEF t
<1> QED
  BY <1>1 DEF t, More, Plainly

\* The same, spelled out.
LEMMA MoreOne ==
  \A t, r, x, d : More(t, r, {<<x, d>>}) =>
    \A y, e : On(t, y, e) <=> (y = x /\ e = d) \/ On(r, y, e)
BY DEF More

LEMMA MoreTwo ==
  \A t, r, x, d, x2, d2 : More(t, r, {<<x, d>>, <<x2, d2>>}) =>
    \A y, e : On(t, y, e) <=> (y = x /\ e = d) \/ (y = x2 /\ e = d2) \/ On(r, y, e)
BY DEF More

LEMMA MoreThree ==
  \A t, r, x, d, x2, d2, x3, d3 : More(t, r, {<<x, d>>, <<x2, d2>>, <<x3, d3>>}) =>
    \A y, e : On(t, y, e) <=> (y = x /\ e = d) \/ (y = x2 /\ e = d2) \/ (y = x3 /\ e = d3) \/ On(r, y, e)
BY DEF More

LEMMA MoreLoop ==
  \A t, r, d : More(t, r, LoopCalls(d)) =>
    \A y, e : On(t, y, e) <=> (y \in {"file list", "stop", "queues", "ready"} /\ e = d) \/ On(r, y, e)
BY DEF More, LoopCalls

\* Calls on top of calls.
LEMMA MoreMore ==
  \A t, s, r, C, D : More(t, s, C) /\ More(s, r, D) => More(t, r, C \cup D)
BY DEF More

LEMMA PlainlyMore ==
  \A t, s, r : Plainly(t, s) /\ Plainly(s, r) => Plainly(t, r)
BY DEF Plainly

LEMMA LoadCancelOn ==
  ASSUME Typed, LoadCancel
  PROVE  /\ This.dir \in Dirs /\ Rest \in Seq(Frames)
         /\ \/ ~InProgress(This.dir, "list") /\ todo' = Rest
            \/ /\ InProgress(This.dir, "list")
               /\ \/ /\ LoadFile(This.dir) \notin Files \/ directory[LoadFile(This.dir)] = This.dir
                     /\ More(todo', Rest, {<<"load ended", This.dir>>})
                  \/ /\ LoadFile(This.dir) \in Files /\ directory[LoadFile(This.dir)] \in Dirs \ {This.dir}
                     /\ More(todo', Rest, {<<"load ended", This.dir>>, <<"state changed", directory[LoadFile(This.dir)]>>})
               /\ \A f : Requeued(todo', f) <=> Requeued(Rest, f)
               /\ \A e : Held(todo', e) <=> (e = This.dir /\ On(Rest, "ready", e)) \/ Held(Rest, e)
               /\ Lawful(todo) => Lawful(todo')
<1> DEFINE d == This.dir
           r == Rest
           t == Push(Call("load ended", d), r)
<1>1. d \in Dirs /\ r \in Seq(Frames)
  BY TopIs DEF LoadCancel, Typed
<1>2. Lawful(todo) => Legal(This, r) /\ Lawful(r)
  BY TopOn DEF LoadCancel, Typed
<1>3. This.do = "load cancel"
  BY DEF LoadCancel, Running, This
<1> HIDE DEF d, r
<1>4. /\ t \in Seq(Frames) /\ (PlainCalls(t) <=> PlainCalls(r))
      /\ \A y, e : On(t, y, e) <=> (y = "load ended" /\ e = d) \/ On(r, y, e)
      /\ \A f : Requeued(t, f) <=> Requeued(r, f)
      /\ \A e : Held(t, e) <=> (e = d /\ On(r, "ready", e)) \/ Held(r, e)
      /\ Lawful(t) <=> Legal(Call("load ended", d), r) /\ Lawful(r)
  BY <1>1, CallOn DEF Routines, Loads
<1>5. More(t, r, {<<"load ended", d>>})
  <2> HIDE DEF t
  <2> QED
    BY <1>4 DEF More
<1>6. Lawful(todo) => Lawful(t)
  BY <1>3, <1>2, <1>4 DEF Call, Legal, Loads, Bases, d
<1>7. CASE ~InProgress(d, "list")
  BY <1>1, <1>7, LoadCancelStack DEF d, r
<1>8. CASE InProgress(d, "list")
  <2> DEFINE g == LoadFile(d)
             u == Push(Call("state changed", directory[g]), t)
  <2>1. CASE todo' = t /\ (g \notin Files \/ directory[g] = d)
    <3> HIDE DEF t, g
    <3> QED
      BY <1>1, <1>4, <1>5, <1>6, <1>8, <2>1 DEF d, r, g
  <2>2. CASE todo' = u /\ g \in Files /\ directory[g] # d
    <3>1. directory[g] \in Dirs
      BY <2>2, DirectoryTyped
    <3> HIDE DEF t, g
    <3>2. More(u, t, {<<"state changed", directory[g]>>}) /\ Plainly(u, t) /\ (Lawful(u) <=> Lawful(t))
      BY <1>4, <3>1, FreeMore
    <3>3. More(u, r, {<<"state changed", directory[g]>>} \cup {<<"load ended", d>>})
      BY <1>5, <3>2, MoreMore, Zenon
    <3>4. {<<"state changed", directory[g]>>} \cup {<<"load ended", d>>} = {<<"load ended", d>>, <<"state changed", directory[g]>>}
      OBVIOUS
    <3>5. More(u, r, {<<"load ended", d>>, <<"state changed", directory[g]>>})
      BY <3>3, <3>4
    <3> HIDE DEF u
    <3> QED
      BY <1>1, <1>4, <1>6, <1>8, <2>2, <3>1, <3>2, <3>5 DEF d, r, g, Plainly
  <2> QED
    BY <1>8, <2>1, <2>2, LoadCancelStack DEF d, r
<1> QED
  BY <1>7, <1>8

LEMMA InvalidateOn ==
  ASSUME Typed, Invalidate
  PROVE  /\ This.dir \in Dirs /\ Rest \in Seq(Frames)
         /\ \/ This.file = NoFile /\ todo' = Rest
            \/ /\ This.file \in Files /\ directory[This.file] \in Dirs /\ This.set \in SUBSET Kinds
               /\ More(todo', Rest, {<<"state changed", directory[This.file]>>, <<"cancelled", directory[This.file]>>})
               /\ \A f : Requeued(todo', f) <=> f = This.file \/ Requeued(Rest, f)
               /\ \A e : Held(todo', e) <=> Held(Rest, e)
               /\ Lawful(todo') <=> Lawful(Rest)
<1>1. This.dir \in Dirs /\ Rest \in Seq(Frames)
  BY TopIs DEF Invalidate, Typed
<1>2. CASE This.file = NoFile
  BY <1>1, <1>2, InvalidateStack, JobsAssumption
<1>3. CASE This.file # NoFile
  <2> DEFINE g == This.file
             s == This.set
             d == directory[g]
             t == Push(CallFor("cancelled", d, g, s), Rest)
             u == Push(Call("state changed", d), t)
  <2>1. g \in Files /\ s \in SUBSET Kinds /\ todo' = u
    BY <1>3, InvalidateStack
  <2>2. d \in Dirs
    BY <2>1, DirectoryTyped
  <2> HIDE DEF g, s, d
  <2>3. /\ t \in Seq(Frames) /\ (PlainCalls(t) <=> PlainCalls(Rest)) /\ (Lawful(t) <=> Lawful(Rest))
        /\ \A y, e : On(t, y, e) <=> (y = "cancelled" /\ e = d) \/ On(Rest, y, e)
        /\ \A f : Requeued(t, f) <=> f = g \/ Requeued(Rest, f)
        /\ \A e : Held(t, e) <=> Held(Rest, e)
    BY <1>1, <2>1, <2>2, CancelledOn
  <2> HIDE DEF t
  <2>4. More(t, Rest, {<<"cancelled", d>>})
    BY <2>3 DEF More
  <2>5. More(u, t, {<<"state changed", d>>}) /\ Plainly(u, t) /\ (Lawful(u) <=> Lawful(t))
    BY <2>2, <2>3, FreeMore
  <2>6. More(u, Rest, {<<"state changed", d>>} \cup {<<"cancelled", d>>})
    BY <2>4, <2>5, MoreMore, Zenon
  <2>7. {<<"state changed", d>>} \cup {<<"cancelled", d>>} = {<<"state changed", d>>, <<"cancelled", d>>}
    OBVIOUS
  <2>8. More(u, Rest, {<<"state changed", d>>, <<"cancelled", d>>})
    BY <2>6, <2>7
  <2> HIDE DEF u
  <2> QED
    BY <1>1, <2>1, <2>2, <2>3, <2>5, <2>8 DEF Plainly, d, g, s
<1> QED
  BY <1>2, <1>3

LEMMA InvalidateFileOn ==
  ASSUME Typed, NEW f \in Files, InvalidateFile(f, AllAttributes)
  PROVE  /\ directory[f] \in Dirs
         /\ More(todo', <<>>, {<<"state changed", directory[f]>>, <<"cancelled", directory[f]>>})
         /\ Requeued(todo', f) /\ (\A e : ~Held(todo', e)) /\ Lawful(todo')
<1> DEFINE s == AllAttributes
           d == directory[f]
           r == <<>>
           t == Push(CallFor("cancelled", d, f, s), r)
           u == Push(Call("state changed", d), t)
<1>1. s \in SUBSET Kinds /\ todo' = u
  BY InvalidateFileStack
<1>2. d \in Dirs
  BY DirectoryTyped
<1>3. r \in Seq(Frames) /\ Lawful(r) /\ \A e : ~Held(r, e)
  BY NothingOn
<1> HIDE DEF s, d, r
<1>4. /\ t \in Seq(Frames) /\ (PlainCalls(t) <=> PlainCalls(r)) /\ (Lawful(t) <=> Lawful(r))
      /\ \A y, e : On(t, y, e) <=> (y = "cancelled" /\ e = d) \/ On(r, y, e)
      /\ \A g : Requeued(t, g) <=> g = f \/ Requeued(r, g)
      /\ \A e : Held(t, e) <=> Held(r, e)
  BY <1>1, <1>2, <1>3, CancelledOn
<1> HIDE DEF t
<1>5. More(t, r, {<<"cancelled", d>>})
  BY <1>4 DEF More
<1>6. More(u, t, {<<"state changed", d>>}) /\ Plainly(u, t) /\ (Lawful(u) <=> Lawful(t))
  BY <1>2, <1>4, FreeMore
<1>7. More(u, r, {<<"state changed", d>>} \cup {<<"cancelled", d>>})
  BY <1>5, <1>6, MoreMore, Zenon
<1>8. {<<"state changed", d>>} \cup {<<"cancelled", d>>} = {<<"state changed", d>>, <<"cancelled", d>>}
  OBVIOUS
<1>9. More(u, r, {<<"state changed", d>>, <<"cancelled", d>>})
  BY <1>7, <1>8
<1> HIDE DEF u
<1> QED
  BY <1>1, <1>2, <1>3, <1>4, <1>6, <1>9 DEF Plainly, d, r

\* The count of d is invalidated.
LEMMA ParentMore ==
  ASSUME NEW r \in Seq(Frames), NEW d \in Dirs
  PROVE  LET t == Push(ParentCount(d), r)
         IN More(t, r, {<<"invalidate", d>>}) /\ Plainly(t, r) /\ (Lawful(t) <=> Lawful(r))
<1> DEFINE t == Push(ParentCount(d), r)
<1>1. /\ t \in Seq(Frames) /\ (PlainCalls(t) <=> PlainCalls(r)) /\ (Lawful(t) <=> Lawful(r))
      /\ \A y, e : On(t, y, e) <=> (y = "invalidate" /\ e = d) \/ On(r, y, e)
      /\ \A f : Requeued(t, f) <=> Requeued(r, f)
      /\ \A e : Held(t, e) <=> Held(r, e)
  BY ParentCountOn
<1> HIDE DEF t
<1> QED
  BY <1>1 DEF t, More, Plainly

\* Routines that stand only where Legal says.
LEMMA GuardedMore ==
  ASSUME NEW r \in Seq(Frames), NEW d \in Dirs, NEW x \in {"load cancel", "reload", "unloaded", "reloaded"}
  PROVE  LET t == Push(Call(x, d), r)
         IN /\ More(t, r, {<<x, d>>}) /\ (Lawful(t) <=> Legal(Call(x, d), r) /\ Lawful(r))
            /\ \A f : Requeued(t, f) <=> Requeued(r, f)
            /\ \A e : Held(t, e) <=> (x = "load cancel" /\ e = d /\ On(r, "ready", e)) \/ Held(r, e)
<1> DEFINE t == Push(Call(x, d), r)
<1>1. x \in Routines \ {"detach", "attach", "cancelled"} /\ (x \in Loads <=> x = "load cancel")
  BY DEF Routines, Loads
<1>2. /\ t \in Seq(Frames) /\ (PlainCalls(t) <=> PlainCalls(r))
      /\ \A y, e : On(t, y, e) <=> (y = x /\ e = d) \/ On(r, y, e)
      /\ \A f : Requeued(t, f) <=> Requeued(r, f)
      /\ \A e : Held(t, e) <=> (x \in Loads /\ e = d /\ On(r, "ready", e)) \/ Held(r, e)
      /\ Lawful(t) <=> Legal(Call(x, d), r) /\ Lawful(r)
  BY <1>1, CallOn
<1> HIDE DEF t
<1> QED
  BY <1>1, <1>2 DEF t, More

LEMMA StateChangedOn ==
  ASSUME Typed, StateChanged
  PROVE  /\ This.dir \in Dirs /\ Rest \in Seq(Frames)
         /\ This.dir \in inLoop => todo' = Rest /\ inLoop' = inLoop /\ again' = again \cup {This.dir}
         /\ This.dir \notin inLoop =>
              /\ inLoop' = inLoop \cup {This.dir} /\ again' = again \ {This.dir}
              /\ More(todo', Rest, LoopCalls(This.dir)) /\ Plainly(todo', Rest)
              /\ (/\ Lawful(todo) /\ ~On(Rest, "ready", This.dir) /\ ~On(Rest, "queues", This.dir)
                  /\ ~On(Rest, "stop", This.dir) /\ ~On(Rest, "file list", This.dir))
                   => Lawful(todo')
<1> DEFINE d == This.dir
           r == Rest
<1>1. d \in Dirs /\ r \in Seq(Frames)
  BY TopIs DEF StateChanged, Typed
<1>2. Lawful(todo) => Lawful(r)
  BY TopOn DEF StateChanged, Typed
<1>3. /\ d \in inLoop => todo' = r /\ inLoop' = inLoop /\ again' = again \cup {d}
      /\ d \notin inLoop => todo' = Entered(d, r) /\ inLoop' = inLoop \cup {d} /\ again' = again \ {d}
  BY StateChangedStack
<1> HIDE DEF d, r
<1>4. /\ More(Entered(d, r), r, LoopCalls(d)) /\ Plainly(Entered(d, r), r)
      /\ Lawful(r) /\ ~On(r, "ready", d) /\ ~On(r, "queues", d) /\ ~On(r, "stop", d) /\ ~On(r, "file list", d)
           => Lawful(Entered(d, r))
  BY <1>1, EnteredMore
<1> QED
  BY <1>1, <1>2, <1>3, <1>4 DEF d, r

LEMMA FileListOn ==
  ASSUME Typed, FileListStartOrStop, ~(This.dir \notin monitored /\ InProgress(This.dir, "list"))
  PROVE  /\ This.dir \in Dirs /\ Rest \in Seq(Frames)
         /\ IsAnyoneMonitoringFileList(This.dir) \/ This.dir \notin monitored => todo' = Rest
         /\ ~IsAnyoneMonitoringFileList(This.dir) /\ This.dir \in monitored =>
              /\ More(todo', Rest, {<<"load cancel", This.dir>>})
              /\ \A f : Requeued(todo', f) <=> Requeued(Rest, f)
              /\ \A e : Held(todo', e) <=> (e = This.dir /\ On(Rest, "ready", e)) \/ Held(Rest, e)
              /\ (/\ Lawful(todo) /\ ~On(Rest, "load cancel", This.dir) /\ ~On(Rest, "load ended", This.dir)
                  /\ On(Rest, "ready", This.dir))
                   => Lawful(todo')
<1> DEFINE d == This.dir
           r == Rest
           t == Push(Call("load cancel", d), r)
<1>1. d \in Dirs /\ r \in Seq(Frames)
  BY TopIs DEF FileListStartOrStop, Typed
<1>2. Lawful(todo) => Lawful(r)
  BY TopOn DEF FileListStartOrStop, Typed
<1>3. todo' = IF ~IsAnyoneMonitoringFileList(d) /\ d \in monitored THEN t ELSE r
  BY FileListStack
<1> HIDE DEF d, r
<1>4. /\ More(t, r, {<<"load cancel", d>>}) /\ (Lawful(t) <=> Legal(Call("load cancel", d), r) /\ Lawful(r))
      /\ \A f : Requeued(t, f) <=> Requeued(r, f)
      /\ \A e : Held(t, e) <=> (e = d /\ On(r, "ready", e)) \/ Held(r, e)
  BY <1>1, GuardedMore
<1>5. ~On(r, "load cancel", d) /\ ~On(r, "load ended", d) /\ On(r, "ready", d) => Legal(Call("load cancel", d), r)
  BY <1>1 DEF Call, Legal, Loads, Bases
<1> HIDE DEF t
<1> QED
  BY <1>1, <1>2, <1>3, <1>4, <1>5 DEF d, r

LEMMA CallReadyOn ==
  ASSUME Typed, CallReadyCallbacks
  PROVE  /\ This.dir \in Dirs /\ Rest \in Seq(Frames) /\ again' = again \ {This.dir}
         /\ \/ /\ inLoop' = inLoop /\ More(todo', Rest, LoopCalls(This.dir)) /\ Plainly(todo', Rest)
               /\ Lawful(todo) => Lawful(todo')
            \/ /\ This.dir \notin again /\ Found(This.dir) = {} /\ inLoop' = inLoop \ {This.dir}
               /\ More(todo', Rest, {<<"wake up", This.dir>>}) /\ Plainly(todo', Rest)
               /\ Lawful(todo) => Lawful(todo')
<1> DEFINE d == This.dir
           r == Rest
<1>1. d \in Dirs /\ r \in Seq(Frames) /\ This.do = "ready"
  BY TopIs DEF CallReadyCallbacks, Typed
<1>2. Lawful(todo) => Lawful(r) /\ Legal(This, r)
  BY TopOn DEF CallReadyCallbacks, Typed
<1>3. Lawful(todo) => Lawful(r) /\ ~On(r, "ready", d) /\ ~On(r, "queues", d) /\ ~On(r, "stop", d) /\ ~On(r, "file list", d)
  BY <1>1, <1>2 DEF Legal
<1>4. /\ again' = again \ {d}
      /\ \/ todo' = Entered(d, r) /\ inLoop' = inLoop
         \/ /\ d \notin again /\ Found(d) = {}
            /\ todo' = Push(Call("wake up", d), r) /\ inLoop' = inLoop \ {d}
  BY CallReadyStack
<1> HIDE DEF d, r
<1>5. /\ More(Entered(d, r), r, LoopCalls(d)) /\ Plainly(Entered(d, r), r)
      /\ Lawful(r) /\ ~On(r, "ready", d) /\ ~On(r, "queues", d) /\ ~On(r, "stop", d) /\ ~On(r, "file list", d)
           => Lawful(Entered(d, r))
  BY <1>1, EnteredMore
<1> DEFINE t == Push(Call("wake up", d), r)
<1>6. More(t, r, {<<"wake up", d>>}) /\ Plainly(t, r) /\ (Lawful(t) <=> Lawful(r))
  BY <1>1, FreeMore
<1>7. CASE todo' = Entered(d, r) /\ inLoop' = inLoop
  BY <1>1, <1>3, <1>4, <1>5, <1>7 DEF d, r
<1>8. CASE d \notin again /\ Found(d) = {} /\ todo' = t /\ inLoop' = inLoop \ {d}
  <2> HIDE DEF t
  <2> QED
    BY <1>1, <1>3, <1>4, <1>6, <1>8 DEF d, r
<1> QED
  BY <1>4, <1>7, <1>8

LEMMA ReloadOn ==
  ASSUME Typed, Reload
  PROVE  /\ This.dir \in Dirs /\ Rest \in Seq(Frames)
         /\ More(todo', Rest, {<<"load cancel", This.dir>>, <<"unloaded", This.dir>>})
         /\ \A f : Requeued(todo', f) <=> Requeued(Rest, f)
         /\ \A e : Held(todo', e) <=> (e = This.dir /\ On(Rest, "ready", e)) \/ Held(Rest, e)
         /\ Lawful(todo) => Lawful(todo') /\ Rest = <<>>
<1> DEFINE d == This.dir
           r == Rest
           t == Push(Call("unloaded", d), r)
           u == Push(Call("load cancel", d), t)
<1>1. d \in Dirs /\ r \in Seq(Frames) /\ This.do = "reload"
  BY TopIs DEF Reload, Typed
<1>2. Lawful(todo) => Lawful(r) /\ Legal(This, r)
  BY TopOn DEF Reload, Typed
<1>3. Lawful(todo) => Lawful(r) /\ r = <<>>
  BY <1>1, <1>2 DEF Legal, Bases
<1>4. todo' = u
  BY ReloadStack
<1> HIDE DEF d, r
<1>5. /\ More(t, r, {<<"unloaded", d>>}) /\ (Lawful(t) <=> Legal(Call("unloaded", d), r) /\ Lawful(r))
      /\ \A f : Requeued(t, f) <=> Requeued(r, f)
      /\ \A e : Held(t, e) <=> Held(r, e)
  BY <1>1, GuardedMore
<1>6. r = <<>> => Legal(Call("unloaded", d), r)
  BY DEF Legal, Loads, Call
<1> HIDE DEF t
<1>7. /\ More(u, t, {<<"load cancel", d>>}) /\ (Lawful(u) <=> Legal(Call("load cancel", d), t) /\ Lawful(t))
      /\ \A f : Requeued(u, f) <=> Requeued(t, f)
      /\ \A e : Held(u, e) <=> (e = d /\ On(t, "ready", e)) \/ Held(t, e)
  <2>1. t \in Seq(Frames)
    BY <1>5 DEF More
  <2> QED
    BY <1>1, <2>1, GuardedMore
<1>8. r = <<>> => Legal(Call("load cancel", d), t)
  <2>1. Call("load cancel", d).do = "load cancel" /\ Call("load cancel", d).dir = d
    BY DEF Call
  <2>2. ASSUME r = <<>> PROVE ~On(t, "load cancel", d) /\ ~On(t, "load ended", d) /\ On(t, "unloaded", d)
    <3>1. \A y, e : ~On(r, y, e)
      BY <2>2, NothingOn
    <3>2. \A y, e : On(t, y, e) <=> (y = "unloaded" /\ e = d) \/ On(r, y, e)
      BY <1>5, MoreOne
    <3> QED
      BY <3>1, <3>2
  <2> QED
    BY <1>1, <2>1, <2>2 DEF Legal, Loads, Bases
<1>9. More(u, r, {<<"load cancel", d>>, <<"unloaded", d>>})
  <2>1. More(u, r, {<<"load cancel", d>>} \cup {<<"unloaded", d>>})
    BY <1>5, <1>7, MoreMore, Zenon
  <2>2. {<<"load cancel", d>>} \cup {<<"unloaded", d>>} = {<<"load cancel", d>>, <<"unloaded", d>>}
    OBVIOUS
  <2> QED
    BY <2>1, <2>2
<1>10. \A e : On(t, "ready", e) <=> On(r, "ready", e)
  BY <1>5 DEF More
<1> HIDE DEF u
<1>11. /\ \A f : Requeued(u, f) <=> Requeued(r, f)
       /\ \A e : Held(u, e) <=> (e = d /\ On(r, "ready", e)) \/ Held(r, e)
  BY <1>5, <1>7, <1>10
<1>12. Lawful(todo) => Lawful(u) /\ r = <<>>
  BY <1>3, <1>5, <1>6, <1>7, <1>8
<1> QED
  BY <1>1, <1>4, <1>9, <1>11, <1>12 DEF d, r

LEMMA UnloadedOn ==
  ASSUME Typed, Unloaded
  PROVE  /\ This.dir \in Dirs /\ Rest \in Seq(Frames)
         /\ More(todo', Rest, {<<"invalidate", This.dir>>, <<"reloaded", This.dir>>}) /\ Plainly(todo', Rest)
         /\ Lawful(todo) => Lawful(todo') /\ Rest = <<>>
<1> DEFINE d == This.dir
           r == Rest
           t == Push(Call("reloaded", d), r)
           u == Push(ParentCount(d), t)
<1>1. d \in Dirs /\ r \in Seq(Frames) /\ This.do = "unloaded"
  BY TopIs DEF Unloaded, Typed
<1>2. Lawful(todo) => Lawful(r) /\ Legal(This, r)
  BY TopOn DEF Unloaded, Typed
<1>3. Lawful(todo) => Lawful(r) /\ r = <<>>
  BY <1>1, <1>2 DEF Legal, Bases
<1>4. todo' = u
  BY UnloadedStack
<1> HIDE DEF d, r
<1>5. /\ More(t, r, {<<"reloaded", d>>}) /\ (Lawful(t) <=> Legal(Call("reloaded", d), r) /\ Lawful(r))
      /\ \A f : Requeued(t, f) <=> Requeued(r, f)
      /\ \A e : Held(t, e) <=> Held(r, e)
  BY <1>1, GuardedMore
<1>6. r = <<>> => Legal(Call("reloaded", d), r)
  BY DEF Legal, Loads, Call
<1> HIDE DEF t
<1>7. More(u, t, {<<"invalidate", d>>}) /\ Plainly(u, t) /\ (Lawful(u) <=> Lawful(t))
  <2>1. t \in Seq(Frames)
    BY <1>5 DEF More
  <2> QED
    BY <1>1, <2>1, ParentMore
<1>8. More(u, r, {<<"invalidate", d>>, <<"reloaded", d>>})
  <2>1. More(u, r, {<<"invalidate", d>>} \cup {<<"reloaded", d>>})
    BY <1>5, <1>7, MoreMore, Zenon
  <2>2. {<<"invalidate", d>>} \cup {<<"reloaded", d>>} = {<<"invalidate", d>>, <<"reloaded", d>>}
    OBVIOUS
  <2> QED
    BY <2>1, <2>2
<1> HIDE DEF u
<1>9. Plainly(u, r)
  BY <1>5, <1>7 DEF Plainly
<1>10. Lawful(todo) => Lawful(u) /\ r = <<>>
  BY <1>3, <1>5, <1>6, <1>7
<1> QED
  BY <1>1, <1>4, <1>8, <1>9, <1>10 DEF d, r

\* A single state change is to be made.
LEMMA ServedOn ==
  ASSUME NEW d \in Dirs, NEW t, t = <<Call("state changed", d)>>
  PROVE  More(t, <<>>, {<<"state changed", d>>}) /\ Plainly(t, <<>>) /\ Lawful(t)
<1> DEFINE u == Push(Call("state changed", d), <<>>)
<1>1. t = u
  BY PushAlone
<1>2. <<>> \in Seq(Frames) /\ Lawful(<<>>)
  BY NothingOn
<1>3. More(u, <<>>, {<<"state changed", d>>}) /\ Plainly(u, <<>>) /\ (Lawful(u) <=> Lawful(<<>>))
  BY <1>2, FreeMore
<1> QED
  BY <1>1, <1>2, <1>3

LEMMA NotifyFileRemovedOn ==
  ASSUME Typed, NEW f \in Files, NotifyFileRemoved(f)
  PROVE  /\ directory[f] \in Dirs
         /\ More(todo', <<>>, {<<"state changed", directory[f]>>, <<"invalidate", directory[f]>>})
         /\ Plainly(todo', <<>>) /\ Lawful(todo')
<1> DEFINE d == directory[f]
           r == <<>>
           t == Push(ParentCount(d), r)
           u == Push(Call("state changed", d), t)
<1>1. todo' = u
  BY NotifyFileRemovedStack
<1>2. d \in Dirs
  BY DirectoryTyped
<1>3. r \in Seq(Frames) /\ Lawful(r)
  BY NothingOn
<1> HIDE DEF d, r
<1>4. More(t, r, {<<"invalidate", d>>}) /\ Plainly(t, r) /\ (Lawful(t) <=> Lawful(r))
  BY <1>2, <1>3, ParentMore
<1> HIDE DEF t
<1>5. More(u, t, {<<"state changed", d>>}) /\ Plainly(u, t) /\ (Lawful(u) <=> Lawful(t))
  <2>1. t \in Seq(Frames)
    BY <1>4 DEF More
  <2> QED
    BY <1>2, <2>1, FreeMore
<1>6. More(u, r, {<<"state changed", d>>, <<"invalidate", d>>})
  <2>1. More(u, r, {<<"state changed", d>>} \cup {<<"invalidate", d>>})
    BY <1>4, <1>5, MoreMore, Zenon
  <2>2. {<<"state changed", d>>} \cup {<<"invalidate", d>>} = {<<"state changed", d>>, <<"invalidate", d>>}
    OBVIOUS
  <2> QED
    BY <2>1, <2>2
<1> HIDE DEF u
<1> QED
  BY <1>1, <1>2, <1>3, <1>4, <1>5, <1>6, PlainlyMore DEF d, r

LEMMA ForceReloadOn ==
  ASSUME NEW d \in Dirs, ForceReload(d)
  PROVE  /\ More(todo', <<>>, {<<"state changed", d>>, <<"reload", d>>})
         /\ Plainly(todo', <<>>) /\ Lawful(todo')
<1> DEFINE r == <<>>
           t == Push(Call("reload", d), r)
           u == Push(Call("state changed", d), t)
<1>1. todo' = u
  BY ForceReloadStack
<1>2. r \in Seq(Frames) /\ Lawful(r)
  BY NothingOn
<1>3. Legal(Call("reload", d), r)
  BY DEF Legal, Loads, Call
<1> HIDE DEF r
<1>4. /\ More(t, r, {<<"reload", d>>}) /\ (Lawful(t) <=> Legal(Call("reload", d), r) /\ Lawful(r))
      /\ \A f : Requeued(t, f) <=> Requeued(r, f)
      /\ \A e : Held(t, e) <=> Held(r, e)
  BY <1>2, GuardedMore
<1> HIDE DEF t
<1>5. More(u, t, {<<"state changed", d>>}) /\ Plainly(u, t) /\ (Lawful(u) <=> Lawful(t))
  <2>1. t \in Seq(Frames)
    BY <1>4 DEF More
  <2> QED
    BY <2>1, FreeMore
<1>6. More(u, r, {<<"state changed", d>>, <<"reload", d>>})
  <2>1. More(u, r, {<<"state changed", d>>} \cup {<<"reload", d>>})
    BY <1>4, <1>5, MoreMore, Zenon
  <2>2. {<<"state changed", d>>} \cup {<<"reload", d>>} = {<<"state changed", d>>, <<"reload", d>>}
    OBVIOUS
  <2> QED
    BY <2>1, <2>2
<1> HIDE DEF u
<1>7. Plainly(u, r)
  BY <1>4, <1>5 DEF Plainly
<1> QED
  BY <1>1, <1>2, <1>3, <1>4, <1>5, <1>6, <1>7 DEF r

LEMMA AfterLoadOn ==
  ASSUME NEW d \in Dirs
  PROVE  LET t == AfterLoad(d)
         IN /\ More(t, <<>>, {<<"state changed", d>>, <<"told", d>>, <<"load cancel", d>>})
            /\ Plainly(t, <<>>) /\ Lawful(t)
<1> DEFINE r == <<>>
           t3 == Push(Call("load cancel", d), r)
           t2 == Push(Call("state changed", d), t3)
           t1 == Push(Call("told", d), t2)
           t0 == Push(Call("state changed", d), t1)
<1>1. AfterLoad(d) = t0
  BY AfterLoadStack
<1>2. r \in Seq(Frames) /\ Lawful(r) /\ \A x, e : ~On(r, x, e)
  BY NothingOn
<1>3. Legal(Call("load cancel", d), r)
  BY <1>2 DEF Legal, Loads, Bases, Call
<1> HIDE DEF r
<1>4. /\ More(t3, r, {<<"load cancel", d>>}) /\ (Lawful(t3) <=> Legal(Call("load cancel", d), r) /\ Lawful(r))
      /\ \A f : Requeued(t3, f) <=> Requeued(r, f)
      /\ \A e : Held(t3, e) <=> (e = d /\ On(r, "ready", e)) \/ Held(r, e)
  BY <1>2, GuardedMore
<1> HIDE DEF t3
<1>5. More(t2, t3, {<<"state changed", d>>}) /\ Plainly(t2, t3) /\ (Lawful(t2) <=> Lawful(t3))
  <2>1. t3 \in Seq(Frames)
    BY <1>4 DEF More
  <2> QED
    BY <2>1, FreeMore
<1> HIDE DEF t2
<1>6. More(t1, t2, {<<"told", d>>}) /\ Plainly(t1, t2) /\ (Lawful(t1) <=> Lawful(t2))
  <2>1. t2 \in Seq(Frames)
    BY <1>5 DEF More
  <2> QED
    BY <2>1, FreeMore
<1> HIDE DEF t1
<1>7. More(t0, t1, {<<"state changed", d>>}) /\ Plainly(t0, t1) /\ (Lawful(t0) <=> Lawful(t1))
  <2>1. t1 \in Seq(Frames)
    BY <1>6 DEF More
  <2> QED
    BY <2>1, FreeMore
<1> HIDE DEF t0
<1>8. More(t0, r, {<<"state changed", d>>} \cup ({<<"told", d>>} \cup ({<<"state changed", d>>} \cup {<<"load cancel", d>>})))
  BY <1>4, <1>5, <1>6, <1>7, MoreMore, Zenon
<1>9. {<<"state changed", d>>} \cup ({<<"told", d>>} \cup ({<<"state changed", d>>} \cup {<<"load cancel", d>>}))
        = {<<"state changed", d>>, <<"told", d>>, <<"load cancel", d>>}
  OBVIOUS
<1>10. More(t0, r, {<<"state changed", d>>, <<"told", d>>, <<"load cancel", d>>})
  BY <1>8, <1>9
<1>11. Plainly(t0, r)
  BY <1>2, <1>4, <1>5, <1>6, <1>7 DEF Plainly
<1> QED
  BY <1>1, <1>2, <1>3, <1>4, <1>5, <1>6, <1>7, <1>10, <1>11 DEF r

LEMMA CancelledStack ==
  ASSUME Typed, Cancelled
  PROVE  /\ This.file \in Files /\ This.set \subseteq Kinds /\ directory[This.file] \in Dirs /\ Rest \in Seq(Frames)
         /\ More(todo', Rest, {<<"state changed", directory[This.file]>>}) /\ Plainly(todo', Rest)
         /\ Lawful(todo') <=> Lawful(Rest)
<1> DEFINE d == directory[This.file]
           r == Rest
<1>1. This.file \in Files /\ This.set \subseteq Kinds /\ r \in Seq(Frames)
  BY TopIs DEF Cancelled, Typed, Plain
<1>2. d \in Dirs
  BY <1>1, DirectoryTyped
<1>3. todo' = Push(Call("state changed", d), r)
  BY DEF Cancelled, Then, Push
<1> HIDE DEF d, r
<1>4. LET t == Push(Call("state changed", d), r)
      IN More(t, r, {<<"state changed", d>>}) /\ Plainly(t, r) /\ (Lawful(t) <=> Lawful(r))
  BY <1>1, <1>2, FreeMore
<1> QED
  BY <1>1, <1>2, <1>3, <1>4 DEF d, r

LEMMA ReloadedStack ==
  ASSUME Typed, Reloaded
  PROVE  /\ This.dir \in Dirs /\ Rest \in Seq(Frames)
         /\ More(todo', Rest, {<<"state changed", This.dir>>}) /\ Plainly(todo', Rest)
         /\ Lawful(todo') <=> Lawful(Rest)
<1> DEFINE d == This.dir
           r == Rest
<1>1. d \in Dirs /\ r \in Seq(Frames)
  BY TopIs DEF Reloaded, Typed
<1>2. todo' = Push(Call("state changed", d), r)
  BY DEF Reloaded, Then, Push
<1> HIDE DEF d, r
<1>3. LET t == Push(Call("state changed", d), r)
      IN More(t, r, {<<"state changed", d>>}) /\ Plainly(t, r) /\ (Lawful(t) <=> Lawful(r))
  BY <1>1, FreeMore
<1> QED
  BY <1>1, <1>2, <1>3 DEF d, r

LEMMA WakeUpStack ==
  ASSUME Typed, WakeUp
  PROVE  /\ This.dir \in Dirs /\ Rest \in Seq(Frames)
         /\ \/ waking /\ waking' = waking /\ todo' = Rest
            \/ /\ waking' = TRUE
               /\ More(todo', Rest, {<<"waking", This.dir>>}) /\ Plainly(todo', Rest)
               /\ Lawful(todo') <=> Lawful(Rest)
<1> DEFINE d == This.dir
           r == Rest
<1>1. d \in Dirs /\ r \in Seq(Frames)
  BY TopIs DEF WakeUp, Typed
<1>2. \/ waking /\ waking' = waking /\ todo' = r
      \/ waking' = TRUE /\ todo' = Push(Call("waking", d), r)
  BY DEF WakeUp, Return, Then, Push
<1> HIDE DEF d, r
<1>3. LET t == Push(Call("waking", d), r)
      IN More(t, r, {<<"waking", d>>}) /\ Plainly(t, r) /\ (Lawful(t) <=> Lawful(r))
  BY <1>1, FreeMore
<1> QED
  BY <1>1, <1>2, <1>3 DEF d, r

LEMMA WakingStack ==
  ASSUME Typed, Waking
  PROVE  \/ /\ waking' = waking /\ jobs < MaxJobs
            /\ \E d \in Dirs : /\ d \in waiting /\ waiting' = waiting \ {d}
                               /\ More(todo', todo, {<<"state changed", d>>}) /\ Plainly(todo', todo)
                               /\ Lawful(todo') <=> Lawful(todo)
         \/ /\ jobs >= MaxJobs \/ waiting = {}
            /\ waking' = FALSE /\ waiting' = waiting /\ todo' = Rest
<1>1. CASE jobs < MaxJobs /\ waking' = waking /\
           \E d \in waiting : waiting' = waiting \ {d} /\ todo' = Push(Call("state changed", d), todo)
  <2>1. PICK d \in waiting : waiting' = waiting \ {d} /\ todo' = Push(Call("state changed", d), todo)
    BY <1>1
  <2>2. d \in Dirs /\ todo \in Seq(Frames)
    BY <2>1 DEF Typed, JobsTyped, StackTyped
  <2>3. LET t == Push(Call("state changed", d), todo)
        IN More(t, todo, {<<"state changed", d>>}) /\ Plainly(t, todo) /\ (Lawful(t) <=> Lawful(todo))
    BY <2>2, FreeMore
  <2> QED
    BY <1>1, <2>1, <2>2, <2>3
<1>2. CASE (jobs >= MaxJobs \/ waiting = {}) /\ waking' = FALSE /\ waiting' = waiting /\ todo' = Rest
  BY <1>2
<1> QED
  BY <1>1, <1>2 DEF Waking, Push, Return

\* A client, an answer or an idle function changes the state of a directory.
LEMMA AskedStack ==
  ASSUME Typed
  PROVE  /\ \A m \in Monitors : MonitorAdd(m) \/ MonitorRemove(m) =>
              /\ Place(m) \in Dirs
              /\ More(todo', <<>>, {<<"state changed", Place(m)>>}) /\ Plainly(todo', <<>>) /\ Lawful(todo')
         /\ \A c \in Callbacks : CallWhenReady(c) \/ CancelCallback(c) =>
              /\ Place(c) \in Dirs
              /\ More(todo', <<>>, {<<"state changed", Place(c)>>}) /\ Plainly(todo', <<>>) /\ Lawful(todo')
         /\ \A f \in Files : NotifyFileChanged(f) =>
              /\ directory[f] \in Dirs
              /\ More(todo', <<>>, {<<"state changed", directory[f]>>}) /\ Plainly(todo', <<>>) /\ Lawful(todo')
         /\ \A d \in Dirs : (\E k \in Kinds : Answer(d, k)) \/ CallReadyCallbacksAtIdle(d) \/ DirectoryReads(d) =>
              More(todo', <<>>, {<<"state changed", d>>}) /\ Plainly(todo', <<>>) /\ Lawful(todo')
<1>0. \A d \in Dirs : todo' = <<Call("state changed", d)>> =>
        More(todo', <<>>, {<<"state changed", d>>}) /\ Plainly(todo', <<>>) /\ Lawful(todo')
  BY ServedOn
<1>1. ASSUME NEW m \in Monitors, MonitorAdd(m) \/ MonitorRemove(m)
      PROVE  Place(m) \in Dirs /\ todo' = <<Call("state changed", Place(m))>>
  BY <1>1, PlaceTyped DEF MonitorAdd, MonitorRemove
<1>2. ASSUME NEW c \in Callbacks, CallWhenReady(c) \/ CancelCallback(c)
      PROVE  Place(c) \in Dirs /\ todo' = <<Call("state changed", Place(c))>>
  BY <1>2, PlaceTyped DEF CallWhenReady, CancelCallback
<1>3. ASSUME NEW f \in Files, NotifyFileChanged(f)
      PROVE  directory[f] \in Dirs /\ todo' = <<Call("state changed", directory[f])>>
  BY <1>3, DirectoryTyped DEF NotifyFileChanged
<1>4. ASSUME NEW d \in Dirs, (\E k \in Kinds : Answer(d, k)) \/ CallReadyCallbacksAtIdle(d) \/ DirectoryReads(d)
      PROVE  todo' = <<Call("state changed", d)>>
  BY <1>4 DEF Answer, CallReadyCallbacksAtIdle, DirectoryReads
<1> QED
  BY <1>0, <1>1, <1>2, <1>3, <1>4

LEMMA StackTypedKept ==
  ASSUME Typed, Next, "Moved" \notin Changes
  PROVE  StackTyped'
<1>0. StackTyped
  BY DEF Typed
<1>1. CASE StateChanged
  BY <1>1, <1>0, TopIs, StateChangedOn DEF StateChanged, StackTyped, More
<1>2. CASE FileListStartOrStop
  <2>1. waking' \in BOOLEAN /\ aborted' \in BOOLEAN
    BY <1>2, <1>0 DEF FileListStartOrStop, StackTyped
  <2>2. CASE This.dir \notin monitored /\ InProgress(This.dir, "list")
    BY <1>2, <1>0, <2>1, <2>2 DEF FileListStartOrStop, StackTyped
  <2>3. CASE ~(This.dir \notin monitored /\ InProgress(This.dir, "list"))
    BY <1>2, TopIs, <1>0, <2>3, FileListOn, <2>1 DEF FileListStartOrStop, More, StackTyped
  <2> QED
    BY <2>2, <2>3
<1>3. CASE LoadCancel
  BY <1>3, <1>0, TopIs, LoadCancelOn DEF LoadCancel, StackTyped, More
<1>4. CASE LoadEnded
  BY <1>4, TopIs, <1>0 DEF LoadEnded, Return, StackTyped
<1>5. CASE Stop
  BY <1>5, <1>0, TopIs DEF Stop, StackTyped, Return
<1>6. CASE HighPriorityQueue
  BY <1>6, <1>0, TopIs DEF HighPriorityQueue, StackTyped, Return
<1>7. CASE LowPriorityQueue
  BY <1>7, <1>0, TopIs DEF LowPriorityQueue, StackTyped, Return
<1>8. CASE ExtensionQueue
  BY <1>8, <1>0, TopIs DEF ExtensionQueue, StackTyped, Return
<1>9. CASE QueuesEmpty
  BY <1>9, TopIs, <1>0 DEF QueuesEmpty, Return, StackTyped
<1>10. CASE CallReadyCallbacks
  BY <1>10, <1>0, TopIs, CallReadyOn DEF CallReadyCallbacks, StackTyped, More
<1>11. CASE WakeUp
  BY <1>11, <1>0, TopIs, WakeUpStack DEF WakeUp, StackTyped, More
<1>12. CASE Waking
  BY <1>12, <1>0, TopIs, WakingStack DEF Waking, StackTyped, More
<1>13. CASE Told
  BY <1>13, TopIs, <1>0 DEF Told, Return, StackTyped
<1>14. CASE Invalidate
  BY <1>14, <1>0, TopIs, InvalidateOn DEF Invalidate, StackTyped, More
<1>15. CASE Cancelled
  BY <1>15, <1>0, TopIs, CancelledStack DEF Cancelled, StackTyped, More
<1>16. CASE Reload
  BY <1>16, <1>0, TopIs, ReloadOn DEF Reload, StackTyped, More
<1>17. CASE Unloaded
  BY <1>17, <1>0, TopIs, UnloadedOn DEF Unloaded, StackTyped, More
<1>18. CASE Reloaded
  BY <1>18, <1>0, TopIs, ReloadedStack DEF Reloaded, StackTyped, More
<1>19. ASSUME NEW m \in Monitors, MonitorAdd(m) PROVE StackTyped'
  BY <1>19, <1>0, NothingOn, AskedStack DEF MonitorAdd, StackTyped, More
<1>20. ASSUME NEW m \in Monitors, MonitorRemove(m) PROVE StackTyped'
  BY <1>20, <1>0, NothingOn, AskedStack DEF MonitorRemove, StackTyped, More
<1>21. ASSUME NEW c \in Callbacks, CallWhenReady(c) PROVE StackTyped'
  BY <1>21, <1>0, NothingOn, AskedStack DEF CallWhenReady, StackTyped, More
<1>22. ASSUME NEW c \in Callbacks, CancelCallback(c) PROVE StackTyped'
  BY <1>22, <1>0, NothingOn, AskedStack DEF CancelCallback, StackTyped, More
<1>23. ASSUME NEW f \in Files, NotifyFileChanged(f) PROVE StackTyped'
  BY <1>23, <1>0, NothingOn, AskedStack DEF NotifyFileChanged, StackTyped, More
<1>24. ASSUME NEW f \in Files, NotifyFileRemoved(f) PROVE StackTyped'
  BY <1>24, <1>0, NothingOn, NotifyFileRemovedOn DEF NotifyFileRemoved, StackTyped, More
<1>25. ASSUME NEW f \in Files, InvalidateFile(f, AllAttributes) PROVE StackTyped'
  BY <1>25, <1>0, NothingOn, InvalidateFileOn DEF InvalidateFile, StackTyped, More
<1>26. ASSUME NEW d \in Dirs, ForceReload(d) PROVE StackTyped'
  BY <1>26, <1>0, NothingOn, ForceReloadOn DEF ForceReload, StackTyped, More
<1>27. ASSUME NEW d \in Dirs, NEW k \in Kinds, Answer(d, k) PROVE StackTyped'
  BY <1>27, <1>0, NothingOn, AskedStack DEF Answer, StackTyped, More
<1>28. ASSUME NEW d \in Dirs, DirectoryLoadDone(d) PROVE StackTyped'
  BY <1>28, <1>0, NothingOn, AfterLoadOn DEF DirectoryLoadDone, StackTyped, More
<1>29. ASSUME NEW d \in Dirs, CallReadyCallbacksAtIdle(d) PROVE StackTyped'
  BY <1>29, <1>0, NothingOn, AskedStack DEF CallReadyCallbacksAtIdle, StackTyped, More
<1>30. ASSUME NEW d \in Dirs, DirectoryReads(d) PROVE StackTyped'
  BY <1>30, <1>0, NothingOn, AskedStack DEF DirectoryReads, StackTyped, More
<1> QED
  BY StepsAre, <1>1, <1>2, <1>3, <1>4, <1>5, <1>6, <1>7, <1>8, <1>9, <1>10, <1>11, <1>12, <1>13, <1>14, <1>15, <1>16, <1>17, <1>18, <1>19, <1>20, <1>21, <1>22, <1>23, <1>24, <1>25, <1>26, <1>27, <1>28, <1>29, <1>30

\* The types hold from the start and through every step.
LEMMA TypedInit ==
  ASSUME Init
  PROVE  Typed
<1>1. JobsTyped /\ ListsTyped
  BY DEF Init, JobsTyped, ListsTyped
<1>2. QueuesTyped
  BY DEF Init, QueuesTyped
<1>3. ClientsTyped
  BY JobsAssumption DEF Init, ClientsTyped
<1>4. FilesTyped
  BY DEF Init, FilesTyped
<1>5. StackTyped
  BY NothingOn DEF Init, StackTyped
<1> QED
  BY <1>1, <1>2, <1>3, <1>4, <1>5 DEF Typed

LEMMA TypedNext ==
  ASSUME Typed, [Next]_vars, "Moved" \notin Changes
  PROVE  Typed'
<1>1. CASE Next
  BY <1>1, JobsTypedKept, QueuesTypedKept, ListsTypedKept, ClientsTypedKept, FilesTypedKept, StackTypedKept DEF Typed
<1>2. CASE UNCHANGED vars
  <2>1. JobsTyped' /\ QueuesTyped' /\ ListsTyped'
    BY <1>2 DEF Typed, vars, jobVars, queues, lists, JobsTyped, QueuesTyped, ListsTyped
  <2>2. ClientsTyped' /\ FilesTyped' /\ StackTyped'
    BY <1>2 DEF Typed, vars, clients, files, ClientsTyped, FilesTyped, StackTyped
  <2> QED
    BY <2>1, <2>2 DEF Typed
<1> QED
  BY <1>1, <1>2

-----------------------------------------------------------------------------
(* Where files and operations are                                          *)

\* The files in the work queues of a directory are files of that directory.
QueuesPlaced ==
  \A d \in Dirs : \A f : Holds(high, d, f) \/ Holds(low, d, f) \/ Holds(extension, d, f) => directory[f] = d

\* What is fetched is fetched for a file of the directory, a list is loaded for the file that
\* stands for it and is not cancelled, and of what was asked for before it was invalidated
\* only info and extension info are not cancelled.
OpsPlaced ==
  \A o \in ops :
    /\ o.kind # "list" => directory[o.file] = o.dir
    /\ o.kind = "list" => o.file \in {FileOf[o.dir], NoFile} /\ o.live
    /\ o.live /\ ~o.fresh => o.kind \in {"info", "extension", "list"}

\* Files stay where they are.
LEMMA DirectoryKept ==
  ASSUME Typed, Next, "Moved" \notin Changes
  PROVE  directory' = directory
BY FilesTypedKept DEF Typed, FilesTyped

\* The head of a queue is in it.
LEMMA HeadHeld ==
  \A q \in [Dirs -> Seq(Files)] : \A d \in Dirs :
    q[d] # <<>> => Head(q[d]) \in Files /\ Holds(q, d, Head(q[d]))
<1>1. ASSUME NEW q \in [Dirs -> Seq(Files)], NEW d \in Dirs, q[d] # <<>>
      PROVE  Head(q[d]) \in Files /\ Holds(q, d, Head(q[d]))
  BY <1>1, QueueFacts DEF Holds
<1> QED
  BY <1>1

LEMMA QueuesPlacedKept ==
  ASSUME Typed, QueuesPlaced, Next, "Moved" \notin Changes
  PROVE  QueuesPlaced'
<1>0. QueuesTyped /\ QueuesPlaced /\ directory' = directory
  BY DirectoryKept DEF Typed
<1>1. CASE StateChanged
  BY <1>1, <1>0 DEF StateChanged, queues, QueuesPlaced
<1>2. CASE FileListStartOrStop
  BY <1>2, <1>0 DEF FileListStartOrStop, queues, QueuesPlaced
<1>3. CASE LoadCancel
  BY <1>3, <1>0 DEF LoadCancel, queues, QueuesPlaced
<1>4. CASE LoadEnded
  BY <1>4, <1>0 DEF LoadEnded, queues, QueuesPlaced
<1>5. CASE Stop
  BY <1>5, <1>0 DEF Stop, queues, QueuesPlaced
<1>6. CASE HighPriorityQueue
  <2>0. This.dir \in Dirs
    BY <1>6, TopIs DEF HighPriorityQueue, Typed
  <2>1. CASE UNCHANGED queues
    BY <1>0, <2>1 DEF queues, QueuesPlaced
  <2>2. CASE ~UNCHANGED queues
    <3>1. PassedOn(high, low, high', low', This.dir) /\ extension' = extension
      BY <1>6, <1>0, <2>0, <2>2 DEF HighPriorityQueue, QueuesTyped, PassedOn
    <3>2. \A e \in Dirs : \A g :
            /\ Holds(high, e, g) <=> Holds(high', e, g) \/ (e = This.dir /\ g = Head(high[This.dir]))
            /\ Holds(low', e, g) <=> Holds(low, e, g) \/ (e = This.dir /\ g = Head(high[This.dir]))
      BY <3>1, PassedOnFacts
    <3> QED
      BY <1>0, <3>1, <3>2 DEF QueuesPlaced
  <2> QED
    BY <2>1, <2>2
<1>7. CASE LowPriorityQueue
  <2>0. This.dir \in Dirs
    BY <1>7, TopIs DEF LowPriorityQueue, Typed
  <2>1. CASE UNCHANGED queues
    BY <1>0, <2>1 DEF queues, QueuesPlaced
  <2>2. CASE ~UNCHANGED queues
    <3>1. PassedOn(low, extension, low', extension', This.dir) /\ high' = high
      BY <1>7, <1>0, <2>0, <2>2 DEF LowPriorityQueue, QueuesTyped, PassedOn
    <3>2. \A e \in Dirs : \A g :
            /\ Holds(low, e, g) <=> Holds(low', e, g) \/ (e = This.dir /\ g = Head(low[This.dir]))
            /\ Holds(extension', e, g) <=> Holds(extension, e, g) \/ (e = This.dir /\ g = Head(low[This.dir]))
      BY <3>1, PassedOnFacts
    <3> QED
      BY <1>0, <3>1, <3>2 DEF QueuesPlaced
  <2> QED
    BY <2>1, <2>2
<1>8. CASE ExtensionQueue
  <2>0. This.dir \in Dirs
    BY <1>8, TopIs DEF ExtensionQueue, Typed
  <2>1. CASE UNCHANGED queues
    BY <1>0, <2>1 DEF queues, QueuesPlaced
  <2>2. CASE ~UNCHANGED queues
    BY <1>8, <2>2, <1>0, <2>0, RemovedFacts DEF ExtensionQueue, QueuesPlaced
  <2> QED
    BY <2>1, <2>2
<1>9. CASE QueuesEmpty
  BY <1>9, <1>0 DEF QueuesEmpty, queues, QueuesPlaced
<1>10. CASE CallReadyCallbacks
  BY <1>10, <1>0 DEF CallReadyCallbacks, queues, QueuesPlaced
<1>11. CASE WakeUp
  BY <1>11, <1>0 DEF WakeUp, queues, QueuesPlaced
<1>12. CASE Waking
  BY <1>12, <1>0 DEF Waking, queues, QueuesPlaced
<1>13. CASE Told
  BY <1>13, <1>0 DEF Told, queues, QueuesPlaced
<1>14. CASE Invalidate
  <2>1. CASE UNCHANGED queues
    BY <1>0, <2>1 DEF queues, QueuesPlaced
  <2>2. CASE ~UNCHANGED queues
    BY <1>14, <2>2, TopIs, DirectoryTyped, <1>0, RemovedFacts DEF Invalidate, CancelLoadingFileAttributes, Typed, QueuesPlaced
  <2> QED
    BY <2>1, <2>2
<1>15. CASE Cancelled
  <2>1. AddToWorkQueue(directory[This.file], This.file)
    BY <1>15 DEF Cancelled
  <2>2. This.file \in Files
    BY <1>15, TopIs DEF Cancelled, Typed, Plain
  <2>3. directory[This.file] \in Dirs
    BY <2>2, DirectoryTyped
  <2>4. low' = low /\ extension' = extension
      /\ \A e \in Dirs : \A g : Holds(high', e, g) <=> Holds(high, e, g) \/ (e = directory[This.file] /\ g = This.file)
    BY <1>0, <2>1, <2>2, <2>3, AddedFacts
  <2> QED
    BY <1>0, <2>4 DEF QueuesPlaced
<1>16. CASE Reload
  BY <1>16, <1>0 DEF Reload, queues, QueuesPlaced
<1>17. CASE Unloaded
  BY <1>17, <1>0 DEF Unloaded, queues, QueuesPlaced
<1>18. CASE Reloaded
  <2>1. This.dir \in Dirs
    BY <1>18, TopIs DEF Reloaded, Typed
  <2>2. AddAllToWorkQueue(This.dir)
    BY <1>18 DEF Reloaded
  <2>3. low' = low /\ extension' = extension
      /\ \A e \in Dirs : \A g : Holds(high', e, g) <=> Holds(high, e, g) \/ (e = This.dir /\ g \in FileList(This.dir))
    BY <1>0, <2>1, <2>2, AddedAllFacts
  <2> QED
    BY <1>0, <2>3 DEF QueuesPlaced, FileList
<1>19. ASSUME NEW m \in Monitors, MonitorAdd(m) PROVE QueuesPlaced'
  <2>1. Place(m) \in Dirs /\ At[m] \in Dirs /\ About[m] \in Files \cup {AllFiles}
    BY PlaceTyped
  <2>2. CASE About[m] = AllFiles
    <3>1. AddAllToWorkQueue(At[m])
      BY <1>19, <2>2 DEF MonitorAdd
    <3>2. low' = low /\ extension' = extension
        /\ \A e \in Dirs : \A g : Holds(high', e, g) <=> Holds(high, e, g) \/ (e = At[m] /\ g \in FileList(At[m]))
      BY <1>0, <2>1, <3>1, AddedAllFacts
    <3> QED
      BY <1>0, <3>2 DEF QueuesPlaced, FileList
  <2>3. CASE About[m] # AllFiles
    <3>1. AddToWorkQueue(Place(m), About[m])
      BY <1>19, <2>3 DEF MonitorAdd
    <3>2. About[m] \in Files /\ Place(m) = directory[About[m]]
      BY <2>1, <2>3 DEF Place
    <3>3. low' = low /\ extension' = extension
        /\ \A e \in Dirs : \A g : Holds(high', e, g) <=> Holds(high, e, g) \/ (e = Place(m) /\ g = About[m])
      BY <1>0, <2>1, <3>1, <3>2, AddedFacts
    <3> QED
      BY <1>0, <3>2, <3>3 DEF QueuesPlaced
  <2> QED
    BY <2>2, <2>3
<1>20. ASSUME NEW m \in Monitors, MonitorRemove(m) PROVE QueuesPlaced'
  BY <1>20, <1>0 DEF MonitorRemove, queues, QueuesPlaced
<1>21. ASSUME NEW c \in Callbacks, CallWhenReady(c) PROVE QueuesPlaced'
  <2>1. Place(c) \in Dirs /\ At[c] \in Dirs /\ About[c] \in Files \cup {AllFiles}
    BY PlaceTyped
  <2>2. CASE About[c] = AllFiles
    <3>1. AddAllToWorkQueue(At[c])
      BY <1>21, <2>2 DEF CallWhenReady
    <3>2. low' = low /\ extension' = extension
        /\ \A e \in Dirs : \A g : Holds(high', e, g) <=> Holds(high, e, g) \/ (e = At[c] /\ g \in FileList(At[c]))
      BY <1>0, <2>1, <3>1, AddedAllFacts
    <3> QED
      BY <1>0, <3>2 DEF QueuesPlaced, FileList
  <2>3. CASE About[c] # AllFiles
    <3>1. AddToWorkQueue(Place(c), About[c])
      BY <1>21, <2>3 DEF CallWhenReady
    <3>2. About[c] \in Files /\ Place(c) = directory[About[c]]
      BY <2>1, <2>3 DEF Place
    <3>3. low' = low /\ extension' = extension
        /\ \A e \in Dirs : \A g : Holds(high', e, g) <=> Holds(high, e, g) \/ (e = Place(c) /\ g = About[c])
      BY <1>0, <2>1, <3>1, <3>2, AddedFacts
    <3> QED
      BY <1>0, <3>2, <3>3 DEF QueuesPlaced
  <2> QED
    BY <2>2, <2>3
<1>22. ASSUME NEW c \in Callbacks, CancelCallback(c) PROVE QueuesPlaced'
  BY <1>22, <1>0 DEF CancelCallback, queues, QueuesPlaced
<1>23. ASSUME NEW f \in Files, NotifyFileChanged(f) PROVE QueuesPlaced'
  BY <1>23, DirectoryTyped, <1>0, AddedFacts DEF NotifyFileChanged, QueuesPlaced
<1>24. ASSUME NEW f \in Files, NotifyFileRemoved(f) PROVE QueuesPlaced'
  BY <1>24, PutBackFacts, <1>0 DEF QueuesPlaced
<1>25. ASSUME NEW f \in Files, InvalidateFile(f, AllAttributes) PROVE QueuesPlaced'
  BY <1>25, DirectoryTyped, <1>0, RemovedFacts DEF InvalidateFile, CancelLoadingFileAttributes, QueuesPlaced
<1>26. ASSUME NEW d \in Dirs, ForceReload(d) PROVE QueuesPlaced'
  BY <1>26, <1>0 DEF ForceReload, queues, QueuesPlaced
<1>27. ASSUME NEW d \in Dirs, NEW k \in Kinds, Answer(d, k) PROVE QueuesPlaced'
  <2>1. CASE UNCHANGED queues
    BY <1>0, <2>1 DEF queues, QueuesPlaced
  <2>2. CASE ~UNCHANGED queues
    <3>1. PICK o \in ops : o.kind # "list" /\ MarkGone(directory[o.file], {o.file})
      BY <1>27, <2>2 DEF Answer
    <3>2. directory[o.file] \in Dirs
      BY <3>1, DirectoryTyped DEF Typed, JobsTyped
    <3>3. \A e \in Dirs : \A g : /\ Holds(high', e, g) => Holds(high, e, g)
                                 /\ Holds(low', e, g) => Holds(low, e, g)
                                 /\ Holds(extension', e, g) => Holds(extension, e, g)
      BY <1>0, <3>1, <3>2, MarkedGoneFacts
    <3> QED
      BY <1>0, <3>3 DEF QueuesPlaced
  <2> QED
    BY <2>1, <2>2
<1>28. ASSUME NEW d \in Dirs, DirectoryLoadDone(d) PROVE QueuesPlaced'
  <2>1. PICK missing : MarkGone(d, missing)
    BY <1>28 DEF DirectoryLoadDone
  <2>2. \A e \in Dirs : \A g : /\ Holds(high', e, g) => Holds(high, e, g)
                               /\ Holds(low', e, g) => Holds(low, e, g)
                               /\ Holds(extension', e, g) => Holds(extension, e, g)
    BY <1>0, <2>1, MarkedGoneFacts
  <2> QED
    BY <1>0, <2>2 DEF QueuesPlaced
<1>29. ASSUME NEW d \in Dirs, CallReadyCallbacksAtIdle(d) PROVE QueuesPlaced'
  BY <1>29, <1>0 DEF CallReadyCallbacksAtIdle, queues, QueuesPlaced
<1>30. ASSUME NEW d \in Dirs, DirectoryReads(d) PROVE QueuesPlaced'
  BY <1>30, <1>0 DEF DirectoryReads, queues, QueuesPlaced
<1> QED
  BY StepsAre, <1>1, <1>2, <1>3, <1>4, <1>5, <1>6, <1>7, <1>8, <1>9, <1>10, <1>11, <1>12, <1>13, <1>14, <1>15, <1>16, <1>17, <1>18, <1>19, <1>20, <1>21, <1>22, <1>23, <1>24, <1>25, <1>26, <1>27, <1>28, <1>29, <1>30

\* Jobs start for a file of their directory.
LEMMA StartedPlaced ==
  ASSUME OpsPlaced, directory' = directory,
         NEW d \in Dirs, NEW f \in Files, directory[f] = d, NEW kinds \in SUBSET Kinds, StartJobs(d, f, kinds)
  PROVE  OpsPlaced'
<1>1. PICK started \in SUBSET kinds : ops' = ops \cup {Operation(d, k, f) : k \in started}
  BY DEF StartJobs
<1>2. ASSUME NEW k \in kinds
      PROVE  /\ Operation(d, k, f).kind # "list" /\ Operation(d, k, f).file = f
             /\ Operation(d, k, f).dir = d /\ Operation(d, k, f).fresh = TRUE
  BY DEF Operation, Kinds
<1>3. ASSUME NEW p \in ops'
      PROVE  /\ p.kind # "list" => directory[p.file] = p.dir
             /\ p.kind = "list" => p.file \in {FileOf[p.dir], NoFile} /\ p.live
             /\ p.live /\ ~p.fresh => p.kind \in {"info", "extension", "list"}
  <2>1. CASE p \in ops
    BY <2>1 DEF OpsPlaced
  <2>2. CASE p \notin ops
    <3>1. PICK k \in kinds : p = Operation(d, k, f)
      BY <1>1, <2>2
    <3> QED
      BY <3>1, <1>2
  <2> QED
    BY <2>1, <2>2
<1> QED
  BY <1>3 DEF OpsPlaced

\* What is cancelled stays; what is only outdated is info or extension info.
LEMMA CancelledPlaced ==
  ASSUME JobsTyped, OpsPlaced, directory' = directory, NEW S, NEW outdated, CancelJobs(S, outdated),
         \A o \in ops : o \in S => o.kind # "list",
         \A o \in ops : o \in outdated /\ o \notin S => o.kind \in {"info", "extension", "list"}
  PROVE  OpsPlaced'
<1>1. ASSUME NEW p \in ops'
      PROVE  /\ p.kind # "list" => directory[p.file] = p.dir
             /\ p.kind = "list" => p.file \in {FileOf[p.dir], NoFile} /\ p.live
             /\ p.live /\ ~p.fresh => p.kind \in {"info", "extension", "list"}
  <2>1. PICK o \in ops : /\ p.dir = o.dir /\ p.kind = o.kind /\ p.file = o.file
                         /\ p.live = (o.live /\ o \notin S) /\ p.fresh = (o.fresh /\ o \notin outdated)
    BY CancelledOps
  <2> QED
    BY <2>1 DEF OpsPlaced
<1> QED
  BY <1>1 DEF OpsPlaced

\* The fetches for a file are those of its directory.
LEMMA InvalidatedPlaced ==
  ASSUME JobsTyped, OpsPlaced, directory' = directory, NEW f \in Files, NEW kinds \in SUBSET Kinds,
         CancelLoadingFileAttributes(f, kinds, Outdated({f}, kinds))
  PROVE  OpsPlaced'
<1> DEFINE S == {o \in Fetches({f}, kinds \ {"extension"}) : o.dir = directory[f]}
           outdated == Outdated({f}, kinds)
<1>1. CancelJobs(S, outdated)
  BY DEF CancelLoadingFileAttributes
<1>2. \A o \in ops : o \in S => o.kind # "list"
  BY DEF Fetches, Kinds
<1>3. \A o \in ops : o \in outdated /\ o \notin S => o.kind \in {"info", "extension", "list"}
  BY DEF Outdated, Tellers, Fetches, Kinds, OpsPlaced
<1> HIDE DEF S, outdated
<1> QED
  BY <1>1, <1>2, <1>3, CancelledPlaced

LEMMA OpsPlacedKept ==
  ASSUME Typed, QueuesPlaced, OpsPlaced, Next, "Moved" \notin Changes
  PROVE  OpsPlaced'
<1>0. JobsTyped /\ OpsPlaced /\ directory' = directory /\ QueuesTyped
  BY DirectoryKept DEF Typed
<1>1. CASE StateChanged
  BY <1>1, <1>0 DEF StateChanged, jobVars, OpsPlaced
<1>2. CASE FileListStartOrStop
  <2>1. Operation(This.dir, "list", Standing(This.dir)).kind = "list" /\ Operation(This.dir, "list", Standing(This.dir)).live
        /\ Operation(This.dir, "list", Standing(This.dir)).fresh /\ Operation(This.dir, "list", Standing(This.dir)).dir = This.dir
        /\ Operation(This.dir, "list", Standing(This.dir)).file \in {FileOf[This.dir], NoFile}
    BY DEF Operation, Standing
  <2>2. ops' = ops \/ ops' = ops \cup {Operation(This.dir, "list", Standing(This.dir))}
    BY <1>2 DEF FileListStartOrStop, jobVars
  <2> QED
    BY <1>0, <2>1, <2>2 DEF OpsPlaced
<1>3. CASE LoadCancel
  BY <1>3, <1>0 DEF LoadCancel, jobVars, OpsPlaced
<1>4. CASE LoadEnded
  BY <1>0, <1>4 DEF LoadEnded, OpsPlaced
<1>5. CASE Stop
  <2>1. CASE UNCHANGED jobVars
    BY <1>0, <2>1 DEF jobVars, OpsPlaced
  <2>2. CASE ~UNCHANGED jobVars
    <3>1. PICK S : CancelJobs(S, {}) /\ \A o \in S : o.kind # "list"
      BY <1>5, <2>2 DEF Stop
    <3> QED
      BY <3>1, <1>0, CancelledPlaced
  <2> QED
    BY <2>1, <2>2
<1>6. CASE HighPriorityQueue
  <2>1. This.dir \in Dirs
    BY <1>6, TopIs DEF HighPriorityQueue, Typed
  <2>2. Head(high[This.dir]) \in Files /\ directory[Head(high[This.dir])] = This.dir
    BY <1>6, <1>0, <2>1, HeadHeld DEF HighPriorityQueue, QueuesTyped, QueuesPlaced
  <2>3. CASE UNCHANGED jobVars
    BY <1>0, <2>3 DEF jobVars, OpsPlaced
  <2>4. CASE ~UNCHANGED jobVars
    <3>1. PICK kinds \in SUBSET Kinds : StartJobs(This.dir, Head(high[This.dir]), kinds)
      BY <1>6, <2>4 DEF HighPriorityQueue, Kinds
    <3> QED
      BY <2>1, <2>2, <3>1, <1>0, StartedPlaced
  <2> QED
    BY <2>3, <2>4
<1>7. CASE LowPriorityQueue
  <2>1. This.dir \in Dirs
    BY <1>7, TopIs DEF LowPriorityQueue, Typed
  <2>2. Head(low[This.dir]) \in Files /\ directory[Head(low[This.dir])] = This.dir
    BY <1>7, <1>0, <2>1, HeadHeld DEF LowPriorityQueue, QueuesTyped, QueuesPlaced
  <2>3. CASE UNCHANGED jobVars
    BY <1>0, <2>3 DEF jobVars, OpsPlaced
  <2>4. CASE ~UNCHANGED jobVars
    <3>1. PICK kinds \in SUBSET Kinds : StartJobs(This.dir, Head(low[This.dir]), kinds)
      BY <1>7, <2>4 DEF LowPriorityQueue, Kinds, Low
    <3> QED
      BY <2>1, <2>2, <3>1, <1>0, StartedPlaced
  <2> QED
    BY <2>3, <2>4
<1>8. CASE ExtensionQueue
  <2>1. This.dir \in Dirs
    BY <1>8, TopIs DEF ExtensionQueue, Typed
  <2>2. Head(extension[This.dir]) \in Files /\ directory[Head(extension[This.dir])] = This.dir
    BY <1>8, <1>0, <2>1, HeadHeld DEF ExtensionQueue, QueuesTyped, QueuesPlaced
  <2>3. CASE UNCHANGED jobVars
    BY <1>0, <2>3 DEF jobVars, OpsPlaced
  <2>4. CASE ~UNCHANGED jobVars
    <3>1. PICK kinds \in SUBSET Kinds : StartJobs(This.dir, Head(extension[This.dir]), kinds)
      BY <1>8, <2>4 DEF ExtensionQueue, Kinds
    <3> QED
      BY <2>1, <2>2, <3>1, <1>0, StartedPlaced
  <2> QED
    BY <2>3, <2>4
<1>9. CASE QueuesEmpty
  BY <1>9, <1>0 DEF QueuesEmpty, jobVars, OpsPlaced
<1>10. CASE CallReadyCallbacks
  BY <1>10, <1>0 DEF CallReadyCallbacks, jobVars, OpsPlaced
<1>11. CASE WakeUp
  BY <1>11, <1>0 DEF WakeUp, jobVars, OpsPlaced
<1>12. CASE Waking
  BY <1>0, <1>12 DEF Waking, OpsPlaced
<1>13. CASE Told
  BY <1>13, <1>0 DEF Told, jobVars, OpsPlaced
<1>14. CASE Invalidate
  <2>1. CASE UNCHANGED jobVars
    BY <1>0, <2>1 DEF jobVars, OpsPlaced
  <2>2. CASE ~UNCHANGED jobVars
    <3>1. CancelLoadingFileAttributes(This.file, This.set, Outdated({This.file}, This.set)) /\ This.file # NoFile
      BY <1>14, <2>2 DEF Invalidate
    <3>2. This.file \in Files /\ This.set \in SUBSET Kinds
      BY <1>14, <3>1, TopIs DEF Invalidate, Typed, Plain
    <3> QED
      BY <1>0, <3>1, <3>2, InvalidatedPlaced
  <2> QED
    BY <2>1, <2>2
<1>15. CASE Cancelled
  BY <1>15, <1>0 DEF Cancelled, jobVars, OpsPlaced
<1>16. CASE Reload
  BY <1>16, <1>0 DEF Reload, jobVars, OpsPlaced
<1>17. CASE Unloaded
  BY <1>17, <1>0 DEF Unloaded, jobVars, OpsPlaced
<1>18. CASE Reloaded
  BY <1>18, <1>0 DEF Reloaded, jobVars, OpsPlaced
<1>19. ASSUME NEW m \in Monitors, MonitorAdd(m) PROVE OpsPlaced'
  BY <1>19, <1>0 DEF MonitorAdd, jobVars, OpsPlaced
<1>20. ASSUME NEW m \in Monitors, MonitorRemove(m) PROVE OpsPlaced'
  BY <1>20, <1>0 DEF MonitorRemove, jobVars, OpsPlaced
<1>21. ASSUME NEW c \in Callbacks, CallWhenReady(c) PROVE OpsPlaced'
  BY <1>21, <1>0 DEF CallWhenReady, jobVars, OpsPlaced
<1>22. ASSUME NEW c \in Callbacks, CancelCallback(c) PROVE OpsPlaced'
  BY <1>22, <1>0 DEF CancelCallback, jobVars, OpsPlaced
<1>23. ASSUME NEW f \in Files, NotifyFileChanged(f) PROVE OpsPlaced'
  <2> DEFINE outdated == Outdated({f}, {"info", "extension"})
  <2>1. CancelJobs({}, outdated)
    BY <1>23 DEF NotifyFileChanged
  <2>2. \A o \in ops : o \in outdated /\ o \notin {} => o.kind \in {"info", "extension", "list"}
    BY DEF Outdated, Tellers, Fetches
  <2> HIDE DEF outdated
  <2> QED
    BY <1>0, <2>1, <2>2, CancelledPlaced
<1>24. ASSUME NEW f \in Files, NotifyFileRemoved(f) PROVE OpsPlaced'
  BY <1>24, <1>0 DEF NotifyFileRemoved, jobVars, OpsPlaced
<1>25. ASSUME NEW f \in Files, InvalidateFile(f, AllAttributes) PROVE OpsPlaced'
  BY <1>25, <1>0, InvalidatedPlaced DEF InvalidateFile, AllAttributes
<1>26. ASSUME NEW d \in Dirs, ForceReload(d) PROVE OpsPlaced'
  <2> DEFINE S == {o \in ops : o.dir = d /\ o.kind \in AllAttributes}
             outdated == Outdated(FileList(d), AllAttributes)
  <2>1. CancelJobs(S, outdated)
    BY <1>26 DEF ForceReload
  <2>2. \A o \in ops : o \in S => o.kind # "list"
    BY DEF AllAttributes, Kinds
  <2>3. \A o \in ops : o \in outdated /\ o \notin S => o.kind \in {"info", "extension", "list"}
    BY <1>0 DEF Outdated, Tellers, Fetches, FileList, OpsPlaced, AllAttributes, Kinds
  <2> HIDE DEF S, outdated
  <2> QED
    BY <1>0, <2>1, <2>2, <2>3, CancelledPlaced
<1>27. ASSUME NEW d \in Dirs, NEW k \in Kinds, Answer(d, k) PROVE OpsPlaced'
  BY <1>0, <1>27 DEF Answer, OpsPlaced
<1>28. ASSUME NEW d \in Dirs, DirectoryLoadDone(d) PROVE OpsPlaced'
  BY <1>28, <1>0 DEF DirectoryLoadDone, jobVars, OpsPlaced
<1>29. ASSUME NEW d \in Dirs, CallReadyCallbacksAtIdle(d) PROVE OpsPlaced'
  BY <1>29, <1>0 DEF CallReadyCallbacksAtIdle, jobVars, OpsPlaced
<1>30. ASSUME NEW d \in Dirs, DirectoryReads(d) PROVE OpsPlaced'
  BY <1>30, <1>0 DEF DirectoryReads, jobVars, OpsPlaced
<1> QED
  BY StepsAre, <1>1, <1>2, <1>3, <1>4, <1>5, <1>6, <1>7, <1>8, <1>9, <1>10, <1>11, <1>12, <1>13, <1>14, <1>15, <1>16, <1>17, <1>18, <1>19, <1>20, <1>21, <1>22, <1>23, <1>24, <1>25, <1>26, <1>27, <1>28, <1>29, <1>30

LEMMA FreshAnswersKept ==
  ASSUME Typed, OpsPlaced, FreshAnswers, Next, "Moved" \notin Changes
  PROVE  FreshAnswers'
<1>0. FreshAnswers
  OBVIOUS
<1>1. CASE StateChanged
  BY <1>1, <1>0 DEF StateChanged, files, FreshAnswers
<1>2. CASE FileListStartOrStop
  BY <1>2, <1>0 DEF FileListStartOrStop, FreshAnswers
<1>3. CASE LoadCancel
  BY <1>3, <1>0 DEF LoadCancel, FreshAnswers
<1>4. CASE LoadEnded
  BY <1>4, <1>0 DEF LoadEnded, files, FreshAnswers
<1>5. CASE Stop
  BY <1>5, <1>0 DEF Stop, files, FreshAnswers
<1>6. CASE HighPriorityQueue
  BY <1>6, <1>0 DEF HighPriorityQueue, files, FreshAnswers
<1>7. CASE LowPriorityQueue
  BY <1>7, <1>0 DEF LowPriorityQueue, FreshAnswers
<1>8. CASE ExtensionQueue
  BY <1>8, <1>0 DEF ExtensionQueue, FreshAnswers
<1>9. CASE QueuesEmpty
  BY <1>9, <1>0 DEF QueuesEmpty, files, FreshAnswers
<1>10. CASE CallReadyCallbacks
  BY <1>10, <1>0 DEF CallReadyCallbacks, files, FreshAnswers
<1>11. CASE WakeUp
  BY <1>11, <1>0 DEF WakeUp, files, FreshAnswers
<1>12. CASE Waking
  BY <1>12, <1>0 DEF Waking, files, FreshAnswers
<1>13. CASE Told
  BY <1>13, <1>0 DEF Told, files, FreshAnswers
<1>14. CASE Invalidate
  BY <1>14, <1>0 DEF Invalidate, files, FreshAnswers
<1>15. CASE Cancelled
  BY <1>0, <1>15 DEF Cancelled, Invalidated, FreshAnswers
<1>16. CASE Reload
  BY <1>0, <1>16 DEF Reload, Invalidated, FreshAnswers
<1>17. CASE Unloaded
  BY <1>17, <1>0 DEF Unloaded, files, FreshAnswers
<1>18. CASE Reloaded
  BY <1>18, <1>0 DEF Reloaded, files, FreshAnswers
<1>19. ASSUME NEW m \in Monitors, MonitorAdd(m) PROVE FreshAnswers'
  BY <1>19, <1>0 DEF MonitorAdd, files, FreshAnswers
<1>20. ASSUME NEW m \in Monitors, MonitorRemove(m) PROVE FreshAnswers'
  BY <1>20, <1>0 DEF MonitorRemove, files, FreshAnswers
<1>21. ASSUME NEW c \in Callbacks, CallWhenReady(c) PROVE FreshAnswers'
  BY <1>21, <1>0 DEF CallWhenReady, files, FreshAnswers
<1>22. ASSUME NEW c \in Callbacks, CancelCallback(c) PROVE FreshAnswers'
  BY <1>22, <1>0 DEF CancelCallback, files, FreshAnswers
<1>23. ASSUME NEW f \in Files, NotifyFileChanged(f) PROVE FreshAnswers'
  BY <1>0, <1>23 DEF NotifyFileChanged, Invalidated, FreshAnswers
<1>24. ASSUME NEW f \in Files, NotifyFileRemoved(f) PROVE FreshAnswers'
  BY <1>24, <1>0 DEF NotifyFileRemoved, FreshAnswers
<1>25. ASSUME NEW f \in Files, InvalidateFile(f, AllAttributes) PROVE FreshAnswers'
  BY <1>25, <1>0 DEF InvalidateFile, files, FreshAnswers
<1>26. ASSUME NEW d \in Dirs, ForceReload(d) PROVE FreshAnswers'
  BY <1>26, <1>0 DEF ForceReload, files, FreshAnswers
<1>27. ASSUME NEW d \in Dirs, NEW k \in Kinds, Answer(d, k) PROVE FreshAnswers'
  <2>1. PICK o \in ops : o.kind = k /\ stale' = IF o.live /\ ~o.fresh THEN stale \cup {<<o.file, k>>} ELSE stale
    BY <1>27 DEF Answer
  <2>2. o.live /\ ~o.fresh => k \in {"info", "extension", "list"}
    BY <2>1 DEF OpsPlaced
  <2> QED
    BY <1>0, <2>1, <2>2 DEF FreshAnswers
<1>28. ASSUME NEW d \in Dirs, DirectoryLoadDone(d) PROVE FreshAnswers'
  BY <1>0, <1>28 DEF DirectoryLoadDone, FreshAnswers
<1>29. ASSUME NEW d \in Dirs, CallReadyCallbacksAtIdle(d) PROVE FreshAnswers'
  BY <1>29, <1>0 DEF CallReadyCallbacksAtIdle, files, FreshAnswers
<1>30. ASSUME NEW d \in Dirs, DirectoryReads(d) PROVE FreshAnswers'
  BY <1>30, <1>0 DEF DirectoryReads, FreshAnswers
<1> QED
  BY StepsAre, <1>1, <1>2, <1>3, <1>4, <1>5, <1>6, <1>7, <1>8, <1>9, <1>10, <1>11, <1>12, <1>13, <1>14, <1>15, <1>16, <1>17, <1>18, <1>19, <1>20, <1>21, <1>22, <1>23, <1>24, <1>25, <1>26, <1>27, <1>28, <1>29, <1>30

-----------------------------------------------------------------------------
(* Lists and the calls that serve them                                     *)

\* The list of d will be started or stopped.
ListDue(d) == On(todo, "state changed", d) \/ On(todo, "file list", d) \/ d \in again
LoadOn(d) == On(todo, "load cancel", d) \/ On(todo, "load ended", d)

\* With loops of the directories L on the stack s, what remains of each is all there; and who
\* wakes others up (w) is on it.
Looping(s, L, d) ==
  /\ On(s, "file list", d) => On(s, "stop", d)
  /\ On(s, "stop", d) => On(s, "queues", d)
  /\ On(s, "queues", d) => On(s, "ready", d)
  /\ d \in L <=> On(s, "ready", d)

Serving(s, L, w) ==
  /\ w => \E d \in Dirs : On(s, "waking", d)
  /\ \A d \in Dirs : Looping(s, L, d)

Stacked == Lawful(todo) /\ again \subseteq inLoop /\ Serving(todo, inLoop, waking)

\* A list is monitored when somebody wants it, or will be; a load nobody monitors any more is
\* being cancelled above the service loop that found it so; a cancelled load is wanted by
\* nobody, or it has come to its end, or is about to be begun again.
ListAt(d) ==
  /\ (d \in monitored <=> IsAnyoneMonitoringFileList(d)) \/ ListDue(d)
  /\ InProgress(d, "list") /\ d \notin monitored => Held(todo, d) /\ ~On(todo, "file list", d)
  /\ LoadOn(d) /\ IsAnyoneMonitoringFileList(d) => d \in loaded \/ On(todo, "unloaded", d)
  /\ LoadOn(d) /\ ~IsAnyoneMonitoringFileList(d) => d \notin monitored
  /\ On(todo, "load ended", d) => InProgress(d, "list")
  /\ d \in monitored => \/ d \in loaded \/ InProgress(d, "list") \/ d \in waiting \/ ListDue(d)
                        \/ On(todo, "unloaded", d) \/ On(todo, "reloaded", d)

Listed == \A d \in Dirs : ListAt(d)

LEMMA HeldReady ==
  \A s, d : Held(s, d) => On(s, "ready", d)
BY DEF Held, On

\* The list of d is being loaded for file g.
LoadFor(d, g) == \E o \in ops : o.dir = d /\ o.kind = "list" /\ o.file = g

\* Of what is started or cancelled besides, nothing is a list.
LEMMA StartedLoads ==
  ASSUME NEW d, NEW f, NEW kinds \in SUBSET Kinds, StartJobs(d, f, kinds)
  PROVE  \A e, g : LoadFor(e, g)' <=> LoadFor(e, g)
<1>1. PICK started \in SUBSET kinds : ops' = ops \cup {Operation(d, k, f) : k \in started}
  BY DEF StartJobs
<1>2. \A k \in kinds : Operation(d, k, f).kind # "list"
  BY DEF Operation, Kinds
<1> QED
  BY <1>1, <1>2 DEF LoadFor

LEMMA CancelledLoads ==
  ASSUME JobsTyped, NEW S, NEW outdated, CancelJobs(S, outdated), \A o \in ops : o \in S => o.kind # "list"
  PROVE  \A e, g : LoadFor(e, g)' <=> LoadFor(e, g)
<1>1. \A o \in ops : o.kind = "list" => \E p \in ops' : p.dir = o.dir /\ p.kind = o.kind /\ p.file = o.file
  BY CancelledOps
<1>2. \A p \in ops' : \E o \in ops : p.dir = o.dir /\ p.kind = o.kind /\ p.file = o.file
  BY CancelledOps
<1> QED
  BY <1>1, <1>2 DEF LoadFor

LEMMA LoadsStay ==
  ASSUME Typed, Next, "Moved" \notin Changes, ~FileListStartOrStop, ~LoadEnded
  PROVE  \A e, g : LoadFor(e, g)' <=> LoadFor(e, g)
<1>0. JobsTyped
  BY DEF Typed
<1>1. CASE StateChanged
  BY <1>1 DEF StateChanged, jobVars, LoadFor
<1>2. CASE FileListStartOrStop
  BY <1>2
<1>3. CASE LoadCancel
  BY <1>3 DEF LoadCancel, jobVars, LoadFor
<1>4. CASE LoadEnded
  BY <1>4
<1>5. CASE Stop
  <2>1. CASE UNCHANGED jobVars
    BY <2>1 DEF jobVars, LoadFor
  <2>2. CASE ~UNCHANGED jobVars
    <3>1. PICK S : CancelJobs(S, {}) /\ \A o \in S : o.kind # "list"
      BY <1>5, <2>2 DEF Stop
    <3> QED
      BY <3>1, <1>0, CancelledLoads
  <2> QED
    BY <2>1, <2>2
<1>6. CASE HighPriorityQueue
  <2>1. CASE UNCHANGED jobVars
    BY <2>1 DEF jobVars, LoadFor
  <2>2. CASE ~UNCHANGED jobVars
    <3>1. PICK kinds \in SUBSET Kinds : StartJobs(This.dir, Head(high[This.dir]), kinds)
      BY <1>6, <2>2 DEF HighPriorityQueue, Kinds
    <3> QED
      BY <3>1, StartedLoads
  <2> QED
    BY <2>1, <2>2
<1>7. CASE LowPriorityQueue
  <2>1. CASE UNCHANGED jobVars
    BY <2>1 DEF jobVars, LoadFor
  <2>2. CASE ~UNCHANGED jobVars
    <3>1. PICK kinds \in SUBSET Kinds : StartJobs(This.dir, Head(low[This.dir]), kinds)
      BY <1>7, <2>2 DEF LowPriorityQueue, Kinds, Low
    <3> QED
      BY <3>1, StartedLoads
  <2> QED
    BY <2>1, <2>2
<1>8. CASE ExtensionQueue
  <2>1. CASE UNCHANGED jobVars
    BY <2>1 DEF jobVars, LoadFor
  <2>2. CASE ~UNCHANGED jobVars
    <3>1. PICK kinds \in SUBSET Kinds : StartJobs(This.dir, Head(extension[This.dir]), kinds)
      BY <1>8, <2>2 DEF ExtensionQueue, Kinds
    <3> QED
      BY <3>1, StartedLoads
  <2> QED
    BY <2>1, <2>2
<1>9. CASE QueuesEmpty
  BY <1>9 DEF QueuesEmpty, jobVars, LoadFor
<1>10. CASE CallReadyCallbacks
  BY <1>10 DEF CallReadyCallbacks, jobVars, LoadFor
<1>11. CASE WakeUp
  BY <1>11 DEF WakeUp, jobVars, LoadFor
<1>12. CASE Waking
  BY <1>12 DEF Waking, LoadFor
<1>13. CASE Told
  BY <1>13 DEF Told, jobVars, LoadFor
<1>14. CASE Invalidate
  <2>1. CASE UNCHANGED jobVars
    BY <2>1 DEF jobVars, LoadFor
  <2>2. CASE ~UNCHANGED jobVars
    <3>0. This.set \subseteq Kinds
      BY <1>14, TopIs DEF Invalidate, Typed, Plain
    <3> DEFINE S == {o \in Fetches({This.file}, This.set \ {"extension"}) : o.dir = directory[This.file]}
               T == Outdated({This.file}, This.set)
    <3>1. CancelJobs(S, T)
      BY <1>14, <2>2 DEF Invalidate, CancelLoadingFileAttributes
    <3>2. \A o \in ops : o \in S => o.kind # "list"
      BY <3>0 DEF Fetches, Kinds
    <3> HIDE DEF S, T
    <3> QED
      BY <3>1, <3>2, <1>0, CancelledLoads
  <2> QED
    BY <2>1, <2>2
<1>15. CASE Cancelled
  BY <1>15 DEF Cancelled, jobVars, LoadFor
<1>16. CASE Reload
  BY <1>16 DEF Reload, jobVars, LoadFor
<1>17. CASE Unloaded
  BY <1>17 DEF Unloaded, jobVars, LoadFor
<1>18. CASE Reloaded
  BY <1>18 DEF Reloaded, jobVars, LoadFor
<1>19. ASSUME NEW m \in Monitors, MonitorAdd(m) PROVE \A e, g : LoadFor(e, g)' <=> LoadFor(e, g)
  BY <1>19 DEF MonitorAdd, jobVars, LoadFor
<1>20. ASSUME NEW m \in Monitors, MonitorRemove(m) PROVE \A e, g : LoadFor(e, g)' <=> LoadFor(e, g)
  BY <1>20 DEF MonitorRemove, jobVars, LoadFor
<1>21. ASSUME NEW c \in Callbacks, CallWhenReady(c) PROVE \A e, g : LoadFor(e, g)' <=> LoadFor(e, g)
  BY <1>21 DEF CallWhenReady, jobVars, LoadFor
<1>22. ASSUME NEW c \in Callbacks, CancelCallback(c) PROVE \A e, g : LoadFor(e, g)' <=> LoadFor(e, g)
  BY <1>22 DEF CancelCallback, jobVars, LoadFor
<1>23. ASSUME NEW f \in Files, NotifyFileChanged(f) PROVE \A e, g : LoadFor(e, g)' <=> LoadFor(e, g)
  <2>1. PICK T : CancelJobs({}, T)
    BY <1>23 DEF NotifyFileChanged
  <2> QED
    BY <1>0, <2>1, CancelledLoads
<1>24. ASSUME NEW f \in Files, NotifyFileRemoved(f) PROVE \A e, g : LoadFor(e, g)' <=> LoadFor(e, g)
  BY <1>24 DEF NotifyFileRemoved, jobVars, LoadFor
<1>25. ASSUME NEW f \in Files, InvalidateFile(f, AllAttributes) PROVE \A e, g : LoadFor(e, g)' <=> LoadFor(e, g)
  <2> DEFINE S == {o \in Fetches({f}, AllAttributes \ {"extension"}) : o.dir = directory[f]}
             T == Outdated({f}, AllAttributes)
  <2>1. CancelJobs(S, T)
    BY <1>25 DEF InvalidateFile, CancelLoadingFileAttributes
  <2>2. \A o \in ops : o \in S => o.kind # "list"
    BY DEF Fetches, AllAttributes, Kinds
  <2> HIDE DEF S, T
  <2> QED
    BY <2>1, <2>2, <1>0, CancelledLoads
<1>26. ASSUME NEW d \in Dirs, ForceReload(d) PROVE \A e, g : LoadFor(e, g)' <=> LoadFor(e, g)
  <2> DEFINE S == {o \in ops : o.dir = d /\ o.kind \in AllAttributes}
             T == Outdated(FileList(d), AllAttributes)
  <2>1. CancelJobs(S, T)
    BY <1>26 DEF ForceReload
  <2>2. \A o \in ops : o \in S => o.kind # "list"
    BY DEF AllAttributes, Kinds
  <2> HIDE DEF S, T
  <2> QED
    BY <2>1, <2>2, <1>0, CancelledLoads
<1>27. ASSUME NEW d \in Dirs, NEW k \in Kinds, Answer(d, k) PROVE \A e, g : LoadFor(e, g)' <=> LoadFor(e, g)
  <2>1. PICK o \in ops : o.kind # "list" /\ ops' = ops \ {o}
    BY <1>27 DEF Answer
  <2> QED
    BY <2>1 DEF LoadFor
<1>28. ASSUME NEW d \in Dirs, DirectoryLoadDone(d) PROVE \A e, g : LoadFor(e, g)' <=> LoadFor(e, g)
  BY <1>28 DEF DirectoryLoadDone, jobVars, LoadFor
<1>29. ASSUME NEW d \in Dirs, CallReadyCallbacksAtIdle(d) PROVE \A e, g : LoadFor(e, g)' <=> LoadFor(e, g)
  BY <1>29 DEF CallReadyCallbacksAtIdle, jobVars, LoadFor
<1>30. ASSUME NEW d \in Dirs, DirectoryReads(d) PROVE \A e, g : LoadFor(e, g)' <=> LoadFor(e, g)
  BY <1>30 DEF DirectoryReads, jobVars, LoadFor
<1> QED
  BY StepsAre, <1>1, <1>2, <1>3, <1>4, <1>5, <1>6, <1>7, <1>8, <1>9, <1>10, <1>11, <1>12, <1>13, <1>14, <1>15, <1>16, <1>17, <1>18, <1>19, <1>20, <1>21, <1>22, <1>23, <1>24, <1>25, <1>26, <1>27, <1>28, <1>29, <1>30

LEMMA LoadFors ==
  \A e : InProgress(e, "list") <=> \E g : LoadFor(e, g)
BY DEF InProgress, LoadFor

LEMMA ListsStay ==
  ASSUME Typed, Next, "Moved" \notin Changes, ~FileListStartOrStop, ~LoadEnded
  PROVE  \A e : InProgress(e, "list")' <=> InProgress(e, "list")
<1>1. \A e, g : LoadFor(e, g)' <=> LoadFor(e, g)
  BY LoadsStay
<1> QED
  BY <1>1 DEF InProgress, LoadFor

\* Only who wakes up waits no longer.
LEMMA WaitingStays ==
  ASSUME Typed, Next, "Moved" \notin Changes, ~Waking
  PROVE  waiting \subseteq waiting'
<1>1. CASE StateChanged
  BY <1>1 DEF StateChanged, jobVars
<1>2. CASE FileListStartOrStop
  BY <1>2 DEF FileListStartOrStop, jobVars
<1>3. CASE LoadCancel
  BY <1>3 DEF LoadCancel, jobVars
<1>4. CASE LoadEnded
  BY <1>4 DEF LoadEnded
<1>5. CASE Stop
  BY <1>5 DEF Stop, CancelJobs, jobVars
<1>6. CASE HighPriorityQueue
  BY <1>6 DEF HighPriorityQueue, StartJobs, jobVars
<1>7. CASE LowPriorityQueue
  BY <1>7 DEF LowPriorityQueue, StartJobs, jobVars
<1>8. CASE ExtensionQueue
  BY <1>8 DEF ExtensionQueue, StartJobs, jobVars
<1>9. CASE QueuesEmpty
  BY <1>9 DEF QueuesEmpty, jobVars
<1>10. CASE CallReadyCallbacks
  BY <1>10 DEF CallReadyCallbacks, jobVars
<1>11. CASE WakeUp
  BY <1>11 DEF WakeUp, jobVars
<1>12. CASE Waking
  BY <1>12
<1>13. CASE Told
  BY <1>13 DEF Told, jobVars
<1>14. CASE Invalidate
  BY <1>14 DEF Invalidate, CancelLoadingFileAttributes, CancelJobs, jobVars
<1>15. CASE Cancelled
  BY <1>15 DEF Cancelled, jobVars
<1>16. CASE Reload
  BY <1>16 DEF Reload, jobVars
<1>17. CASE Unloaded
  BY <1>17 DEF Unloaded, jobVars
<1>18. CASE Reloaded
  BY <1>18 DEF Reloaded, jobVars
<1>19. ASSUME NEW m \in Monitors, MonitorAdd(m) PROVE waiting \subseteq waiting'
  BY <1>19 DEF MonitorAdd, jobVars
<1>20. ASSUME NEW m \in Monitors, MonitorRemove(m) PROVE waiting \subseteq waiting'
  BY <1>20 DEF MonitorRemove, jobVars
<1>21. ASSUME NEW c \in Callbacks, CallWhenReady(c) PROVE waiting \subseteq waiting'
  BY <1>21 DEF CallWhenReady, jobVars
<1>22. ASSUME NEW c \in Callbacks, CancelCallback(c) PROVE waiting \subseteq waiting'
  BY <1>22 DEF CancelCallback, jobVars
<1>23. ASSUME NEW f \in Files, NotifyFileChanged(f) PROVE waiting \subseteq waiting'
  BY <1>23 DEF NotifyFileChanged, CancelJobs
<1>24. ASSUME NEW f \in Files, NotifyFileRemoved(f) PROVE waiting \subseteq waiting'
  BY <1>24 DEF NotifyFileRemoved, jobVars
<1>25. ASSUME NEW f \in Files, InvalidateFile(f, AllAttributes) PROVE waiting \subseteq waiting'
  BY <1>25 DEF InvalidateFile, CancelLoadingFileAttributes, CancelJobs
<1>26. ASSUME NEW d \in Dirs, ForceReload(d) PROVE waiting \subseteq waiting'
  BY <1>26 DEF ForceReload, CancelJobs
<1>27. ASSUME NEW d \in Dirs, NEW k \in Kinds, Answer(d, k) PROVE waiting \subseteq waiting'
  BY <1>27 DEF Answer
<1>28. ASSUME NEW d \in Dirs, DirectoryLoadDone(d) PROVE waiting \subseteq waiting'
  BY <1>28 DEF DirectoryLoadDone, jobVars
<1>29. ASSUME NEW d \in Dirs, CallReadyCallbacksAtIdle(d) PROVE waiting \subseteq waiting'
  BY <1>29 DEF CallReadyCallbacksAtIdle, jobVars
<1>30. ASSUME NEW d \in Dirs, DirectoryReads(d) PROVE waiting \subseteq waiting'
  BY <1>30 DEF DirectoryReads, jobVars
<1> QED
  BY StepsAre, <1>1, <1>2, <1>3, <1>4, <1>5, <1>6, <1>7, <1>8, <1>9, <1>10, <1>11, <1>12, <1>13, <1>14, <1>15, <1>16, <1>17, <1>18, <1>19, <1>20, <1>21, <1>22, <1>23, <1>24, <1>25, <1>26, <1>27, <1>28, <1>29, <1>30

\* Who wants a list, or wants it no longer, has its directory served.
LEMMA WantsStays ==
  ASSUME Typed, Next, "Moved" \notin Changes, NEW e \in Dirs
  PROVE  (IsAnyoneMonitoringFileList(e)' <=> IsAnyoneMonitoringFileList(e)) \/ (todo = <<>> /\ On(todo', "state changed", e))
<1>0. directory' = directory /\ \A x \in Monitors \cup Callbacks : Place(x)' = Place(x)
  BY DirectoryKept DEF Place
<1>a. monitors \subseteq Monitors
  BY DEF Typed, ClientsTyped
<1>1. CASE StateChanged
  BY <1>1, <1>0, <1>a DEF StateChanged, clients, IsAnyoneMonitoringFileList
<1>2. CASE FileListStartOrStop
  BY <1>2, <1>0, <1>a DEF FileListStartOrStop, clients, IsAnyoneMonitoringFileList
<1>3. CASE LoadCancel
  BY <1>3, <1>0, <1>a DEF LoadCancel, clients, IsAnyoneMonitoringFileList
<1>4. CASE LoadEnded
  BY <1>4, <1>0, <1>a DEF LoadEnded, clients, IsAnyoneMonitoringFileList
<1>5. CASE Stop
  BY <1>5, <1>0, <1>a DEF Stop, clients, IsAnyoneMonitoringFileList
<1>6. CASE HighPriorityQueue
  BY <1>6, <1>0, <1>a DEF HighPriorityQueue, clients, IsAnyoneMonitoringFileList
<1>7. CASE LowPriorityQueue
  BY <1>7, <1>0, <1>a DEF LowPriorityQueue, clients, IsAnyoneMonitoringFileList
<1>8. CASE ExtensionQueue
  BY <1>8, <1>0, <1>a DEF ExtensionQueue, clients, IsAnyoneMonitoringFileList
<1>9. CASE QueuesEmpty
  BY <1>9, <1>0, <1>a DEF QueuesEmpty, clients, IsAnyoneMonitoringFileList
<1>10. CASE CallReadyCallbacks
  BY <1>10, <1>0, <1>a DEF Typed, ClientsTyped, CallReadyCallbacks, Found, IsAnyoneMonitoringFileList
<1>11. CASE WakeUp
  BY <1>11, <1>0, <1>a DEF WakeUp, clients, IsAnyoneMonitoringFileList
<1>12. CASE Waking
  BY <1>12, <1>0, <1>a DEF Waking, clients, IsAnyoneMonitoringFileList
<1>13. CASE Told
  BY <1>13, <1>0, <1>a DEF Told, clients, IsAnyoneMonitoringFileList
<1>14. CASE Invalidate
  BY <1>14, <1>0, <1>a DEF Invalidate, clients, IsAnyoneMonitoringFileList
<1>15. CASE Cancelled
  BY <1>15, <1>0, <1>a DEF Cancelled, clients, IsAnyoneMonitoringFileList
<1>16. CASE Reload
  BY <1>16, <1>0, <1>a DEF Reload, clients, IsAnyoneMonitoringFileList
<1>17. CASE Unloaded
  BY <1>17, <1>0, <1>a DEF Unloaded, clients, IsAnyoneMonitoringFileList
<1>18. CASE Reloaded
  BY <1>18, <1>0, <1>a DEF Reloaded, clients, IsAnyoneMonitoringFileList
<1>19. ASSUME NEW m \in Monitors, MonitorAdd(m) PROVE (IsAnyoneMonitoringFileList(e)' <=> IsAnyoneMonitoringFileList(e)) \/ (todo = <<>> /\ On(todo', "state changed", e))
  <2>1. More(todo', <<>>, {<<"state changed", Place(m)>>})
    BY <1>19, AskedStack
  <2>2. On(todo', "state changed", Place(m))
    BY <2>1, MoreOne
  <2>4. todo = <<>>
    BY <1>19 DEF MonitorAdd, Ask, MainLoop
  <2>3. CASE e # Place(m)
    BY <1>19, <1>0, <2>3 DEF MonitorAdd, Typed, ClientsTyped, IsAnyoneMonitoringFileList
  <2> QED
    BY <2>2, <2>3, <2>4
<1>20. ASSUME NEW m \in Monitors, MonitorRemove(m) PROVE (IsAnyoneMonitoringFileList(e)' <=> IsAnyoneMonitoringFileList(e)) \/ (todo = <<>> /\ On(todo', "state changed", e))
  <2>1. More(todo', <<>>, {<<"state changed", Place(m)>>})
    BY <1>20, AskedStack
  <2>2. On(todo', "state changed", Place(m))
    BY <2>1, MoreOne
  <2>4. todo = <<>>
    BY <1>20 DEF MonitorRemove, Ask, MainLoop
  <2>3. CASE e # Place(m)
    BY <1>20, <1>0, <2>3 DEF MonitorRemove, Typed, ClientsTyped, IsAnyoneMonitoringFileList
  <2> QED
    BY <2>2, <2>3, <2>4
<1>21. ASSUME NEW c \in Callbacks, CallWhenReady(c) PROVE (IsAnyoneMonitoringFileList(e)' <=> IsAnyoneMonitoringFileList(e)) \/ (todo = <<>> /\ On(todo', "state changed", e))
  <2>1. More(todo', <<>>, {<<"state changed", Place(c)>>})
    BY <1>21, AskedStack
  <2>2. On(todo', "state changed", Place(c))
    BY <2>1, MoreOne
  <2>4. todo = <<>>
    BY <1>21 DEF CallWhenReady, Ask, MainLoop
  <2>3. CASE e # Place(c)
    BY <1>21, <1>0, <2>3 DEF Typed, ClientsTyped, CallWhenReady, IsAnyoneMonitoringFileList
  <2> QED
    BY <2>2, <2>3, <2>4
<1>22. ASSUME NEW c \in Callbacks, CancelCallback(c) PROVE (IsAnyoneMonitoringFileList(e)' <=> IsAnyoneMonitoringFileList(e)) \/ (todo = <<>> /\ On(todo', "state changed", e))
  BY <1>22, <1>0, <1>a DEF Typed, ClientsTyped, CancelCallback, IsAnyoneMonitoringFileList
<1>23. ASSUME NEW f \in Files, NotifyFileChanged(f) PROVE (IsAnyoneMonitoringFileList(e)' <=> IsAnyoneMonitoringFileList(e)) \/ (todo = <<>> /\ On(todo', "state changed", e))
  BY <1>23, <1>0, <1>a DEF NotifyFileChanged, clients, IsAnyoneMonitoringFileList
<1>24. ASSUME NEW f \in Files, NotifyFileRemoved(f) PROVE (IsAnyoneMonitoringFileList(e)' <=> IsAnyoneMonitoringFileList(e)) \/ (todo = <<>> /\ On(todo', "state changed", e))
  BY <1>24, <1>0, <1>a DEF NotifyFileRemoved, clients, IsAnyoneMonitoringFileList
<1>25. ASSUME NEW f \in Files, InvalidateFile(f, AllAttributes) PROVE (IsAnyoneMonitoringFileList(e)' <=> IsAnyoneMonitoringFileList(e)) \/ (todo = <<>> /\ On(todo', "state changed", e))
  BY <1>25, <1>0, <1>a DEF InvalidateFile, clients, IsAnyoneMonitoringFileList
<1>26. ASSUME NEW d \in Dirs, ForceReload(d) PROVE (IsAnyoneMonitoringFileList(e)' <=> IsAnyoneMonitoringFileList(e)) \/ (todo = <<>> /\ On(todo', "state changed", e))
  BY <1>26, <1>0, <1>a DEF ForceReload, clients, IsAnyoneMonitoringFileList
<1>27. ASSUME NEW d \in Dirs, NEW k \in Kinds, Answer(d, k) PROVE (IsAnyoneMonitoringFileList(e)' <=> IsAnyoneMonitoringFileList(e)) \/ (todo = <<>> /\ On(todo', "state changed", e))
  BY <1>27, <1>0, <1>a DEF Answer, clients, IsAnyoneMonitoringFileList
<1>28. ASSUME NEW d \in Dirs, DirectoryLoadDone(d) PROVE (IsAnyoneMonitoringFileList(e)' <=> IsAnyoneMonitoringFileList(e)) \/ (todo = <<>> /\ On(todo', "state changed", e))
  BY <1>28, <1>0, <1>a DEF DirectoryLoadDone, clients, IsAnyoneMonitoringFileList
<1>29. ASSUME NEW d \in Dirs, CallReadyCallbacksAtIdle(d) PROVE (IsAnyoneMonitoringFileList(e)' <=> IsAnyoneMonitoringFileList(e)) \/ (todo = <<>> /\ On(todo', "state changed", e))
  BY <1>29, <1>0, <1>a DEF Typed, ClientsTyped, CallReadyCallbacksAtIdle, IsAnyoneMonitoringFileList
<1>30. ASSUME NEW d \in Dirs, DirectoryReads(d) PROVE (IsAnyoneMonitoringFileList(e)' <=> IsAnyoneMonitoringFileList(e)) \/ (todo = <<>> /\ On(todo', "state changed", e))
  BY <1>30, <1>0, <1>a DEF DirectoryReads, clients, IsAnyoneMonitoringFileList
<1> QED
  BY StepsAre, <1>1, <1>2, <1>3, <1>4, <1>5, <1>6, <1>7, <1>8, <1>9, <1>10, <1>11, <1>12, <1>13, <1>14, <1>15, <1>16, <1>17, <1>18, <1>19, <1>20, <1>21, <1>22, <1>23, <1>24, <1>25, <1>26, <1>27, <1>28, <1>29, <1>30

\* A call that returns, unless it leaves its loop or has woken up who waits.
LEMMA ReturnServing ==
  ASSUME Typed, Stacked, NEW x, Running(x), x \notin {"ready", "waking"}
  PROVE  Serving(Rest, inLoop, waking) /\ Lawful(Rest)
<1>1. /\ \A y, e : On(todo, y, e) <=> (y = x /\ e = This.dir) \/ On(Rest, y, e)
      /\ Legal(This, Rest) /\ Lawful(Rest)
  BY TopOn DEF Typed, Stacked
<1>2. This.do = x
  BY TopIs DEF Typed
<1>3. Legal(This, Rest)
  BY <1>1
<1>4. waking => \E d \in Dirs : On(Rest, "waking", d)
  BY <1>1 DEF Stacked, Serving
<1>5. ASSUME NEW d \in Dirs
      PROVE  Looping(Rest, inLoop, d)
  BY <1>1, <1>2, <1>3 DEF Stacked, Serving, Looping, Legal
<1> QED
  BY <1>1, <1>4, <1>5 DEF Serving

LoopRoutines == {"file list", "stop", "queues", "ready"}

LEMMA MoreServing ==
  \A t, r, L, w, C : Serving(r, L, w) /\ More(t, r, C) /\ (\A y \in LoopRoutines : \A e : <<y, e>> \notin C)
    => Serving(t, L, w)
<1> SUFFICES ASSUME NEW t, NEW r, NEW L, NEW w, NEW C, Serving(r, L, w), More(t, r, C),
                    \A y \in LoopRoutines : \A e : <<y, e>> \notin C
             PROVE  Serving(t, L, w)
  OBVIOUS
<1>1. \A y, e : On(t, y, e) <=> <<y, e>> \in C \/ On(r, y, e)
  BY DEF More
<1>2. \A y \in LoopRoutines : \A e : On(t, y, e) <=> On(r, y, e)
  BY <1>1
<1>3. w => \E d \in Dirs : On(t, "waking", d)
  BY <1>1 DEF Serving
<1>4. \A d \in Dirs : Looping(t, L, d)
  BY <1>2 DEF Serving, Looping, LoopRoutines
<1> QED
  BY <1>3, <1>4 DEF Serving

LEMMA LoopServing ==
  \A t, r, L, w : \A d \in Dirs : Serving(r, L, w) /\ More(t, r, LoopCalls(d)) => Serving(t, L \cup {d}, w)
<1> SUFFICES ASSUME NEW t, NEW r, NEW L, NEW w, NEW d \in Dirs, Serving(r, L, w), More(t, r, LoopCalls(d))
             PROVE  Serving(t, L \cup {d}, w)
  OBVIOUS
<1>1. \A y, e : On(t, y, e) <=> (y \in {"file list", "stop", "queues", "ready"} /\ e = d) \/ On(r, y, e)
  BY MoreLoop
<1> QED
  BY <1>1 DEF Serving, Looping

\* The main loop is in no service loop.
LEMMA IdleServing ==
  ASSUME Stacked, todo = <<>>
  PROVE  Serving(<<>>, inLoop, waking) /\ inLoop \cap Dirs = {} /\ again \cap Dirs = {} /\ ~waking
<1>1. Serving(<<>>, inLoop, waking) /\ again \subseteq inLoop
  BY DEF Stacked
<1>2. \A x, d : ~On(<<>>, x, d)
  BY NothingOn
<1> QED
  BY <1>1, <1>2 DEF Serving, Looping

\* What is over the stack of the main loop, and what a client asks for, keeps it so.
LEMMA AskedStacked ==
  ASSUME Stacked, todo = <<>>, Lawful(todo'), NEW C, More(todo', <<>>, C),
         \A y \in LoopRoutines : \A e : <<y, e>> \notin C,
         inLoop' = inLoop, again' = again, waking' = waking
  PROVE  Stacked'
<1>1. Serving(<<>>, inLoop, waking)
  BY IdleServing
<1>2. Serving(todo', inLoop, waking)
  BY <1>1, MoreServing
<1> QED
  BY <1>2 DEF Stacked

LEMMA StackedKept ==
  ASSUME Typed, Stacked, Listed, Next, "Moved" \notin Changes
  PROVE  Stacked'
<1>0. StackTyped /\ Stacked
  BY DEF Typed
<1>1. CASE StateChanged
  <2>1. Running("state changed") /\ waking' = waking
    BY <1>1 DEF StateChanged
  <2>2. Serving(Rest, inLoop, waking) /\ Lawful(Rest)
    BY <2>1, ReturnServing
  <2>3. CASE This.dir \in inLoop
    BY <1>1, <2>3, StateChangedOn, <1>0, <2>1, <2>2 DEF Stacked
  <2>4. CASE This.dir \notin inLoop
    <3>1. /\ This.dir \in Dirs /\ inLoop' = inLoop \cup {This.dir} /\ again' = again \ {This.dir}
          /\ More(todo', Rest, LoopCalls(This.dir))
      BY <1>1, <2>4, StateChangedOn
    <3>2. /\ ~On(Rest, "ready", This.dir) /\ ~On(Rest, "queues", This.dir)
          /\ ~On(Rest, "stop", This.dir) /\ ~On(Rest, "file list", This.dir)
      BY <2>2, <2>4, <3>1 DEF Serving, Looping
    <3>3. Lawful(todo')
      BY <1>1, <1>0, <2>4, <3>2, StateChangedOn DEF Stacked
    <3>4. Serving(todo', inLoop \cup {This.dir}, waking)
      BY <2>2, <3>1, LoopServing
    <3> QED
      BY <1>0, <2>1, <3>1, <3>3, <3>4 DEF Stacked
  <2> QED
    BY <2>3, <2>4
<1>2. CASE FileListStartOrStop
  <2>1. Running("file list") /\ waking' = waking /\ inLoop' = inLoop /\ again' = again
    BY <1>2 DEF FileListStartOrStop
  <2>2. Serving(Rest, inLoop, waking) /\ Lawful(Rest)
    BY <2>1, ReturnServing
  <2>3. This.dir \in Dirs /\ On(todo, "file list", This.dir) /\ On(Rest, "ready", This.dir)
    <3>1. This.dir \in Dirs /\ On(todo, "file list", This.dir)
      BY <1>0, <2>1, TopIs, TopOn
    <3>2. On(todo, "ready", This.dir)
      BY <1>0, <3>1 DEF Stacked, Serving, Looping
    <3>3. \A y, e : On(todo, y, e) <=> (y = "file list" /\ e = This.dir) \/ On(Rest, y, e)
      BY <1>0, <2>1, TopOn
    <3> QED
      BY <3>1, <3>2, <3>3
  <2>4. ListAt(This.dir)
    BY <2>3 DEF Listed
  <2>5. ~(This.dir \notin monitored /\ InProgress(This.dir, "list"))
    BY <2>3, <2>4 DEF ListAt
  <2>6. CASE IsAnyoneMonitoringFileList(This.dir) \/ This.dir \notin monitored
    <3>1. todo' = Rest
      BY <1>2, <2>5, <2>6, FileListOn
    <3> QED
      BY <1>0, <2>1, <2>2, <3>1 DEF Stacked
  <2>7. CASE ~IsAnyoneMonitoringFileList(This.dir) /\ This.dir \in monitored
    <3>1. More(todo', Rest, {<<"load cancel", This.dir>>})
      BY <1>2, <2>5, <2>7, FileListOn
    <3>2. ~LoadOn(This.dir)
      BY <2>4, <2>7 DEF ListAt
    <3>3. ~On(Rest, "load cancel", This.dir) /\ ~On(Rest, "load ended", This.dir)
      BY <1>0, <2>1, <3>2, TopOn DEF LoadOn
    <3>4. Lawful(todo')
      BY <1>2, <1>0, <2>3, <2>5, <2>7, <3>3, FileListOn DEF Stacked
    <3>5. Serving(todo', inLoop, waking)
      BY <2>2, <3>1, MoreServing DEF LoopRoutines
    <3> QED
      BY <1>0, <2>1, <3>4, <3>5 DEF Stacked
  <2> QED
    BY <2>6, <2>7
<1>3. CASE LoadCancel
  BY <1>3, ReturnServing, <1>0, LoadCancelOn, MoreServing DEF LoadCancel, Stacked, LoopRoutines
<1>4. CASE LoadEnded
  BY <1>4, ReturnServing, <1>0 DEF LoadEnded, Return, Stacked
<1>5. CASE Stop
  BY <1>5, ReturnServing, <1>0 DEF Stop, Return, Stacked
<1>6. CASE HighPriorityQueue
  <2>1. Running("queues") /\ (todo' = Rest \/ todo' = todo) /\ inLoop' = inLoop /\ waking' = waking
    BY <1>6 DEF HighPriorityQueue, Return
  <2>2. Serving(Rest, inLoop, waking) /\ Lawful(Rest)
    BY <2>1, ReturnServing
  <2>3. Lawful(todo') /\ Serving(todo', inLoop, waking)
    BY <1>0, <2>1, <2>2 DEF Stacked
  <2>4. This.dir \in inLoop
    BY <1>0, <2>1, TopIs, TopOn DEF Stacked, Serving, Looping
  <2>5. again' \subseteq again \cup {This.dir}
    BY <1>6 DEF HighPriorityQueue
  <2> QED
    BY <1>0, <2>1, <2>3, <2>4, <2>5 DEF Stacked
<1>7. CASE LowPriorityQueue
  <2>1. Running("queues") /\ (todo' = Rest \/ todo' = todo) /\ inLoop' = inLoop /\ waking' = waking
    BY <1>7 DEF LowPriorityQueue, Return
  <2>2. Serving(Rest, inLoop, waking) /\ Lawful(Rest)
    BY <2>1, ReturnServing
  <2>3. Lawful(todo') /\ Serving(todo', inLoop, waking)
    BY <1>0, <2>1, <2>2 DEF Stacked
  <2>4. This.dir \in inLoop
    BY <1>0, <2>1, TopIs, TopOn DEF Stacked, Serving, Looping
  <2>5. again' \subseteq again \cup {This.dir}
    BY <1>7 DEF LowPriorityQueue
  <2> QED
    BY <1>0, <2>1, <2>3, <2>4, <2>5 DEF Stacked
<1>8. CASE ExtensionQueue
  <2>1. Running("queues") /\ (todo' = Rest \/ todo' = todo) /\ inLoop' = inLoop /\ waking' = waking
    BY <1>8 DEF ExtensionQueue, Return
  <2>2. Serving(Rest, inLoop, waking) /\ Lawful(Rest)
    BY <2>1, ReturnServing
  <2>3. Lawful(todo') /\ Serving(todo', inLoop, waking)
    BY <1>0, <2>1, <2>2 DEF Stacked
  <2>4. This.dir \in inLoop
    BY <1>0, <2>1, TopIs, TopOn DEF Stacked, Serving, Looping
  <2>5. again' \subseteq again \cup {This.dir}
    BY <1>8 DEF ExtensionQueue
  <2> QED
    BY <1>0, <2>1, <2>3, <2>4, <2>5 DEF Stacked
<1>9. CASE QueuesEmpty
  BY <1>9, ReturnServing, <1>0 DEF QueuesEmpty, Return, Stacked
<1>10. CASE CallReadyCallbacks
  <2>1. Running("ready") /\ waking' = waking
    BY <1>10 DEF CallReadyCallbacks
  <2>2. /\ \A y, e : On(todo, y, e) <=> (y = "ready" /\ e = This.dir) \/ On(Rest, y, e)
        /\ Legal(This, Rest) /\ Lawful(todo) /\ This.do = "ready"
    BY <1>0, <2>1, TopOn, TopIs DEF Stacked
  <2>3. Serving(Rest, inLoop \ {This.dir}, waking)
    <3>1. ASSUME NEW d \in Dirs PROVE Looping(Rest, inLoop \ {This.dir}, d)
      BY <1>0, <2>2 DEF Stacked, Serving, Looping, Legal
    <3>2. waking => \E d \in Dirs : On(Rest, "waking", d)
      BY <1>0, <2>2 DEF Stacked, Serving
    <3> QED
      BY <3>1, <3>2 DEF Serving
  <2>4. This.dir \in Dirs /\ again' = again \ {This.dir} /\ Lawful(todo')
        /\ \/ inLoop' = inLoop /\ More(todo', Rest, LoopCalls(This.dir))
           \/ inLoop' = inLoop \ {This.dir} /\ More(todo', Rest, {<<"wake up", This.dir>>})
    BY <1>10, <2>2, CallReadyOn
  <2>5. CASE inLoop' = inLoop /\ More(todo', Rest, LoopCalls(This.dir))
    <3>1. Serving(todo', (inLoop \ {This.dir}) \cup {This.dir}, waking)
      BY <2>3, <2>4, <2>5, LoopServing
    <3>2. This.dir \in inLoop
      BY <1>0, <2>2, <2>4 DEF Stacked, Serving, Looping
    <3>3. (inLoop \ {This.dir}) \cup {This.dir} = inLoop
      BY <3>2
    <3> QED
      BY <1>0, <2>1, <2>4, <2>5, <3>1, <3>3 DEF Stacked
  <2>6. CASE inLoop' = inLoop \ {This.dir} /\ More(todo', Rest, {<<"wake up", This.dir>>})
    BY <2>3, <2>6, MoreServing, <1>0, <2>1, <2>4 DEF LoopRoutines, Stacked
  <2> QED
    BY <2>4, <2>5, <2>6
<1>11. CASE WakeUp
  <2>1. Running("wake up") /\ inLoop' = inLoop /\ again' = again
    BY <1>11 DEF WakeUp
  <2>2. Serving(Rest, inLoop, waking) /\ Lawful(Rest)
    BY <2>1, ReturnServing
  <2>3. This.dir \in Dirs /\ Lawful(todo')
        /\ \/ waking' = waking /\ todo' = Rest
           \/ More(todo', Rest, {<<"waking", This.dir>>})
    BY <1>11, <2>2, WakeUpStack
  <2>4. CASE waking' = waking /\ todo' = Rest
    BY <1>0, <2>1, <2>2, <2>4 DEF Stacked
  <2>5. CASE More(todo', Rest, {<<"waking", This.dir>>})
    BY <2>2, <2>5, MoreServing, MoreOne, <2>3, <1>0, <2>1 DEF LoopRoutines, Serving, Stacked
  <2> QED
    BY <2>3, <2>4, <2>5
<1>12. CASE Waking
  <2>1. Running("waking") /\ inLoop' = inLoop /\ again' = again
    BY <1>12 DEF Waking
  <2>2. CASE waking' = waking /\ \E d \in Dirs : More(todo', todo, {<<"state changed", d>>}) /\ (Lawful(todo') <=> Lawful(todo))
    <3>1. PICK d \in Dirs : More(todo', todo, {<<"state changed", d>>}) /\ (Lawful(todo') <=> Lawful(todo))
      BY <2>2
    <3>2. Serving(todo', inLoop, waking)
      BY <1>0, <3>1, MoreServing DEF LoopRoutines, Stacked
    <3> QED
      BY <1>0, <2>1, <2>2, <3>1, <3>2 DEF Stacked
  <2>3. CASE waking' = FALSE /\ todo' = Rest
    <3>1. /\ \A y, e : On(todo, y, e) <=> (y = "waking" /\ e = This.dir) \/ On(Rest, y, e)
          /\ Lawful(Rest)
      BY <1>0, <2>1, TopOn DEF Stacked
    <3>2. Serving(Rest, inLoop, FALSE)
      BY <1>0, <3>1 DEF Stacked, Serving, Looping
    <3> QED
      BY <1>0, <2>1, <2>3, <3>1, <3>2 DEF Stacked
  <2> QED
    BY <1>12, <2>2, <2>3, WakingStack
<1>13. CASE Told
  BY <1>13, ReturnServing, <1>0 DEF Told, Return, Stacked
<1>14. CASE Invalidate
  BY <1>14, ReturnServing, <1>0, InvalidateOn, MoreServing DEF Invalidate, Stacked, LoopRoutines
<1>15. CASE Cancelled
  BY <1>15, ReturnServing, <1>0, CancelledStack, MoreServing DEF Cancelled, Stacked, LoopRoutines
<1>16. CASE Reload
  BY <1>16, ReturnServing, <1>0, ReloadOn, MoreServing DEF Reload, Stacked, LoopRoutines
<1>17. CASE Unloaded
  BY <1>17, ReturnServing, <1>0, UnloadedOn, MoreServing DEF Unloaded, Stacked, LoopRoutines
<1>18. CASE Reloaded
  BY <1>18, ReturnServing, <1>0, ReloadedStack, MoreServing DEF Reloaded, Stacked, LoopRoutines
<1>19. ASSUME NEW m \in Monitors, MonitorAdd(m) PROVE Stacked'
  BY <1>19, AskedStack, <1>0, AskedStacked DEF MonitorAdd, Ask, MainLoop, LoopRoutines
<1>20. ASSUME NEW m \in Monitors, MonitorRemove(m) PROVE Stacked'
  BY <1>20, AskedStack, <1>0, AskedStacked DEF MonitorRemove, Ask, MainLoop, LoopRoutines
<1>21. ASSUME NEW c \in Callbacks, CallWhenReady(c) PROVE Stacked'
  BY <1>21, AskedStack, <1>0, AskedStacked DEF CallWhenReady, Ask, MainLoop, LoopRoutines
<1>22. ASSUME NEW c \in Callbacks, CancelCallback(c) PROVE Stacked'
  BY <1>22, AskedStack, <1>0, AskedStacked DEF CancelCallback, Ask, MainLoop, LoopRoutines
<1>23. ASSUME NEW f \in Files, NotifyFileChanged(f) PROVE Stacked'
  BY <1>23, AskedStack, <1>0, AskedStacked DEF NotifyFileChanged, Ask, MainLoop, LoopRoutines
<1>24. ASSUME NEW f \in Files, NotifyFileRemoved(f) PROVE Stacked'
  BY <1>24, NotifyFileRemovedOn, <1>0, AskedStacked DEF NotifyFileRemoved, Ask, MainLoop, LoopRoutines
<1>25. ASSUME NEW f \in Files, InvalidateFile(f, AllAttributes) PROVE Stacked'
  BY <1>25, InvalidateFileOn, <1>0, AskedStacked DEF InvalidateFile, Ask, MainLoop, LoopRoutines
<1>26. ASSUME NEW d \in Dirs, ForceReload(d) PROVE Stacked'
  BY <1>26, ForceReloadOn, <1>0, AskedStacked DEF ForceReload, Ask, MainLoop, LoopRoutines
<1>27. ASSUME NEW d \in Dirs, NEW k \in Kinds, Answer(d, k) PROVE Stacked'
  BY <1>27, AskedStack, <1>0, AskedStacked DEF Answer, Ask, MainLoop, LoopRoutines
<1>28. ASSUME NEW d \in Dirs, DirectoryLoadDone(d) PROVE Stacked'
  BY <1>28, AfterLoadOn, <1>0, AskedStacked DEF DirectoryLoadDone, MainLoop, LoopRoutines
<1>29. ASSUME NEW d \in Dirs, CallReadyCallbacksAtIdle(d) PROVE Stacked'
  BY <1>29, AskedStack, <1>0, AskedStacked DEF CallReadyCallbacksAtIdle, Ask, MainLoop, LoopRoutines
<1>30. ASSUME NEW d \in Dirs, DirectoryReads(d) PROVE Stacked'
  BY <1>30, AskedStack, <1>0, AskedStacked DEF DirectoryReads, MainLoop, LoopRoutines
<1> QED
  BY StepsAre, <1>1, <1>2, <1>3, <1>4, <1>5, <1>6, <1>7, <1>8, <1>9, <1>10, <1>11, <1>12, <1>13, <1>14, <1>15, <1>16, <1>17, <1>18, <1>19, <1>20, <1>21, <1>22, <1>23, <1>24, <1>25, <1>26, <1>27, <1>28, <1>29, <1>30

\* A step after which the list of d is served as it was before.
Onward(d) ==
  /\ monitored' = monitored /\ loaded \subseteq loaded'
  /\ ListDue(d) => ListDue(d)'
  /\ d \in waiting => d \in waiting' \/ ListDue(d)'
  /\ InProgress(d, "list") /\ Held(todo, d) => Held(todo', d)
  /\ On(todo', "file list", d) => On(todo, "file list", d) \/ ~Held(todo, d)
  /\ LoadOn(d)' => LoadOn(d)
  /\ On(todo', "load ended", d) => On(todo, "load ended", d) \/ InProgress(d, "list")
  /\ On(todo, "unloaded", d) => On(todo', "unloaded", d)
  /\ On(todo, "reloaded", d) => On(todo', "reloaded", d) \/ ListDue(d)'

LEMMA OnwardListed ==
  ASSUME Typed, Next, "Moved" \notin Changes, todo # <<>>, ~FileListStartOrStop, ~LoadEnded,
         NEW d \in Dirs, ListAt(d), Onward(d)
  PROVE  ListAt(d)'
<1>1. /\ InProgress(d, "list")' <=> InProgress(d, "list")
      /\ IsAnyoneMonitoringFileList(d)' <=> IsAnyoneMonitoringFileList(d)
  BY ListsStay, WantsStays
<1>2. (d \in monitored' <=> d \in monitored) /\ (d \in loaded => d \in loaded')
  BY DEF Onward
<1>3. (d \in monitored' <=> IsAnyoneMonitoringFileList(d)') \/ ListDue(d)'
  BY <1>1, <1>2 DEF ListAt, Onward
<1>4. InProgress(d, "list")' /\ d \notin monitored' => Held(todo', d) /\ ~On(todo', "file list", d)
  BY <1>1, <1>2 DEF ListAt, Onward
<1>5. LoadOn(d)' /\ IsAnyoneMonitoringFileList(d)' => d \in loaded' \/ On(todo', "unloaded", d)
  BY <1>1, <1>2 DEF ListAt, Onward
<1>6. LoadOn(d)' /\ ~IsAnyoneMonitoringFileList(d)' => d \notin monitored'
  BY <1>1, <1>2 DEF ListAt, Onward
<1>7. On(todo', "load ended", d) => InProgress(d, "list")'
  BY <1>1 DEF ListAt, Onward
<1>8. d \in monitored' => \/ d \in loaded' \/ InProgress(d, "list")' \/ d \in waiting' \/ ListDue(d)'
                          \/ On(todo', "unloaded", d) \/ On(todo', "reloaded", d)
  BY <1>1, <1>2 DEF ListAt, Onward
<1> QED
  BY <1>3, <1>4, <1>5, <1>6, <1>7, <1>8 DEF ListAt

\* What the main loop begins serves the list of d, or leaves it.
LEMMA AskedListed ==
  ASSUME Typed, Stacked, Next, "Moved" \notin Changes, todo = <<>>, ~FileListStartOrStop, ~LoadEnded,
         NEW d \in Dirs, ListAt(d), d \in monitored' <=> d \in monitored, d \in loaded => d \in loaded',
         d \in waiting => d \in waiting', LoadOn(d)' => d \in loaded' /\ On(todo', "load cancel", d) /\ InProgress(d, "list"),
         ~On(todo', "file list", d), ~On(todo', "load ended", d),
         LoadOn(d)' => (IsAnyoneMonitoringFileList(d)' <=> IsAnyoneMonitoringFileList(d))
  PROVE  ListAt(d)'
<1>0. (\A x : ~On(todo, x, d)) /\ ~Held(todo, d) /\ d \notin again
  BY IdleServing, NothingOn
<1>1. InProgress(d, "list")' <=> InProgress(d, "list")
  BY ListsStay
<1>2. d \in monitored <=> IsAnyoneMonitoringFileList(d)
  BY <1>0 DEF ListAt, ListDue
<1>3. (IsAnyoneMonitoringFileList(d)' <=> IsAnyoneMonitoringFileList(d)) \/ ListDue(d)'
  BY WantsStays DEF ListDue
<1>4. InProgress(d, "list") => d \in monitored
  BY <1>0 DEF ListAt
<1>5. d \in monitored => d \in loaded \/ InProgress(d, "list") \/ d \in waiting
  BY <1>0 DEF ListAt, ListDue
<1> QED
  BY <1>1, <1>2, <1>3, <1>4, <1>5 DEF ListAt

\* A call that returns to those below it.
LEMMA ReturnOnward ==
  ASSUME Typed, NEW x, Running(x), todo' = Rest,
         x \notin {"state changed", "file list", "load cancel", "load ended", "unloaded", "reloaded"},
         monitored' = monitored, loaded' = loaded, again \subseteq again', waiting \subseteq waiting', NEW d
  PROVE  Onward(d)
<1>1. /\ \A y : On(todo, y, d) <=> (y = x /\ d = This.dir) \/ On(todo', y, d)
      /\ Held(todo, d) <=> Held(todo', d)
  BY TopOn DEF Typed, Loads
<1> QED
  BY <1>1 DEF Onward, ListDue, LoadOn

\* A call that calls others, none of which loads a list or goes round a loop.
LEMMA CallsOnward ==
  ASSUME Typed, NEW x, Running(x), NEW C, More(todo', Rest, C), Plainly(todo', Rest),
         x \notin {"state changed", "file list", "load cancel", "load ended", "unloaded"},
         \A y \in {"file list", "load cancel", "load ended"} : \A e : <<y, e>> \notin C,
         x = "reloaded" => C = {<<"state changed", This.dir>>},
         monitored' = monitored, loaded' = loaded, again \subseteq again', waiting \subseteq waiting', NEW d
  PROVE  Onward(d)
<1>1. /\ \A y : On(todo, y, d) <=> (y = x /\ d = This.dir) \/ On(Rest, y, d)
      /\ Held(todo, d) <=> Held(Rest, d)
  BY TopOn DEF Typed, Loads
<1>2. /\ \A y : On(todo', y, d) <=> <<y, d>> \in C \/ On(Rest, y, d)
      /\ Held(todo', d) <=> Held(Rest, d)
  BY DEF More, Plainly
<1>3. ListDue(d) => ListDue(d)'
  BY <1>1, <1>2 DEF ListDue
<1>4. On(todo, "reloaded", d) => On(todo', "reloaded", d) \/ ListDue(d)'
  BY <1>1, <1>2 DEF ListDue
<1> QED
  BY <1>1, <1>2, <1>3, <1>4 DEF Onward, LoadOn

\* Only what is put on the stack is on it.
LEMMA OnlyMore ==
  \A t, r, C, y, e : More(t, r, C) /\ <<y, e>> \notin C => (On(t, y, e) <=> On(r, y, e))
BY DEF More

LEMMA NoLoads ==
  ASSUME NEW t, NEW C, More(t, <<>>, C),
         \A y \in {"file list", "load cancel", "load ended"} : \A e : <<y, e>> \notin C
  PROVE  \A e : ~On(t, "file list", e) /\ ~On(t, "load cancel", e) /\ ~On(t, "load ended", e)
<1>1. \A y \in {"file list", "load cancel", "load ended"} : \A e : ~On(t, y, e)
  BY OnlyMore, NothingOn
<1> QED
  BY <1>1

LEMMA ListedKept ==
  ASSUME Typed, Stacked, Listed, Next, "Moved" \notin Changes
  PROVE  Listed'
<1>0. StackTyped /\ Stacked /\ Listed /\ (\A d \in Dirs : ListAt(d))
  BY DEF Typed, Listed
<1>1. CASE StateChanged
  <2>1. Running("state changed") /\ monitored' = monitored /\ todo # <<>>
    BY <1>1 DEF StateChanged, Running, lists
  <2>2. ~FileListStartOrStop /\ ~LoadEnded
    BY <2>1 DEF Running, FileListStartOrStop, LoadEnded
  <2>3. /\ \A y, e : On(todo, y, e) <=> (y = "state changed" /\ e = This.dir) \/ On(Rest, y, e)
        /\ \A e : Held(todo, e) <=> ("state changed" \in Loads /\ e = This.dir /\ On(Rest, "ready", e)) \/ Held(Rest, e)
        /\ Legal(This, Rest) /\ This.do = "state changed"
    BY <1>0, <2>1, TopOn, TopIs DEF Stacked
  <2>4. waiting \subseteq waiting' /\ loaded' = loaded
    BY <1>1, <2>1, WaitingStays DEF Running, Waking, StateChanged, lists
  <2>9. ASSUME NEW d \in Dirs PROVE ListAt(d)'
    <3>1. CASE This.dir \in inLoop
      <4>1. todo' = Rest /\ again' = again \cup {This.dir}
        BY <1>1, <3>1, StateChangedOn
      <4>2. Onward(d)
        BY <2>1, <2>3, <2>4, <4>1 DEF Onward, ListDue, LoadOn, Loads
      <4> QED
        BY <1>0, <2>1, <2>2, <4>2, OnwardListed
    <3>2. CASE This.dir \notin inLoop
      <4>1. /\ again' = again \ {This.dir} /\ More(todo', Rest, LoopCalls(This.dir)) /\ Plainly(todo', Rest)
            /\ This.dir \in Dirs
        BY <1>1, <3>2, StateChangedOn
      <4>2. \A y, e : On(todo', y, e) <=> (y \in {"file list", "stop", "queues", "ready"} /\ e = This.dir) \/ On(Rest, y, e)
        BY <4>1, MoreLoop
      <4>3. ~On(todo, "ready", This.dir)
        BY <1>0, <3>2, <4>1 DEF Stacked, Serving, Looping
      <4>4. ~Held(todo, This.dir)
        BY <4>3, HeldReady
      <4>5. Held(todo', d) <=> Held(Rest, d)
        BY <4>1 DEF Plainly
      <4>6. Onward(d)
        BY <2>1, <2>3, <2>4, <4>1, <4>2, <4>4, <4>5 DEF Onward, ListDue, LoadOn, Loads
      <4> QED
        BY <1>0, <2>1, <2>2, <4>6, OnwardListed
    <3> QED
      BY <3>1, <3>2
  <2> QED
    BY <2>9 DEF Listed
<1>2. CASE FileListStartOrStop
  <2> DEFINE e == This.dir
             wanted == IsAnyoneMonitoringFileList(e)
  <2>1. Running("file list") /\ todo # <<>> /\ again' = again
    BY <1>2 DEF FileListStartOrStop, Running
  <2>2. /\ \A y, c : On(todo, y, c) <=> (y = "file list" /\ c = e) \/ On(Rest, y, c)
        /\ \A c : Held(todo, c) <=> ("file list" \in Loads /\ c = e /\ On(Rest, "ready", c)) \/ Held(Rest, c)
        /\ Legal(This, Rest) /\ This.do = "file list" /\ e \in Dirs
    BY <1>0, <2>1, TopOn, TopIs DEF Stacked
  <2>3. ~On(Rest, "file list", e)
    BY <2>2 DEF Legal
  <2>4. ListAt(e) /\ On(todo, "file list", e) /\ On(Rest, "ready", e)
    BY <1>0, <2>2 DEF Stacked, Serving, Looping
  <2>5. ~(e \notin monitored /\ InProgress(e, "list"))
    BY <2>4 DEF ListAt
  <2>6. /\ monitored' = IF wanted THEN monitored \cup {e} ELSE monitored \ {e}
        /\ loaded' = IF wanted THEN loaded ELSE loaded \ {e}
    BY <1>2, <2>5 DEF FileListStartOrStop
  <2>7. \A c : InProgress(c, "list")' <=> \/ InProgress(c, "list")
                                          \/ c = e /\ wanted /\ e \notin loaded /\ ~InProgress(e, "list") /\ jobs < MaxJobs
    <3>1. \/ ops' = ops /\ ~(wanted /\ e \notin loaded /\ ~InProgress(e, "list") /\ jobs < MaxJobs)
          \/ /\ wanted /\ e \notin loaded /\ ~InProgress(e, "list") /\ jobs < MaxJobs
             /\ ops' = ops \cup {Operation(e, "list", Standing(e))}
      BY <1>2, <2>5 DEF FileListStartOrStop, jobVars
    <3>2. Operation(e, "list", Standing(e)).dir = e /\ Operation(e, "list", Standing(e)).kind = "list"
      BY DEF Operation
    <3> HIDE DEF e, wanted
    <3> QED
      BY <3>1, <3>2 DEF InProgress
  <2>8. /\ waiting \subseteq waiting'
        /\ wanted /\ e \notin loaded /\ ~InProgress(e, "list") /\ ~(jobs < MaxJobs) => e \in waiting'
    BY <1>2, <2>5 DEF FileListStartOrStop, jobVars
  <2>10. /\ wanted \/ e \notin monitored => todo' = Rest
         /\ ~wanted /\ e \in monitored =>
              /\ More(todo', Rest, {<<"load cancel", e>>})
              /\ \A c : Held(todo', c) <=> (c = e /\ On(Rest, "ready", c)) \/ Held(Rest, c)
    BY <1>2, <2>5, FileListOn
  <2>11. /\ \A y, c : On(todo', y, c) <=> (y = "load cancel" /\ c = e /\ ~wanted /\ e \in monitored) \/ On(Rest, y, c)
         /\ \A c : Held(todo', c) <=> (c = e /\ ~wanted /\ e \in monitored) \/ Held(Rest, c)
    BY <2>4, <2>10, MoreOne
  <2>9. ASSUME NEW d \in Dirs PROVE ListAt(d)'
    <3>1. IsAnyoneMonitoringFileList(d)' <=> IsAnyoneMonitoringFileList(d)
      BY <2>1, WantsStays
    <3>2. ListAt(d)
      BY <1>0
    <3>3. CASE d = e
      <4> HIDE DEF e, wanted
      <4>0. IsAnyoneMonitoringFileList(d) <=> wanted
        BY <3>3 DEF wanted
      <4>1. d \in monitored' <=> wanted
        BY <2>6, <3>3
      <4>2. d \in loaded' <=> d \in loaded /\ wanted
        BY <2>6, <3>3
      <4>3. InProgress(d, "list")' /\ d \notin monitored' => Held(todo', d) /\ ~On(todo', "file list", d)
        BY <2>3, <2>5, <2>7, <2>11, <3>3, <4>1
      <4>4. LoadOn(d)' /\ IsAnyoneMonitoringFileList(d)' => d \in loaded' \/ On(todo', "unloaded", d)
        BY <2>2, <2>11, <3>1, <3>2, <3>3, <4>0, <4>2 DEF LoadOn, ListAt
      <4>5. On(todo', "load ended", d) => InProgress(d, "list")'
        BY <2>2, <2>7, <2>11, <3>2, <3>3 DEF ListAt
      <4>6. d \in monitored' => d \in loaded' \/ InProgress(d, "list")' \/ d \in waiting'
        BY <2>7, <2>8, <3>3, <4>1, <4>2
      <4> QED
        BY <3>1, <4>0, <4>1, <4>3, <4>4, <4>5, <4>6 DEF ListAt
    <3>4. CASE d # e
      <4> HIDE DEF e, wanted
      <4>1. (d \in monitored' <=> d \in monitored) /\ (d \in loaded' <=> d \in loaded)
        BY <2>6, <3>4
      <4>2. /\ InProgress(d, "list")' <=> InProgress(d, "list")
            /\ Held(todo', d) <=> Held(todo, d)
            /\ \A y : On(todo', y, d) <=> On(todo, y, d)
        BY <2>2, <2>7, <2>11, <3>4 DEF Loads
      <4>3. d \in waiting => d \in waiting'
        BY <2>8
      <4> QED
        BY <2>1, <3>1, <3>2, <4>1, <4>2, <4>3 DEF ListAt, ListDue, LoadOn
    <3> QED
      BY <3>3, <3>4
  <2> QED
    BY <2>9 DEF Listed
<1>3. CASE LoadCancel
  <2>1. Running("load cancel") /\ monitored' = monitored /\ todo # <<>>
    BY <1>3 DEF LoadCancel, Running, lists
  <2>2. ~FileListStartOrStop /\ ~LoadEnded
    BY <2>1 DEF Running, FileListStartOrStop, LoadEnded
  <2>3. /\ \A y, e : On(todo, y, e) <=> (y = "load cancel" /\ e = This.dir) \/ On(Rest, y, e)
        /\ \A e : Held(todo, e) <=> ("load cancel" \in Loads /\ e = This.dir /\ On(Rest, "ready", e)) \/ Held(Rest, e)
        /\ Legal(This, Rest) /\ This.do = "load cancel"
    BY <1>0, <2>1, TopOn, TopIs DEF Stacked
  <2>4. waiting \subseteq waiting' /\ loaded' = loaded /\ again' = again
    BY <1>3, <2>1, WaitingStays DEF Running, Waking, LoadCancel, lists
  <2>9. ASSUME NEW d \in Dirs PROVE ListAt(d)'
    <3>1. CASE ~InProgress(This.dir, "list") /\ todo' = Rest
      <4>1. Onward(d)
        BY <2>1, <2>3, <2>4, <3>1 DEF Onward, ListDue, LoadOn, Loads
      <4> QED
        BY <1>0, <2>1, <2>2, <4>1, OnwardListed
    <3>2. CASE /\ InProgress(This.dir, "list")
               /\ \/ More(todo', Rest, {<<"load ended", This.dir>>})
                  \/ More(todo', Rest, {<<"load ended", This.dir>>, <<"state changed", directory[LoadFile(This.dir)]>>})
               /\ \A e : Held(todo', e) <=> (e = This.dir /\ On(Rest, "ready", e)) \/ Held(Rest, e)
      BY <3>2, <2>1, <2>3, <2>4, <1>0, <2>2, OnwardListed DEF More, Onward, ListDue, LoadOn, Loads
    <3> QED
      BY <1>3, <3>1, <3>2, LoadCancelOn
  <2> QED
    BY <2>9 DEF Listed
<1>4. CASE LoadEnded
  <2>1. Running("load ended") /\ monitored' = monitored /\ loaded' = loaded /\ again' = again /\ waiting' = waiting
        /\ todo' = Rest /\ todo # <<>> /\ ops' = {o \in ops : ~(o.dir = This.dir /\ o.kind = "list")}
    BY <1>4 DEF LoadEnded, Running, lists, Return
  <2>3. /\ \A y, e : On(todo, y, e) <=> (y = "load ended" /\ e = This.dir) \/ On(Rest, y, e)
        /\ \A e : Held(todo, e) <=> ("load ended" \in Loads /\ e = This.dir /\ On(Rest, "ready", e)) \/ Held(Rest, e)
        /\ Legal(This, Rest) /\ This.do = "load ended" /\ This.dir \in Dirs
    BY <1>0, <2>1, TopOn, TopIs DEF Stacked
  <2>4. \A d : InProgress(d, "list")' <=> InProgress(d, "list") /\ d # This.dir
    BY <2>1 DEF InProgress
  <2>5. ~On(Rest, "load cancel", This.dir) /\ ~On(Rest, "load ended", This.dir)
    BY <2>3 DEF Legal, Loads
  <2>9. ASSUME NEW d \in Dirs PROVE ListAt(d)'
    <3>1. IsAnyoneMonitoringFileList(d)' <=> IsAnyoneMonitoringFileList(d)
      BY <2>1, WantsStays
    <3>2. ListAt(d)
      BY <1>0
    <3>3. CASE d = This.dir
      BY <2>1, <2>3, <2>5, <3>3, <2>4, <3>1, <3>2 DEF LoadOn, ListAt, ListDue
    <3>4. CASE d # This.dir
      BY <2>1, <2>3, <2>4, <3>1, <3>2, <3>4 DEF ListAt, ListDue, LoadOn
    <3> QED
      BY <3>3, <3>4
  <2> QED
    BY <2>9 DEF Listed
<1>5. CASE Stop
  <2>1. Running("stop") /\ (todo' = Rest \/ todo' = todo) /\ monitored' = monitored /\ loaded' = loaded /\ again' = again /\ todo # <<>>
    BY <1>5 DEF Stop, Return, Running, lists
  <2>2. waiting \subseteq waiting' /\ ~FileListStartOrStop /\ ~LoadEnded
    BY <2>1, WaitingStays DEF Running, FileListStartOrStop, LoadEnded, Waking
  <2>3. ASSUME NEW d \in Dirs PROVE ListAt(d)'
    <3>1. CASE todo' = Rest
      BY <1>0, <2>1, <2>2, <3>1, ReturnOnward, OnwardListed
    <3>2. CASE todo' = todo
      BY <2>1, <2>2, <3>2, <1>0, OnwardListed DEF Onward, ListDue, LoadOn
    <3> QED
      BY <2>1, <3>1, <3>2
  <2> QED
    BY <2>3 DEF Listed
<1>6. CASE HighPriorityQueue
  <2>1. Running("queues") /\ (todo' = Rest \/ todo' = todo) /\ monitored' = monitored /\ loaded' = loaded /\ again \subseteq again' /\ todo # <<>>
    BY <1>6 DEF HighPriorityQueue, Return, Running, lists
  <2>2. waiting \subseteq waiting' /\ ~FileListStartOrStop /\ ~LoadEnded
    BY <2>1, WaitingStays DEF Running, FileListStartOrStop, LoadEnded, Waking
  <2>3. ASSUME NEW d \in Dirs PROVE ListAt(d)'
    <3>1. CASE todo' = Rest
      BY <1>0, <2>1, <2>2, <3>1, ReturnOnward, OnwardListed
    <3>2. CASE todo' = todo
      BY <2>1, <2>2, <3>2, <1>0, OnwardListed DEF Onward, ListDue, LoadOn
    <3> QED
      BY <2>1, <3>1, <3>2
  <2> QED
    BY <2>3 DEF Listed
<1>7. CASE LowPriorityQueue
  <2>1. Running("queues") /\ (todo' = Rest \/ todo' = todo) /\ monitored' = monitored /\ loaded' = loaded /\ again \subseteq again' /\ todo # <<>>
    BY <1>7 DEF LowPriorityQueue, Return, Running, lists
  <2>2. waiting \subseteq waiting' /\ ~FileListStartOrStop /\ ~LoadEnded
    BY <2>1, WaitingStays DEF Running, FileListStartOrStop, LoadEnded, Waking
  <2>3. ASSUME NEW d \in Dirs PROVE ListAt(d)'
    <3>1. CASE todo' = Rest
      BY <1>0, <2>1, <2>2, <3>1, ReturnOnward, OnwardListed
    <3>2. CASE todo' = todo
      BY <2>1, <2>2, <3>2, <1>0, OnwardListed DEF Onward, ListDue, LoadOn
    <3> QED
      BY <2>1, <3>1, <3>2
  <2> QED
    BY <2>3 DEF Listed
<1>8. CASE ExtensionQueue
  <2>1. Running("queues") /\ (todo' = Rest \/ todo' = todo) /\ monitored' = monitored /\ loaded' = loaded /\ again \subseteq again' /\ todo # <<>>
    BY <1>8 DEF ExtensionQueue, Return, Running, lists
  <2>2. waiting \subseteq waiting' /\ ~FileListStartOrStop /\ ~LoadEnded
    BY <2>1, WaitingStays DEF Running, FileListStartOrStop, LoadEnded, Waking
  <2>3. ASSUME NEW d \in Dirs PROVE ListAt(d)'
    <3>1. CASE todo' = Rest
      BY <1>0, <2>1, <2>2, <3>1, ReturnOnward, OnwardListed
    <3>2. CASE todo' = todo
      BY <2>1, <2>2, <3>2, <1>0, OnwardListed DEF Onward, ListDue, LoadOn
    <3> QED
      BY <2>1, <3>1, <3>2
  <2> QED
    BY <2>3 DEF Listed
<1>9. CASE QueuesEmpty
  <2>1. Running("queues") /\ todo' = Rest /\ monitored' = monitored /\ loaded' = loaded /\ again \subseteq again' /\ todo # <<>>
    BY <1>9 DEF QueuesEmpty, Return, Running, lists
  <2>2. waiting \subseteq waiting' /\ ~FileListStartOrStop /\ ~LoadEnded
    BY <2>1, WaitingStays DEF Running, FileListStartOrStop, LoadEnded, Waking
  <2>3. ASSUME NEW d \in Dirs PROVE ListAt(d)'
    BY <1>0, <2>1, <2>2, ReturnOnward, OnwardListed
  <2> QED
    BY <2>3 DEF Listed
<1>10. CASE CallReadyCallbacks
  <2>1. Running("ready") /\ monitored' = monitored /\ todo # <<>>
    BY <1>10 DEF CallReadyCallbacks, Running, lists
  <2>2. ~FileListStartOrStop /\ ~LoadEnded
    BY <2>1 DEF Running, FileListStartOrStop, LoadEnded
  <2>3. /\ \A y, e : On(todo, y, e) <=> (y = "ready" /\ e = This.dir) \/ On(Rest, y, e)
        /\ \A e : Held(todo, e) <=> ("ready" \in Loads /\ e = This.dir /\ On(Rest, "ready", e)) \/ Held(Rest, e)
        /\ Legal(This, Rest) /\ This.do = "ready"
    BY <1>0, <2>1, TopOn, TopIs DEF Stacked
  <2>4. waiting \subseteq waiting' /\ loaded' = loaded
    BY <1>10, <2>1, WaitingStays DEF Running, Waking, CallReadyCallbacks, lists
  <2>5. again' = again \ {This.dir} /\ Plainly(todo', Rest)
        /\ \/ More(todo', Rest, LoopCalls(This.dir))
           \/ This.dir \notin again /\ More(todo', Rest, {<<"wake up", This.dir>>})
    BY <1>10, CallReadyOn
  <2>6. \A e : Held(todo', e) <=> Held(Rest, e)
    BY <2>5 DEF Plainly
  <2>9. ASSUME NEW d \in Dirs PROVE ListAt(d)'
    <3>1. CASE More(todo', Rest, LoopCalls(This.dir))
      <4>1. \A y, e : On(todo', y, e) <=> (y \in {"file list", "stop", "queues", "ready"} /\ e = This.dir) \/ On(Rest, y, e)
        BY <3>1, MoreLoop
      <4>2. ~On(Rest, "ready", This.dir)
        BY <2>3 DEF Legal
      <4>3. ~Held(Rest, This.dir)
        BY <4>2, HeldReady
      <4>4. Onward(d)
        BY <2>1, <2>3, <2>4, <2>5, <2>6, <4>1, <4>3 DEF Onward, ListDue, LoadOn, Loads
      <4> QED
        BY <1>0, <2>1, <2>2, <4>4, OnwardListed
    <3>2. CASE This.dir \notin again /\ More(todo', Rest, {<<"wake up", This.dir>>})
      <4>1. \A y, e : On(todo', y, e) <=> (y = "wake up" /\ e = This.dir) \/ On(Rest, y, e)
        BY <3>2, MoreOne
      <4>2. Onward(d)
        BY <2>1, <2>3, <2>4, <2>5, <2>6, <3>2, <4>1 DEF Onward, ListDue, LoadOn, Loads
      <4> QED
        BY <1>0, <2>1, <2>2, <4>2, OnwardListed
    <3> QED
      BY <2>5, <3>1, <3>2
  <2> QED
    BY <2>9 DEF Listed
<1>11. CASE WakeUp
  <2> DEFINE C == {<<"waking", This.dir>>}
  <2>1. Running("wake up") /\ monitored' = monitored /\ loaded' = loaded /\ again' = again /\ todo # <<>>
    BY <1>11 DEF WakeUp, Running, lists
  <2>2. waiting \subseteq waiting' /\ ~FileListStartOrStop /\ ~LoadEnded
    BY <2>1, WaitingStays DEF Running, FileListStartOrStop, LoadEnded, Waking
  <2>3. todo' = Rest \/ (More(todo', Rest, C) /\ Plainly(todo', Rest))
    BY <1>11, WakeUpStack DEF Plainly
  <2>5. /\ \A y \in {"file list", "load cancel", "load ended"} : \A e : <<y, e>> \notin C
        /\ "wake up" = "reloaded" => C = {<<"state changed", This.dir>>}
        /\ "wake up" \notin {"state changed", "file list", "load cancel", "load ended", "unloaded"}
    OBVIOUS
  <2>6. again \subseteq again'
    BY <2>1
  <2> HIDE DEF C
  <2>4. ASSUME NEW d \in Dirs PROVE ListAt(d)'
    <3>1. CASE More(todo', Rest, C) /\ Plainly(todo', Rest)
      BY <2>1, <2>2, <2>5, <2>6, <3>1, CallsOnward, <1>0, OnwardListed
    <3>2. CASE todo' = Rest /\ "wake up" = "wake up"
      BY <2>1, <2>2, <3>2, ReturnOnward, <1>0, OnwardListed
    <3> QED
      BY <2>3, <3>1, <3>2
  <2> QED
    BY <2>4 DEF Listed
<1>12. CASE Waking
  <2>1. Running("waking") /\ monitored' = monitored /\ todo # <<>>
    BY <1>12 DEF Waking, Running, lists
  <2>2. ~FileListStartOrStop /\ ~LoadEnded
    BY <2>1 DEF Running, FileListStartOrStop, LoadEnded
  <2>3. /\ \A y, e : On(todo, y, e) <=> (y = "waking" /\ e = This.dir) \/ On(Rest, y, e)
        /\ \A e : Held(todo, e) <=> ("waking" \in Loads /\ e = This.dir /\ On(Rest, "ready", e)) \/ Held(Rest, e)
        /\ Legal(This, Rest) /\ This.do = "waking"
    BY <1>0, <2>1, TopOn, TopIs DEF Stacked
  <2>4. loaded' = loaded /\ again' = again
    BY <1>12 DEF Waking, lists
  <2>9. ASSUME NEW d \in Dirs PROVE ListAt(d)'
    <3>1. CASE waiting' = waiting /\ todo' = Rest
      BY <2>1, <2>3, <2>4, <3>1, <1>0, <2>2, OnwardListed DEF Onward, ListDue, LoadOn, Loads
    <3>2. CASE \E e \in Dirs : waiting' = waiting \ {e} /\ More(todo', todo, {<<"state changed", e>>}) /\ Plainly(todo', todo)
      <4>1. PICK e \in Dirs : waiting' = waiting \ {e} /\ More(todo', todo, {<<"state changed", e>>}) /\ Plainly(todo', todo)
        BY <3>2
      <4>2. \A y, g : On(todo', y, g) <=> (y = "state changed" /\ g = e) \/ On(todo, y, g)
        BY <4>1, MoreOne
      <4>3. Held(todo', d) <=> Held(todo, d)
        BY <4>1 DEF Plainly
      <4>4. Onward(d)
        BY <2>1, <2>4, <4>1, <4>2, <4>3 DEF Onward, ListDue, LoadOn
      <4> QED
        BY <1>0, <2>1, <2>2, <4>4, OnwardListed
    <3> QED
      BY <1>12, <3>1, <3>2, WakingStack
  <2> QED
    BY <2>9 DEF Listed
<1>13. CASE Told
  <2>1. Running("told") /\ todo' = Rest /\ monitored' = monitored /\ loaded' = loaded /\ again \subseteq again' /\ todo # <<>>
    BY <1>13 DEF Told, Return, Running, lists
  <2>2. waiting \subseteq waiting' /\ ~FileListStartOrStop /\ ~LoadEnded
    BY <2>1, WaitingStays DEF Running, FileListStartOrStop, LoadEnded, Waking
  <2>3. ASSUME NEW d \in Dirs PROVE ListAt(d)'
    BY <1>0, <2>1, <2>2, ReturnOnward, OnwardListed
  <2> QED
    BY <2>3 DEF Listed
<1>14. CASE Invalidate
  <2>1. Running("invalidate") /\ monitored' = monitored /\ todo # <<>>
    BY <1>14 DEF Invalidate, Running, lists
  <2>2. ~FileListStartOrStop /\ ~LoadEnded
    BY <2>1 DEF Running, FileListStartOrStop, LoadEnded
  <2>3. /\ \A y, e : On(todo, y, e) <=> (y = "invalidate" /\ e = This.dir) \/ On(Rest, y, e)
        /\ \A e : Held(todo, e) <=> ("invalidate" \in Loads /\ e = This.dir /\ On(Rest, "ready", e)) \/ Held(Rest, e)
        /\ Legal(This, Rest) /\ This.do = "invalidate"
    BY <1>0, <2>1, TopOn, TopIs DEF Stacked
  <2>4. waiting \subseteq waiting' /\ again' = again /\ loaded' = loaded
    BY <1>14, <2>1, WaitingStays DEF Running, Waking, Invalidate, lists
  <2>5. \/ todo' = Rest
        \/ /\ More(todo', Rest, {<<"state changed", directory[This.file]>>, <<"cancelled", directory[This.file]>>})
           /\ \A e : Held(todo', e) <=> Held(Rest, e)
    BY <1>14, InvalidateOn
  <2>9. ASSUME NEW d \in Dirs PROVE ListAt(d)'
    <3>1. CASE todo' = Rest
      BY <1>0, <2>1, <2>2, <2>4, <3>1, ReturnOnward, OnwardListed
    <3>2. CASE /\ More(todo', Rest, {<<"state changed", directory[This.file]>>, <<"cancelled", directory[This.file]>>})
               /\ \A e : Held(todo', e) <=> Held(Rest, e)
      BY <3>2, <2>1, <2>3, <2>4, <1>0, <2>2, OnwardListed DEF More, Onward, ListDue, LoadOn, Loads
    <3> QED
      BY <2>5, <3>1, <3>2
  <2> QED
    BY <2>9 DEF Listed
<1>15. CASE Cancelled
  <2> DEFINE C == {<<"state changed", directory[This.file]>>}
  <2>1. Running("cancelled") /\ monitored' = monitored /\ loaded' = loaded /\ again' = again /\ todo # <<>>
    BY <1>15 DEF Cancelled, Running, lists
  <2>2. waiting \subseteq waiting' /\ ~FileListStartOrStop /\ ~LoadEnded
    BY <2>1, WaitingStays DEF Running, FileListStartOrStop, LoadEnded, Waking
  <2>3. More(todo', Rest, C) /\ Plainly(todo', Rest)
    BY <1>15, CancelledStack DEF Plainly
  <2>5. /\ \A y \in {"file list", "load cancel", "load ended"} : \A e : <<y, e>> \notin C
        /\ "cancelled" = "reloaded" => C = {<<"state changed", This.dir>>}
        /\ "cancelled" \notin {"state changed", "file list", "load cancel", "load ended", "unloaded"}
    OBVIOUS
  <2>6. again \subseteq again'
    BY <2>1
  <2> HIDE DEF C
  <2>4. ASSUME NEW d \in Dirs PROVE ListAt(d)'
    BY <2>1, <2>2, <2>3, <2>5, <2>6, CallsOnward, <1>0, OnwardListed
  <2> QED
    BY <2>4 DEF Listed
<1>16. CASE Reload
  <2>1. Running("reload") /\ monitored' = monitored /\ todo # <<>>
    BY <1>16 DEF Reload, Running, lists
  <2>2. ~FileListStartOrStop /\ ~LoadEnded
    BY <2>1 DEF Running, FileListStartOrStop, LoadEnded
  <2>3. /\ \A y, e : On(todo, y, e) <=> (y = "reload" /\ e = This.dir) \/ On(Rest, y, e)
        /\ \A e : Held(todo, e) <=> ("reload" \in Loads /\ e = This.dir /\ On(Rest, "ready", e)) \/ Held(Rest, e)
        /\ Legal(This, Rest) /\ This.do = "reload"
    BY <1>0, <2>1, TopOn, TopIs DEF Stacked
  <2>4. loaded' = loaded /\ again' = again /\ waiting' = waiting
    BY <1>16 DEF Reload, lists, jobVars
  <2>5. /\ More(todo', Rest, {<<"load cancel", This.dir>>, <<"unloaded", This.dir>>}) /\ Rest = <<>>
        /\ \A e : Held(todo', e) <=> (e = This.dir /\ On(Rest, "ready", e)) \/ Held(Rest, e)
    BY <1>16, <1>0, ReloadOn DEF Stacked
  <2>6. /\ \A y, e : ~On(Rest, y, e)
        /\ \A e : ~Held(Rest, e)
    BY <2>5, NothingOn
  <2>7. \A y, e : On(todo', y, e) <=> (y = "load cancel" /\ e = This.dir) \/ (y = "unloaded" /\ e = This.dir) \/ On(Rest, y, e)
    BY <2>5 DEF More
  <2>8. \A e : /\ <<"load ended", e>> \notin {<<"load cancel", This.dir>>, <<"unloaded", This.dir>>}
               /\ <<"file list", e>> \notin {<<"load cancel", This.dir>>, <<"unloaded", This.dir>>}
    OBVIOUS
  <2>9. ASSUME NEW d \in Dirs PROVE ListAt(d)'
    <3>1. IsAnyoneMonitoringFileList(d)' <=> IsAnyoneMonitoringFileList(d)
      BY <2>1, WantsStays
    <3>2. InProgress(d, "list")' <=> InProgress(d, "list")
      BY <2>2, ListsStay
    <3>3. ListAt(d)
      BY <1>0
    <3>4. d \notin again
      BY <1>0, <2>3, <2>6 DEF Stacked, Serving, Looping
    <3>5. ~ListDue(d) /\ ~Held(todo, d)
      BY <2>3, <2>6, <3>4 DEF ListDue, Loads
    <3>6. (d \in monitored <=> IsAnyoneMonitoringFileList(d)) /\ (InProgress(d, "list") => d \in monitored)
      BY <3>3, <3>5 DEF ListAt
    <3>7. On(todo, "unloaded", d) => On(todo', "unloaded", d)
      BY <2>3, <2>7
    <3>8. ~On(todo, "reloaded", d)
      BY <2>3, <2>6
    <3>10. LoadOn(d)' => On(todo', "unloaded", d)
      BY <2>6, <2>7 DEF LoadOn
    <3>11. (On(todo', "load ended", d) <=> On(Rest, "load ended", d)) /\ (On(todo', "file list", d) <=> On(Rest, "file list", d))
      BY <2>5, <2>8, OnlyMore
    <3>12. ~On(todo', "load ended", d) /\ ~On(todo', "file list", d)
      BY <2>6, <3>11
    <3> QED
      BY <2>1, <2>4, <3>1, <3>2, <3>3, <3>5, <3>6, <3>7, <3>8, <3>10, <3>12 DEF ListAt
  <2> QED
    BY <2>9 DEF Listed
<1>17. CASE Unloaded
  <2>1. Running("unloaded") /\ monitored' = monitored /\ todo # <<>>
    BY <1>17 DEF Unloaded, Running, lists
  <2>2. ~FileListStartOrStop /\ ~LoadEnded
    BY <2>1 DEF Running, FileListStartOrStop, LoadEnded
  <2>3. /\ \A y, e : On(todo, y, e) <=> (y = "unloaded" /\ e = This.dir) \/ On(Rest, y, e)
        /\ \A e : Held(todo, e) <=> ("unloaded" \in Loads /\ e = This.dir /\ On(Rest, "ready", e)) \/ Held(Rest, e)
        /\ Legal(This, Rest) /\ This.do = "unloaded"
    BY <1>0, <2>1, TopOn, TopIs DEF Stacked
  <2>4. loaded' = loaded \ {This.dir} /\ again' = again /\ waiting' = waiting
    BY <1>17 DEF Unloaded, lists, jobVars
  <2>5. More(todo', Rest, {<<"invalidate", This.dir>>, <<"reloaded", This.dir>>}) /\ Plainly(todo', Rest) /\ Rest = <<>>
    BY <1>17, <1>0, UnloadedOn DEF Stacked
  <2>6. /\ \A y, e : ~On(Rest, y, e)
        /\ \A e : ~Held(Rest, e)
    BY <2>5, NothingOn
  <2>7. \A y, e : On(todo', y, e) <=> (y = "invalidate" /\ e = This.dir) \/ (y = "reloaded" /\ e = This.dir) \/ On(Rest, y, e)
    BY <2>5 DEF More
  <2>8. \A y \in {"file list", "load cancel", "load ended"} : \A e : <<y, e>> \notin {<<"invalidate", This.dir>>, <<"reloaded", This.dir>>}
    OBVIOUS
  <2>9. ASSUME NEW d \in Dirs PROVE ListAt(d)'
    <3>1. IsAnyoneMonitoringFileList(d)' <=> IsAnyoneMonitoringFileList(d)
      BY <2>1, WantsStays
    <3>2. InProgress(d, "list")' <=> InProgress(d, "list")
      BY <2>2, ListsStay
    <3>3. ListAt(d)
      BY <1>0
    <3>4. d \notin again
      BY <1>0, <2>3, <2>6 DEF Stacked, Serving, Looping
    <3>5. ~ListDue(d) /\ ~Held(todo, d) /\ ~On(todo, "reloaded", d) /\ (On(todo, "unloaded", d) => d = This.dir)
      BY <2>3, <2>6, <3>4 DEF ListDue, Loads
    <3>6. (d \in monitored <=> IsAnyoneMonitoringFileList(d)) /\ (InProgress(d, "list") => d \in monitored)
      BY <3>3, <3>5 DEF ListAt
    <3>7. ~LoadOn(d)' /\ ~On(todo', "load ended", d)
      BY <2>5, <2>8, NoLoads DEF LoadOn
    <3>8. d \in monitored => d \in loaded' \/ InProgress(d, "list") \/ d \in waiting \/ On(todo', "reloaded", d)
      BY <2>4, <2>7, <3>3, <3>5 DEF ListAt
    <3> QED
      BY <2>1, <2>4, <3>1, <3>2, <3>6, <3>7, <3>8 DEF ListAt
  <2> QED
    BY <2>9 DEF Listed
<1>18. CASE Reloaded
  <2> DEFINE C == {<<"state changed", This.dir>>}
  <2>1. Running("reloaded") /\ monitored' = monitored /\ loaded' = loaded /\ again' = again /\ todo # <<>>
    BY <1>18 DEF Reloaded, Running, lists
  <2>2. waiting \subseteq waiting' /\ ~FileListStartOrStop /\ ~LoadEnded
    BY <2>1, WaitingStays DEF Running, FileListStartOrStop, LoadEnded, Waking
  <2>3. More(todo', Rest, C) /\ Plainly(todo', Rest)
    BY <1>18, ReloadedStack DEF Plainly
  <2>5. /\ \A y \in {"file list", "load cancel", "load ended"} : \A e : <<y, e>> \notin C
        /\ "reloaded" = "reloaded" => C = {<<"state changed", This.dir>>}
        /\ "reloaded" \notin {"state changed", "file list", "load cancel", "load ended", "unloaded"}
    OBVIOUS
  <2>6. again \subseteq again'
    BY <2>1
  <2> HIDE DEF C
  <2>4. ASSUME NEW d \in Dirs PROVE ListAt(d)'
    BY <2>1, <2>2, <2>3, <2>5, <2>6, CallsOnward, <1>0, OnwardListed
  <2> QED
    BY <2>4 DEF Listed
<1>19. ASSUME NEW m \in Monitors, MonitorAdd(m) PROVE Listed'
  <2>1. todo = <<>> /\ monitored' = monitored /\ loaded' = loaded
    BY <1>19 DEF MonitorAdd, Ask, MainLoop, lists
  <2>2. ~FileListStartOrStop /\ ~LoadEnded /\ ~Waking
    BY <2>1 DEF FileListStartOrStop, LoadEnded, Waking, Running
  <2>3. waiting \subseteq waiting'
    BY <2>2, WaitingStays
  <2>4. More(todo', <<>>, {<<"state changed", Place(m)>>})
    BY <1>19, <2>1, AskedStack
  <2>5. \A y \in {"file list", "load cancel", "load ended"} : \A e : <<y, e>> \notin {<<"state changed", Place(m)>>}
    OBVIOUS
  <2>6. \A d \in Dirs : ~On(todo', "file list", d) /\ ~On(todo', "load cancel", d) /\ ~On(todo', "load ended", d)
    BY <2>4, <2>5, NoLoads
  <2>7. ASSUME NEW d \in Dirs PROVE ListAt(d)'
    <3>1. ~LoadOn(d)'
      BY <2>6 DEF LoadOn
    <3> QED
      BY <1>0, <2>1, <2>2, <2>3, <2>6, <3>1, AskedListed
  <2> QED
    BY <2>7 DEF Listed
<1>20. ASSUME NEW m \in Monitors, MonitorRemove(m) PROVE Listed'
  <2>1. todo = <<>> /\ monitored' = monitored /\ loaded' = loaded
    BY <1>20 DEF MonitorRemove, Ask, MainLoop, lists
  <2>2. ~FileListStartOrStop /\ ~LoadEnded /\ ~Waking
    BY <2>1 DEF FileListStartOrStop, LoadEnded, Waking, Running
  <2>3. waiting \subseteq waiting'
    BY <2>2, WaitingStays
  <2>4. More(todo', <<>>, {<<"state changed", Place(m)>>})
    BY <1>20, <2>1, AskedStack
  <2>5. \A y \in {"file list", "load cancel", "load ended"} : \A e : <<y, e>> \notin {<<"state changed", Place(m)>>}
    OBVIOUS
  <2>6. \A d \in Dirs : ~On(todo', "file list", d) /\ ~On(todo', "load cancel", d) /\ ~On(todo', "load ended", d)
    BY <2>4, <2>5, NoLoads
  <2>7. ASSUME NEW d \in Dirs PROVE ListAt(d)'
    <3>1. ~LoadOn(d)'
      BY <2>6 DEF LoadOn
    <3> QED
      BY <1>0, <2>1, <2>2, <2>3, <2>6, <3>1, AskedListed
  <2> QED
    BY <2>7 DEF Listed
<1>21. ASSUME NEW c \in Callbacks, CallWhenReady(c) PROVE Listed'
  <2>1. todo = <<>> /\ monitored' = monitored /\ loaded' = loaded
    BY <1>21 DEF CallWhenReady, Ask, MainLoop, lists
  <2>2. ~FileListStartOrStop /\ ~LoadEnded /\ ~Waking
    BY <2>1 DEF FileListStartOrStop, LoadEnded, Waking, Running
  <2>3. waiting \subseteq waiting'
    BY <2>2, WaitingStays
  <2>4. More(todo', <<>>, {<<"state changed", Place(c)>>})
    BY <1>21, <2>1, AskedStack
  <2>5. \A y \in {"file list", "load cancel", "load ended"} : \A e : <<y, e>> \notin {<<"state changed", Place(c)>>}
    OBVIOUS
  <2>6. \A d \in Dirs : ~On(todo', "file list", d) /\ ~On(todo', "load cancel", d) /\ ~On(todo', "load ended", d)
    BY <2>4, <2>5, NoLoads
  <2>7. ASSUME NEW d \in Dirs PROVE ListAt(d)'
    <3>1. ~LoadOn(d)'
      BY <2>6 DEF LoadOn
    <3> QED
      BY <1>0, <2>1, <2>2, <2>3, <2>6, <3>1, AskedListed
  <2> QED
    BY <2>7 DEF Listed
<1>22. ASSUME NEW c \in Callbacks, CancelCallback(c) PROVE Listed'
  <2>1. todo = <<>> /\ monitored' = monitored /\ loaded' = loaded
    BY <1>22 DEF CancelCallback, Ask, MainLoop, lists
  <2>2. ~FileListStartOrStop /\ ~LoadEnded /\ ~Waking
    BY <2>1 DEF FileListStartOrStop, LoadEnded, Waking, Running
  <2>3. waiting \subseteq waiting'
    BY <2>2, WaitingStays
  <2>4. More(todo', <<>>, {<<"state changed", Place(c)>>})
    BY <1>22, <2>1, AskedStack
  <2>5. \A y \in {"file list", "load cancel", "load ended"} : \A e : <<y, e>> \notin {<<"state changed", Place(c)>>}
    OBVIOUS
  <2>6. \A d \in Dirs : ~On(todo', "file list", d) /\ ~On(todo', "load cancel", d) /\ ~On(todo', "load ended", d)
    BY <2>4, <2>5, NoLoads
  <2>7. ASSUME NEW d \in Dirs PROVE ListAt(d)'
    <3>1. ~LoadOn(d)'
      BY <2>6 DEF LoadOn
    <3> QED
      BY <1>0, <2>1, <2>2, <2>3, <2>6, <3>1, AskedListed
  <2> QED
    BY <2>7 DEF Listed
<1>23. ASSUME NEW f \in Files, NotifyFileChanged(f) PROVE Listed'
  <2>1. todo = <<>> /\ monitored' = monitored /\ loaded' = loaded
    BY <1>23 DEF NotifyFileChanged, Ask, MainLoop, lists
  <2>2. ~FileListStartOrStop /\ ~LoadEnded /\ ~Waking
    BY <2>1 DEF FileListStartOrStop, LoadEnded, Waking, Running
  <2>3. waiting \subseteq waiting'
    BY <2>2, WaitingStays
  <2>4. More(todo', <<>>, {<<"state changed", directory[f]>>})
    BY <1>23, <2>1, AskedStack
  <2>5. \A y \in {"file list", "load cancel", "load ended"} : \A e : <<y, e>> \notin {<<"state changed", directory[f]>>}
    OBVIOUS
  <2>6. \A d \in Dirs : ~On(todo', "file list", d) /\ ~On(todo', "load cancel", d) /\ ~On(todo', "load ended", d)
    BY <2>4, <2>5, NoLoads
  <2>7. ASSUME NEW d \in Dirs PROVE ListAt(d)'
    <3>1. ~LoadOn(d)'
      BY <2>6 DEF LoadOn
    <3> QED
      BY <1>0, <2>1, <2>2, <2>3, <2>6, <3>1, AskedListed
  <2> QED
    BY <2>7 DEF Listed
<1>24. ASSUME NEW f \in Files, NotifyFileRemoved(f) PROVE Listed'
  <2>1. todo = <<>> /\ monitored' = monitored /\ loaded' = loaded
    BY <1>24 DEF NotifyFileRemoved, Ask, MainLoop, lists
  <2>2. ~FileListStartOrStop /\ ~LoadEnded /\ ~Waking
    BY <2>1 DEF FileListStartOrStop, LoadEnded, Waking, Running
  <2>3. waiting \subseteq waiting'
    BY <2>2, WaitingStays
  <2>4. More(todo', <<>>, {<<"state changed", directory[f]>>, <<"invalidate", directory[f]>>})
    BY <1>24, <2>1, NotifyFileRemovedOn
  <2>5. \A y \in {"file list", "load cancel", "load ended"} : \A e : <<y, e>> \notin {<<"state changed", directory[f]>>, <<"invalidate", directory[f]>>}
    OBVIOUS
  <2>6. \A d \in Dirs : ~On(todo', "file list", d) /\ ~On(todo', "load cancel", d) /\ ~On(todo', "load ended", d)
    BY <2>4, <2>5, NoLoads
  <2>7. ASSUME NEW d \in Dirs PROVE ListAt(d)'
    <3>1. ~LoadOn(d)'
      BY <2>6 DEF LoadOn
    <3> QED
      BY <1>0, <2>1, <2>2, <2>3, <2>6, <3>1, AskedListed
  <2> QED
    BY <2>7 DEF Listed
<1>25. ASSUME NEW f \in Files, InvalidateFile(f, AllAttributes) PROVE Listed'
  <2>1. todo = <<>> /\ monitored' = monitored /\ loaded' = loaded
    BY <1>25 DEF InvalidateFile, Ask, MainLoop, lists
  <2>2. ~FileListStartOrStop /\ ~LoadEnded /\ ~Waking
    BY <2>1 DEF FileListStartOrStop, LoadEnded, Waking, Running
  <2>3. waiting \subseteq waiting'
    BY <2>2, WaitingStays
  <2>4. More(todo', <<>>, {<<"state changed", directory[f]>>, <<"cancelled", directory[f]>>})
    BY <1>25, <2>1, InvalidateFileOn
  <2>5. \A y \in {"file list", "load cancel", "load ended"} : \A e : <<y, e>> \notin {<<"state changed", directory[f]>>, <<"cancelled", directory[f]>>}
    OBVIOUS
  <2>6. \A d \in Dirs : ~On(todo', "file list", d) /\ ~On(todo', "load cancel", d) /\ ~On(todo', "load ended", d)
    BY <2>4, <2>5, NoLoads
  <2>7. ASSUME NEW d \in Dirs PROVE ListAt(d)'
    <3>1. ~LoadOn(d)'
      BY <2>6 DEF LoadOn
    <3> QED
      BY <1>0, <2>1, <2>2, <2>3, <2>6, <3>1, AskedListed
  <2> QED
    BY <2>7 DEF Listed
<1>26. ASSUME NEW d \in Dirs, ForceReload(d) PROVE Listed'
  <2>1. todo = <<>> /\ monitored' = monitored /\ loaded' = loaded
    BY <1>26 DEF ForceReload, Ask, MainLoop, lists
  <2>2. ~FileListStartOrStop /\ ~LoadEnded /\ ~Waking
    BY <2>1 DEF FileListStartOrStop, LoadEnded, Waking, Running
  <2>3. waiting \subseteq waiting'
    BY <2>2, WaitingStays
  <2>4. More(todo', <<>>, {<<"state changed", d>>, <<"reload", d>>})
    BY <1>26, <2>1, ForceReloadOn
  <2>5. \A y \in {"file list", "load cancel", "load ended"} : \A e : <<y, e>> \notin {<<"state changed", d>>, <<"reload", d>>}
    OBVIOUS
  <2>6. \A e \in Dirs : ~On(todo', "file list", e) /\ ~On(todo', "load cancel", e) /\ ~On(todo', "load ended", e)
    BY <2>4, <2>5, NoLoads
  <2>7. ASSUME NEW e \in Dirs PROVE ListAt(e)'
    <3>1. ~LoadOn(e)'
      BY <2>6 DEF LoadOn
    <3> QED
      BY <1>0, <2>1, <2>2, <2>3, <2>6, <3>1, AskedListed
  <2> QED
    BY <2>7 DEF Listed
<1>27. ASSUME NEW d \in Dirs, NEW k \in Kinds, Answer(d, k) PROVE Listed'
  <2>1. todo = <<>> /\ monitored' = monitored /\ loaded' = loaded
    BY <1>27 DEF Answer, Ask, MainLoop, lists
  <2>2. ~FileListStartOrStop /\ ~LoadEnded /\ ~Waking
    BY <2>1 DEF FileListStartOrStop, LoadEnded, Waking, Running
  <2>3. waiting \subseteq waiting'
    BY <2>2, WaitingStays
  <2>4. More(todo', <<>>, {<<"state changed", d>>})
    BY <1>27, <2>1, AskedStack
  <2>5. \A y \in {"file list", "load cancel", "load ended"} : \A e : <<y, e>> \notin {<<"state changed", d>>}
    OBVIOUS
  <2>6. \A e \in Dirs : ~On(todo', "file list", e) /\ ~On(todo', "load cancel", e) /\ ~On(todo', "load ended", e)
    BY <2>4, <2>5, NoLoads
  <2>7. ASSUME NEW e \in Dirs PROVE ListAt(e)'
    <3>1. ~LoadOn(e)'
      BY <2>6 DEF LoadOn
    <3> QED
      BY <1>0, <2>1, <2>2, <2>3, <2>6, <3>1, AskedListed
  <2> QED
    BY <2>7 DEF Listed
<1>28. ASSUME NEW d \in Dirs, DirectoryLoadDone(d) PROVE Listed'
  <2>1. todo = <<>> /\ monitored' = monitored /\ loaded' = loaded \cup {d} /\ todo' = AfterLoad(d) /\ InProgress(d, "list")
    BY <1>28 DEF DirectoryLoadDone, MainLoop, InProgress
  <2>2. ~FileListStartOrStop /\ ~LoadEnded /\ ~Waking
    BY <2>1 DEF FileListStartOrStop, LoadEnded, Waking, Running
  <2>3. waiting \subseteq waiting'
    BY <2>2, WaitingStays
  <2>4. More(todo', <<>>, {<<"state changed", d>>, <<"told", d>>, <<"load cancel", d>>})
    BY <2>1, AfterLoadOn
  <2>8. \A e : /\ <<"load ended", e>> \notin {<<"state changed", d>>, <<"told", d>>, <<"load cancel", d>>}
               /\ <<"file list", e>> \notin {<<"state changed", d>>, <<"told", d>>, <<"load cancel", d>>}
               /\ <<"load cancel", e>> \in {<<"state changed", d>>, <<"told", d>>, <<"load cancel", d>>} => e = d
    OBVIOUS
  <2>9. \A y, e : ~On(<<>>, y, e)
    BY NothingOn
  <2>6. \A e : /\ ~On(todo', "file list", e) /\ ~On(todo', "load ended", e)
               /\ On(todo', "load cancel", e) => e = d
    BY <2>4, <2>8, <2>9, OnlyMore
  <2>7. ASSUME NEW e \in Dirs PROVE ListAt(e)'
    <3>1. LoadOn(e)' => e = d /\ On(todo', "load cancel", e)
      BY <2>6 DEF LoadOn
    <3>2. IsAnyoneMonitoringFileList(e)' <=> IsAnyoneMonitoringFileList(e)
      BY <1>28 DEF DirectoryLoadDone, clients, Place, IsAnyoneMonitoringFileList
    <3> QED
      BY <1>0, <2>1, <2>2, <2>3, <2>6, <3>1, <3>2, AskedListed
  <2> QED
    BY <2>7 DEF Listed
<1>29. ASSUME NEW d \in Dirs, CallReadyCallbacksAtIdle(d) PROVE Listed'
  <2>1. todo = <<>> /\ monitored' = monitored /\ loaded' = loaded
    BY <1>29 DEF CallReadyCallbacksAtIdle, Ask, MainLoop, lists
  <2>2. ~FileListStartOrStop /\ ~LoadEnded /\ ~Waking
    BY <2>1 DEF FileListStartOrStop, LoadEnded, Waking, Running
  <2>3. waiting \subseteq waiting'
    BY <2>2, WaitingStays
  <2>4. More(todo', <<>>, {<<"state changed", d>>})
    BY <1>29, <2>1, AskedStack
  <2>5. \A y \in {"file list", "load cancel", "load ended"} : \A e : <<y, e>> \notin {<<"state changed", d>>}
    OBVIOUS
  <2>6. \A e \in Dirs : ~On(todo', "file list", e) /\ ~On(todo', "load cancel", e) /\ ~On(todo', "load ended", e)
    BY <2>4, <2>5, NoLoads
  <2>7. ASSUME NEW e \in Dirs PROVE ListAt(e)'
    <3>1. ~LoadOn(e)'
      BY <2>6 DEF LoadOn
    <3> QED
      BY <1>0, <2>1, <2>2, <2>3, <2>6, <3>1, AskedListed
  <2> QED
    BY <2>7 DEF Listed
<1>30. ASSUME NEW d \in Dirs, DirectoryReads(d) PROVE Listed'
  <2>1. todo = <<>> /\ monitored' = monitored /\ loaded' = loaded
    BY <1>30 DEF DirectoryReads, MainLoop, lists
  <2>2. ~FileListStartOrStop /\ ~LoadEnded /\ ~Waking
    BY <2>1 DEF FileListStartOrStop, LoadEnded, Waking, Running
  <2>3. waiting \subseteq waiting'
    BY <2>2, WaitingStays
  <2>4. More(todo', <<>>, {<<"state changed", d>>})
    BY <1>30, <2>1, AskedStack
  <2>5. \A y \in {"file list", "load cancel", "load ended"} : \A e : <<y, e>> \notin {<<"state changed", d>>}
    OBVIOUS
  <2>6. \A e \in Dirs : ~On(todo', "file list", e) /\ ~On(todo', "load cancel", e) /\ ~On(todo', "load ended", e)
    BY <2>4, <2>5, NoLoads
  <2>7. ASSUME NEW e \in Dirs PROVE ListAt(e)'
    <3>1. ~LoadOn(e)'
      BY <2>6 DEF LoadOn
    <3> QED
      BY <1>0, <2>1, <2>2, <2>3, <2>6, <3>1, AskedListed
  <2> QED
    BY <2>7 DEF Listed
<1> QED
  BY StepsAre, <1>1, <1>2, <1>3, <1>4, <1>5, <1>6, <1>7, <1>8, <1>9, <1>10, <1>11, <1>12, <1>13, <1>14, <1>15, <1>16, <1>17, <1>18, <1>19, <1>20, <1>21, <1>22, <1>23, <1>24, <1>25, <1>26, <1>27, <1>28, <1>29, <1>30

-----------------------------------------------------------------------------
(* The count of jobs                                                       *)

\* The count is that of the operations in progress, each directory has one of a kind, and no
\* assertion fails.
Counted ==
  /\ IsFiniteSet(ops) /\ jobs = Cardinality(ops) /\ jobs <= MaxJobs /\ ~aborted
  /\ \A o, p \in ops : o.dir = p.dir /\ o.kind = p.kind => o = p

LEMMA KindsFinite == IsFiniteSet(Kinds)
<1>1. IsFiniteSet({"info"})
  BY FS_Singleton
<1>2. IsFiniteSet({"info"} \cup {"count"})
  BY <1>1, FS_AddElement
<1>3. IsFiniteSet(({"info"} \cup {"count"}) \cup {"deep"})
  BY <1>2, FS_AddElement
<1>4. IsFiniteSet((({"info"} \cup {"count"}) \cup {"deep"}) \cup {"filesystem"})
  BY <1>3, FS_AddElement
<1>5. IsFiniteSet(((({"info"} \cup {"count"}) \cup {"deep"}) \cup {"filesystem"}) \cup {"extension"})
  BY <1>4, FS_AddElement
<1>6. Kinds = ((({"info"} \cup {"count"}) \cup {"deep"}) \cup {"filesystem"}) \cup {"extension"}
  BY DEF Kinds
<1> QED
  BY <1>5, <1>6

\* Of the kinds that have their turn, one has it last.
LEMMA LastTurn ==
  ASSUME NEW S \in SUBSET Kinds, S # {}
  PROVE  \E k \in S : \A j \in S \ {k} : Turn[j] < Turn[k]
<1>1. /\ Turn["info"] = 0 /\ Turn["count"] = 1 /\ Turn["deep"] = 2
      /\ Turn["filesystem"] = 3 /\ Turn["extension"] = 4
  BY DEF Turn
<1>2. \A j \in S : j \in {"info", "count", "deep", "filesystem", "extension"}
  BY DEF Kinds
<1>3. CASE "extension" \in S
  BY <1>1, <1>2, <1>3
<1>4. CASE "extension" \notin S /\ "filesystem" \in S
  BY <1>1, <1>2, <1>4
<1>5. CASE "extension" \notin S /\ "filesystem" \notin S /\ "deep" \in S
  BY <1>1, <1>2, <1>5
<1>6. CASE "extension" \notin S /\ "filesystem" \notin S /\ "deep" \notin S /\ "count" \in S
  BY <1>1, <1>2, <1>6
<1>7. CASE "extension" \notin S /\ "filesystem" \notin S /\ "deep" \notin S /\ "count" \notin S
  <2>1. S = {"info"}
    BY <1>2, <1>7
  <2> QED
    BY <2>1
<1> QED
  BY <1>3, <1>4, <1>5, <1>6, <1>7

\* No more kinds start than there are slots.
Ahead(kinds, k) == {j \in kinds : Turn[j] < Turn[k]}
Starting(kinds, n) == {k \in kinds : Cardinality(Ahead(kinds, k)) < n}

LEMMA StartedFew ==
  ASSUME NEW kinds \in SUBSET Kinds, NEW n \in Nat
  PROVE  /\ Starting(kinds, n) \subseteq kinds /\ IsFiniteSet(Starting(kinds, n))
         /\ Cardinality(Starting(kinds, n)) \in Nat /\ Cardinality(Starting(kinds, n)) <= n
<1> DEFINE S == Starting(kinds, n)
<1>1. S \subseteq kinds /\ S \subseteq Kinds
  BY DEF Starting
<1>2. IsFiniteSet(S) /\ Cardinality(S) \in Nat
  BY <1>1, KindsFinite, FS_Subset, FS_CardinalityType
<1>3. CASE S = {}
  BY <1>1, <1>2, <1>3, FS_EmptySet
<1>4. CASE S # {}
  <2>1. PICK k \in S : \A j \in S \ {k} : Turn[j] < Turn[k]
    BY <1>1, <1>4, LastTurn
  <2>2. S \ {k} \subseteq Ahead(kinds, k)
    BY <1>1, <2>1 DEF Ahead
  <2>3. Ahead(kinds, k) \subseteq Kinds
    BY DEF Ahead
  <2>4. IsFiniteSet(Ahead(kinds, k)) /\ Cardinality(Ahead(kinds, k)) \in Nat
    BY <2>3, KindsFinite, FS_Subset, FS_CardinalityType
  <2>5. Cardinality(S \ {k}) <= Cardinality(Ahead(kinds, k))
    BY <2>2, <2>4, FS_Subset
  <2>6. Cardinality(S \ {k}) = Cardinality(S) - 1
    BY <1>2, <2>1, FS_RemoveElement
  <2>7. Cardinality(Ahead(kinds, k)) < n
    BY <2>1 DEF Starting
  <2> HIDE DEF S
  <2>8. Cardinality(S) <= n
    BY <1>2, <2>4, <2>5, <2>6, <2>7
  <2> QED
    BY <1>1, <1>2, <2>8 DEF S
<1> QED
  BY <1>3, <1>4

\* As many operations as kinds start.
LEMMA SameSize ==
  ASSUME NEW S, IsFiniteSet(S), NEW T, NEW h \in [S -> T],
         \A x, y \in S : h[x] = h[y] => x = y, \A z \in T : \E x \in S : h[x] = z
  PROVE  IsFiniteSet(T) /\ Cardinality(T) = Cardinality(S)
<1>1. h \in Bijection(S, T)
  BY DEF Bijection, Injection, Surjection, IsInjective
<1>2. ExistsBijection(S, T)
  BY <1>1 DEF ExistsBijection
<1> QED
  BY <1>2, FS_Bijection

LEMMA StartedCounted ==
  ASSUME Counted, JobsTyped, NEW d, NEW f, NEW kinds \in SUBSET Kinds, \A k \in kinds : ~InProgress(d, k),
         StartJobs(d, f, kinds), aborted' = aborted
  PROVE  Counted'
<1> DEFINE S == Starting(kinds, MaxJobs - jobs)
           T == {Operation(d, k, f) : k \in S}
<1>0. MaxJobs \in Nat
  BY JobsAssumption
<1>1. IsFiniteSet(ops) /\ jobs \in Nat /\ MaxJobs - jobs \in Nat
  BY <1>0, FS_CardinalityType DEF Counted
<1>2. jobs' = jobs + Cardinality(S) /\ ops' = ops \cup T
  BY DEF StartJobs, Starting, Ahead
<1>3. S \subseteq kinds /\ IsFiniteSet(S) /\ Cardinality(S) \in Nat /\ Cardinality(S) <= MaxJobs - jobs
  BY <1>1, StartedFew
<1>4. \A k \in S : Operation(d, k, f).kind = k /\ Operation(d, k, f).dir = d
  BY DEF Operation
<1>5. IsFiniteSet(T) /\ Cardinality(T) = Cardinality(S)
  <2> DEFINE h == [k \in S |-> Operation(d, k, f)]
  <2>1. h \in [S -> T] /\ \A k \in S : h[k] = Operation(d, k, f)
    OBVIOUS
  <2>2. \A x, y \in S : h[x] = h[y] => x = y
    BY <1>4, <2>1
  <2>3. \A z \in T : \E x \in S : h[x] = z
    BY <2>1
  <2> HIDE DEF h, S, T
  <2> QED
    BY <1>3, <2>1, <2>2, <2>3, SameSize
<1>6. \A o \in ops, p \in T : ~(o.dir = p.dir /\ o.kind = p.kind)
  BY <1>3, <1>4 DEF InProgress
<1>7. \A o, p \in T : o.dir = p.dir /\ o.kind = p.kind => o = p
  BY <1>4
<1> HIDE DEF S, T
<1>8. ops \cap T = {}
  BY <1>6
<1>9. IsFiniteSet(ops') /\ Cardinality(ops') = Cardinality(ops) + Cardinality(T)
  <2>1. IsFiniteSet(ops \cup T) /\ Cardinality(ops \cup T) = Cardinality(ops) + Cardinality(T) - Cardinality(ops \cap T)
    BY <1>1, <1>5, FS_Union
  <2>2. Cardinality(ops \cap T) = 0
    BY <1>8, FS_EmptySet
  <2> QED
    BY <1>1, <1>2, <1>3, <1>5, <2>1, <2>2 DEF Counted
<1>10. \A o, p \in ops' : o.dir = p.dir /\ o.kind = p.kind => o = p
  BY <1>2, <1>6, <1>7 DEF Counted
<1>11. jobs' = Cardinality(ops') /\ jobs' <= MaxJobs
  BY <1>0, <1>1, <1>2, <1>3, <1>5, <1>9 DEF Counted
<1> QED
  BY <1>9, <1>10, <1>11 DEF Counted

LEMMA CancelledCounted ==
  ASSUME Counted, JobsTyped, NEW S \in SUBSET ops, NEW outdated, CancelJobs(S, outdated), aborted' = aborted
  PROVE  Counted'
<1> DEFINE Left(o) == [o EXCEPT !.live = @ /\ o \notin S, !.fresh = @ /\ o \notin outdated]
           ended == {o \in S : o.kind # "count"}
           kept == ops \ ended
           h == [o \in kept |-> Left(o)]
<1>0. MaxJobs \in Nat
  BY JobsAssumption
<1>1. ops' = {Left(o) : o \in kept} /\ jobs' = jobs - Cardinality(ended)
  BY DEF CancelJobs
<1>2. ended \subseteq ops /\ kept \subseteq ops /\ ended \cup kept = ops /\ ended \cap kept = {}
  OBVIOUS
<1>3. ASSUME NEW o \in ops
      PROVE  Left(o).dir = o.dir /\ Left(o).kind = o.kind
  <2>1. o \in Operations
    BY DEF JobsTyped
  <2> QED
    BY <2>1 DEF Operations
<1>4. h \in [kept -> ops'] /\ (\A o \in kept : h[o] = Left(o)) /\ \A p \in ops' : \E o \in kept : p = Left(o)
  BY <1>1
<1> HIDE DEF Left, ended, kept, h
<1>5. IsFiniteSet(ops) /\ jobs \in Nat /\ jobs = Cardinality(ops)
  BY FS_CardinalityType DEF Counted
<1>6. /\ IsFiniteSet(ended) /\ Cardinality(ended) \in Nat
      /\ IsFiniteSet(kept) /\ Cardinality(kept) \in Nat
  BY <1>2, <1>5, FS_Subset, FS_CardinalityType
<1>7. Cardinality(kept) = Cardinality(ops) - Cardinality(ended)
  <2>1. Cardinality(ended \cup kept) = Cardinality(ended) + Cardinality(kept) - Cardinality(ended \cap kept)
    BY <1>6, FS_Union
  <2>2. Cardinality(ended \cap kept) = 0
    BY <1>2, FS_EmptySet
  <2>3. Cardinality(ended \cup kept) = Cardinality(ops)
    BY <1>2
  <2> QED
    BY <1>6, <2>1, <2>2, <2>3
<1>8. \A o, p \in kept : h[o] = h[p] => o = p
  <2>1. ASSUME NEW o \in kept, NEW p \in kept, h[o] = h[p]
        PROVE  o = p
    BY <1>2, <1>3, <1>4, <2>1 DEF Counted
  <2> QED
    BY <2>1
<1>9. IsFiniteSet(ops') /\ Cardinality(ops') = Cardinality(kept)
  BY <1>4, <1>6, <1>8, SameSize
<1>10. \A o, p \in ops' : o.dir = p.dir /\ o.kind = p.kind => o = p
  <2>1. ASSUME NEW o \in ops', NEW p \in ops', o.dir = p.dir, o.kind = p.kind
        PROVE  o = p
    <3>1. PICK a \in kept : o = Left(a)
      BY <1>4
    <3>2. PICK b \in kept : p = Left(b)
      BY <1>4
    <3>3. a.dir = b.dir /\ a.kind = b.kind /\ a \in ops /\ b \in ops
      BY <1>2, <1>3, <2>1, <3>1, <3>2
    <3>4. a = b
      BY <3>3 DEF Counted
    <3> QED
      BY <3>1, <3>2, <3>4
  <2> QED
    BY <2>1
<1>11. jobs' = Cardinality(ops') /\ jobs' <= MaxJobs
  BY <1>0, <1>1, <1>5, <1>6, <1>7, <1>9 DEF Counted
<1> QED
  BY <1>9, <1>10, <1>11 DEF Counted

\* One operation ends.
LEMMA EndedCounted ==
  ASSUME Counted, NEW o \in ops, ops' = ops \ {o}, jobs' = jobs - 1, aborted' = aborted
  PROVE  Counted'
<1>1. MaxJobs \in Nat
  BY JobsAssumption
<1>2. IsFiniteSet(ops) /\ Cardinality(ops) \in Nat /\ jobs = Cardinality(ops)
  BY FS_CardinalityType DEF Counted
<1>3. IsFiniteSet(ops') /\ Cardinality(ops') = Cardinality(ops) - 1
  BY <1>2, FS_RemoveElement
<1>4. \A p, q \in ops' : p.dir = q.dir /\ p.kind = q.kind => p = q
  BY DEF Counted
<1>5. jobs' = Cardinality(ops') /\ jobs' <= MaxJobs
  BY <1>1, <1>2, <1>3 DEF Counted
<1> QED
  BY <1>3, <1>4, <1>5 DEF Counted

LEMMA CountedKept ==
  ASSUME Typed, OpsPlaced, Stacked, Listed, Counted, Next, "Moved" \notin Changes
  PROVE  Counted'
<1>0. JobsTyped /\ StackTyped /\ Counted
  BY DEF Typed
<1>1. CASE StateChanged
  BY <1>1, <1>0 DEF StateChanged, jobVars, Counted
<1>2. CASE FileListStartOrStop
  <2> DEFINE e == This.dir
             new == Operation(e, "list", Standing(e))
  <2>1. e \in Dirs /\ On(todo, "file list", e)
    BY <1>2, <1>0, TopIs, TopOn DEF FileListStartOrStop
  <2>2. ListAt(e)
    BY <2>1 DEF Listed
  <2>3. ~(e \notin monitored /\ InProgress(e, "list"))
    BY <2>1, <2>2 DEF ListAt
  <2>4. /\ aborted' = aborted
        /\ \/ ops' = ops /\ jobs' = jobs
           \/ ~InProgress(e, "list") /\ jobs < MaxJobs /\ ops' = ops \cup {new} /\ jobs' = jobs + 1
    BY <1>2, <2>3 DEF FileListStartOrStop, jobVars
  <2>5. new.dir = e /\ new.kind = "list"
    BY DEF Operation
  <2> HIDE DEF e, new
  <2>6. CASE ops' = ops /\ jobs' = jobs
    BY <1>0, <2>4, <2>6 DEF Counted
  <2>7. CASE ~InProgress(e, "list") /\ jobs < MaxJobs /\ ops' = ops \cup {new} /\ jobs' = jobs + 1
    BY <2>5, <2>7, JobsAssumption, <1>0, FS_CardinalityType, FS_AddElement, <2>4 DEF InProgress, Counted
  <2> QED
    BY <2>4, <2>6, <2>7
<1>3. CASE LoadCancel
  BY <1>3, <1>0 DEF LoadCancel, jobVars, Counted
<1>4. CASE LoadEnded
  <2> DEFINE e == This.dir
  <2>1. e \in Dirs /\ On(todo, "load ended", e)
    BY <1>4, <1>0, TopIs, TopOn DEF LoadEnded
  <2>2. InProgress(e, "list")
    BY <2>1 DEF Listed, ListAt
  <2>3. PICK o \in ops : o.dir = e /\ o.kind = "list"
    BY <2>2 DEF InProgress
  <2>4. ops' = {p \in ops : ~(p.dir = e /\ p.kind = "list")} /\ jobs' = jobs - 1 /\ aborted' = aborted
    BY <1>4 DEF LoadEnded
  <2> HIDE DEF e
  <2>5. \A p \in ops : p.dir = e /\ p.kind = "list" <=> p = o
    BY <1>0, <2>3 DEF Counted
  <2>6. ops' = ops \ {o}
    BY <2>4, <2>5
  <2> QED
    BY <1>0, <2>4, <2>6, EndedCounted
<1>5. CASE Stop
  <2>1. \A o \in ops : o.kind # "list" => directory[o.file] = o.dir
    BY DEF OpsPlaced
  <2>2. PICK S \in SUBSET ops : CancelJobs(S, {}) /\ aborted' = aborted
    BY <1>5, <2>1 DEF Stop
  <2> QED
    BY <1>0, <2>2, CancelledCounted
<1>6. CASE HighPriorityQueue
  <2>1. aborted' = aborted
    BY <1>6 DEF HighPriorityQueue
  <2>2. CASE UNCHANGED jobVars
    BY <1>0, <2>1, <2>2 DEF jobVars, Counted
  <2>3. CASE ~UNCHANGED jobVars
    <3> DEFINE kinds == IF InProgress(This.dir, "info") THEN {} ELSE {"info"}
    <3>1. StartJobs(This.dir, Head(high[This.dir]), kinds)
      BY <1>6, <2>3 DEF HighPriorityQueue
    <3>2. kinds \in SUBSET Kinds /\ \A k \in kinds : ~InProgress(This.dir, k)
      BY DEF Kinds
    <3> HIDE DEF kinds
    <3> QED
      BY <1>0, <2>1, <3>1, <3>2, StartedCounted
  <2> QED
    BY <2>2, <2>3
<1>7. CASE LowPriorityQueue
  <2>1. aborted' = aborted
    BY <1>7 DEF LowPriorityQueue
  <2>2. CASE UNCHANGED jobVars
    BY <1>0, <2>1, <2>2 DEF jobVars, Counted
  <2>3. CASE ~UNCHANGED jobVars
    <3>1. PICK kinds \in SUBSET {k \in Low : ~InProgress(This.dir, k)} : StartJobs(This.dir, Head(low[This.dir]), kinds)
      BY <1>7, <2>3 DEF LowPriorityQueue
    <3>2. kinds \in SUBSET Kinds /\ \A k \in kinds : ~InProgress(This.dir, k)
      BY DEF Kinds, Low
    <3> QED
      BY <1>0, <2>1, <3>1, <3>2, StartedCounted
  <2> QED
    BY <2>2, <2>3
<1>8. CASE ExtensionQueue
  <2>1. aborted' = aborted
    BY <1>8 DEF ExtensionQueue
  <2>2. CASE UNCHANGED jobVars
    BY <1>0, <2>1, <2>2 DEF jobVars, Counted
  <2>3. CASE ~UNCHANGED jobVars
    <3> DEFINE kinds == IF InProgress(This.dir, "extension") THEN {} ELSE {"extension"}
    <3>1. StartJobs(This.dir, Head(extension[This.dir]), kinds)
      BY <1>8, <2>3 DEF ExtensionQueue
    <3>2. kinds \in SUBSET Kinds /\ \A k \in kinds : ~InProgress(This.dir, k)
      BY DEF Kinds
    <3> HIDE DEF kinds
    <3> QED
      BY <1>0, <2>1, <3>1, <3>2, StartedCounted
  <2> QED
    BY <2>2, <2>3
<1>9. CASE QueuesEmpty
  BY <1>9, <1>0 DEF QueuesEmpty, jobVars, Counted
<1>10. CASE CallReadyCallbacks
  BY <1>10, <1>0 DEF CallReadyCallbacks, jobVars, Counted
<1>11. CASE WakeUp
  BY <1>11, <1>0 DEF WakeUp, jobVars, Counted
<1>12. CASE Waking
  BY <1>0, <1>12 DEF Waking, Counted
<1>13. CASE Told
  BY <1>13, <1>0 DEF Told, jobVars, Counted
<1>14. CASE Invalidate
  <2>0. aborted' = aborted
    BY <1>14 DEF Invalidate
  <2>1. CASE UNCHANGED jobVars
    BY <1>0, <2>0, <2>1 DEF jobVars, Counted
  <2>2. CASE ~UNCHANGED jobVars
    <3> DEFINE S == {o \in Fetches({This.file}, This.set \ {"extension"}) : o.dir = directory[This.file]}
    <3>1. PICK T : CancelJobs(S, T)
      BY <1>14, <2>2 DEF Invalidate, CancelLoadingFileAttributes
    <3>2. S \in SUBSET ops
      BY DEF Fetches
    <3> HIDE DEF S
    <3> QED
      BY <1>0, <2>0, <3>1, <3>2, CancelledCounted
  <2> QED
    BY <2>1, <2>2
<1>15. CASE Cancelled
  BY <1>15, <1>0 DEF Cancelled, jobVars, Counted
<1>16. CASE Reload
  BY <1>16, <1>0 DEF Reload, jobVars, Counted
<1>17. CASE Unloaded
  BY <1>17, <1>0 DEF Unloaded, jobVars, Counted
<1>18. CASE Reloaded
  BY <1>18, <1>0 DEF Reloaded, jobVars, Counted
<1>19. ASSUME NEW m \in Monitors, MonitorAdd(m) PROVE Counted'
  BY <1>19, <1>0 DEF MonitorAdd, jobVars, Counted
<1>20. ASSUME NEW m \in Monitors, MonitorRemove(m) PROVE Counted'
  BY <1>20, <1>0 DEF MonitorRemove, jobVars, Counted
<1>21. ASSUME NEW c \in Callbacks, CallWhenReady(c) PROVE Counted'
  BY <1>21, <1>0 DEF CallWhenReady, jobVars, Counted
<1>22. ASSUME NEW c \in Callbacks, CancelCallback(c) PROVE Counted'
  BY <1>22, <1>0 DEF CancelCallback, jobVars, Counted
<1>23. ASSUME NEW f \in Files, NotifyFileChanged(f) PROVE Counted'
  <2>1. PICK T : CancelJobs({}, T)
    BY <1>23 DEF NotifyFileChanged
  <2>2. aborted' = aborted /\ {} \in SUBSET ops
    BY <1>23 DEF NotifyFileChanged
  <2> QED
    BY <1>0, <2>1, <2>2, CancelledCounted
<1>24. ASSUME NEW f \in Files, NotifyFileRemoved(f) PROVE Counted'
  BY <1>24, <1>0 DEF NotifyFileRemoved, jobVars, Counted
<1>25. ASSUME NEW f \in Files, InvalidateFile(f, AllAttributes) PROVE Counted'
  <2> DEFINE S == {o \in Fetches({f}, AllAttributes \ {"extension"}) : o.dir = directory[f]}
  <2>1. PICK T : CancelJobs(S, T)
    BY <1>25 DEF InvalidateFile, CancelLoadingFileAttributes
  <2>2. aborted' = aborted /\ S \in SUBSET ops
    BY <1>25 DEF InvalidateFile, Fetches
  <2> HIDE DEF S
  <2> QED
    BY <1>0, <2>1, <2>2, CancelledCounted
<1>26. ASSUME NEW d \in Dirs, ForceReload(d) PROVE Counted'
  <2> DEFINE S == {o \in ops : o.dir = d /\ o.kind \in AllAttributes}
  <2>1. PICK T : CancelJobs(S, T)
    BY <1>26 DEF ForceReload
  <2>2. aborted' = aborted /\ S \in SUBSET ops
    BY <1>26 DEF ForceReload
  <2> HIDE DEF S
  <2> QED
    BY <1>0, <2>1, <2>2, CancelledCounted
<1>27. ASSUME NEW d \in Dirs, NEW k \in Kinds, Answer(d, k) PROVE Counted'
  <2>1. PICK o \in ops : ops' = ops \ {o} /\ jobs' = jobs - 1
    BY <1>27 DEF Answer
  <2>2. aborted' = aborted
    BY <1>27 DEF Answer
  <2> QED
    BY <1>0, <2>1, <2>2, EndedCounted
<1>28. ASSUME NEW d \in Dirs, DirectoryLoadDone(d) PROVE Counted'
  BY <1>28, <1>0 DEF DirectoryLoadDone, jobVars, Counted
<1>29. ASSUME NEW d \in Dirs, CallReadyCallbacksAtIdle(d) PROVE Counted'
  BY <1>29, <1>0 DEF CallReadyCallbacksAtIdle, jobVars, Counted
<1>30. ASSUME NEW d \in Dirs, DirectoryReads(d) PROVE Counted'
  BY <1>30, <1>0 DEF DirectoryReads, jobVars, Counted
<1> QED
  BY StepsAre, <1>1, <1>2, <1>3, <1>4, <1>5, <1>6, <1>7, <1>8, <1>9, <1>10, <1>11, <1>12, <1>13, <1>14, <1>15, <1>16, <1>17, <1>18, <1>19, <1>20, <1>21, <1>22, <1>23, <1>24, <1>25, <1>26, <1>27, <1>28, <1>29, <1>30

-----------------------------------------------------------------------------
(* Files said to be loading                                                *)

\* No load comes to its end, or begins to.
EndingSame == \A e : On(todo', "load ended", e) <=> On(todo, "load ended", e)

LEMMA ReturnEnding ==
  ASSUME StackTyped, NEW x, Running(x), x # "load ended", todo' = Rest
  PROVE  EndingSame
<1>1. \A y, e : On(todo, y, e) <=> (y = x /\ e = This.dir) \/ On(Rest, y, e)
  BY TopOn
<1> QED
  BY <1>1 DEF EndingSame

LEMMA CallsEnding ==
  ASSUME StackTyped, NEW x, Running(x), x # "load ended", NEW C, More(todo', Rest, C),
         \A y \in {"load ended"} : \A e : <<y, e>> \notin C
  PROVE  EndingSame
<1>1. \A y, e : On(todo, y, e) <=> (y = x /\ e = This.dir) \/ On(Rest, y, e)
  BY TopOn
<1>2. \A y \in {"load ended"} : \A e : On(todo', y, e) <=> On(Rest, y, e)
  BY OnlyMore
<1>3. \A y \in {"load ended"} : \A e : On(todo', y, e) <=> On(todo, y, e)
  BY <1>1, <1>2
<1> QED
  BY <1>3 DEF EndingSame

LEMMA AskedEnding ==
  ASSUME todo = <<>>, NEW C, More(todo', <<>>, C), \A y \in {"load ended"} : \A e : <<y, e>> \notin C
  PROVE  EndingSame
<1>1. \A y \in {"load ended"} : \A e : On(todo', y, e) <=> On(todo, y, e)
  BY OnlyMore
<1> QED
  BY <1>1 DEF EndingSame

LEMMA EndingStays ==
  ASSUME Typed, Stacked, Listed, Next, "Moved" \notin Changes, ~LoadCancel, ~LoadEnded
  PROVE  EndingSame
<1>0. StackTyped /\ Lawful(todo)
  BY DEF Typed, Stacked
<1>1. CASE StateChanged
  <2> DEFINE C == LoopCalls(This.dir)
  <2>1. Running("state changed")
    BY <1>1 DEF StateChanged
  <2>2. todo' = Rest \/ More(todo', Rest, C)
    BY <1>1, StateChangedOn
  <2>3. \A y \in {"load ended"} : \A e : <<y, e>> \notin C
    BY DEF LoopCalls
  <2> HIDE DEF C
  <2> QED
    BY <1>0, <2>1, <2>2, <2>3, CallsEnding, ReturnEnding
<1>2. CASE FileListStartOrStop
  <2> DEFINE C == {<<"load cancel", This.dir>>}
  <2>1. Running("file list")
    BY <1>2 DEF FileListStartOrStop
  <2>4. This.dir \in Dirs /\ On(todo, "file list", This.dir)
    BY <1>0, <2>1, TopIs, TopOn
  <2>5. ListAt(This.dir)
    BY <2>4 DEF Listed
  <2>6. ~(This.dir \notin monitored /\ InProgress(This.dir, "list"))
    BY <2>4, <2>5 DEF ListAt
  <2>2. todo' = Rest \/ More(todo', Rest, C)
    BY <1>2, <2>6, FileListOn
  <2>3. \A y \in {"load ended"} : \A e : <<y, e>> \notin C
    BY DEF LoopCalls
  <2> HIDE DEF C
  <2> QED
    BY <1>0, <2>1, <2>2, <2>3, CallsEnding, ReturnEnding
<1>3. CASE LoadCancel
  BY <1>3
<1>4. CASE LoadEnded
  BY <1>4
<1>5. CASE Stop
  BY <1>5, <1>0, ReturnEnding DEF Stop, Return, EndingSame
<1>6. CASE HighPriorityQueue
  BY <1>6, <1>0, ReturnEnding DEF HighPriorityQueue, Return, EndingSame
<1>7. CASE LowPriorityQueue
  BY <1>7, <1>0, ReturnEnding DEF LowPriorityQueue, Return, EndingSame
<1>8. CASE ExtensionQueue
  BY <1>8, <1>0, ReturnEnding DEF ExtensionQueue, Return, EndingSame
<1>9. CASE QueuesEmpty
  BY <1>9, <1>0, ReturnEnding DEF QueuesEmpty, Return
<1>10. CASE CallReadyCallbacks
  BY <1>10, CallReadyOn, <1>0, CallsEnding DEF CallReadyCallbacks, LoopCalls
<1>11. CASE WakeUp
  <2> DEFINE C == {<<"waking", This.dir>>}
  <2>1. Running("wake up")
    BY <1>11 DEF WakeUp
  <2>2. todo' = Rest \/ More(todo', Rest, C)
    BY <1>11, WakeUpStack
  <2>3. \A y \in {"load ended"} : \A e : <<y, e>> \notin C
    BY DEF LoopCalls
  <2> HIDE DEF C
  <2> QED
    BY <1>0, <2>1, <2>2, <2>3, CallsEnding, ReturnEnding
<1>12. CASE Waking
  <2>1. Running("waking")
    BY <1>12 DEF Waking
  <2>2. CASE todo' = Rest
    BY <1>0, <2>1, <2>2, ReturnEnding
  <2>3. CASE \E d \in Dirs : More(todo', todo, {<<"state changed", d>>})
    <3>1. PICK d \in Dirs : More(todo', todo, {<<"state changed", d>>})
      BY <2>3
    <3>2. \A y, e : On(todo', y, e) <=> (y = "state changed" /\ e = d) \/ On(todo, y, e)
      BY <3>1, MoreOne
    <3> QED
      BY <3>2 DEF EndingSame
  <2> QED
    BY <1>12, <2>2, <2>3, WakingStack
<1>13. CASE Told
  BY <1>13, <1>0, ReturnEnding DEF Told, Return
<1>14. CASE Invalidate
  <2> DEFINE C == {<<"state changed", directory[This.file]>>, <<"cancelled", directory[This.file]>>}
  <2>1. Running("invalidate")
    BY <1>14 DEF Invalidate
  <2>2. todo' = Rest \/ More(todo', Rest, C)
    BY <1>14, InvalidateOn
  <2>3. \A y \in {"load ended"} : \A e : <<y, e>> \notin C
    BY DEF LoopCalls
  <2> HIDE DEF C
  <2> QED
    BY <1>0, <2>1, <2>2, <2>3, CallsEnding, ReturnEnding
<1>15. CASE Cancelled
  <2> DEFINE C == {<<"state changed", directory[This.file]>>}
  <2>1. Running("cancelled")
    BY <1>15 DEF Cancelled
  <2>2. More(todo', Rest, C)
    BY <1>15, CancelledStack
  <2>3. \A y \in {"load ended"} : \A e : <<y, e>> \notin C
    BY DEF LoopCalls
  <2> HIDE DEF C
  <2> QED
    BY <1>0, <2>1, <2>2, <2>3, CallsEnding, ReturnEnding
<1>16. CASE Reload
  <2> DEFINE C == {<<"load cancel", This.dir>>, <<"unloaded", This.dir>>}
  <2>1. Running("reload")
    BY <1>16 DEF Reload
  <2>2. More(todo', Rest, C)
    BY <1>16, ReloadOn
  <2>3. \A y \in {"load ended"} : \A e : <<y, e>> \notin C
    BY DEF LoopCalls
  <2> HIDE DEF C
  <2> QED
    BY <1>0, <2>1, <2>2, <2>3, CallsEnding, ReturnEnding
<1>17. CASE Unloaded
  <2> DEFINE C == {<<"invalidate", This.dir>>, <<"reloaded", This.dir>>}
  <2>1. Running("unloaded")
    BY <1>17 DEF Unloaded
  <2>2. More(todo', Rest, C)
    BY <1>17, UnloadedOn
  <2>3. \A y \in {"load ended"} : \A e : <<y, e>> \notin C
    BY DEF LoopCalls
  <2> HIDE DEF C
  <2> QED
    BY <1>0, <2>1, <2>2, <2>3, CallsEnding, ReturnEnding
<1>18. CASE Reloaded
  <2> DEFINE C == {<<"state changed", This.dir>>}
  <2>1. Running("reloaded")
    BY <1>18 DEF Reloaded
  <2>2. More(todo', Rest, C)
    BY <1>18, ReloadedStack
  <2>3. \A y \in {"load ended"} : \A e : <<y, e>> \notin C
    BY DEF LoopCalls
  <2> HIDE DEF C
  <2> QED
    BY <1>0, <2>1, <2>2, <2>3, CallsEnding, ReturnEnding
<1>19. ASSUME NEW m \in Monitors, MonitorAdd(m) PROVE EndingSame
  <2> DEFINE C == {<<"state changed", Place(m)>>}
  <2>1. todo = <<>>
    BY <1>19 DEF MonitorAdd, Ask, MainLoop
  <2>2. More(todo', <<>>, C)
    BY <1>19, AskedStack
  <2>3. \A y \in {"load ended"} : \A e : <<y, e>> \notin C
    OBVIOUS
  <2> HIDE DEF C
  <2> QED
    BY <2>1, <2>2, <2>3, AskedEnding
<1>20. ASSUME NEW m \in Monitors, MonitorRemove(m) PROVE EndingSame
  <2> DEFINE C == {<<"state changed", Place(m)>>}
  <2>1. todo = <<>>
    BY <1>20 DEF MonitorRemove, Ask, MainLoop
  <2>2. More(todo', <<>>, C)
    BY <1>20, AskedStack
  <2>3. \A y \in {"load ended"} : \A e : <<y, e>> \notin C
    OBVIOUS
  <2> HIDE DEF C
  <2> QED
    BY <2>1, <2>2, <2>3, AskedEnding
<1>21. ASSUME NEW c \in Callbacks, CallWhenReady(c) PROVE EndingSame
  <2> DEFINE C == {<<"state changed", Place(c)>>}
  <2>1. todo = <<>>
    BY <1>21 DEF CallWhenReady, Ask, MainLoop
  <2>2. More(todo', <<>>, C)
    BY <1>21, AskedStack
  <2>3. \A y \in {"load ended"} : \A e : <<y, e>> \notin C
    OBVIOUS
  <2> HIDE DEF C
  <2> QED
    BY <2>1, <2>2, <2>3, AskedEnding
<1>22. ASSUME NEW c \in Callbacks, CancelCallback(c) PROVE EndingSame
  <2> DEFINE C == {<<"state changed", Place(c)>>}
  <2>1. todo = <<>>
    BY <1>22 DEF CancelCallback, Ask, MainLoop
  <2>2. More(todo', <<>>, C)
    BY <1>22, AskedStack
  <2>3. \A y \in {"load ended"} : \A e : <<y, e>> \notin C
    OBVIOUS
  <2> HIDE DEF C
  <2> QED
    BY <2>1, <2>2, <2>3, AskedEnding
<1>23. ASSUME NEW f \in Files, NotifyFileChanged(f) PROVE EndingSame
  <2> DEFINE C == {<<"state changed", directory[f]>>}
  <2>1. todo = <<>>
    BY <1>23 DEF NotifyFileChanged, Ask, MainLoop
  <2>2. More(todo', <<>>, C)
    BY <1>23, AskedStack
  <2>3. \A y \in {"load ended"} : \A e : <<y, e>> \notin C
    OBVIOUS
  <2> HIDE DEF C
  <2> QED
    BY <2>1, <2>2, <2>3, AskedEnding
<1>24. ASSUME NEW f \in Files, NotifyFileRemoved(f) PROVE EndingSame
  <2> DEFINE C == {<<"state changed", directory[f]>>, <<"invalidate", directory[f]>>}
  <2>1. todo = <<>>
    BY <1>24 DEF NotifyFileRemoved, Ask, MainLoop
  <2>2. More(todo', <<>>, C)
    BY <1>24, NotifyFileRemovedOn
  <2>3. \A y \in {"load ended"} : \A e : <<y, e>> \notin C
    OBVIOUS
  <2> HIDE DEF C
  <2> QED
    BY <2>1, <2>2, <2>3, AskedEnding
<1>25. ASSUME NEW f \in Files, InvalidateFile(f, AllAttributes) PROVE EndingSame
  <2> DEFINE C == {<<"state changed", directory[f]>>, <<"cancelled", directory[f]>>}
  <2>1. todo = <<>>
    BY <1>25 DEF InvalidateFile, Ask, MainLoop
  <2>2. More(todo', <<>>, C)
    BY <1>25, InvalidateFileOn
  <2>3. \A y \in {"load ended"} : \A e : <<y, e>> \notin C
    OBVIOUS
  <2> HIDE DEF C
  <2> QED
    BY <2>1, <2>2, <2>3, AskedEnding
<1>26. ASSUME NEW d \in Dirs, ForceReload(d) PROVE EndingSame
  <2> DEFINE C == {<<"state changed", d>>, <<"reload", d>>}
  <2>1. todo = <<>>
    BY <1>26 DEF ForceReload, Ask, MainLoop
  <2>2. More(todo', <<>>, C)
    BY <1>26, ForceReloadOn
  <2>3. \A y \in {"load ended"} : \A e : <<y, e>> \notin C
    OBVIOUS
  <2> HIDE DEF C
  <2> QED
    BY <2>1, <2>2, <2>3, AskedEnding
<1>27. ASSUME NEW d \in Dirs, NEW k \in Kinds, Answer(d, k) PROVE EndingSame
  <2> DEFINE C == {<<"state changed", d>>}
  <2>1. todo = <<>>
    BY <1>27 DEF Answer, Ask, MainLoop
  <2>2. More(todo', <<>>, C)
    BY <1>27, AskedStack
  <2>3. \A y \in {"load ended"} : \A e : <<y, e>> \notin C
    OBVIOUS
  <2> HIDE DEF C
  <2> QED
    BY <2>1, <2>2, <2>3, AskedEnding
<1>28. ASSUME NEW d \in Dirs, DirectoryLoadDone(d) PROVE EndingSame
  <2> DEFINE C == {<<"state changed", d>>, <<"told", d>>, <<"load cancel", d>>}
  <2>1. todo = <<>> /\ todo' = AfterLoad(d)
    BY <1>28 DEF DirectoryLoadDone, MainLoop
  <2>2. More(todo', <<>>, C)
    BY <2>1, AfterLoadOn
  <2>3. \A y \in {"load ended"} : \A e : <<y, e>> \notin C
    OBVIOUS
  <2> HIDE DEF C
  <2> QED
    BY <2>1, <2>2, <2>3, AskedEnding
<1>29. ASSUME NEW d \in Dirs, CallReadyCallbacksAtIdle(d) PROVE EndingSame
  <2> DEFINE C == {<<"state changed", d>>}
  <2>1. todo = <<>>
    BY <1>29 DEF CallReadyCallbacksAtIdle, Ask, MainLoop
  <2>2. More(todo', <<>>, C)
    BY <1>29, AskedStack
  <2>3. \A y \in {"load ended"} : \A e : <<y, e>> \notin C
    OBVIOUS
  <2> HIDE DEF C
  <2> QED
    BY <2>1, <2>2, <2>3, AskedEnding
<1>30. ASSUME NEW d \in Dirs, DirectoryReads(d) PROVE EndingSame
  <2> DEFINE C == {<<"state changed", d>>}
  <2>1. todo = <<>>
    BY <1>30 DEF DirectoryReads, MainLoop
  <2>2. More(todo', <<>>, C)
    BY <1>30, AskedStack
  <2>3. \A y \in {"load ended"} : \A e : <<y, e>> \notin C
    OBVIOUS
  <2> HIDE DEF C
  <2> QED
    BY <2>1, <2>2, <2>3, AskedEnding
<1> QED
  BY StepsAre, <1>1, <1>2, <1>3, <1>4, <1>5, <1>6, <1>7, <1>8, <1>9, <1>10, <1>11, <1>12, <1>13, <1>14, <1>15, <1>16, <1>17, <1>18, <1>19, <1>20, <1>21, <1>22, <1>23, <1>24, <1>25, <1>26, <1>27, <1>28, <1>29, <1>30

LEMMA LoadingStays ==
  ASSUME Typed, Next, "Moved" \notin Changes, ~FileListStartOrStop, ~LoadCancel
  PROVE  loading' = loading
<1>1. CASE StateChanged
  BY <1>1 DEF StateChanged, files
<1>2. CASE FileListStartOrStop
  BY <1>2
<1>3. CASE LoadCancel
  BY <1>3
<1>4. CASE LoadEnded
  BY <1>4 DEF LoadEnded, files
<1>5. CASE Stop
  BY <1>5 DEF Stop, files
<1>6. CASE HighPriorityQueue
  BY <1>6 DEF HighPriorityQueue, files
<1>7. CASE LowPriorityQueue
  BY <1>7 DEF LowPriorityQueue
<1>8. CASE ExtensionQueue
  BY <1>8 DEF ExtensionQueue
<1>9. CASE QueuesEmpty
  BY <1>9 DEF QueuesEmpty, files
<1>10. CASE CallReadyCallbacks
  BY <1>10 DEF CallReadyCallbacks, files
<1>11. CASE WakeUp
  BY <1>11 DEF WakeUp, files
<1>12. CASE Waking
  BY <1>12 DEF Waking, files
<1>13. CASE Told
  BY <1>13 DEF Told, files
<1>14. CASE Invalidate
  BY <1>14 DEF Invalidate, files
<1>15. CASE Cancelled
  BY <1>15 DEF Cancelled
<1>16. CASE Reload
  BY <1>16 DEF Reload
<1>17. CASE Unloaded
  BY <1>17 DEF Unloaded, files
<1>18. CASE Reloaded
  BY <1>18 DEF Reloaded, files
<1>19. ASSUME NEW m \in Monitors, MonitorAdd(m) PROVE loading' = loading
  BY <1>19 DEF MonitorAdd, files
<1>20. ASSUME NEW m \in Monitors, MonitorRemove(m) PROVE loading' = loading
  BY <1>20 DEF MonitorRemove, files
<1>21. ASSUME NEW c \in Callbacks, CallWhenReady(c) PROVE loading' = loading
  BY <1>21 DEF CallWhenReady, files
<1>22. ASSUME NEW c \in Callbacks, CancelCallback(c) PROVE loading' = loading
  BY <1>22 DEF CancelCallback, files
<1>23. ASSUME NEW f \in Files, NotifyFileChanged(f) PROVE loading' = loading
  BY <1>23 DEF NotifyFileChanged
<1>24. ASSUME NEW f \in Files, NotifyFileRemoved(f) PROVE loading' = loading
  BY <1>24 DEF NotifyFileRemoved
<1>25. ASSUME NEW f \in Files, InvalidateFile(f, AllAttributes) PROVE loading' = loading
  BY <1>25 DEF InvalidateFile, files
<1>26. ASSUME NEW d \in Dirs, ForceReload(d) PROVE loading' = loading
  BY <1>26 DEF ForceReload, files
<1>27. ASSUME NEW d \in Dirs, NEW k \in Kinds, Answer(d, k) PROVE loading' = loading
  BY <1>27 DEF Answer
<1>28. ASSUME NEW d \in Dirs, DirectoryLoadDone(d) PROVE loading' = loading
  BY <1>28 DEF DirectoryLoadDone
<1>29. ASSUME NEW d \in Dirs, CallReadyCallbacksAtIdle(d) PROVE loading' = loading
  BY <1>29 DEF CallReadyCallbacksAtIdle, files
<1>30. ASSUME NEW d \in Dirs, DirectoryReads(d) PROVE loading' = loading
  BY <1>30 DEF DirectoryReads
<1> QED
  BY StepsAre, <1>1, <1>2, <1>3, <1>4, <1>5, <1>6, <1>7, <1>8, <1>9, <1>10, <1>11, <1>12, <1>13, <1>14, <1>15, <1>16, <1>17, <1>18, <1>19, <1>20, <1>21, <1>22, <1>23, <1>24, <1>25, <1>26, <1>27, <1>28, <1>29, <1>30

\* A file is said to be loading while the list of its directory is loaded, up to the end of the load.
LoadingTold ==
  \A f \in Files : f \in loading <=> \E d \in Dirs : LoadFor(d, f) /\ ~On(todo, "load ended", d)

LEMMA LoadingToldKept ==
  ASSUME Typed, OpsPlaced, Stacked, Listed, Counted, LoadingTold, Next, "Moved" \notin Changes
  PROVE  LoadingTold'
<1>0. StackTyped /\ LoadingTold
  BY DEF Typed
<1>1. CASE FileListStartOrStop
  <2> DEFINE e == This.dir
             s == Standing(e)
  <2>1. e \in Dirs /\ On(todo, "file list", e)
    BY <1>1, <1>0, TopIs, TopOn DEF FileListStartOrStop
  <2>2. ListAt(e)
    BY <2>1 DEF Listed
  <2>3. ~(e \notin monitored /\ InProgress(e, "list")) /\ (On(todo, "load ended", e) => InProgress(e, "list"))
    BY <2>1, <2>2 DEF ListAt
  <2>4. ~LoadCancel /\ ~LoadEnded
    BY <1>1 DEF FileListStartOrStop, LoadCancel, LoadEnded, Running
  <2>5. EndingSame
    BY <2>4, EndingStays
  <2>6. \/ ops' = ops /\ loading' = loading
        \/ /\ ~InProgress(e, "list") /\ ops' = ops \cup {Operation(e, "list", s)}
           /\ loading' = loading \cup ({s} \cap Files)
    BY <1>1, <2>3 DEF FileListStartOrStop, jobVars
  <2>7. Operation(e, "list", s).dir = e /\ Operation(e, "list", s).kind = "list" /\ Operation(e, "list", s).file = s
    BY DEF Operation
  <2> HIDE DEF e, s
  <2>8. CASE ops' = ops /\ loading' = loading
    BY <1>0, <2>5, <2>8 DEF LoadingTold, EndingSame, LoadFor
  <2>9. CASE /\ ~InProgress(e, "list") /\ ops' = ops \cup {Operation(e, "list", s)}
             /\ loading' = loading \cup ({s} \cap Files)
    BY <2>7, <2>9, <2>5, <2>3, <1>0, <2>1 DEF LoadFor, EndingSame, LoadingTold
  <2> QED
    BY <2>6, <2>8, <2>9
<1>2. CASE LoadCancel
  <2> DEFINE e == This.dir
             s == LoadFile(e)
             over(d) == On(todo, "load ended", d)
  <2>1. Running("load cancel") /\ ops' = ops
    BY <1>2 DEF LoadCancel, jobVars
  <2>2. e \in Dirs /\ \A y, d : On(todo, y, d) <=> (y = "load cancel" /\ d = e) \/ On(Rest, y, d)
    BY <1>0, <2>1, TopIs, TopOn
  <2>3. CASE ~InProgress(e, "list")
    <3>1. todo' = Rest /\ loading' = loading
      BY <1>2, <2>3 DEF LoadCancel, Return
    <3> QED
      BY <1>0, <2>1, <2>2, <3>1 DEF LoadingTold, LoadFor
  <2>4. CASE InProgress(e, "list")
    <3>1. loading' = loading \ {s}
      BY <1>2, <2>4 DEF LoadCancel
    <3>2. \/ More(todo', Rest, {<<"load ended", e>>})
          \/ More(todo', Rest, {<<"load ended", e>>, <<"state changed", directory[s]>>})
      BY <1>2, <2>4, LoadCancelOn
    <3>3. \A d : On(todo', "load ended", d) <=> d = e \/ over(d)
      BY <3>2, <2>2 DEF More
    <3>4. LoadFor(e, s) /\ \A g : LoadFor(e, g) => g = s
      <4>1. PICK o \in ops : o.dir = e /\ o.kind = "list"
        BY <2>4 DEF InProgress
      <4>2. \A p \in ops : p.dir = e /\ p.kind = "list" => p = o
        BY <4>1 DEF Counted
      <4>3. LoadFile(e) = o.file
        BY <4>1, <4>2 DEF LoadFile
      <4> QED
        BY <4>1, <4>2, <4>3 DEF LoadFor
    <3>5. ASSUME NEW d \in Dirs, LoadFor(d, s), s \in Files
          PROVE  d = e
      <4>1. \A o \in ops : o.kind = "list" => o.file \in {FileOf[o.dir], NoFile}
        BY DEF OpsPlaced
      <4>2. s \in {FileOf[d], NoFile} /\ s \in {FileOf[e], NoFile}
        BY <3>4, <3>5, <4>1 DEF LoadFor
      <4> HIDE DEF e, s
      <4> QED
        BY <2>2, <3>5, <4>2, JobsAssumption
    <3>6. LoadingTold <=> \A f \in Files : f \in loading <=> \E d \in Dirs : LoadFor(d, f) /\ ~over(d)
      BY DEF LoadingTold
    <3>7. LoadingTold' <=> \A f \in Files : f \in loading' <=> \E d \in Dirs : LoadFor(d, f) /\ ~(d = e \/ over(d))
      BY <2>1, <3>3 DEF LoadingTold, LoadFor
    <3> HIDE DEF e, s, over
    <3> QED
      BY <1>0, <2>2, <3>1, <3>4, <3>5, <3>6, <3>7
  <2> QED
    BY <2>3, <2>4
<1>3. CASE LoadEnded
  <2>1. Running("load ended") /\ todo' = Rest /\ loading' = loading /\ ops' = {o \in ops : ~(o.dir = This.dir /\ o.kind = "list")}
    BY <1>3 DEF LoadEnded, Return, files
  <2>2. /\ \A y, d : On(todo, y, d) <=> (y = "load ended" /\ d = This.dir) \/ On(Rest, y, d)
        /\ Legal(This, Rest) /\ This.do = "load ended" /\ This.dir \in Dirs
    BY <1>0, <2>1, TopOn, TopIs DEF Stacked
  <2>3. ~On(Rest, "load ended", This.dir)
    BY <2>2 DEF Legal, Loads
  <2>4. \A d, f : LoadFor(d, f)' <=> LoadFor(d, f) /\ d # This.dir
    BY <2>1 DEF LoadFor
  <2>5. \A d : On(todo, "load ended", d) <=> d = This.dir \/ On(todo', "load ended", d)
    BY <2>1, <2>2
  <2> QED
    BY <1>0, <2>1, <2>4, <2>5 DEF LoadingTold
<1>4. CASE ~FileListStartOrStop /\ ~LoadCancel /\ ~LoadEnded
  BY <1>4, EndingStays, LoadingStays, LoadsStay, <1>0 DEF LoadingTold, EndingSame
<1> QED
  BY <1>1, <1>2, <1>3, <1>4

-----------------------------------------------------------------------------
(* Work left in queues                                                     *)

\* A file is left in a queue of d; a file of d is being fetched; the queues of d will be looked at.
QueueLeft(d) == \E f : Holds(high, d, f) \/ Holds(low, d, f) \/ Holds(extension, d, f)
Working(O, d) == \E o \in O : o.dir = d /\ o.kind # "list"
QueueDue(s, L, d) ==
  \/ On(s, "state changed", d) \/ On(s, "file list", d) \/ On(s, "stop", d) \/ On(s, "queues", d)
  \/ d \in L

\* A step after which the work left for d is attended to if it was before: nothing joins its
\* queues or ends, unless they will be looked at.
LEMMA LeftStays ==
  ASSUME Typed, Next, "Moved" \notin Changes, NEW e \in Dirs
  PROVE  QueueLeft(e)' => QueueLeft(e) \/ QueueDue(todo', again', e)
<1>0. QueuesTyped /\ QueuesTyped'
  BY QueuesTypedKept DEF Typed
<1>1. CASE StateChanged
  BY <1>1 DEF StateChanged, queues, QueueLeft
<1>2. CASE FileListStartOrStop
  BY <1>2 DEF FileListStartOrStop, queues, QueueLeft
<1>3. CASE LoadCancel
  BY <1>3 DEF LoadCancel, queues, QueueLeft
<1>4. CASE LoadEnded
  BY <1>4 DEF LoadEnded, queues, QueueLeft
<1>5. CASE Stop
  BY <1>5 DEF Stop, queues, QueueLeft
<1>6. CASE HighPriorityQueue
  <2>0. This.dir \in Dirs
    BY <1>6, TopIs DEF HighPriorityQueue, Typed
  <2>1. CASE UNCHANGED queues
    BY <2>1 DEF queues, QueueLeft
  <2>2. CASE ~UNCHANGED queues
    <3> DEFINE f == Head(high[This.dir])
    <3>1. PassedOn(high, low, high', low', This.dir) /\ extension' = extension
      BY <1>6, <1>0, <2>0, <2>2 DEF HighPriorityQueue, QueuesTyped, PassedOn
    <3>2. \A g : /\ Holds(high, e, g) <=> Holds(high', e, g) \/ (e = This.dir /\ g = f)
                 /\ Holds(low', e, g) <=> Holds(low, e, g) \/ (e = This.dir /\ g = f)
      BY <3>1, PassedOnFacts
    <3> HIDE DEF f
    <3> QED
      BY <3>1, <3>2 DEF QueueLeft
  <2> QED
    BY <2>1, <2>2
<1>7. CASE LowPriorityQueue
  <2>0. This.dir \in Dirs
    BY <1>7, TopIs DEF LowPriorityQueue, Typed
  <2>1. CASE UNCHANGED queues
    BY <2>1 DEF queues, QueueLeft
  <2>2. CASE ~UNCHANGED queues
    <3> DEFINE f == Head(low[This.dir])
    <3>1. PassedOn(low, extension, low', extension', This.dir) /\ high' = high
      BY <1>7, <1>0, <2>0, <2>2 DEF LowPriorityQueue, QueuesTyped, PassedOn
    <3>2. \A g : /\ Holds(low, e, g) <=> Holds(low', e, g) \/ (e = This.dir /\ g = f)
                 /\ Holds(extension', e, g) <=> Holds(extension, e, g) \/ (e = This.dir /\ g = f)
      BY <3>1, PassedOnFacts
    <3> HIDE DEF f
    <3> QED
      BY <3>1, <3>2 DEF QueueLeft
  <2> QED
    BY <2>1, <2>2
<1>8. CASE ExtensionQueue
  <2>0. This.dir \in Dirs
    BY <1>8, TopIs DEF ExtensionQueue, Typed
  <2>1. CASE UNCHANGED queues
    BY <2>1 DEF queues, QueueLeft
  <2>2. CASE ~UNCHANGED queues
    BY <1>8, <2>2, <1>0, <2>0, RemovedFacts DEF ExtensionQueue, QueueLeft
  <2> QED
    BY <2>1, <2>2
<1>9. CASE QueuesEmpty
  BY <1>9 DEF QueuesEmpty, queues, QueueLeft
<1>10. CASE CallReadyCallbacks
  BY <1>10 DEF CallReadyCallbacks, queues, QueueLeft
<1>11. CASE WakeUp
  BY <1>11 DEF WakeUp, queues, QueueLeft
<1>12. CASE Waking
  BY <1>12 DEF Waking, queues, QueueLeft
<1>13. CASE Told
  BY <1>13 DEF Told, queues, QueueLeft
<1>14. CASE Invalidate
  <2>1. CASE UNCHANGED queues
    BY <2>1 DEF queues, QueueLeft
  <2>2. CASE ~UNCHANGED queues
    BY <1>14, <2>2, InvalidateOn, <1>0, RemovedFacts DEF Invalidate, CancelLoadingFileAttributes, QueueLeft
  <2> QED
    BY <2>1, <2>2
<1>15. CASE Cancelled
  <2>1. AddToWorkQueue(directory[This.file], This.file)
    BY <1>15 DEF Cancelled
  <2>2. This.file \in Files /\ directory[This.file] \in Dirs /\ More(todo', Rest, {<<"state changed", directory[This.file]>>})
    BY <1>15, CancelledStack
  <2>3. low' = low /\ extension' = extension
      /\ \A g : Holds(high', e, g) <=> Holds(high, e, g) \/ (e = directory[This.file] /\ g = This.file)
    BY <1>0, <2>1, <2>2, AddedFacts
  <2>4. On(todo', "state changed", directory[This.file])
    BY <2>2 DEF More
  <2> QED
    BY <2>3, <2>4 DEF QueueLeft, QueueDue
<1>16. CASE Reload
  BY <1>16 DEF Reload, queues, QueueLeft
<1>17. CASE Unloaded
  BY <1>17 DEF Unloaded, queues, QueueLeft
<1>18. CASE Reloaded
  <2>1. AddAllToWorkQueue(This.dir)
    BY <1>18 DEF Reloaded
  <2>2. This.dir \in Dirs /\ More(todo', Rest, {<<"state changed", This.dir>>})
    BY <1>18, ReloadedStack
  <2>3. low' = low /\ extension' = extension
      /\ \A g : Holds(high', e, g) <=> Holds(high, e, g) \/ (e = This.dir /\ g \in FileList(This.dir))
    BY <1>0, <2>1, <2>2, AddedAllFacts
  <2>4. On(todo', "state changed", This.dir)
    BY <2>2 DEF More
  <2> QED
    BY <2>3, <2>4 DEF QueueLeft, QueueDue
<1>19. ASSUME NEW m \in Monitors, MonitorAdd(m) PROVE QueueLeft(e)' => QueueLeft(e) \/ QueueDue(todo', again', e)
  <2>1. Place(m) \in Dirs /\ At[m] \in Dirs /\ About[m] \in Files \cup {AllFiles}
    BY PlaceTyped
  <2>2. On(todo', "state changed", Place(m))
    BY <1>19, AskedStack, MoreOne
  <2>3. CASE About[m] = AllFiles
    BY <1>19, <2>3, <1>0, <2>1, AddedAllFacts, <2>2 DEF MonitorAdd, Place, QueueLeft, QueueDue
  <2>4. CASE About[m] # AllFiles
    <3>1. AddToWorkQueue(Place(m), About[m]) /\ About[m] \in Files
      BY <1>19, <2>1, <2>4 DEF MonitorAdd
    <3>2. low' = low /\ extension' = extension
        /\ \A g : Holds(high', e, g) <=> Holds(high, e, g) \/ (e = Place(m) /\ g = About[m])
      BY <1>0, <2>1, <3>1, AddedFacts
    <3> QED
      BY <2>2, <3>2 DEF QueueLeft, QueueDue
  <2> QED
    BY <2>3, <2>4
<1>20. ASSUME NEW m \in Monitors, MonitorRemove(m) PROVE QueueLeft(e)' => QueueLeft(e) \/ QueueDue(todo', again', e)
  BY <1>20 DEF MonitorRemove, queues, QueueLeft
<1>21. ASSUME NEW c \in Callbacks, CallWhenReady(c) PROVE QueueLeft(e)' => QueueLeft(e) \/ QueueDue(todo', again', e)
  <2>1. Place(c) \in Dirs /\ At[c] \in Dirs /\ About[c] \in Files \cup {AllFiles}
    BY PlaceTyped
  <2>2. On(todo', "state changed", Place(c))
    BY <1>21, AskedStack, MoreOne
  <2>3. CASE About[c] = AllFiles
    <3>1. AddAllToWorkQueue(At[c]) /\ Place(c) = At[c]
      BY <1>21, <2>3 DEF CallWhenReady, Place
    <3>2. low' = low /\ extension' = extension
        /\ \A g : Holds(high', e, g) <=> Holds(high, e, g) \/ (e = At[c] /\ g \in FileList(At[c]))
      BY <1>0, <2>1, <3>1, AddedAllFacts
    <3> QED
      BY <2>2, <3>1, <3>2 DEF QueueLeft, QueueDue
  <2>4. CASE About[c] # AllFiles
    <3>1. AddToWorkQueue(Place(c), About[c]) /\ About[c] \in Files
      BY <1>21, <2>1, <2>4 DEF CallWhenReady
    <3>2. low' = low /\ extension' = extension
        /\ \A g : Holds(high', e, g) <=> Holds(high, e, g) \/ (e = Place(c) /\ g = About[c])
      BY <1>0, <2>1, <3>1, AddedFacts
    <3> QED
      BY <2>2, <3>2 DEF QueueLeft, QueueDue
  <2> QED
    BY <2>3, <2>4
<1>22. ASSUME NEW c \in Callbacks, CancelCallback(c) PROVE QueueLeft(e)' => QueueLeft(e) \/ QueueDue(todo', again', e)
  BY <1>22 DEF CancelCallback, queues, QueueLeft
<1>23. ASSUME NEW f \in Files, NotifyFileChanged(f) PROVE QueueLeft(e)' => QueueLeft(e) \/ QueueDue(todo', again', e)
  <2>1. AddToWorkQueue(directory[f], f)
    BY <1>23 DEF NotifyFileChanged
  <2>2. directory[f] \in Dirs
    BY DirectoryTyped
  <2>3. low' = low /\ extension' = extension
      /\ \A g : Holds(high', e, g) <=> Holds(high, e, g) \/ (e = directory[f] /\ g = f)
    BY <1>0, <2>1, <2>2, AddedFacts
  <2>4. On(todo', "state changed", directory[f])
    BY <1>23, AskedStack, MoreOne
  <2> QED
    BY <2>3, <2>4 DEF QueueLeft, QueueDue
<1>24. ASSUME NEW f \in Files, NotifyFileRemoved(f) PROVE QueueLeft(e)' => QueueLeft(e) \/ QueueDue(todo', again', e)
  <2>1. \A g : /\ Holds(high', e, g) => Holds(high, e, g) \/ (e = directory[f] /\ g = f)
               /\ Holds(low', e, g) => Holds(low, e, g)
               /\ Holds(extension', e, g) => Holds(extension, e, g)
    BY <1>24, PutBackFacts
  <2>2. On(todo', "state changed", directory[f])
    BY <1>24, NotifyFileRemovedOn, MoreTwo
  <2> QED
    BY <2>1, <2>2 DEF QueueLeft, QueueDue
<1>25. ASSUME NEW f \in Files, InvalidateFile(f, AllAttributes) PROVE QueueLeft(e)' => QueueLeft(e) \/ QueueDue(todo', again', e)
  BY <1>25, DirectoryTyped, <1>0, RemovedFacts DEF InvalidateFile, CancelLoadingFileAttributes, QueueLeft
<1>26. ASSUME NEW d \in Dirs, ForceReload(d) PROVE QueueLeft(e)' => QueueLeft(e) \/ QueueDue(todo', again', e)
  BY <1>26 DEF ForceReload, queues, QueueLeft
<1>27. ASSUME NEW d \in Dirs, NEW k \in Kinds, Answer(d, k) PROVE QueueLeft(e)' => QueueLeft(e) \/ QueueDue(todo', again', e)
  <2>1. CASE UNCHANGED queues
    BY <2>1 DEF queues, QueueLeft
  <2>2. CASE ~UNCHANGED queues
    <3>1. PICK o \in ops : o.kind # "list" /\ MarkGone(directory[o.file], {o.file})
      BY <1>27, <2>2 DEF Answer
    <3>2. directory[o.file] \in Dirs
      BY <3>1, DirectoryTyped DEF Typed, JobsTyped
    <3>3. \A g : /\ Holds(high', e, g) => Holds(high, e, g)
                 /\ Holds(low', e, g) => Holds(low, e, g)
                 /\ Holds(extension', e, g) => Holds(extension, e, g)
      BY <1>0, <3>1, <3>2, MarkedGoneFacts
    <3> QED
      BY <3>3 DEF QueueLeft
  <2> QED
    BY <2>1, <2>2
<1>28. ASSUME NEW d \in Dirs, DirectoryLoadDone(d) PROVE QueueLeft(e)' => QueueLeft(e) \/ QueueDue(todo', again', e)
  <2>1. PICK missing : MarkGone(d, missing)
    BY <1>28 DEF DirectoryLoadDone
  <2>2. \A g : /\ Holds(high', e, g) => Holds(high, e, g)
               /\ Holds(low', e, g) => Holds(low, e, g)
               /\ Holds(extension', e, g) => Holds(extension, e, g)
    BY <1>0, <2>1, MarkedGoneFacts
  <2> QED
    BY <2>2 DEF QueueLeft
<1>29. ASSUME NEW d \in Dirs, CallReadyCallbacksAtIdle(d) PROVE QueueLeft(e)' => QueueLeft(e) \/ QueueDue(todo', again', e)
  BY <1>29 DEF CallReadyCallbacksAtIdle, queues, QueueLeft
<1>30. ASSUME NEW d \in Dirs, DirectoryReads(d) PROVE QueueLeft(e)' => QueueLeft(e) \/ QueueDue(todo', again', e)
  BY <1>30 DEF DirectoryReads, queues, QueueLeft
<1> QED
  BY StepsAre, <1>1, <1>2, <1>3, <1>4, <1>5, <1>6, <1>7, <1>8, <1>9, <1>10, <1>11, <1>12, <1>13, <1>14, <1>15, <1>16, <1>17, <1>18, <1>19, <1>20, <1>21, <1>22, <1>23, <1>24, <1>25, <1>26, <1>27, <1>28, <1>29, <1>30

\* What is cancelled elsewhere leaves the fetches of e.
LEMMA CancelledWork ==
  ASSUME JobsTyped, NEW S, NEW outdated, CancelJobs(S, outdated), NEW e, \A o \in ops : o \in S => o.dir # e
  PROVE  Working(ops, e) => Working(ops', e)
<1>1. ASSUME NEW o \in ops, o \notin S PROVE \E p \in ops' : p.dir = o.dir /\ p.kind = o.kind
  BY <1>1, CancelledOps
<1> QED
  BY <1>1 DEF Working

LEMMA WorkStays ==
  ASSUME Typed, OpsPlaced, Stacked, Next, "Moved" \notin Changes, NEW e \in Dirs
  PROVE  Working(ops, e) => Working(ops', e) \/ QueueDue(todo', again', e)
<1>0. JobsTyped /\ StackTyped
  BY DEF Typed
<1>1. CASE StateChanged
  BY <1>1 DEF StateChanged, jobVars, Working
<1>2. CASE FileListStartOrStop
  BY <1>2 DEF FileListStartOrStop, jobVars, Working
<1>3. CASE LoadCancel
  BY <1>3 DEF LoadCancel, jobVars, Working
<1>4. CASE LoadEnded
  BY <1>4 DEF LoadEnded, Working
<1>5. CASE Stop
  <2>1. CASE UNCHANGED jobVars
    BY <2>1 DEF jobVars, Working
  <2>2. CASE ~UNCHANGED jobVars
    <3>1. PICK S \in SUBSET {o \in ops : o.dir = This.dir} : CancelJobs(S, {})
      BY <1>5, <2>2 DEF Stop
    <3>2. todo' = Rest /\ Running("stop")
      BY <1>5, <2>2 DEF Stop, Return
    <3>3. On(Rest, "queues", This.dir)
      BY <1>0, <3>2, TopOn, TopIs DEF Stacked, Legal
    <3>4. e # This.dir => (Working(ops, e) => Working(ops', e))
      BY <1>0, <3>1, CancelledWork
    <3> QED
      BY <3>2, <3>3, <3>4 DEF QueueDue
  <2> QED
    BY <2>1, <2>2
<1>6. CASE HighPriorityQueue
  BY <1>6 DEF HighPriorityQueue, StartJobs, jobVars, Working
<1>7. CASE LowPriorityQueue
  BY <1>7 DEF LowPriorityQueue, StartJobs, jobVars, Working
<1>8. CASE ExtensionQueue
  BY <1>8 DEF ExtensionQueue, StartJobs, jobVars, Working
<1>9. CASE QueuesEmpty
  BY <1>9 DEF QueuesEmpty, jobVars, Working
<1>10. CASE CallReadyCallbacks
  BY <1>10 DEF CallReadyCallbacks, jobVars, Working
<1>11. CASE WakeUp
  BY <1>11 DEF WakeUp, jobVars, Working
<1>12. CASE Waking
  BY <1>12 DEF Waking, Working
<1>13. CASE Told
  BY <1>13 DEF Told, jobVars, Working
<1>14. CASE Invalidate
  <2>1. CASE UNCHANGED jobVars
    BY <2>1 DEF jobVars, Working
  <2>2. CASE ~UNCHANGED jobVars
    <3> DEFINE d == directory[This.file]
               S == {o \in Fetches({This.file}, This.set \ {"extension"}) : o.dir = d}
    <3>1. PICK T : CancelJobs(S, T)
      BY <1>14, <2>2 DEF Invalidate, CancelLoadingFileAttributes
    <3>2. \A o \in S : o.dir = d
      OBVIOUS
    <3>3. This.file # NoFile
      BY <1>14, <2>2 DEF Invalidate
    <3>4. More(todo', Rest, {<<"state changed", d>>, <<"cancelled", d>>})
      BY <1>14, <3>3, InvalidateOn
    <3>5. On(todo', "state changed", d)
      BY <3>4 DEF More
    <3> HIDE DEF S, d
    <3>6. e # d => (Working(ops, e) => Working(ops', e))
      BY <1>0, <3>1, <3>2, CancelledWork
    <3> QED
      BY <3>5, <3>6 DEF QueueDue
  <2> QED
    BY <2>1, <2>2
<1>15. CASE Cancelled
  BY <1>15 DEF Cancelled, jobVars, Working
<1>16. CASE Reload
  BY <1>16 DEF Reload, jobVars, Working
<1>17. CASE Unloaded
  BY <1>17 DEF Unloaded, jobVars, Working
<1>18. CASE Reloaded
  BY <1>18 DEF Reloaded, jobVars, Working
<1>19. ASSUME NEW m \in Monitors, MonitorAdd(m) PROVE Working(ops, e) => Working(ops', e) \/ QueueDue(todo', again', e)
  BY <1>19 DEF MonitorAdd, jobVars, Working
<1>20. ASSUME NEW m \in Monitors, MonitorRemove(m) PROVE Working(ops, e) => Working(ops', e) \/ QueueDue(todo', again', e)
  BY <1>20 DEF MonitorRemove, jobVars, Working
<1>21. ASSUME NEW c \in Callbacks, CallWhenReady(c) PROVE Working(ops, e) => Working(ops', e) \/ QueueDue(todo', again', e)
  BY <1>21 DEF CallWhenReady, jobVars, Working
<1>22. ASSUME NEW c \in Callbacks, CancelCallback(c) PROVE Working(ops, e) => Working(ops', e) \/ QueueDue(todo', again', e)
  BY <1>22 DEF CancelCallback, jobVars, Working
<1>23. ASSUME NEW f \in Files, NotifyFileChanged(f) PROVE Working(ops, e) => Working(ops', e) \/ QueueDue(todo', again', e)
  <2>1. PICK T : CancelJobs({}, T)
    BY <1>23 DEF NotifyFileChanged
  <2> QED
    BY <1>0, <2>1, CancelledWork
<1>24. ASSUME NEW f \in Files, NotifyFileRemoved(f) PROVE Working(ops, e) => Working(ops', e) \/ QueueDue(todo', again', e)
  BY <1>24 DEF NotifyFileRemoved, jobVars, Working
<1>25. ASSUME NEW f \in Files, InvalidateFile(f, AllAttributes) PROVE Working(ops, e) => Working(ops', e) \/ QueueDue(todo', again', e)
  <2> DEFINE d == directory[f]
             S == {o \in Fetches({f}, AllAttributes \ {"extension"}) : o.dir = d}
  <2>1. PICK T : CancelJobs(S, T)
    BY <1>25 DEF InvalidateFile, CancelLoadingFileAttributes
  <2>2. \A o \in S : o.dir = d
    OBVIOUS
  <2>3. More(todo', <<>>, {<<"state changed", d>>, <<"cancelled", d>>})
    BY <1>25, InvalidateFileOn
  <2>4. On(todo', "state changed", d)
    BY <2>3, MoreTwo
  <2> HIDE DEF S, d
  <2>5. e # d => (Working(ops, e) => Working(ops', e))
    BY <1>0, <2>1, <2>2, CancelledWork
  <2> QED
    BY <2>4, <2>5 DEF QueueDue
<1>26. ASSUME NEW d \in Dirs, ForceReload(d) PROVE Working(ops, e) => Working(ops', e) \/ QueueDue(todo', again', e)
  <2> DEFINE S == {o \in ops : o.dir = d /\ o.kind \in AllAttributes}
  <2>1. PICK T : CancelJobs(S, T)
    BY <1>26 DEF ForceReload
  <2>2. \A o \in S : o.dir = d
    OBVIOUS
  <2>3. On(todo', "state changed", d)
    BY <1>26, ForceReloadOn, MoreTwo
  <2> HIDE DEF S
  <2>4. e # d => (Working(ops, e) => Working(ops', e))
    BY <1>0, <2>1, <2>2, CancelledWork
  <2> QED
    BY <2>3, <2>4 DEF QueueDue
<1>27. ASSUME NEW d \in Dirs, NEW k \in Kinds, Answer(d, k) PROVE Working(ops, e) => Working(ops', e) \/ QueueDue(todo', again', e)
  <2>1. PICK o \in ops : o.dir = d /\ ops' = ops \ {o}
    BY <1>27 DEF Answer
  <2>2. On(todo', "state changed", d)
    BY <1>27, AskedStack, MoreOne
  <2> QED
    BY <2>1, <2>2 DEF Working, QueueDue
<1>28. ASSUME NEW d \in Dirs, DirectoryLoadDone(d) PROVE Working(ops, e) => Working(ops', e) \/ QueueDue(todo', again', e)
  BY <1>28 DEF DirectoryLoadDone, jobVars, Working
<1>29. ASSUME NEW d \in Dirs, CallReadyCallbacksAtIdle(d) PROVE Working(ops, e) => Working(ops', e) \/ QueueDue(todo', again', e)
  BY <1>29 DEF CallReadyCallbacksAtIdle, jobVars, Working
<1>30. ASSUME NEW d \in Dirs, DirectoryReads(d) PROVE Working(ops, e) => Working(ops', e) \/ QueueDue(todo', again', e)
  BY <1>30 DEF DirectoryReads, jobVars, Working
<1> QED
  BY StepsAre, <1>1, <1>2, <1>3, <1>4, <1>5, <1>6, <1>7, <1>8, <1>9, <1>10, <1>11, <1>12, <1>13, <1>14, <1>15, <1>16, <1>17, <1>18, <1>19, <1>20, <1>21, <1>22, <1>23, <1>24, <1>25, <1>26, <1>27, <1>28, <1>29, <1>30

\* The calls that look at the queues, or lead to it.
QueueCall(x) == x \in {"state changed", "file list", "stop", "queues"}

LEMMA OtherCalls ==
  /\ ~QueueCall("load cancel") /\ ~QueueCall("load ended") /\ ~QueueCall("ready") /\ ~QueueCall("wake up")
  /\ ~QueueCall("waking") /\ ~QueueCall("told") /\ ~QueueCall("invalidate") /\ ~QueueCall("cancelled")
  /\ ~QueueCall("reload") /\ ~QueueCall("unloaded") /\ ~QueueCall("reloaded")
BY DEF QueueCall

\* A call that returns to those below it, or calls others.
LEMMA ReturnDue ==
  ASSUME StackTyped, NEW x, Running(x), todo' = Rest, again \subseteq again'
  PROVE  \A e : QueueDue(todo, again, e) => QueueDue(todo', again', e) \/ (QueueCall(x) /\ e = This.dir)
<1>1. \A y, e : On(todo, y, e) <=> (y = x /\ e = This.dir) \/ On(Rest, y, e)
  BY TopOn
<1> QED
  BY <1>1 DEF QueueDue, QueueCall

LEMMA CallsDue ==
  ASSUME StackTyped, NEW x, Running(x), NEW C, More(todo', Rest, C), again \subseteq again'
  PROVE  \A e : QueueDue(todo, again, e) => QueueDue(todo', again', e) \/ (QueueCall(x) /\ e = This.dir)
<1>1. \A y, e : On(todo, y, e) <=> (y = x /\ e = This.dir) \/ On(Rest, y, e)
  BY TopOn
<1>2. \A y, e : On(Rest, y, e) => On(todo', y, e)
  BY DEF More
<1> QED
  BY <1>1, <1>2 DEF QueueDue, QueueCall

\* Jobs start, or the directory waits.
LEMMA StartedWork ==
  ASSUME NEW d, NEW f, NEW kinds \in SUBSET Kinds, StartJobs(d, f, kinds)
  PROVE  d \in waiting' \/ kinds = {} \/ Working(ops', d)
<1> DEFINE started == {k \in kinds : Cardinality({j \in kinds : Turn[j] < Turn[k]}) < MaxJobs - jobs}
<1>1. ops' = ops \cup {Operation(d, k, f) : k \in started} /\ (started = kinds \/ d \in waiting')
  BY DEF StartJobs
<1>2. \A k \in kinds : Operation(d, k, f).dir = d /\ Operation(d, k, f).kind # "list"
  BY DEF Operation, Kinds
<1>3. started \subseteq kinds
  OBVIOUS
<1> HIDE DEF started
<1> QED
  BY <1>1, <1>2, <1>3 DEF Working

LEMMA InProgressWork ==
  \A d : \A k \in Kinds : InProgress(d, k) => Working(ops, d)
BY DEF InProgress, Working, Kinds

\* The queues of a directory are looked at until something is fetched from them, they are
\* empty, or the directory waits for a slot.
LEMMA DueStays ==
  ASSUME Typed, Stacked, Listed, Next, "Moved" \notin Changes, NEW e \in Dirs
  PROVE  QueueDue(todo, again, e) => QueueDue(todo', again', e) \/ e \in waiting' \/ Working(ops', e) \/ ~QueueLeft(e)'
<1>0. StackTyped /\ Lawful(todo)
  BY DEF Typed, Stacked
<1>1. CASE StateChanged
  <2>1. Running("state changed")
    BY <1>1 DEF StateChanged
  <2>2. CASE This.dir \in inLoop
    BY <1>1, <2>2, StateChangedOn, <1>0, <2>1, ReturnDue DEF QueueDue
  <2>3. CASE This.dir \notin inLoop
    BY <1>1, <2>3, StateChangedOn, MoreLoop, <1>0, <2>1, TopOn DEF QueueDue
  <2> QED
    BY <2>2, <2>3
<1>2. CASE FileListStartOrStop
  <2>1. Running("file list") /\ again \subseteq again'
    BY <1>2 DEF FileListStartOrStop
  <2>2. This.dir \in Dirs /\ On(todo, "file list", This.dir)
    BY <1>0, <2>1, TopIs, TopOn
  <2>3. ~(This.dir \notin monitored /\ InProgress(This.dir, "list"))
    BY <2>2 DEF Listed, ListAt
  <2>4. todo' = Rest \/ More(todo', Rest, {<<"load cancel", This.dir>>})
    BY <1>2, <2>3, FileListOn
  <2>5. On(Rest, "stop", This.dir)
    BY <1>0, <2>1, TopOn, TopIs DEF Legal
  <2>6. On(todo', "stop", This.dir)
    BY <2>4, <2>5, MoreOne
  <2>7. QueueDue(todo, again, e) => QueueDue(todo', again', e) \/ e = This.dir
    BY <1>0, <2>1, TopOn, <2>4 DEF More, QueueDue
  <2> QED
    BY <2>6, <2>7 DEF QueueDue
<1>3. CASE LoadCancel
  BY <1>3, LoadCancelOn, <1>0, CallsDue, ReturnDue, OtherCalls DEF LoadCancel
<1>4. CASE LoadEnded
  BY <1>4, <1>0, ReturnDue, OtherCalls DEF LoadEnded, Return
<1>5. CASE Stop
  <2>1. Running("stop") /\ again' = again /\ again \subseteq again'
    BY <1>5 DEF Stop
  <2>2. CASE todo' = todo
    BY <2>1, <2>2 DEF QueueDue
  <2>3. CASE todo' = Rest
    BY <1>0, <2>1, TopOn, TopIs, <2>3, ReturnDue DEF Legal, QueueDue
  <2> QED
    BY <1>5, <2>2, <2>3 DEF Stop, Return
<1>6. CASE HighPriorityQueue
  <2>1. Running("queues") /\ again \subseteq again'
    BY <1>6 DEF HighPriorityQueue
  <2>2. CASE todo' = todo
    BY <2>1, <2>2 DEF QueueDue
  <2>3. CASE todo' # todo
    <3>1. todo' = Rest
      BY <1>6, <2>3 DEF HighPriorityQueue, Return
    <3>2. QueueDue(todo, again, e) => QueueDue(todo', again', e) \/ e = This.dir
      BY <1>0, <2>1, <3>1, ReturnDue
    <3>3. This.dir \in waiting' \/ Working(ops', This.dir) \/ This.dir \in again'
      <4> DEFINE kinds == IF InProgress(This.dir, "info") THEN {} ELSE {"info"}
      <4>1. StartJobs(This.dir, Head(high[This.dir]), kinds)
        BY <1>6, <2>3 DEF HighPriorityQueue
      <4>2. kinds \in SUBSET Kinds /\ "info" \in Kinds
        BY DEF Kinds
      <4>3. kinds = {} => Working(ops, This.dir)
        BY <4>2, InProgressWork
      <4>4. StartJobs(This.dir, Head(high[This.dir]), kinds) /\ kinds = {} => ops \subseteq ops'
        BY DEF StartJobs
      <4> HIDE DEF kinds
      <4> QED
        BY <4>1, <4>2, <4>3, <4>4, StartedWork DEF Working
    <3> QED
      BY <3>2, <3>3 DEF QueueDue
  <2> QED
    BY <2>2, <2>3
<1>7. CASE LowPriorityQueue
  <2>1. Running("queues") /\ again \subseteq again'
    BY <1>7 DEF LowPriorityQueue
  <2>2. CASE todo' = todo
    BY <2>1, <2>2 DEF QueueDue
  <2>3. CASE todo' # todo
    <3>1. todo' = Rest
      BY <1>7, <2>3 DEF LowPriorityQueue, Return
    <3>2. QueueDue(todo, again, e) => QueueDue(todo', again', e) \/ e = This.dir
      BY <1>0, <2>1, <3>1, ReturnDue
    <3>3. This.dir \in waiting' \/ Working(ops', This.dir) \/ This.dir \in again'
      <4> DEFINE d == This.dir
                 f == Head(low[d])
                 busy == {k \in Low : InProgress(d, k)}
                 wanted == {k \in Low \ busy : IsNeedy(f, k)}
                 empty == IF f \in Folders THEN {} ELSE wanted \cap {"deep"}
      <4>1. /\ busy \cup wanted # {} /\ StartJobs(d, f, wanted \ empty)
            /\ again' = IF empty = {} THEN again ELSE again \cup {d}
        BY <1>7, <2>3 DEF LowPriorityQueue
      <4>2. wanted \in SUBSET Kinds /\ wanted \ empty \in SUBSET Kinds /\ busy \subseteq Kinds
        BY DEF Low, Kinds
      <4>3. busy # {} => Working(ops, d)
        BY <4>2, InProgressWork
      <4>4. ops \subseteq ops'
        BY <4>1 DEF StartJobs
      <4>5. d \in waiting' \/ wanted \ empty = {} \/ Working(ops', d)
        BY <4>1, <4>2, StartedWork
      <4> HIDE DEF d, busy, wanted, empty
      <4> QED
        BY <4>1, <4>3, <4>4, <4>5 DEF Working, d
    <3> QED
      BY <3>2, <3>3 DEF QueueDue
  <2> QED
    BY <2>2, <2>3
<1>8. CASE ExtensionQueue
  <2>1. Running("queues") /\ again \subseteq again'
    BY <1>8 DEF ExtensionQueue
  <2>2. CASE todo' = todo
    BY <2>1, <2>2 DEF QueueDue
  <2>3. CASE todo' # todo
    <3>1. todo' = Rest
      BY <1>8, <2>3 DEF ExtensionQueue, Return
    <3>2. QueueDue(todo, again, e) => QueueDue(todo', again', e) \/ e = This.dir
      BY <1>0, <2>1, <3>1, ReturnDue
    <3>3. This.dir \in waiting' \/ Working(ops', This.dir) \/ This.dir \in again'
      <4> DEFINE kinds == IF InProgress(This.dir, "extension") THEN {} ELSE {"extension"}
      <4>1. StartJobs(This.dir, Head(extension[This.dir]), kinds) \/ This.dir \in again'
        BY <1>8, <2>3 DEF ExtensionQueue
      <4>2. kinds \in SUBSET Kinds /\ "extension" \in Kinds
        BY DEF Kinds
      <4>3. kinds = {} => Working(ops, This.dir)
        BY <4>2, InProgressWork
      <4>4. StartJobs(This.dir, Head(extension[This.dir]), kinds) /\ kinds = {} => ops \subseteq ops'
        BY DEF StartJobs
      <4> HIDE DEF kinds
      <4> QED
        BY <4>1, <4>2, <4>3, <4>4, StartedWork DEF Working
    <3> QED
      BY <3>2, <3>3 DEF QueueDue
  <2> QED
    BY <2>2, <2>3
<1>9. CASE QueuesEmpty
  BY <1>9, <1>0, ReturnDue DEF QueuesEmpty, Return, queues, Queued, QueueLeft, Holds
<1>10. CASE CallReadyCallbacks
  <2>1. Running("ready")
    BY <1>10 DEF CallReadyCallbacks
  <2>2. CASE More(todo', Rest, LoopCalls(This.dir))
    BY <1>10, CallReadyOn, <2>2, MoreLoop, <1>0, <2>1, TopOn DEF QueueDue
  <2>3. CASE ~More(todo', Rest, LoopCalls(This.dir))
    BY <1>10, <2>3, CallReadyOn, <1>0, <2>1, CallsDue, OtherCalls
  <2> QED
    BY <2>2, <2>3
<1>11. CASE WakeUp
  BY <1>11, WakeUpStack, <1>0, CallsDue, ReturnDue, OtherCalls DEF WakeUp
<1>12. CASE Waking
  <2>1. Running("waking") /\ again' = again /\ again \subseteq again'
    BY <1>12 DEF Waking
  <2>2. CASE todo' = Rest
    BY <1>0, <2>1, <2>2, ReturnDue, OtherCalls
  <2>3. CASE \E d \in Dirs : More(todo', todo, {<<"state changed", d>>})
    BY <2>3, <2>1 DEF More, QueueDue
  <2> QED
    BY <1>12, <2>2, <2>3, WakingStack
<1>13. CASE Told
  BY <1>13, <1>0, ReturnDue, OtherCalls DEF Told, Return
<1>14. CASE Invalidate
  BY <1>14, InvalidateOn, <1>0, CallsDue, ReturnDue, OtherCalls DEF Invalidate
<1>15. CASE Cancelled
  BY <1>15, CancelledStack, <1>0, CallsDue, ReturnDue, OtherCalls DEF Cancelled
<1>16. CASE Reload
  BY <1>16, ReloadOn, <1>0, CallsDue, ReturnDue, OtherCalls DEF Reload
<1>17. CASE Unloaded
  BY <1>17, UnloadedOn, <1>0, CallsDue, ReturnDue, OtherCalls DEF Unloaded
<1>18. CASE Reloaded
  BY <1>18, ReloadedStack, <1>0, CallsDue, ReturnDue, OtherCalls DEF Reloaded
<1>19. ASSUME NEW m \in Monitors, MonitorAdd(m) PROVE QueueDue(todo, again, e) => QueueDue(todo', again', e) \/ e \in waiting' \/ Working(ops', e) \/ ~QueueLeft(e)'
  <2>1. todo = <<>>
    BY <1>19 DEF MonitorAdd, Ask, MainLoop
  <2> QED
    BY <2>1, IdleServing, NothingOn DEF QueueDue
<1>20. ASSUME NEW m \in Monitors, MonitorRemove(m) PROVE QueueDue(todo, again, e) => QueueDue(todo', again', e) \/ e \in waiting' \/ Working(ops', e) \/ ~QueueLeft(e)'
  <2>1. todo = <<>>
    BY <1>20 DEF MonitorRemove, Ask, MainLoop
  <2> QED
    BY <2>1, IdleServing, NothingOn DEF QueueDue
<1>21. ASSUME NEW c \in Callbacks, CallWhenReady(c) PROVE QueueDue(todo, again, e) => QueueDue(todo', again', e) \/ e \in waiting' \/ Working(ops', e) \/ ~QueueLeft(e)'
  <2>1. todo = <<>>
    BY <1>21 DEF CallWhenReady, Ask, MainLoop
  <2> QED
    BY <2>1, IdleServing, NothingOn DEF QueueDue
<1>22. ASSUME NEW c \in Callbacks, CancelCallback(c) PROVE QueueDue(todo, again, e) => QueueDue(todo', again', e) \/ e \in waiting' \/ Working(ops', e) \/ ~QueueLeft(e)'
  <2>1. todo = <<>>
    BY <1>22 DEF CancelCallback, Ask, MainLoop
  <2> QED
    BY <2>1, IdleServing, NothingOn DEF QueueDue
<1>23. ASSUME NEW f \in Files, NotifyFileChanged(f) PROVE QueueDue(todo, again, e) => QueueDue(todo', again', e) \/ e \in waiting' \/ Working(ops', e) \/ ~QueueLeft(e)'
  <2>1. todo = <<>>
    BY <1>23 DEF NotifyFileChanged, Ask, MainLoop
  <2> QED
    BY <2>1, IdleServing, NothingOn DEF QueueDue
<1>24. ASSUME NEW f \in Files, NotifyFileRemoved(f) PROVE QueueDue(todo, again, e) => QueueDue(todo', again', e) \/ e \in waiting' \/ Working(ops', e) \/ ~QueueLeft(e)'
  <2>1. todo = <<>>
    BY <1>24 DEF NotifyFileRemoved, Ask, MainLoop
  <2> QED
    BY <2>1, IdleServing, NothingOn DEF QueueDue
<1>25. ASSUME NEW f \in Files, InvalidateFile(f, AllAttributes) PROVE QueueDue(todo, again, e) => QueueDue(todo', again', e) \/ e \in waiting' \/ Working(ops', e) \/ ~QueueLeft(e)'
  <2>1. todo = <<>>
    BY <1>25 DEF InvalidateFile, Ask, MainLoop
  <2> QED
    BY <2>1, IdleServing, NothingOn DEF QueueDue
<1>26. ASSUME NEW d \in Dirs, ForceReload(d) PROVE QueueDue(todo, again, e) => QueueDue(todo', again', e) \/ e \in waiting' \/ Working(ops', e) \/ ~QueueLeft(e)'
  <2>1. todo = <<>>
    BY <1>26 DEF ForceReload, Ask, MainLoop
  <2> QED
    BY <2>1, IdleServing, NothingOn DEF QueueDue
<1>27. ASSUME NEW d \in Dirs, NEW k \in Kinds, Answer(d, k) PROVE QueueDue(todo, again, e) => QueueDue(todo', again', e) \/ e \in waiting' \/ Working(ops', e) \/ ~QueueLeft(e)'
  <2>1. todo = <<>>
    BY <1>27 DEF Answer, MainLoop
  <2> QED
    BY <2>1, IdleServing, NothingOn DEF QueueDue
<1>28. ASSUME NEW d \in Dirs, DirectoryLoadDone(d) PROVE QueueDue(todo, again, e) => QueueDue(todo', again', e) \/ e \in waiting' \/ Working(ops', e) \/ ~QueueLeft(e)'
  <2>1. todo = <<>>
    BY <1>28 DEF DirectoryLoadDone, MainLoop
  <2> QED
    BY <2>1, IdleServing, NothingOn DEF QueueDue
<1>29. ASSUME NEW d \in Dirs, CallReadyCallbacksAtIdle(d) PROVE QueueDue(todo, again, e) => QueueDue(todo', again', e) \/ e \in waiting' \/ Working(ops', e) \/ ~QueueLeft(e)'
  <2>1. todo = <<>>
    BY <1>29 DEF CallReadyCallbacksAtIdle, MainLoop
  <2> QED
    BY <2>1, IdleServing, NothingOn DEF QueueDue
<1>30. ASSUME NEW d \in Dirs, DirectoryReads(d) PROVE QueueDue(todo, again, e) => QueueDue(todo', again', e) \/ e \in waiting' \/ Working(ops', e) \/ ~QueueLeft(e)'
  <2>1. todo = <<>>
    BY <1>30 DEF DirectoryReads, MainLoop
  <2> QED
    BY <2>1, IdleServing, NothingOn DEF QueueDue
<1> QED
  BY StepsAre, <1>1, <1>2, <1>3, <1>4, <1>5, <1>6, <1>7, <1>8, <1>9, <1>10, <1>11, <1>12, <1>13, <1>14, <1>15, <1>16, <1>17, <1>18, <1>19, <1>20, <1>21, <1>22, <1>23, <1>24, <1>25, <1>26, <1>27, <1>28, <1>29, <1>30

\* Work left for d waits for a slot or for a fetch of d to end, or the queues will be looked at.
QueueAt(d) == QueueLeft(d) => d \in waiting \/ Working(ops, d) \/ QueueDue(todo, again, d)
Attended == \A d \in Dirs : QueueAt(d)

LEMMA AttendedKept ==
  ASSUME Typed, OpsPlaced, Stacked, Listed, Attended, Next, "Moved" \notin Changes
  PROVE  Attended'
<1>1. ASSUME NEW d \in Dirs PROVE d \in waiting => d \in waiting' \/ QueueDue(todo', again', d)
  <2>1. CASE ~Waking
    BY <2>1, WaitingStays
  <2>2. CASE Waking
    <3>1. ASSUME NEW e \in Dirs, waiting' = waiting \ {e}, More(todo', todo, {<<"state changed", e>>}) PROVE d # e \/ QueueDue(todo', again', e)
      BY <3>1, MoreOne DEF QueueDue
    <3> QED
      BY <2>2, <3>1, WakingStack
  <2> QED
    BY <2>1, <2>2
<1>2. ASSUME NEW d \in Dirs PROVE QueueAt(d)'
  BY LeftStays, WorkStays, DueStays, <1>1 DEF Attended, QueueAt
<1> QED
  BY <1>2 DEF Attended

-----------------------------------------------------------------------------
(* Directories that wait for a slot                                        *)

\* The calls that end in waking up who waits.
Waker(x) == x \in {"state changed", "ready", "wake up", "waking", "cancelled", "reload", "unloaded", "reloaded"}
Woken(s) == \E x, d : Waker(x) /\ On(s, x, d)

LEMMA Wakers ==
  /\ Waker("state changed") /\ Waker("ready") /\ Waker("wake up") /\ Waker("waking") /\ Waker("cancelled")
  /\ Waker("reload") /\ Waker("unloaded") /\ Waker("reloaded")
  /\ ~Waker("load cancel") /\ ~Waker("load ended") /\ ~Waker("told") /\ ~Waker("invalidate")
BY DEF Waker

\* While a directory waits, no slot is free, or somebody will look who waits; the main loop may
\* find one slot free, which the end of a load left.
SlotsFilled ==
  \/ waiting = {} \/ jobs >= MaxJobs \/ Woken(todo)
  \/ todo = <<>> /\ jobs >= MaxJobs - 1

\* A call that wakes nobody returns, or calls others.
LEMMA ReturnWoken ==
  ASSUME StackTyped, NEW x, Running(x), ~Waker(x), todo' = Rest
  PROVE  Woken(todo) => Woken(todo')
<1>1. \A y, e : On(todo, y, e) <=> (y = x /\ e = This.dir) \/ On(Rest, y, e)
  BY TopOn
<1> QED
  BY <1>1 DEF Woken

LEMMA CallsWoken ==
  ASSUME StackTyped, NEW x, Running(x), ~Waker(x), NEW C, More(todo', Rest, C)
  PROVE  Woken(todo) => Woken(todo')
<1>1. \A y, e : On(todo, y, e) <=> (y = x /\ e = This.dir) \/ On(Rest, y, e)
  BY TopOn
<1>2. \A y, e : On(Rest, y, e) => On(todo', y, e)
  BY DEF More
<1> QED
  BY <1>1, <1>2 DEF Woken

\* A call puts one that wakes on the stack.
LEMMA MoreWoken ==
  \A t, r, C, x, d : More(t, r, C) /\ <<x, d>> \in C /\ Waker(x) => Woken(t)
BY DEF More, Woken

LEMMA OnWoken ==
  \A t, x, d : Waker(x) /\ On(t, x, d) => Woken(t)
BY DEF Woken

\* Below the parts of a service loop is the one that wakes up.
LEMMA LoopWoken ==
  ASSUME StackTyped, Stacked, NEW x \in {"file list", "stop", "queues"}, Running(x)
  PROVE  On(Rest, "ready", This.dir) /\ On(todo, "ready", This.dir)
<1>1. \A y, e : On(todo, y, e) <=> (y = x /\ e = This.dir) \/ On(Rest, y, e)
  BY TopOn
<1>2. This.dir \in Dirs /\ On(todo, x, This.dir)
  BY <1>1, TopIs
<1>3. Looping(todo, inLoop, This.dir)
  BY <1>2 DEF Stacked, Serving
<1>4. On(todo, "ready", This.dir)
  BY <1>2, <1>3 DEF Looping
<1>5. "ready" # x
  OBVIOUS
<1> QED
  BY <1>1, <1>4, <1>5

\* What the main loop begins, and most calls, will wake up who waits.
LEMMA SlotsFilledKept ==
  ASSUME Typed, Stacked, Listed, Counted, SlotsFilled, Next, "Moved" \notin Changes
  PROVE  SlotsFilled'
<1>0. StackTyped /\ Lawful(todo) /\ Serving(todo, inLoop, waking)
  BY DEF Typed, Stacked
<1>a. ASSUME Woken(todo') PROVE SlotsFilled'
  BY <1>a DEF SlotsFilled
<1>b. ASSUME todo # <<>>, waiting' = waiting, jobs' = jobs, Woken(todo) => Woken(todo') PROVE SlotsFilled'
  BY <1>b DEF SlotsFilled
<1>1. CASE StateChanged
  <2>1. Running("state changed")
    BY <1>1 DEF StateChanged
  <2>2. CASE This.dir \in inLoop
    <3>1. todo' = Rest /\ This.dir \in Dirs
      BY <1>1, <2>2, StateChangedOn
    <3>2. On(todo, "ready", This.dir)
      BY <1>0, <2>2, <3>1 DEF Serving, Looping
    <3>3. \A y, d : On(todo, y, d) <=> (y = "state changed" /\ d = This.dir) \/ On(Rest, y, d)
      BY <1>0, <2>1, TopOn
    <3>4. On(Rest, "ready", This.dir)
      BY <3>2, <3>3
    <3> QED
      BY <1>a, <3>1, <3>4, OnWoken, Wakers
  <2>3. CASE This.dir \notin inLoop
    BY <1>1, <2>3, StateChangedOn, <1>a, MoreWoken, Wakers DEF LoopCalls
  <2> QED
    BY <2>2, <2>3
<1>2. CASE FileListStartOrStop
  <2>1. Running("file list")
    BY <1>2 DEF FileListStartOrStop
  <2>2. This.dir \in Dirs /\ On(todo, "file list", This.dir)
    BY <1>0, <2>1, TopIs, TopOn
  <2>3. ~(This.dir \notin monitored /\ InProgress(This.dir, "list"))
    BY <2>2 DEF Listed, ListAt
  <2>4. todo' = Rest \/ More(todo', Rest, {<<"load cancel", This.dir>>})
    BY <1>2, <2>3, FileListOn
  <2>5. On(Rest, "ready", This.dir)
    BY <1>0, <2>1, LoopWoken
  <2>6. On(todo', "ready", This.dir)
    BY <2>4, <2>5 DEF More
  <2> QED
    BY <1>a, <2>6, OnWoken, Wakers
<1>3. CASE LoadCancel
  BY <1>3, LoadCancelOn, <1>0, ReturnWoken, CallsWoken, Wakers, <1>b DEF LoadCancel, jobVars, Running
<1>4. CASE LoadEnded
  <2>1. Running("load ended") /\ todo # <<>> /\ waiting' = waiting /\ jobs' = jobs - 1 /\ todo' = Rest
    BY <1>4 DEF LoadEnded, Return, Running
  <2>2. Woken(todo) => Woken(todo')
    BY <1>0, <2>1, ReturnWoken, Wakers
  <2>3. Rest = <<>> \/ \E d \in Dirs : On(Rest, "ready", d) \/ On(Rest, "unloaded", d)
    BY <1>0, <2>1, TopOn, TopIs DEF Legal, Loads
  <2>4. Rest = <<>> \/ Woken(todo')
    BY <2>1, <2>3, OnWoken, Wakers
  <2>5. jobs \in Nat /\ MaxJobs \in Nat
    BY FS_CardinalityType, JobsAssumption DEF Counted
  <2>6. jobs >= MaxJobs => jobs' >= MaxJobs - 1
    <3>1. jobs' = jobs - 1
      BY <2>1
    <3> QED
      BY <2>5, <3>1
  <2> QED
    BY <1>a, <2>1, <2>2, <2>4, <2>6 DEF SlotsFilled
<1>5. CASE Stop
  BY <1>5, <1>0, LoopWoken, <1>a, OnWoken, Wakers DEF Stop, Return
<1>6. CASE HighPriorityQueue
  BY <1>6, <1>0, LoopWoken, <1>a, OnWoken, Wakers DEF HighPriorityQueue, Return
<1>7. CASE LowPriorityQueue
  BY <1>7, <1>0, LoopWoken, <1>a, OnWoken, Wakers DEF LowPriorityQueue, Return
<1>8. CASE ExtensionQueue
  BY <1>8, <1>0, LoopWoken, <1>a, OnWoken, Wakers DEF ExtensionQueue, Return
<1>9. CASE QueuesEmpty
  BY <1>9, <1>0, LoopWoken, <1>a, OnWoken, Wakers DEF QueuesEmpty, Return
<1>10. CASE CallReadyCallbacks
  BY <1>10, CallReadyOn, <1>a, MoreWoken, Wakers DEF LoopCalls
<1>11. CASE WakeUp
  <2>1. Running("wake up")
    BY <1>11 DEF WakeUp
  <2>2. CASE waking /\ todo' = Rest
    <3>1. PICK d \in Dirs : On(todo, "waking", d)
      BY <1>0, <2>2 DEF Serving
    <3>2. \A y, e : On(todo, y, e) <=> (y = "wake up" /\ e = This.dir) \/ On(Rest, y, e)
      BY <1>0, <2>1, TopOn
    <3>3. On(Rest, "waking", d)
      BY <3>1, <3>2
    <3> QED
      BY <1>a, <2>2, <3>3, OnWoken, Wakers
  <2>3. CASE More(todo', Rest, {<<"waking", This.dir>>})
    BY <1>a, <2>3, MoreWoken, Wakers
  <2> QED
    BY <1>11, <2>2, <2>3, WakeUpStack
<1>12. CASE Waking
  <2>1. jobs' = jobs
    BY <1>12 DEF Waking
  <2>2. CASE \E d \in Dirs : More(todo', todo, {<<"state changed", d>>})
    <3>1. PICK d \in Dirs : More(todo', todo, {<<"state changed", d>>})
      BY <2>2
    <3>2. <<"state changed", d>> \in {<<"state changed", d>>}
      OBVIOUS
    <3> QED
      BY <1>a, <3>1, <3>2, MoreWoken, Wakers
  <2>3. CASE (jobs >= MaxJobs \/ waiting = {}) /\ waiting' = waiting
    BY <2>1, <2>3 DEF SlotsFilled
  <2> QED
    BY <1>12, <2>2, <2>3, WakingStack
<1>13. CASE Told
  BY <1>13, <1>0, ReturnWoken, Wakers, <1>b DEF Told, Return, jobVars, Running
<1>14. CASE Invalidate
  <2>1. CASE This.file = NoFile
    BY <1>14, <2>1, <1>0, ReturnWoken, Wakers, <1>b DEF Invalidate, Return, jobVars, Running
  <2>2. CASE This.file # NoFile
    <3> DEFINE C == {<<"state changed", directory[This.file]>>, <<"cancelled", directory[This.file]>>}
    <3>1. <<"state changed", directory[This.file]>> \in C
      OBVIOUS
    <3>2. More(todo', Rest, C)
      BY <1>14, <2>2, InvalidateOn
    <3> HIDE DEF C
    <3> QED
      BY <1>a, <3>1, <3>2, MoreWoken, Wakers
  <2> QED
    BY <2>1, <2>2
<1>15. CASE Cancelled
  BY <1>15, CancelledStack, <1>a, MoreWoken, Wakers
<1>16. CASE Reload
  <2> DEFINE C == {<<"load cancel", This.dir>>, <<"unloaded", This.dir>>}
  <2>1. <<"unloaded", This.dir>> \in C
    OBVIOUS
  <2>2. More(todo', Rest, C)
    BY <1>16, ReloadOn
  <2> HIDE DEF C
  <2> QED
    BY <1>a, <2>1, <2>2, MoreWoken, Wakers
<1>17. CASE Unloaded
  <2> DEFINE C == {<<"invalidate", This.dir>>, <<"reloaded", This.dir>>}
  <2>1. <<"reloaded", This.dir>> \in C
    OBVIOUS
  <2>2. More(todo', Rest, C)
    BY <1>17, UnloadedOn
  <2> HIDE DEF C
  <2> QED
    BY <1>a, <2>1, <2>2, MoreWoken, Wakers
<1>18. CASE Reloaded
  BY <1>18, ReloadedStack, <1>a, MoreWoken, Wakers
<1>19. ASSUME NEW m \in Monitors, MonitorAdd(m) PROVE SlotsFilled'
  <2> DEFINE C == {<<"state changed", Place(m)>>}
  <2>1. <<"state changed", Place(m)>> \in C
    OBVIOUS
  <2>2. More(todo', <<>>, C)
    BY <1>19, AskedStack
  <2> HIDE DEF C
  <2> QED
    BY <1>a, <2>1, <2>2, MoreWoken, Wakers
<1>20. ASSUME NEW m \in Monitors, MonitorRemove(m) PROVE SlotsFilled'
  <2> DEFINE C == {<<"state changed", Place(m)>>}
  <2>1. <<"state changed", Place(m)>> \in C
    OBVIOUS
  <2>2. More(todo', <<>>, C)
    BY <1>20, AskedStack
  <2> HIDE DEF C
  <2> QED
    BY <1>a, <2>1, <2>2, MoreWoken, Wakers
<1>21. ASSUME NEW c \in Callbacks, CallWhenReady(c) PROVE SlotsFilled'
  <2> DEFINE C == {<<"state changed", Place(c)>>}
  <2>1. <<"state changed", Place(c)>> \in C
    OBVIOUS
  <2>2. More(todo', <<>>, C)
    BY <1>21, AskedStack
  <2> HIDE DEF C
  <2> QED
    BY <1>a, <2>1, <2>2, MoreWoken, Wakers
<1>22. ASSUME NEW c \in Callbacks, CancelCallback(c) PROVE SlotsFilled'
  <2> DEFINE C == {<<"state changed", Place(c)>>}
  <2>1. <<"state changed", Place(c)>> \in C
    OBVIOUS
  <2>2. More(todo', <<>>, C)
    BY <1>22, AskedStack
  <2> HIDE DEF C
  <2> QED
    BY <1>a, <2>1, <2>2, MoreWoken, Wakers
<1>23. ASSUME NEW f \in Files, NotifyFileChanged(f) PROVE SlotsFilled'
  <2> DEFINE C == {<<"state changed", directory[f]>>}
  <2>1. <<"state changed", directory[f]>> \in C
    OBVIOUS
  <2>2. More(todo', <<>>, C)
    BY <1>23, AskedStack
  <2> HIDE DEF C
  <2> QED
    BY <1>a, <2>1, <2>2, MoreWoken, Wakers
<1>24. ASSUME NEW f \in Files, NotifyFileRemoved(f) PROVE SlotsFilled'
  <2> DEFINE C == {<<"state changed", directory[f]>>, <<"invalidate", directory[f]>>}
  <2>1. <<"state changed", directory[f]>> \in C
    OBVIOUS
  <2>2. More(todo', <<>>, C)
    BY <1>24, NotifyFileRemovedOn
  <2> HIDE DEF C
  <2> QED
    BY <1>a, <2>1, <2>2, MoreWoken, Wakers
<1>25. ASSUME NEW f \in Files, InvalidateFile(f, AllAttributes) PROVE SlotsFilled'
  <2> DEFINE C == {<<"state changed", directory[f]>>, <<"cancelled", directory[f]>>}
  <2>1. <<"state changed", directory[f]>> \in C
    OBVIOUS
  <2>2. More(todo', <<>>, C)
    BY <1>25, InvalidateFileOn
  <2> HIDE DEF C
  <2> QED
    BY <1>a, <2>1, <2>2, MoreWoken, Wakers
<1>26. ASSUME NEW d \in Dirs, ForceReload(d) PROVE SlotsFilled'
  <2> DEFINE C == {<<"state changed", d>>, <<"reload", d>>}
  <2>1. <<"state changed", d>> \in C
    OBVIOUS
  <2>2. More(todo', <<>>, C)
    BY <1>26, ForceReloadOn
  <2> HIDE DEF C
  <2> QED
    BY <1>a, <2>1, <2>2, MoreWoken, Wakers
<1>27. ASSUME NEW d \in Dirs, NEW k \in Kinds, Answer(d, k) PROVE SlotsFilled'
  <2> DEFINE C == {<<"state changed", d>>}
  <2>1. <<"state changed", d>> \in C
    OBVIOUS
  <2>2. More(todo', <<>>, C)
    BY <1>27, AskedStack
  <2> HIDE DEF C
  <2> QED
    BY <1>a, <2>1, <2>2, MoreWoken, Wakers
<1>28. ASSUME NEW d \in Dirs, DirectoryLoadDone(d) PROVE SlotsFilled'
  <2> DEFINE C == {<<"state changed", d>>, <<"told", d>>, <<"load cancel", d>>}
  <2>1. <<"state changed", d>> \in C
    OBVIOUS
  <2>2. todo' = AfterLoad(d)
    BY <1>28 DEF DirectoryLoadDone
  <2>3. More(todo', <<>>, C)
    BY <2>2, AfterLoadOn
  <2> HIDE DEF C
  <2> QED
    BY <1>a, <2>1, <2>3, MoreWoken, Wakers
<1>29. ASSUME NEW d \in Dirs, CallReadyCallbacksAtIdle(d) PROVE SlotsFilled'
  <2> DEFINE C == {<<"state changed", d>>}
  <2>1. <<"state changed", d>> \in C
    OBVIOUS
  <2>2. More(todo', <<>>, C)
    BY <1>29, AskedStack
  <2> HIDE DEF C
  <2> QED
    BY <1>a, <2>1, <2>2, MoreWoken, Wakers
<1>30. ASSUME NEW d \in Dirs, DirectoryReads(d) PROVE SlotsFilled'
  <2> DEFINE C == {<<"state changed", d>>}
  <2>1. <<"state changed", d>> \in C
    OBVIOUS
  <2>2. More(todo', <<>>, C)
    BY <1>30, AskedStack
  <2> HIDE DEF C
  <2> QED
    BY <1>a, <2>1, <2>2, MoreWoken, Wakers
<1> QED
  BY StepsAre, <1>1, <1>2, <1>3, <1>4, <1>5, <1>6, <1>7, <1>8, <1>9, <1>10, <1>11, <1>12, <1>13, <1>14, <1>15, <1>16, <1>17, <1>18, <1>19, <1>20, <1>21, <1>22, <1>23, <1>24, <1>25, <1>26, <1>27, <1>28, <1>29, <1>30

-----------------------------------------------------------------------------
(* What stays on the stack                                                 *)

\* Only the next call leaves the stack.
StackStays ==
  /\ \A y, e : On(todo, y, e) => On(todo', y, e) \/ (y = This.do /\ e = This.dir)
  /\ \A f : Requeued(todo, f) => Requeued(todo', f) \/ (This.do = "cancelled" /\ f = This.file)

LEMMA ReturnStays ==
  ASSUME StackTyped, NEW x, Running(x), todo' = Rest
  PROVE  StackStays
<1>1. /\ \A y, e : On(todo, y, e) <=> (y = x /\ e = This.dir) \/ On(Rest, y, e)
      /\ \A f : Requeued(todo, f) <=> (x = "cancelled" /\ f = This.file) \/ Requeued(Rest, f)
      /\ This.do = x
  BY TopOn, TopIs
<1> QED
  BY <1>1 DEF StackStays

LEMMA CallsStay ==
  ASSUME StackTyped, NEW x, Running(x), NEW C, More(todo', Rest, C),
         \A f : Requeued(Rest, f) => Requeued(todo', f)
  PROVE  StackStays
<1>1. /\ \A y, e : On(todo, y, e) <=> (y = x /\ e = This.dir) \/ On(Rest, y, e)
      /\ \A f : Requeued(todo, f) <=> (x = "cancelled" /\ f = This.file) \/ Requeued(Rest, f)
      /\ This.do = x
  BY TopOn, TopIs
<1>2. \A y, e : On(Rest, y, e) => On(todo', y, e)
  BY DEF More
<1> QED
  BY <1>1, <1>2 DEF StackStays

LEMMA NothingStays ==
  ASSUME todo = <<>>
  PROVE  StackStays
BY NothingOn DEF StackStays

LEMMA SameStays ==
  ASSUME todo' = todo
  PROVE  StackStays
BY DEF StackStays

LEMMA StackStaysNext ==
  ASSUME Typed, Listed, Next, "Moved" \notin Changes
  PROVE  StackStays
<1>0. StackTyped
  BY DEF Typed
<1>1. CASE StateChanged
  BY <1>1, StateChangedOn, <1>0, CallsStay, ReturnStays DEF StateChanged, Plainly
<1>2. CASE FileListStartOrStop
  BY <1>2, <1>0, TopIs, TopOn, FileListOn, CallsStay, ReturnStays DEF FileListStartOrStop, Listed, ListAt
<1>3. CASE LoadCancel
  BY <1>3, LoadCancelOn, <1>0, CallsStay, ReturnStays DEF LoadCancel, Plainly
<1>4. CASE LoadEnded
  BY <1>4, <1>0, ReturnStays, SameStays DEF LoadEnded, Return
<1>5. CASE Stop
  BY <1>5, <1>0, ReturnStays, SameStays DEF Stop, Return
<1>6. CASE HighPriorityQueue
  BY <1>6, <1>0, ReturnStays, SameStays DEF HighPriorityQueue, Return
<1>7. CASE LowPriorityQueue
  BY <1>7, <1>0, ReturnStays, SameStays DEF LowPriorityQueue, Return
<1>8. CASE ExtensionQueue
  BY <1>8, <1>0, ReturnStays, SameStays DEF ExtensionQueue, Return
<1>9. CASE QueuesEmpty
  BY <1>9, <1>0, ReturnStays, SameStays DEF QueuesEmpty, Return
<1>10. CASE CallReadyCallbacks
  BY <1>10, CallReadyOn, <1>0, CallsStay, ReturnStays DEF CallReadyCallbacks, Plainly
<1>11. CASE WakeUp
  BY <1>11, WakeUpStack, <1>0, CallsStay, ReturnStays DEF WakeUp, Plainly
<1>12. CASE Waking
  BY <1>12, <1>0, ReturnStays, WakingStack DEF Waking, StackStays, More, Plainly
<1>13. CASE Told
  BY <1>13, <1>0, ReturnStays, SameStays DEF Told, Return
<1>14. CASE Invalidate
  BY <1>14, InvalidateOn, <1>0, CallsStay, ReturnStays DEF Invalidate, Plainly
<1>15. CASE Cancelled
  BY <1>15, CancelledStack, <1>0, CallsStay, ReturnStays DEF Cancelled, Plainly
<1>16. CASE Reload
  BY <1>16, ReloadOn, <1>0, CallsStay, ReturnStays DEF Reload, Plainly
<1>17. CASE Unloaded
  BY <1>17, UnloadedOn, <1>0, CallsStay, ReturnStays DEF Unloaded, Plainly
<1>18. CASE Reloaded
  BY <1>18, ReloadedStack, <1>0, CallsStay, ReturnStays DEF Reloaded, Plainly
<1>19. ASSUME NEW m \in Monitors, MonitorAdd(m) PROVE StackStays
  <2>1. todo = <<>>
    BY <1>19 DEF MonitorAdd, Ask, MainLoop
  <2> QED
    BY <2>1, NothingStays
<1>20. ASSUME NEW m \in Monitors, MonitorRemove(m) PROVE StackStays
  <2>1. todo = <<>>
    BY <1>20 DEF MonitorRemove, Ask, MainLoop
  <2> QED
    BY <2>1, NothingStays
<1>21. ASSUME NEW c \in Callbacks, CallWhenReady(c) PROVE StackStays
  <2>1. todo = <<>>
    BY <1>21 DEF CallWhenReady, Ask, MainLoop
  <2> QED
    BY <2>1, NothingStays
<1>22. ASSUME NEW c \in Callbacks, CancelCallback(c) PROVE StackStays
  <2>1. todo = <<>>
    BY <1>22 DEF CancelCallback, Ask, MainLoop
  <2> QED
    BY <2>1, NothingStays
<1>23. ASSUME NEW f \in Files, NotifyFileChanged(f) PROVE StackStays
  <2>1. todo = <<>>
    BY <1>23 DEF NotifyFileChanged, Ask, MainLoop
  <2> QED
    BY <2>1, NothingStays
<1>24. ASSUME NEW f \in Files, NotifyFileRemoved(f) PROVE StackStays
  <2>1. todo = <<>>
    BY <1>24 DEF NotifyFileRemoved, Ask, MainLoop
  <2> QED
    BY <2>1, NothingStays
<1>25. ASSUME NEW f \in Files, InvalidateFile(f, AllAttributes) PROVE StackStays
  <2>1. todo = <<>>
    BY <1>25 DEF InvalidateFile, Ask, MainLoop
  <2> QED
    BY <2>1, NothingStays
<1>26. ASSUME NEW d \in Dirs, ForceReload(d) PROVE StackStays
  <2>1. todo = <<>>
    BY <1>26 DEF ForceReload, Ask, MainLoop
  <2> QED
    BY <2>1, NothingStays
<1>27. ASSUME NEW d \in Dirs, NEW k \in Kinds, Answer(d, k) PROVE StackStays
  <2>1. todo = <<>>
    BY <1>27 DEF Answer, MainLoop
  <2> QED
    BY <2>1, NothingStays
<1>28. ASSUME NEW d \in Dirs, DirectoryLoadDone(d) PROVE StackStays
  <2>1. todo = <<>>
    BY <1>28 DEF DirectoryLoadDone, MainLoop
  <2> QED
    BY <2>1, NothingStays
<1>29. ASSUME NEW d \in Dirs, CallReadyCallbacksAtIdle(d) PROVE StackStays
  <2>1. todo = <<>>
    BY <1>29 DEF CallReadyCallbacksAtIdle, MainLoop
  <2> QED
    BY <2>1, NothingStays
<1>30. ASSUME NEW d \in Dirs, DirectoryReads(d) PROVE StackStays
  <2>1. todo = <<>>
    BY <1>30 DEF DirectoryReads, MainLoop
  <2> QED
    BY <2>1, NothingStays
<1> QED
  BY StepsAre, <1>1, <1>2, <1>3, <1>4, <1>5, <1>6, <1>7, <1>8, <1>9, <1>10, <1>11, <1>12, <1>13, <1>14, <1>15, <1>16, <1>17, <1>18, <1>19, <1>20, <1>21, <1>22, <1>23, <1>24, <1>25, <1>26, <1>27, <1>28, <1>29, <1>30

-----------------------------------------------------------------------------
(* What is fetched and who wants it                                        *)

\* The service loop of d will look whether what it fetches is wanted.
StopOn(s, L, d) == On(s, "state changed", d) \/ On(s, "file list", d) \/ On(s, "stop", d) \/ d \in L
\* Or the end of the load of a folder of d will have it do so.
LoadLeft(d) ==
  \E e \in Dirs, g \in Files : e # d /\ LoadFor(e, g) /\ On(todo, "load cancel", e) /\ directory[g] = d

\* What is not known of a file becomes known only where this is looked at.
LEMMA LacksStays ==
  ASSUME Typed, OpsPlaced, QueuesPlaced, Next, "Moved" \notin Changes, NEW f0 \in Files, NEW k0 \in Kinds
  PROVE  Lacks(f0, k0) => Lacks(f0, k0)' \/ StopOn(todo', again', directory[f0]) \/ LoadLeft(directory[f0])'
<1>0. /\ directory' = directory /\ directory[f0] \in Dirs
      /\ \A x, d : On(todo', x, d) /\ x = "state changed" => StopOn(todo', again', d)
  BY DirectoryKept, DirectoryTyped DEF StopOn
<1>1. CASE StateChanged
  BY <1>1 DEF StateChanged, files, Lacks
<1>2. CASE FileListStartOrStop
  BY <1>2 DEF FileListStartOrStop, Lacks
<1>3. CASE LoadCancel
  BY <1>3 DEF LoadCancel, Lacks
<1>4. CASE LoadEnded
  BY <1>4 DEF LoadEnded, files, Lacks
<1>5. CASE Stop
  BY <1>5 DEF Stop, files, Lacks
<1>6. CASE HighPriorityQueue
  BY <1>6 DEF HighPriorityQueue, files, Lacks
<1>7. CASE LowPriorityQueue
  <2> DEFINE d == This.dir
             f == Head(low[d])
             wanted == {k \in Low \ {j \in Low : InProgress(d, j)} : IsNeedy(f, k)}
             empty == IF f \in Folders THEN {} ELSE wanted \cap {"deep"}
  <2>1. /\ Running("queues") /\ gone' = gone
        /\ \/ upToDate' = upToDate
           \/ upToDate' = [upToDate EXCEPT ![f] = @ \cup empty] /\ again' = IF empty = {} THEN again ELSE again \cup {d}
    BY <1>7 DEF LowPriorityQueue
  <2>2. d \in Dirs /\ f \in Files /\ directory[f] = d
    BY <1>7, <2>1, TopIs, HeadHeld DEF LowPriorityQueue, Typed, QueuesTyped, QueuesPlaced
  <2>3. upToDate \in [Files -> SUBSET Kinds]
    BY DEF Typed, FilesTyped
  <2> HIDE DEF d, f, wanted, empty
  <2>4. upToDate'[f0] = upToDate[f0] \/ (f0 = f /\ d \in again')
    BY <2>1, <2>2, <2>3
  <2> QED
    BY <2>1, <2>2, <2>4 DEF Lacks, StopOn
<1>8. CASE ExtensionQueue
  <2> DEFINE d == This.dir
             f == Head(extension[d])
  <2>1. /\ Running("queues") /\ gone' = gone
        /\ \/ upToDate' = upToDate
           \/ upToDate' = [upToDate EXCEPT ![f] = @ \cup {"extension"}] /\ again' = again \cup {d}
    BY <1>8 DEF ExtensionQueue
  <2>2. d \in Dirs /\ f \in Files /\ directory[f] = d
    BY <1>8, <2>1, TopIs, HeadHeld DEF ExtensionQueue, Typed, QueuesTyped, QueuesPlaced
  <2>3. upToDate \in [Files -> SUBSET Kinds]
    BY DEF Typed, FilesTyped
  <2> HIDE DEF d, f
  <2>4. upToDate'[f0] = upToDate[f0] \/ (f0 = f /\ d \in again')
    BY <2>1, <2>2, <2>3
  <2> QED
    BY <2>1, <2>2, <2>4 DEF Lacks, StopOn
<1>9. CASE QueuesEmpty
  BY <1>9 DEF QueuesEmpty, files, Lacks
<1>10. CASE CallReadyCallbacks
  BY <1>10 DEF CallReadyCallbacks, files, Lacks
<1>11. CASE WakeUp
  BY <1>11 DEF WakeUp, files, Lacks
<1>12. CASE Waking
  BY <1>12 DEF Waking, files, Lacks
<1>13. CASE Told
  BY <1>13 DEF Told, files, Lacks
<1>14. CASE Invalidate
  BY <1>14 DEF Invalidate, files, Lacks
<1>15. CASE Cancelled
  BY <1>15 DEF Cancelled, Invalidated, Typed, FilesTyped, Lacks
<1>16. CASE Reload
  BY <1>16 DEF Reload, Invalidated, Typed, FilesTyped, Lacks
<1>17. CASE Unloaded
  BY <1>17 DEF Unloaded, files, Lacks
<1>18. CASE Reloaded
  BY <1>18 DEF Reloaded, files, Lacks
<1>19. ASSUME NEW m \in Monitors, MonitorAdd(m) PROVE Lacks(f0, k0) => Lacks(f0, k0)' \/ StopOn(todo', again', directory[f0]) \/ LoadLeft(directory[f0])'
  BY <1>19 DEF MonitorAdd, files, Lacks
<1>20. ASSUME NEW m \in Monitors, MonitorRemove(m) PROVE Lacks(f0, k0) => Lacks(f0, k0)' \/ StopOn(todo', again', directory[f0]) \/ LoadLeft(directory[f0])'
  BY <1>20 DEF MonitorRemove, files, Lacks
<1>21. ASSUME NEW c \in Callbacks, CallWhenReady(c) PROVE Lacks(f0, k0) => Lacks(f0, k0)' \/ StopOn(todo', again', directory[f0]) \/ LoadLeft(directory[f0])'
  BY <1>21 DEF CallWhenReady, files, Lacks
<1>22. ASSUME NEW c \in Callbacks, CancelCallback(c) PROVE Lacks(f0, k0) => Lacks(f0, k0)' \/ StopOn(todo', again', directory[f0]) \/ LoadLeft(directory[f0])'
  BY <1>22 DEF CancelCallback, files, Lacks
<1>23. ASSUME NEW f \in Files, NotifyFileChanged(f) PROVE Lacks(f0, k0) => Lacks(f0, k0)' \/ StopOn(todo', again', directory[f0]) \/ LoadLeft(directory[f0])'
  BY <1>23 DEF NotifyFileChanged, Invalidated, Typed, FilesTyped, Lacks
<1>24. ASSUME NEW f \in Files, NotifyFileRemoved(f) PROVE Lacks(f0, k0) => Lacks(f0, k0)' \/ StopOn(todo', again', directory[f0]) \/ LoadLeft(directory[f0])'
  <2>1. gone' = gone \cup {f} /\ upToDate' = upToDate
    BY <1>24 DEF NotifyFileRemoved
  <2>2. On(todo', "state changed", directory[f])
    BY <1>24, NotifyFileRemovedOn, MoreTwo
  <2>3. CASE f0 = f
    BY <1>0, <2>2, <2>3
  <2>4. CASE f0 # f
    BY <2>1, <2>4 DEF Lacks
  <2> QED
    BY <2>3, <2>4
<1>25. ASSUME NEW f \in Files, InvalidateFile(f, AllAttributes) PROVE Lacks(f0, k0) => Lacks(f0, k0)' \/ StopOn(todo', again', directory[f0]) \/ LoadLeft(directory[f0])'
  BY <1>25 DEF InvalidateFile, files, Lacks
<1>26. ASSUME NEW d \in Dirs, ForceReload(d) PROVE Lacks(f0, k0) => Lacks(f0, k0)' \/ StopOn(todo', again', directory[f0]) \/ LoadLeft(directory[f0])'
  BY <1>26 DEF ForceReload, files, Lacks
<1>27. ASSUME NEW d \in Dirs, NEW k \in Kinds, Answer(d, k) PROVE Lacks(f0, k0) => Lacks(f0, k0)' \/ StopOn(todo', again', directory[f0]) \/ LoadLeft(directory[f0])'
  <2>1. PICK o \in ops :
          /\ o.dir = d /\ o.kind # "list"
          /\ upToDate' = IF o.live THEN [upToDate EXCEPT ![o.file] = @ \cup {k}] ELSE upToDate
          /\ gone' = gone \/ gone' = gone \cup {o.file}
    BY <1>27 DEF Answer, MarkGone
  <2>2. directory[o.file] = d /\ upToDate \in [Files -> SUBSET Kinds]
    BY <2>1 DEF OpsPlaced, Typed, FilesTyped
  <2>3. On(todo', "state changed", d)
    BY <1>27, AskedStack, MoreOne
  <2>4. CASE f0 = o.file
    BY <1>0, <2>2, <2>3, <2>4
  <2>5. CASE f0 # o.file
    BY <2>1, <2>2, <2>5 DEF Lacks
  <2> QED
    BY <2>4, <2>5
<1>28. ASSUME NEW d \in Dirs, DirectoryLoadDone(d) PROVE Lacks(f0, k0) => Lacks(f0, k0)' \/ StopOn(todo', again', directory[f0]) \/ LoadLeft(directory[f0])'
  <2>0. PICK missing \in SUBSET FileList(d) :
          /\ MarkGone(d, missing)
          /\ \E o \in ops, read \in SUBSET (FileList(d) \ missing) :
               /\ o.dir = d /\ o.kind = "list"
               /\ upToDate' = [f \in Files |-> upToDate[f] \cup (IF f \in read THEN {"info"} ELSE {})
                                                           \cup (IF f = o.file THEN {"count"} ELSE {})]
               /\ stale' = IF o.fresh THEN stale \ {<<o.file, "list">>} ELSE stale \cup {<<o.file, "list">>}
    BY <1>28 DEF DirectoryLoadDone
  <2>1. PICK o \in ops, read \in SUBSET FileList(d) :
          /\ o.dir = d /\ o.kind = "list"
          /\ upToDate' = [f \in Files |-> upToDate[f] \cup (IF f \in read THEN {"info"} ELSE {})
                                                     \cup (IF f = o.file THEN {"count"} ELSE {})]
    BY <2>0
  <2>2. \A y, e : On(todo', y, e) <=> \/ (y = "state changed" /\ e = d) \/ (y = "told" /\ e = d)
                                     \/ (y = "load cancel" /\ e = d) \/ On(<<>>, y, e)
    BY <1>28, AfterLoadOn DEF DirectoryLoadDone, More
  <2>3. \A f \in FileList(d) : directory[f] = d
    BY DEF FileList
  <2>4. ops' = ops
    BY <1>28 DEF DirectoryLoadDone, jobVars
  <2>5. CASE f0 \in FileList(d)
    BY <1>0, <2>2, <2>3, <2>5
  <2>6. CASE f0 = o.file
    <3>1. CASE directory[f0] = d
      BY <1>0, <2>2, <3>1
    <3>2. CASE directory[f0] # d
      BY <2>1, <2>2, <2>4, <2>6, <1>0, <3>2 DEF LoadFor, LoadLeft
    <3> QED
      BY <3>1, <3>2
  <2>7. CASE f0 \notin FileList(d) /\ f0 # o.file
    BY <2>0, <2>1, <2>7 DEF Lacks, MarkGone
  <2> QED
    BY <2>5, <2>6, <2>7
<1>29. ASSUME NEW d \in Dirs, CallReadyCallbacksAtIdle(d) PROVE Lacks(f0, k0) => Lacks(f0, k0)' \/ StopOn(todo', again', directory[f0]) \/ LoadLeft(directory[f0])'
  BY <1>29 DEF CallReadyCallbacksAtIdle, files, Lacks
<1>30. ASSUME NEW d \in Dirs, DirectoryReads(d) PROVE Lacks(f0, k0) => Lacks(f0, k0)' \/ StopOn(todo', again', directory[f0]) \/ LoadLeft(directory[f0])'
  <2>1. PICK read \in SUBSET FileList(d) :
          upToDate' = [f \in Files |-> upToDate[f] \cup (IF f \in read THEN {"info"} ELSE {})]
    BY <1>30 DEF DirectoryReads
  <2>2. On(todo', "state changed", d) /\ gone' = gone
    BY <1>30, AskedStack, MoreOne DEF DirectoryReads
  <2>3. CASE f0 \in FileList(d)
    BY <1>0, <2>2, <2>3 DEF FileList
  <2>4. CASE f0 \notin FileList(d)
    BY <2>1, <2>2, <2>4 DEF Lacks
  <2> QED
    BY <2>3, <2>4
<1> QED
  BY StepsAre, <1>1, <1>2, <1>3, <1>4, <1>5, <1>6, <1>7, <1>8, <1>9, <1>10, <1>11, <1>12, <1>13, <1>14, <1>15, <1>16, <1>17, <1>18, <1>19, <1>20, <1>21, <1>22, <1>23, <1>24, <1>25, <1>26, <1>27, <1>28, <1>29, <1>30

\* Who wants something of a file wants it until the directory of the file is looked at.
LEMMA WantedStays ==
  ASSUME Typed, Next, "Moved" \notin Changes, NEW f0 \in Files, NEW k0 \in Kinds
  PROVE  Wanted(f0, k0) => Wanted(f0, k0)' \/ StopOn(todo', again', directory[f0])
<1>0. /\ directory' = directory
      /\ \A x, d : On(todo', x, d) /\ x = "state changed" => StopOn(todo', again', d)
      /\ \A x : Includes(x, f0)' <=> Includes(x, f0)
  BY DirectoryKept DEF StopOn, Includes
<1>1. CASE StateChanged
  BY <1>1, <1>0 DEF StateChanged, clients, Wanted
<1>2. CASE FileListStartOrStop
  BY <1>2, <1>0 DEF FileListStartOrStop, clients, Wanted
<1>3. CASE LoadCancel
  BY <1>3, <1>0 DEF LoadCancel, clients, Wanted
<1>4. CASE LoadEnded
  BY <1>4, <1>0 DEF LoadEnded, clients, Wanted
<1>5. CASE Stop
  BY <1>5, <1>0 DEF Stop, clients, Wanted
<1>6. CASE HighPriorityQueue
  BY <1>6, <1>0 DEF HighPriorityQueue, clients, Wanted
<1>7. CASE LowPriorityQueue
  BY <1>7, <1>0 DEF LowPriorityQueue, clients, Wanted
<1>8. CASE ExtensionQueue
  BY <1>8, <1>0 DEF ExtensionQueue, clients, Wanted
<1>9. CASE QueuesEmpty
  BY <1>9, <1>0 DEF QueuesEmpty, clients, Wanted
<1>10. CASE CallReadyCallbacks
  <2>1. /\ monitors' = monitors /\ listed' = listed
        /\ \A c \in Callbacks : calls'[c] = calls[c] \/ c \in Found(This.dir)
    BY <1>10 DEF CallReadyCallbacks
  <2>2. \A c \in Found(This.dir) : listed[c] = This.dir
    BY DEF Found
  <2>3. CASE Found(This.dir) = {}
    BY <1>0, <2>1, <2>3 DEF Wanted
  <2>4. CASE Found(This.dir) # {}
    BY <1>10, <2>4, CallReadyOn, <1>0, <2>1, <2>2 DEF LoopCalls, More, Wanted, StopOn
  <2> QED
    BY <2>3, <2>4
<1>11. CASE WakeUp
  BY <1>11, <1>0 DEF WakeUp, clients, Wanted
<1>12. CASE Waking
  BY <1>12, <1>0 DEF Waking, clients, Wanted
<1>13. CASE Told
  BY <1>13, <1>0 DEF Told, clients, Wanted
<1>14. CASE Invalidate
  BY <1>14, <1>0 DEF Invalidate, clients, Wanted
<1>15. CASE Cancelled
  BY <1>15, <1>0 DEF Cancelled, clients, Wanted
<1>16. CASE Reload
  BY <1>16, <1>0 DEF Reload, clients, Wanted
<1>17. CASE Unloaded
  BY <1>17, <1>0 DEF Unloaded, clients, Wanted
<1>18. CASE Reloaded
  BY <1>18, <1>0 DEF Reloaded, clients, Wanted
<1>19. ASSUME NEW m \in Monitors, MonitorAdd(m) PROVE Wanted(f0, k0) => Wanted(f0, k0)' \/ StopOn(todo', again', directory[f0])
  BY <1>19, <1>0 DEF MonitorAdd, Wanted
<1>20. ASSUME NEW m \in Monitors, MonitorRemove(m) PROVE Wanted(f0, k0) => Wanted(f0, k0)' \/ StopOn(todo', again', directory[f0])
  BY <1>20, AskedStack, MoreOne, JobsAssumption, <1>0 DEF MonitorRemove, Includes, Place, Wanted
<1>21. ASSUME NEW c \in Callbacks, CallWhenReady(c) PROVE Wanted(f0, k0) => Wanted(f0, k0)' \/ StopOn(todo', again', directory[f0])
  BY <1>21, <1>0 DEF CallWhenReady, Typed, ClientsTyped, Wanted
<1>22. ASSUME NEW c \in Callbacks, CancelCallback(c) PROVE Wanted(f0, k0) => Wanted(f0, k0)' \/ StopOn(todo', again', directory[f0])
  BY <1>22, AskedStack, MoreOne, <1>0 DEF CancelCallback, Typed, ClientsTyped, Wanted
<1>23. ASSUME NEW f \in Files, NotifyFileChanged(f) PROVE Wanted(f0, k0) => Wanted(f0, k0)' \/ StopOn(todo', again', directory[f0])
  BY <1>23, <1>0 DEF NotifyFileChanged, clients, Wanted
<1>24. ASSUME NEW f \in Files, NotifyFileRemoved(f) PROVE Wanted(f0, k0) => Wanted(f0, k0)' \/ StopOn(todo', again', directory[f0])
  BY <1>24, <1>0 DEF NotifyFileRemoved, clients, Wanted
<1>25. ASSUME NEW f \in Files, InvalidateFile(f, AllAttributes) PROVE Wanted(f0, k0) => Wanted(f0, k0)' \/ StopOn(todo', again', directory[f0])
  BY <1>25, <1>0 DEF InvalidateFile, clients, Wanted
<1>26. ASSUME NEW d \in Dirs, ForceReload(d) PROVE Wanted(f0, k0) => Wanted(f0, k0)' \/ StopOn(todo', again', directory[f0])
  BY <1>26, <1>0 DEF ForceReload, clients, Wanted
<1>27. ASSUME NEW d \in Dirs, NEW k \in Kinds, Answer(d, k) PROVE Wanted(f0, k0) => Wanted(f0, k0)' \/ StopOn(todo', again', directory[f0])
  BY <1>27, <1>0 DEF Answer, clients, Wanted
<1>28. ASSUME NEW d \in Dirs, DirectoryLoadDone(d) PROVE Wanted(f0, k0) => Wanted(f0, k0)' \/ StopOn(todo', again', directory[f0])
  BY <1>28, <1>0 DEF DirectoryLoadDone, clients, Wanted
<1>29. ASSUME NEW d \in Dirs, CallReadyCallbacksAtIdle(d) PROVE Wanted(f0, k0) => Wanted(f0, k0)' \/ StopOn(todo', again', directory[f0])
  BY <1>29, <1>0 DEF CallReadyCallbacksAtIdle, Wanted
<1>30. ASSUME NEW d \in Dirs, DirectoryReads(d) PROVE Wanted(f0, k0) => Wanted(f0, k0)' \/ StopOn(todo', again', directory[f0])
  BY <1>30, <1>0 DEF DirectoryReads, clients, Wanted
<1> QED
  BY StepsAre, <1>1, <1>2, <1>3, <1>4, <1>5, <1>6, <1>7, <1>8, <1>9, <1>10, <1>11, <1>12, <1>13, <1>14, <1>15, <1>16, <1>17, <1>18, <1>19, <1>20, <1>21, <1>22, <1>23, <1>24, <1>25, <1>26, <1>27, <1>28, <1>29, <1>30

\* What is fetched was fetched before, or somebody wants it.
Continued(p) == \E o \in ops : o.dir = p.dir /\ o.kind = p.kind /\ o.file = p.file /\ o.live
Begun(p) == p.file \in Files /\ Lacks(p.file, p.kind) /\ Wanted(p.file, p.kind)

LEMMA StartedGoOn ==
  ASSUME NEW d, NEW f \in Files, NEW kinds, StartJobs(d, f, kinds), \A k \in kinds : IsNeedy(f, k)
  PROVE  \A p \in ops' : p.live => Continued(p) \/ Begun(p)
<1>1. PICK started \in SUBSET kinds : ops' = ops \cup {Operation(d, k, f) : k \in started}
  BY DEF StartJobs
<1>2. \A k \in kinds : Operation(d, k, f).kind = k /\ Operation(d, k, f).file = f
  BY DEF Operation
<1>3. \A k \in kinds : Begun(Operation(d, k, f))
  BY <1>2 DEF Begun, IsNeedy, LacksNow
<1> QED
  BY <1>1, <1>3 DEF Continued

LEMMA CancelledGoOn ==
  ASSUME JobsTyped, NEW S, NEW outdated, CancelJobs(S, outdated)
  PROVE  \A p \in ops' : p.live => Continued(p)
BY CancelledOps DEF Continued

LEMMA FetchesGoOn ==
  ASSUME Typed, Next, "Moved" \notin Changes
  PROVE  \A p \in ops' : p.kind # "list" /\ p.live => Continued(p) \/ Begun(p)
<1>0. JobsTyped /\ QueuesTyped /\ StackTyped
  BY DEF Typed
<1>1. CASE StateChanged
  BY <1>1 DEF StateChanged, jobVars, Continued
<1>2. CASE FileListStartOrStop
  <2>1. ops' = ops \/ ops' = ops \cup {Operation(This.dir, "list", Standing(This.dir))}
    BY <1>2 DEF FileListStartOrStop, jobVars
  <2>2. Operation(This.dir, "list", Standing(This.dir)).kind = "list"
    BY DEF Operation
  <2> QED
    BY <2>1, <2>2 DEF Continued
<1>3. CASE LoadCancel
  BY <1>3 DEF LoadCancel, jobVars, Continued
<1>4. CASE LoadEnded
  BY <1>4 DEF LoadEnded, Continued
<1>5. CASE Stop
  <2>1. CASE UNCHANGED jobVars
    BY <2>1 DEF jobVars, Continued
  <2>2. CASE ~UNCHANGED jobVars
    <3>1. PICK S : CancelJobs(S, {})
      BY <1>5, <2>2 DEF Stop
    <3> QED
      BY <1>0, <3>1, CancelledGoOn
  <2> QED
    BY <2>1, <2>2
<1>6. CASE HighPriorityQueue
  <2>1. CASE UNCHANGED jobVars
    BY <2>1 DEF jobVars, Continued
  <2>2. CASE ~UNCHANGED jobVars
    <3> DEFINE kinds == IF InProgress(This.dir, "info") THEN {} ELSE {"info"}
               f == Head(high[This.dir])
    <3>1. Running("queues") /\ high[This.dir] # <<>>
      BY <1>6 DEF HighPriorityQueue
    <3>2. StartJobs(This.dir, f, kinds) /\ \A k \in kinds : IsNeedy(f, k)
      BY <1>6, <2>2 DEF HighPriorityQueue
    <3>3. f \in Files
      BY <1>0, <3>1, TopIs, HeadHeld DEF QueuesTyped
    <3> HIDE DEF kinds, f
    <3> QED
      BY <3>2, <3>3, StartedGoOn
  <2> QED
    BY <2>1, <2>2
<1>7. CASE LowPriorityQueue
  <2>1. CASE UNCHANGED jobVars
    BY <2>1 DEF jobVars, Continued
  <2>2. CASE ~UNCHANGED jobVars
    <3> DEFINE d == This.dir
               f == Head(low[d])
               wanted == {k \in Low \ {j \in Low : InProgress(d, j)} : IsNeedy(f, k)}
               empty == IF f \in Folders THEN {} ELSE wanted \cap {"deep"}
               kinds == wanted \ empty
    <3>1. Running("queues") /\ low[d] # <<>> /\ StartJobs(d, f, kinds)
      BY <1>7, <2>2 DEF LowPriorityQueue
    <3>2. \A k \in kinds : IsNeedy(f, k)
      OBVIOUS
    <3>3. f \in Files
      BY <1>0, <3>1, TopIs, HeadHeld DEF QueuesTyped
    <3> HIDE DEF kinds, f, d
    <3> QED
      BY <3>1, <3>2, <3>3, StartedGoOn
  <2> QED
    BY <2>1, <2>2
<1>8. CASE ExtensionQueue
  <2>1. CASE UNCHANGED jobVars
    BY <2>1 DEF jobVars, Continued
  <2>2. CASE ~UNCHANGED jobVars
    <3> DEFINE kinds == IF InProgress(This.dir, "extension") THEN {} ELSE {"extension"}
               f == Head(extension[This.dir])
    <3>1. Running("queues") /\ extension[This.dir] # <<>>
      BY <1>8 DEF ExtensionQueue
    <3>2. StartJobs(This.dir, f, kinds) /\ \A k \in kinds : IsNeedy(f, k)
      BY <1>8, <2>2 DEF ExtensionQueue
    <3>3. f \in Files
      BY <1>0, <3>1, TopIs, HeadHeld DEF QueuesTyped
    <3> HIDE DEF kinds, f
    <3> QED
      BY <3>2, <3>3, StartedGoOn
  <2> QED
    BY <2>1, <2>2
<1>9. CASE QueuesEmpty
  BY <1>9 DEF QueuesEmpty, jobVars, Continued
<1>10. CASE CallReadyCallbacks
  BY <1>10 DEF CallReadyCallbacks, jobVars, Continued
<1>11. CASE WakeUp
  BY <1>11 DEF WakeUp, jobVars, Continued
<1>12. CASE Waking
  BY <1>12 DEF Waking, Continued
<1>13. CASE Told
  BY <1>13 DEF Told, jobVars, Continued
<1>14. CASE Invalidate
  <2>1. CASE UNCHANGED jobVars
    BY <2>1 DEF jobVars, Continued
  <2>2. CASE ~UNCHANGED jobVars
    <3>1. PICK S, T : CancelJobs(S, T)
      BY <1>14, <2>2 DEF Invalidate, CancelLoadingFileAttributes
    <3> QED
      BY <1>0, <3>1, CancelledGoOn
  <2> QED
    BY <2>1, <2>2
<1>15. CASE Cancelled
  BY <1>15 DEF Cancelled, jobVars, Continued
<1>16. CASE Reload
  BY <1>16 DEF Reload, jobVars, Continued
<1>17. CASE Unloaded
  BY <1>17 DEF Unloaded, jobVars, Continued
<1>18. CASE Reloaded
  BY <1>18 DEF Reloaded, jobVars, Continued
<1>19. ASSUME NEW m \in Monitors, MonitorAdd(m) PROVE \A p \in ops' : p.kind # "list" /\ p.live => Continued(p) \/ Begun(p)
  BY <1>19 DEF MonitorAdd, jobVars, Continued
<1>20. ASSUME NEW m \in Monitors, MonitorRemove(m) PROVE \A p \in ops' : p.kind # "list" /\ p.live => Continued(p) \/ Begun(p)
  BY <1>20 DEF MonitorRemove, jobVars, Continued
<1>21. ASSUME NEW c \in Callbacks, CallWhenReady(c) PROVE \A p \in ops' : p.kind # "list" /\ p.live => Continued(p) \/ Begun(p)
  BY <1>21 DEF CallWhenReady, jobVars, Continued
<1>22. ASSUME NEW c \in Callbacks, CancelCallback(c) PROVE \A p \in ops' : p.kind # "list" /\ p.live => Continued(p) \/ Begun(p)
  BY <1>22 DEF CancelCallback, jobVars, Continued
<1>23. ASSUME NEW f \in Files, NotifyFileChanged(f) PROVE \A p \in ops' : p.kind # "list" /\ p.live => Continued(p) \/ Begun(p)
  <2>1. CASE UNCHANGED jobVars
    BY <2>1 DEF jobVars, Continued
  <2>2. CASE ~UNCHANGED jobVars
    <3>1. PICK S, T : CancelJobs(S, T)
      BY <1>23, <2>2 DEF NotifyFileChanged
    <3> QED
      BY <1>0, <3>1, CancelledGoOn
  <2> QED
    BY <2>1, <2>2
<1>24. ASSUME NEW f \in Files, NotifyFileRemoved(f) PROVE \A p \in ops' : p.kind # "list" /\ p.live => Continued(p) \/ Begun(p)
  BY <1>24 DEF NotifyFileRemoved, jobVars, Continued
<1>25. ASSUME NEW f \in Files, InvalidateFile(f, AllAttributes) PROVE \A p \in ops' : p.kind # "list" /\ p.live => Continued(p) \/ Begun(p)
  <2>1. CASE UNCHANGED jobVars
    BY <2>1 DEF jobVars, Continued
  <2>2. CASE ~UNCHANGED jobVars
    <3>1. PICK S, T : CancelJobs(S, T)
      BY <1>25, <2>2 DEF InvalidateFile, CancelLoadingFileAttributes
    <3> QED
      BY <1>0, <3>1, CancelledGoOn
  <2> QED
    BY <2>1, <2>2
<1>26. ASSUME NEW d \in Dirs, ForceReload(d) PROVE \A p \in ops' : p.kind # "list" /\ p.live => Continued(p) \/ Begun(p)
  <2>1. CASE UNCHANGED jobVars
    BY <2>1 DEF jobVars, Continued
  <2>2. CASE ~UNCHANGED jobVars
    <3>1. PICK S, T : CancelJobs(S, T)
      BY <1>26, <2>2 DEF ForceReload
    <3> QED
      BY <1>0, <3>1, CancelledGoOn
  <2> QED
    BY <2>1, <2>2
<1>27. ASSUME NEW d \in Dirs, NEW k \in Kinds, Answer(d, k) PROVE \A p \in ops' : p.kind # "list" /\ p.live => Continued(p) \/ Begun(p)
  BY <1>27 DEF Answer, Continued
<1>28. ASSUME NEW d \in Dirs, DirectoryLoadDone(d) PROVE \A p \in ops' : p.kind # "list" /\ p.live => Continued(p) \/ Begun(p)
  BY <1>28 DEF DirectoryLoadDone, jobVars, Continued
<1>29. ASSUME NEW d \in Dirs, CallReadyCallbacksAtIdle(d) PROVE \A p \in ops' : p.kind # "list" /\ p.live => Continued(p) \/ Begun(p)
  BY <1>29 DEF CallReadyCallbacksAtIdle, jobVars, Continued
<1>30. ASSUME NEW d \in Dirs, DirectoryReads(d) PROVE \A p \in ops' : p.kind # "list" /\ p.live => Continued(p) \/ Begun(p)
  BY <1>30 DEF DirectoryReads, jobVars, Continued
<1> QED
  BY StepsAre, <1>1, <1>2, <1>3, <1>4, <1>5, <1>6, <1>7, <1>8, <1>9, <1>10, <1>11, <1>12, <1>13, <1>14, <1>15, <1>16, <1>17, <1>18, <1>19, <1>20, <1>21, <1>22, <1>23, <1>24, <1>25, <1>26, <1>27, <1>28, <1>29, <1>30

\* What the service loop of a directory does not stop, somebody wants.
LEMMA StopLeaves ==
  ASSUME Typed, Stop, OpsPlaced, Counted'
  PROVE  /\ \A p \in ops' : p.kind # "list" /\ p.live /\ p.dir = This.dir =>
              Lacks(p.file, p.kind) /\ Wanted(p.file, p.kind)
         /\ This.dir \in Dirs /\ Running("stop")
<1> DEFINE mine == {o \in ops : o.dir = This.dir /\ o.kind # "list"}
           S == {o \in mine : ~IsNeedy(o.file, o.kind)}
<1>1. CancelJobs(S, {}) /\ Running("stop")
  BY DEF Stop, Counted
<1>2. ASSUME NEW p \in ops', p.kind # "list", p.live, p.dir = This.dir
      PROVE  Lacks(p.file, p.kind) /\ Wanted(p.file, p.kind)
  <2>1. PICK o \in ops : /\ p.dir = o.dir /\ p.kind = o.kind /\ p.file = o.file
                         /\ p.live = (o.live /\ o \notin S)
    BY <1>1, CancelledOps DEF Typed
  <2>2. IsNeedy(o.file, o.kind)
    BY <1>2, <2>1
  <2> QED
    BY <2>1, <2>2 DEF IsNeedy, LacksNow
<1>3. This.dir \in Dirs
  BY <1>1, TopIs DEF Typed
<1> QED
  BY <1>1, <1>2, <1>3

\* The calls of the service loop up to the one that stops fetches.
StopCall(x) == x \in {"state changed", "file list", "stop"}

LEMMA CalmCalls ==
  /\ ~StopCall("load cancel") /\ ~StopCall("load ended") /\ ~StopCall("queues") /\ ~StopCall("wake up")
  /\ ~StopCall("waking") /\ ~StopCall("told") /\ ~StopCall("invalidate") /\ ~StopCall("cancelled")
  /\ ~StopCall("reload") /\ ~StopCall("unloaded") /\ ~StopCall("reloaded")
BY DEF StopCall

LEMMA CalmStop ==
  ASSUME StackTyped, StackStays, NEW x, Running(x), ~StopCall(x), again \subseteq again'
  PROVE  \A e : StopOn(todo, again, e) => StopOn(todo', again', e)
<1>1. This.do = x
  BY DEF Running, This
<1> QED
  BY <1>1 DEF StackStays, StopOn, StopCall

LEMMA StopStays ==
  ASSUME Typed, Stacked, Listed, Next, "Moved" \notin Changes, NEW e \in Dirs
  PROVE  StopOn(todo, again, e) => StopOn(todo', again', e) \/ (Stop /\ e = This.dir)
<1>0. StackTyped /\ Lawful(todo) /\ StackStays
  BY StackStaysNext DEF Typed, Stacked
<1>1. CASE StateChanged
  <2>1. Running("state changed") /\ \A y, d : On(todo, y, d) <=> (y = "state changed" /\ d = This.dir) \/ On(Rest, y, d)
    BY <1>0, <1>1, TopOn DEF StateChanged
  <2>2. CASE This.dir \in inLoop
    BY <1>1, <2>2, StateChangedOn, <2>1 DEF StopOn
  <2>3. CASE This.dir \notin inLoop
    BY <1>1, <2>3, StateChangedOn, MoreLoop, <2>1 DEF StopOn
  <2> QED
    BY <2>2, <2>3
<1>2. CASE FileListStartOrStop
  <2>1. Running("file list") /\ again \subseteq again'
    BY <1>2 DEF FileListStartOrStop
  <2>2. On(Rest, "stop", This.dir) /\ This.do = "file list"
    BY <1>0, <2>1, TopOn, TopIs DEF Legal
  <2>3. On(todo, "stop", This.dir)
    BY <1>0, <2>1, <2>2, TopOn
  <2>4. On(todo', "stop", This.dir)
    <3>1. \A y : On(todo, y, This.dir) /\ y # This.do => On(todo', y, This.dir)
      BY <1>0 DEF StackStays
    <3> QED
      BY <2>2, <2>3, <3>1
  <2>5. e # This.dir => (StopOn(todo, again, e) => StopOn(todo', again', e))
    <3>1. \A y : On(todo, y, e) /\ e # This.dir => On(todo', y, e)
      BY <1>0 DEF StackStays
    <3> QED
      BY <2>1, <3>1 DEF StopOn
  <2> QED
    BY <2>4, <2>5 DEF StopOn
<1>3. CASE LoadCancel
  BY <1>3, <1>0, CalmStop, CalmCalls DEF LoadCancel
<1>4. CASE LoadEnded
  BY <1>4, <1>0, CalmStop, CalmCalls DEF LoadEnded
<1>5. CASE Stop
  <2>1. again' = again
    BY <1>5 DEF Stop
  <2>2. e # This.dir => (StopOn(todo, again, e) => StopOn(todo', again', e))
    <3>1. \A y : On(todo, y, e) /\ e # This.dir => On(todo', y, e)
      BY <1>0 DEF StackStays
    <3> QED
      BY <2>1, <3>1 DEF StopOn
  <2> QED
    BY <1>5, <2>2
<1>6. CASE HighPriorityQueue
  BY <1>6, <1>0, CalmStop, CalmCalls DEF HighPriorityQueue
<1>7. CASE LowPriorityQueue
  BY <1>7, <1>0, CalmStop, CalmCalls DEF LowPriorityQueue
<1>8. CASE ExtensionQueue
  BY <1>8, <1>0, CalmStop, CalmCalls DEF ExtensionQueue
<1>9. CASE QueuesEmpty
  BY <1>9, <1>0, CalmStop, CalmCalls DEF QueuesEmpty
<1>10. CASE CallReadyCallbacks
  <2>1. Running("ready") /\ This.do = "ready"
    BY <1>10 DEF CallReadyCallbacks, Running, This
  <2>2. again' = again \ {This.dir}
    BY <1>10, CallReadyOn
  <2>3. CASE More(todo', Rest, LoopCalls(This.dir))
    BY <2>3, MoreLoop, <1>0, <2>1, TopOn, <2>2 DEF StopOn
  <2>4. CASE ~More(todo', Rest, LoopCalls(This.dir))
    BY <1>10, <2>4, CallReadyOn, <2>2, <1>0, <2>1, CalmStop DEF StopCall
  <2> QED
    BY <2>3, <2>4
<1>11. CASE WakeUp
  BY <1>11, <1>0, CalmStop, CalmCalls DEF WakeUp
<1>12. CASE Waking
  BY <1>12, <1>0, CalmStop, CalmCalls DEF Waking
<1>13. CASE Told
  BY <1>13, <1>0, CalmStop, CalmCalls DEF Told
<1>14. CASE Invalidate
  BY <1>14, <1>0, CalmStop, CalmCalls DEF Invalidate
<1>15. CASE Cancelled
  BY <1>15, <1>0, CalmStop, CalmCalls DEF Cancelled
<1>16. CASE Reload
  BY <1>16, <1>0, CalmStop, CalmCalls DEF Reload
<1>17. CASE Unloaded
  BY <1>17, <1>0, CalmStop, CalmCalls DEF Unloaded
<1>18. CASE Reloaded
  BY <1>18, <1>0, CalmStop, CalmCalls DEF Reloaded
<1>19. ASSUME NEW m \in Monitors, MonitorAdd(m) PROVE StopOn(todo, again, e) => StopOn(todo', again', e) \/ (Stop /\ e = This.dir)
  <2>1. todo = <<>>
    BY <1>19 DEF MonitorAdd, Ask, MainLoop
  <2> QED
    BY <2>1, IdleServing, NothingOn DEF StopOn
<1>20. ASSUME NEW m \in Monitors, MonitorRemove(m) PROVE StopOn(todo, again, e) => StopOn(todo', again', e) \/ (Stop /\ e = This.dir)
  <2>1. todo = <<>>
    BY <1>20 DEF MonitorRemove, Ask, MainLoop
  <2> QED
    BY <2>1, IdleServing, NothingOn DEF StopOn
<1>21. ASSUME NEW c \in Callbacks, CallWhenReady(c) PROVE StopOn(todo, again, e) => StopOn(todo', again', e) \/ (Stop /\ e = This.dir)
  <2>1. todo = <<>>
    BY <1>21 DEF CallWhenReady, Ask, MainLoop
  <2> QED
    BY <2>1, IdleServing, NothingOn DEF StopOn
<1>22. ASSUME NEW c \in Callbacks, CancelCallback(c) PROVE StopOn(todo, again, e) => StopOn(todo', again', e) \/ (Stop /\ e = This.dir)
  <2>1. todo = <<>>
    BY <1>22 DEF CancelCallback, Ask, MainLoop
  <2> QED
    BY <2>1, IdleServing, NothingOn DEF StopOn
<1>23. ASSUME NEW f \in Files, NotifyFileChanged(f) PROVE StopOn(todo, again, e) => StopOn(todo', again', e) \/ (Stop /\ e = This.dir)
  <2>1. todo = <<>>
    BY <1>23 DEF NotifyFileChanged, Ask, MainLoop
  <2> QED
    BY <2>1, IdleServing, NothingOn DEF StopOn
<1>24. ASSUME NEW f \in Files, NotifyFileRemoved(f) PROVE StopOn(todo, again, e) => StopOn(todo', again', e) \/ (Stop /\ e = This.dir)
  <2>1. todo = <<>>
    BY <1>24 DEF NotifyFileRemoved, Ask, MainLoop
  <2> QED
    BY <2>1, IdleServing, NothingOn DEF StopOn
<1>25. ASSUME NEW f \in Files, InvalidateFile(f, AllAttributes) PROVE StopOn(todo, again, e) => StopOn(todo', again', e) \/ (Stop /\ e = This.dir)
  <2>1. todo = <<>>
    BY <1>25 DEF InvalidateFile, Ask, MainLoop
  <2> QED
    BY <2>1, IdleServing, NothingOn DEF StopOn
<1>26. ASSUME NEW d \in Dirs, ForceReload(d) PROVE StopOn(todo, again, e) => StopOn(todo', again', e) \/ (Stop /\ e = This.dir)
  <2>1. todo = <<>>
    BY <1>26 DEF ForceReload, Ask, MainLoop
  <2> QED
    BY <2>1, IdleServing, NothingOn DEF StopOn
<1>27. ASSUME NEW d \in Dirs, NEW k \in Kinds, Answer(d, k) PROVE StopOn(todo, again, e) => StopOn(todo', again', e) \/ (Stop /\ e = This.dir)
  <2>1. todo = <<>>
    BY <1>27 DEF Answer, MainLoop
  <2> QED
    BY <2>1, IdleServing, NothingOn DEF StopOn
<1>28. ASSUME NEW d \in Dirs, DirectoryLoadDone(d) PROVE StopOn(todo, again, e) => StopOn(todo', again', e) \/ (Stop /\ e = This.dir)
  <2>1. todo = <<>>
    BY <1>28 DEF DirectoryLoadDone, MainLoop
  <2> QED
    BY <2>1, IdleServing, NothingOn DEF StopOn
<1>29. ASSUME NEW d \in Dirs, CallReadyCallbacksAtIdle(d) PROVE StopOn(todo, again, e) => StopOn(todo', again', e) \/ (Stop /\ e = This.dir)
  <2>1. todo = <<>>
    BY <1>29 DEF CallReadyCallbacksAtIdle, MainLoop
  <2> QED
    BY <2>1, IdleServing, NothingOn DEF StopOn
<1>30. ASSUME NEW d \in Dirs, DirectoryReads(d) PROVE StopOn(todo, again, e) => StopOn(todo', again', e) \/ (Stop /\ e = This.dir)
  <2>1. todo = <<>>
    BY <1>30 DEF DirectoryReads, MainLoop
  <2> QED
    BY <2>1, IdleServing, NothingOn DEF StopOn
<1> QED
  BY StepsAre, <1>1, <1>2, <1>3, <1>4, <1>5, <1>6, <1>7, <1>8, <1>9, <1>10, <1>11, <1>12, <1>13, <1>14, <1>15, <1>16, <1>17, <1>18, <1>19, <1>20, <1>21, <1>22, <1>23, <1>24, <1>25, <1>26, <1>27, <1>28, <1>29, <1>30

\* Only the routine itself takes the end of a load from the stack.
LEMMA CancelsStay ==
  ASSUME Typed, Listed, Next, "Moved" \notin Changes, NEW e, On(todo, "load cancel", e), ~(LoadCancel /\ e = This.dir)
  PROVE  On(todo', "load cancel", e)
<1>0. StackStays
  BY StackStaysNext
<1>a. \A x : Running(x) /\ x # "load cancel" => On(todo', "load cancel", e)
  BY <1>0 DEF StackStays, Running, This
<1>b. todo # <<>>
  BY NothingOn
<1>1. CASE StateChanged
  <2>1. Running("state changed")
    BY <1>1 DEF StateChanged
  <2> QED
    BY <2>1, <1>a
<1>2. CASE FileListStartOrStop
  <2>1. Running("file list")
    BY <1>2 DEF FileListStartOrStop
  <2> QED
    BY <2>1, <1>a
<1>3. CASE LoadCancel
  BY <1>0, <1>3 DEF StackStays
<1>4. CASE LoadEnded
  <2>1. Running("load ended")
    BY <1>4 DEF LoadEnded
  <2> QED
    BY <2>1, <1>a
<1>5. CASE Stop
  <2>1. Running("stop")
    BY <1>5 DEF Stop
  <2> QED
    BY <2>1, <1>a
<1>6. CASE HighPriorityQueue
  <2>1. Running("queues")
    BY <1>6 DEF HighPriorityQueue
  <2> QED
    BY <2>1, <1>a
<1>7. CASE LowPriorityQueue
  <2>1. Running("queues")
    BY <1>7 DEF LowPriorityQueue
  <2> QED
    BY <2>1, <1>a
<1>8. CASE ExtensionQueue
  <2>1. Running("queues")
    BY <1>8 DEF ExtensionQueue
  <2> QED
    BY <2>1, <1>a
<1>9. CASE QueuesEmpty
  <2>1. Running("queues")
    BY <1>9 DEF QueuesEmpty
  <2> QED
    BY <2>1, <1>a
<1>10. CASE CallReadyCallbacks
  <2>1. Running("ready")
    BY <1>10 DEF CallReadyCallbacks
  <2> QED
    BY <2>1, <1>a
<1>11. CASE WakeUp
  <2>1. Running("wake up")
    BY <1>11 DEF WakeUp
  <2> QED
    BY <2>1, <1>a
<1>12. CASE Waking
  <2>1. Running("waking")
    BY <1>12 DEF Waking
  <2> QED
    BY <2>1, <1>a
<1>13. CASE Told
  <2>1. Running("told")
    BY <1>13 DEF Told
  <2> QED
    BY <2>1, <1>a
<1>14. CASE Invalidate
  <2>1. Running("invalidate")
    BY <1>14 DEF Invalidate
  <2> QED
    BY <2>1, <1>a
<1>15. CASE Cancelled
  <2>1. Running("cancelled")
    BY <1>15 DEF Cancelled
  <2> QED
    BY <2>1, <1>a
<1>16. CASE Reload
  <2>1. Running("reload")
    BY <1>16 DEF Reload
  <2> QED
    BY <2>1, <1>a
<1>17. CASE Unloaded
  <2>1. Running("unloaded")
    BY <1>17 DEF Unloaded
  <2> QED
    BY <2>1, <1>a
<1>18. CASE Reloaded
  <2>1. Running("reloaded")
    BY <1>18 DEF Reloaded
  <2> QED
    BY <2>1, <1>a
<1>19. ASSUME NEW m \in Monitors, MonitorAdd(m) PROVE On(todo', "load cancel", e)
  BY <1>b, <1>19 DEF MonitorAdd, Ask, MainLoop
<1>20. ASSUME NEW m \in Monitors, MonitorRemove(m) PROVE On(todo', "load cancel", e)
  BY <1>b, <1>20 DEF MonitorRemove, Ask, MainLoop
<1>21. ASSUME NEW c \in Callbacks, CallWhenReady(c) PROVE On(todo', "load cancel", e)
  BY <1>b, <1>21 DEF CallWhenReady, Ask, MainLoop
<1>22. ASSUME NEW c \in Callbacks, CancelCallback(c) PROVE On(todo', "load cancel", e)
  BY <1>b, <1>22 DEF CancelCallback, Ask, MainLoop
<1>23. ASSUME NEW f \in Files, NotifyFileChanged(f) PROVE On(todo', "load cancel", e)
  BY <1>b, <1>23 DEF NotifyFileChanged, Ask, MainLoop
<1>24. ASSUME NEW f \in Files, NotifyFileRemoved(f) PROVE On(todo', "load cancel", e)
  BY <1>b, <1>24 DEF NotifyFileRemoved, Ask, MainLoop
<1>25. ASSUME NEW f \in Files, InvalidateFile(f, AllAttributes) PROVE On(todo', "load cancel", e)
  BY <1>b, <1>25 DEF InvalidateFile, Ask, MainLoop
<1>26. ASSUME NEW d \in Dirs, ForceReload(d) PROVE On(todo', "load cancel", e)
  BY <1>b, <1>26 DEF ForceReload, Ask, MainLoop
<1>27. ASSUME NEW d \in Dirs, NEW k \in Kinds, Answer(d, k) PROVE On(todo', "load cancel", e)
  BY <1>b, <1>27 DEF Answer, MainLoop
<1>28. ASSUME NEW d \in Dirs, DirectoryLoadDone(d) PROVE On(todo', "load cancel", e)
  BY <1>b, <1>28 DEF DirectoryLoadDone, MainLoop
<1>29. ASSUME NEW d \in Dirs, CallReadyCallbacksAtIdle(d) PROVE On(todo', "load cancel", e)
  BY <1>b, <1>29 DEF CallReadyCallbacksAtIdle, MainLoop
<1>30. ASSUME NEW d \in Dirs, DirectoryReads(d) PROVE On(todo', "load cancel", e)
  BY <1>b, <1>30 DEF DirectoryReads, MainLoop
<1> QED
  BY StepsAre, <1>1, <1>2, <1>3, <1>4, <1>5, <1>6, <1>7, <1>8, <1>9, <1>10, <1>11, <1>12, <1>13, <1>14, <1>15, <1>16, <1>17, <1>18, <1>19, <1>20, <1>21, <1>22, <1>23, <1>24, <1>25, <1>26, <1>27, <1>28, <1>29, <1>30

\* The end of a load has the directory of its file look at what it fetches.
LEMMA LoadLeftStays ==
  ASSUME Typed, Stacked, Listed, Counted, Next, "Moved" \notin Changes, NEW d \in Dirs
  PROVE  LoadLeft(d) => LoadLeft(d)' \/ StopOn(todo', again', d)
<1>1. SUFFICES ASSUME LoadLeft(d)
               PROVE  LoadLeft(d)' \/ StopOn(todo', again', d)
  OBVIOUS
<1>2. PICK e \in Dirs, g \in Files : e # d /\ LoadFor(e, g) /\ On(todo, "load cancel", e) /\ directory[g] = d
  BY <1>1 DEF LoadLeft
<1>3. StackTyped /\ Lawful(todo) /\ StackStays /\ directory' = directory
  BY StackStaysNext, DirectoryKept DEF Typed, Stacked
<1>4. CASE LoadCancel /\ e = This.dir
  <2>1. InProgress(e, "list")
    BY <1>2 DEF LoadFor, InProgress
  <2>2. LoadFile(e) = g
    <3>1. PICK o \in ops : o.dir = e /\ o.kind = "list" /\ o.file = g
      BY <1>2 DEF LoadFor
    <3>2. \A p \in ops : p.dir = e /\ p.kind = "list" => p = o
      BY <3>1 DEF Counted
    <3>3. (CHOOSE p \in ops : p.dir = e /\ p.kind = "list") = o
      BY <3>1, <3>2
    <3> QED
      BY <3>1, <3>3 DEF LoadFile
  <2>3. More(todo', Rest, {<<"load ended", e>>, <<"state changed", d>>})
    BY <1>2, <1>4, <2>1, <2>2, LoadCancelOn
  <2>4. On(todo', "state changed", d)
    BY <2>3, MoreTwo
  <2> QED
    BY <2>4 DEF StopOn
<1>5. CASE ~(LoadCancel /\ e = This.dir)
  <2>1. On(todo', "load cancel", e)
    BY <1>2, <1>5, CancelsStay
  <2>2. LoadFor(e, g)'
    <3>1. CASE FileListStartOrStop
      BY <3>1, <1>2 DEF FileListStartOrStop, jobVars, LoadFor
    <3>2. CASE LoadEnded
      BY <3>2, <1>3, TopOn, TopIs, <1>2 DEF LoadEnded, Legal, Loads, LoadFor
    <3> QED
      BY <1>2, <3>1, <3>2, LoadsStay
  <2> QED
    BY <1>2, <1>3, <2>1, <2>2 DEF LoadLeft
<1> QED
  BY <1>4, <1>5

\* What is fetched is missing and wanted, or will be looked at.
Asked(f, k, d) == (Lacks(f, k) /\ Wanted(f, k)) \/ StopOn(todo, again, d) \/ LoadLeft(d)
OnlyAsked == \A o \in ops : o.kind # "list" /\ o.live => o.file \in Files /\ Asked(o.file, o.kind, o.dir)

LEMMA OnlyAskedKept ==
  ASSUME Typed, Stacked, Listed, Counted, OpsPlaced, QueuesPlaced, OnlyAsked, OpsPlaced', Counted',
         Next, "Moved" \notin Changes
  PROVE  OnlyAsked'
<1>0. directory' = directory /\ JobsTyped'
  BY DirectoryKept, TypedNext DEF Typed
<1>1. ASSUME NEW f \in Files, NEW k \in Kinds, Lacks(f, k), Wanted(f, k)
      PROVE  Asked(f, k, directory[f])'
  BY <1>0, <1>1, LacksStays, WantedStays DEF Asked
<1>2. ASSUME NEW p \in ops', p.kind # "list", p.live
      PROVE  p.file \in Files /\ Asked(p.file, p.kind, p.dir)'
  <2>1. p.kind \in Kinds /\ p.dir \in Dirs /\ directory[p.file] = p.dir
    BY <1>0, <1>2 DEF JobsTyped, Operations, OpsPlaced
  <2>2. CASE p.file \in Files /\ Lacks(p.file, p.kind) /\ Wanted(p.file, p.kind)
    BY <1>1, <2>1, <2>2, <1>0
  <2>3. CASE Continued(p)
    BY <1>2, <2>3, <2>2, StopLeaves, <2>1, StopStays, LoadLeftStays DEF Continued, OnlyAsked, Asked
  <2> QED
    BY <1>2, <2>2, <2>3, FetchesGoOn DEF Begun
<1> QED
  BY <1>2 DEF OnlyAsked

-----------------------------------------------------------------------------
(* What is needed and who sees to it                                       *)

\* File f of d will be queued again, by itself or with all files of d.
Redone(s, f, d) == Requeued(s, f) \/ On(s, "reload", d) \/ On(s, "unloaded", d) \/ On(s, "reloaded", d)
\* f has a turn in the queues of d that has not yet passed k.
HasTurn(d, f, k) ==
  \/ Holds(high, d, f)
  \/ k # "info" /\ Holds(low, d, f)
  \/ k = "extension" /\ Holds(extension, d, f)
Fetching(f, k) == \E o \in ops : o.file = f /\ o.kind = k /\ o.live

\* What becomes unknown of a file has the file queued again.
LEMMA LackAppears ==
  ASSUME Typed, Next, "Moved" \notin Changes, NEW f0 \in Files, f0 \notin gone', NEW k0 \in Kinds
  PROVE  Lacks(f0, k0)' => Lacks(f0, k0) \/ Holds(high', directory[f0], f0) \/ Redone(todo', f0, directory[f0])
<1>0. /\ QueuesTyped /\ f0 \notin gone' /\ upToDate \in [Files -> SUBSET Kinds] /\ directory[f0] \in Dirs
  BY DirectoryTyped DEF Typed, FilesTyped
<1>1. CASE StateChanged
  BY <1>1 DEF StateChanged, files, Lacks
<1>2. CASE FileListStartOrStop
  BY <1>2 DEF FileListStartOrStop, Lacks
<1>3. CASE LoadCancel
  BY <1>3 DEF LoadCancel, Lacks
<1>4. CASE LoadEnded
  BY <1>4 DEF LoadEnded, files, Lacks
<1>5. CASE Stop
  BY <1>5 DEF Stop, files, Lacks
<1>6. CASE HighPriorityQueue
  BY <1>6 DEF HighPriorityQueue, files, Lacks
<1>7. CASE LowPriorityQueue
  <2> DEFINE f == Head(low[This.dir])
             wanted == {k \in Low \ {j \in Low : InProgress(This.dir, j)} : IsNeedy(f, k)}
             empty == IF f \in Folders THEN {} ELSE wanted \cap {"deep"}
  <2>1. gone' = gone /\ (upToDate' = upToDate \/ upToDate' = [upToDate EXCEPT ![f] = @ \cup empty])
    BY <1>7 DEF LowPriorityQueue
  <2> HIDE DEF empty, f
  <2>2. upToDate[f0] \subseteq upToDate'[f0]
    BY <1>0, <2>1
  <2> QED
    BY <2>1, <2>2 DEF Lacks
<1>8. CASE ExtensionQueue
  BY <1>0, <1>8 DEF ExtensionQueue, Lacks
<1>9. CASE QueuesEmpty
  BY <1>9 DEF QueuesEmpty, files, Lacks
<1>10. CASE CallReadyCallbacks
  BY <1>10 DEF CallReadyCallbacks, files, Lacks
<1>11. CASE WakeUp
  BY <1>11 DEF WakeUp, files, Lacks
<1>12. CASE Waking
  BY <1>12 DEF Waking, files, Lacks
<1>13. CASE Told
  BY <1>13 DEF Told, files, Lacks
<1>14. CASE Invalidate
  BY <1>14 DEF Invalidate, files, Lacks
<1>15. CASE Cancelled
  <2>1. This.file \in Files /\ directory[This.file] \in Dirs
    BY <1>15, CancelledStack
  <2>2. AddToWorkQueue(directory[This.file], This.file) /\ gone' = gone
    BY <1>15 DEF Cancelled
  <2>3. CASE f0 = This.file
    BY <1>0, <2>1, <2>2, <2>3, AddedFacts
  <2>4. CASE f0 # This.file
    BY <1>15, <2>4, <2>2 DEF Cancelled, Invalidated, Lacks
  <2> QED
    BY <2>3, <2>4
<1>16. CASE Reload
  <2>1. gone' = gone /\ Invalidated(FileList(This.dir), AllAttributes)
    BY <1>16 DEF Reload
  <2>2. CASE f0 \in FileList(This.dir)
    <3>1. More(todo', Rest, {<<"load cancel", This.dir>>, <<"unloaded", This.dir>>})
      BY <1>16, ReloadOn
    <3>2. On(todo', "unloaded", This.dir)
      BY <3>1, MoreTwo
    <3> QED
      BY <2>2, <3>2 DEF FileList, Redone
  <2>3. CASE f0 \notin FileList(This.dir)
    BY <2>1, <2>3 DEF Invalidated, Lacks
  <2> QED
    BY <2>2, <2>3
<1>17. CASE Unloaded
  BY <1>17 DEF Unloaded, files, Lacks
<1>18. CASE Reloaded
  BY <1>18 DEF Reloaded, files, Lacks
<1>19. ASSUME NEW m \in Monitors, MonitorAdd(m) PROVE Lacks(f0, k0)' => Lacks(f0, k0) \/ Holds(high', directory[f0], f0) \/ Redone(todo', f0, directory[f0])
  BY <1>19 DEF MonitorAdd, files, Lacks
<1>20. ASSUME NEW m \in Monitors, MonitorRemove(m) PROVE Lacks(f0, k0)' => Lacks(f0, k0) \/ Holds(high', directory[f0], f0) \/ Redone(todo', f0, directory[f0])
  BY <1>20 DEF MonitorRemove, files, Lacks
<1>21. ASSUME NEW c \in Callbacks, CallWhenReady(c) PROVE Lacks(f0, k0)' => Lacks(f0, k0) \/ Holds(high', directory[f0], f0) \/ Redone(todo', f0, directory[f0])
  BY <1>21 DEF CallWhenReady, files, Lacks
<1>22. ASSUME NEW c \in Callbacks, CancelCallback(c) PROVE Lacks(f0, k0)' => Lacks(f0, k0) \/ Holds(high', directory[f0], f0) \/ Redone(todo', f0, directory[f0])
  BY <1>22 DEF CancelCallback, files, Lacks
<1>23. ASSUME NEW f \in Files, NotifyFileChanged(f) PROVE Lacks(f0, k0)' => Lacks(f0, k0) \/ Holds(high', directory[f0], f0) \/ Redone(todo', f0, directory[f0])
  <2>1. gone' = gone /\ AddToWorkQueue(directory[f], f) /\ directory[f] \in Dirs
    BY <1>23, DirectoryTyped DEF NotifyFileChanged
  <2>2. CASE f0 = f
    BY <1>0, <2>1, <2>2, AddedFacts
  <2>3. CASE f0 # f
    BY <1>23, <2>3, <2>1 DEF NotifyFileChanged, Invalidated, Lacks
  <2> QED
    BY <2>2, <2>3
<1>24. ASSUME NEW f \in Files, NotifyFileRemoved(f) PROVE Lacks(f0, k0)' => Lacks(f0, k0) \/ Holds(high', directory[f0], f0) \/ Redone(todo', f0, directory[f0])
  BY <1>24, <1>0 DEF NotifyFileRemoved, Lacks
<1>25. ASSUME NEW f \in Files, InvalidateFile(f, AllAttributes) PROVE Lacks(f0, k0)' => Lacks(f0, k0) \/ Holds(high', directory[f0], f0) \/ Redone(todo', f0, directory[f0])
  BY <1>25 DEF InvalidateFile, files, Lacks
<1>26. ASSUME NEW d \in Dirs, ForceReload(d) PROVE Lacks(f0, k0)' => Lacks(f0, k0) \/ Holds(high', directory[f0], f0) \/ Redone(todo', f0, directory[f0])
  BY <1>26 DEF ForceReload, files, Lacks
<1>27. ASSUME NEW d \in Dirs, NEW k \in Kinds, Answer(d, k) PROVE Lacks(f0, k0)' => Lacks(f0, k0) \/ Holds(high', directory[f0], f0) \/ Redone(todo', f0, directory[f0])
  BY <1>0, <1>27 DEF Answer, MarkGone, Lacks
<1>28. ASSUME NEW d \in Dirs, DirectoryLoadDone(d) PROVE Lacks(f0, k0)' => Lacks(f0, k0) \/ Holds(high', directory[f0], f0) \/ Redone(todo', f0, directory[f0])
  BY <1>0, <1>28 DEF DirectoryLoadDone, MarkGone, Lacks
<1>29. ASSUME NEW d \in Dirs, CallReadyCallbacksAtIdle(d) PROVE Lacks(f0, k0)' => Lacks(f0, k0) \/ Holds(high', directory[f0], f0) \/ Redone(todo', f0, directory[f0])
  BY <1>29 DEF CallReadyCallbacksAtIdle, files, Lacks
<1>30. ASSUME NEW d \in Dirs, DirectoryReads(d) PROVE Lacks(f0, k0)' => Lacks(f0, k0) \/ Holds(high', directory[f0], f0) \/ Redone(todo', f0, directory[f0])
  <2>1. gone' = gone /\ upToDate[f0] \subseteq upToDate'[f0]
    BY <1>30 DEF DirectoryReads
  <2> QED
    BY <2>1 DEF Lacks
<1> QED
  BY StepsAre, <1>1, <1>2, <1>3, <1>4, <1>5, <1>6, <1>7, <1>8, <1>9, <1>10, <1>11, <1>12, <1>13, <1>14, <1>15, <1>16, <1>17, <1>18, <1>19, <1>20, <1>21, <1>22, <1>23, <1>24, <1>25, <1>26, <1>27, <1>28, <1>29, <1>30

\* Who begins to want something queues the file.
LEMMA WantAppears ==
  ASSUME Typed, Next, "Moved" \notin Changes, NEW f0 \in Files, f0 \notin gone', NEW k0 \in Kinds
  PROVE  Wanted(f0, k0)' => Wanted(f0, k0) \/ Holds(high', directory[f0], f0)
<1>0. /\ directory' = directory /\ QueuesTyped /\ f0 \notin gone' /\ directory[f0] \in Dirs
      /\ \A x : Includes(x, f0)' <=> Includes(x, f0)
  BY DirectoryKept, DirectoryTyped DEF Includes, Typed
<1>1. CASE StateChanged
  BY <1>1, <1>0 DEF StateChanged, clients, Wanted
<1>2. CASE FileListStartOrStop
  BY <1>2, <1>0 DEF FileListStartOrStop, clients, Wanted
<1>3. CASE LoadCancel
  BY <1>3, <1>0 DEF LoadCancel, clients, Wanted
<1>4. CASE LoadEnded
  BY <1>4, <1>0 DEF LoadEnded, clients, Wanted
<1>5. CASE Stop
  BY <1>5, <1>0 DEF Stop, clients, Wanted
<1>6. CASE HighPriorityQueue
  BY <1>6, <1>0 DEF HighPriorityQueue, clients, Wanted
<1>7. CASE LowPriorityQueue
  BY <1>7, <1>0 DEF LowPriorityQueue, clients, Wanted
<1>8. CASE ExtensionQueue
  BY <1>8, <1>0 DEF ExtensionQueue, clients, Wanted
<1>9. CASE QueuesEmpty
  BY <1>9, <1>0 DEF QueuesEmpty, clients, Wanted
<1>10. CASE CallReadyCallbacks
  BY <1>10, <1>0 DEF CallReadyCallbacks, Wanted
<1>11. CASE WakeUp
  BY <1>11, <1>0 DEF WakeUp, clients, Wanted
<1>12. CASE Waking
  BY <1>12, <1>0 DEF Waking, clients, Wanted
<1>13. CASE Told
  BY <1>13, <1>0 DEF Told, clients, Wanted
<1>14. CASE Invalidate
  BY <1>14, <1>0 DEF Invalidate, clients, Wanted
<1>15. CASE Cancelled
  BY <1>15, <1>0 DEF Cancelled, clients, Wanted
<1>16. CASE Reload
  BY <1>16, <1>0 DEF Reload, clients, Wanted
<1>17. CASE Unloaded
  BY <1>17, <1>0 DEF Unloaded, clients, Wanted
<1>18. CASE Reloaded
  BY <1>18, <1>0 DEF Reloaded, clients, Wanted
<1>19. ASSUME NEW m \in Monitors, MonitorAdd(m) PROVE Wanted(f0, k0)' => Wanted(f0, k0) \/ Holds(high', directory[f0], f0)
  <2>1. Place(m) \in Dirs /\ At[m] \in Dirs /\ About[m] \in Files \cup {AllFiles}
    BY PlaceTyped
  <2>2. Includes(m, f0) => Holds(high', directory[f0], f0)
    <3>1. CASE About[m] = AllFiles
      BY <1>19, <3>1, <1>0, <2>1, AddedAllFacts, PlaceTyped DEF MonitorAdd, files, FileList, Includes
    <3>2. CASE About[m] # AllFiles
      <4>1. AddToWorkQueue(Place(m), About[m]) /\ About[m] \in Files /\ Place(m) = directory[About[m]]
        BY <1>19, <2>1, <3>2 DEF MonitorAdd, Place
      <4>2. Holds(high', Place(m), About[m])
        BY <1>0, <2>1, <4>1, AddedFacts
      <4> QED
        BY <3>2, <4>1, <4>2 DEF Includes
    <3> QED
      BY <3>1, <3>2
  <2>3. monitors' = monitors \cup {m} /\ calls' = calls /\ listed' = listed
    BY <1>19 DEF MonitorAdd
  <2> QED
    BY <1>0, <2>2, <2>3 DEF Wanted
<1>20. ASSUME NEW m \in Monitors, MonitorRemove(m) PROVE Wanted(f0, k0)' => Wanted(f0, k0) \/ Holds(high', directory[f0], f0)
  BY <1>20, <1>0 DEF MonitorRemove, Wanted
<1>21. ASSUME NEW c \in Callbacks, CallWhenReady(c) PROVE Wanted(f0, k0)' => Wanted(f0, k0) \/ Holds(high', directory[f0], f0)
  <2>1. Place(c) \in Dirs /\ At[c] \in Dirs /\ About[c] \in Files \cup {AllFiles}
    BY PlaceTyped
  <2>2. Includes(c, f0) => Holds(high', directory[f0], f0)
    <3>1. CASE About[c] = AllFiles
      BY <1>21, <3>1, <1>0, <2>1, AddedAllFacts, PlaceTyped DEF CallWhenReady, files, FileList, Includes
    <3>2. CASE About[c] # AllFiles
      BY <1>21, <2>1, <3>2, <1>0, AddedFacts DEF CallWhenReady, Place, Includes
    <3> QED
      BY <3>1, <3>2
  <2>3. /\ monitors' = monitors
        /\ \A x \in Callbacks : x # c => calls'[x] = calls[x] /\ listed'[x] = listed[x]
    BY <1>21 DEF CallWhenReady, Typed, ClientsTyped
  <2> QED
    BY <1>0, <2>2, <2>3 DEF Wanted
<1>22. ASSUME NEW c \in Callbacks, CancelCallback(c) PROVE Wanted(f0, k0)' => Wanted(f0, k0) \/ Holds(high', directory[f0], f0)
  BY <1>22, <1>0 DEF CancelCallback, Typed, ClientsTyped, Wanted
<1>23. ASSUME NEW f \in Files, NotifyFileChanged(f) PROVE Wanted(f0, k0)' => Wanted(f0, k0) \/ Holds(high', directory[f0], f0)
  BY <1>23, <1>0 DEF NotifyFileChanged, clients, Wanted
<1>24. ASSUME NEW f \in Files, NotifyFileRemoved(f) PROVE Wanted(f0, k0)' => Wanted(f0, k0) \/ Holds(high', directory[f0], f0)
  BY <1>24, <1>0 DEF NotifyFileRemoved, clients, Wanted
<1>25. ASSUME NEW f \in Files, InvalidateFile(f, AllAttributes) PROVE Wanted(f0, k0)' => Wanted(f0, k0) \/ Holds(high', directory[f0], f0)
  BY <1>25, <1>0 DEF InvalidateFile, clients, Wanted
<1>26. ASSUME NEW d \in Dirs, ForceReload(d) PROVE Wanted(f0, k0)' => Wanted(f0, k0) \/ Holds(high', directory[f0], f0)
  BY <1>26, <1>0 DEF ForceReload, clients, Wanted
<1>27. ASSUME NEW d \in Dirs, NEW k \in Kinds, Answer(d, k) PROVE Wanted(f0, k0)' => Wanted(f0, k0) \/ Holds(high', directory[f0], f0)
  BY <1>27, <1>0 DEF Answer, clients, Wanted
<1>28. ASSUME NEW d \in Dirs, DirectoryLoadDone(d) PROVE Wanted(f0, k0)' => Wanted(f0, k0) \/ Holds(high', directory[f0], f0)
  BY <1>28, <1>0 DEF DirectoryLoadDone, clients, Wanted
<1>29. ASSUME NEW d \in Dirs, CallReadyCallbacksAtIdle(d) PROVE Wanted(f0, k0)' => Wanted(f0, k0) \/ Holds(high', directory[f0], f0)
  BY <1>29, <1>0 DEF CallReadyCallbacksAtIdle, Wanted
<1>30. ASSUME NEW d \in Dirs, DirectoryReads(d) PROVE Wanted(f0, k0)' => Wanted(f0, k0) \/ Holds(high', directory[f0], f0)
  BY <1>30, <1>0 DEF DirectoryReads, clients, Wanted
<1> QED
  BY StepsAre, <1>1, <1>2, <1>3, <1>4, <1>5, <1>6, <1>7, <1>8, <1>9, <1>10, <1>11, <1>12, <1>13, <1>14, <1>15, <1>16, <1>17, <1>18, <1>19, <1>20, <1>21, <1>22, <1>23, <1>24, <1>25, <1>26, <1>27, <1>28, <1>29, <1>30

\* Who has a turn keeps it while there is need, or is about to have one again.
LEMMA TurnStays ==
  ASSUME Typed, Next, "Moved" \notin Changes, NEW f0 \in Files, f0 \notin gone', NEW k0 \in Kinds \ {"count"},
         IsNeedy(f0, k0), HasTurn(directory[f0], f0, k0)
  PROVE  HasTurn(directory[f0], f0, k0)' \/ Redone(todo', f0, directory[f0])
<1> DEFINE e0 == directory[f0]
<1>0. QueuesTyped /\ f0 \notin gone' /\ e0 \in Dirs /\ directory' = directory
  BY DirectoryTyped, DirectoryKept DEF Typed
<1>a. \/ Holds(high, e0, f0)
      \/ k0 # "info" /\ Holds(low, e0, f0)
      \/ k0 = "extension" /\ Holds(extension, e0, f0)
  BY DEF HasTurn
<1>b. ASSUME \/ Holds(high', e0, f0)
             \/ k0 # "info" /\ Holds(low', e0, f0)
             \/ k0 = "extension" /\ Holds(extension', e0, f0)
      PROVE  HasTurn(directory[f0], f0, k0)'
  BY <1>0, <1>b DEF HasTurn
<1>c. ASSUME UNCHANGED queues PROVE HasTurn(directory[f0], f0, k0)'
  BY <1>a, <1>b, <1>c DEF queues
<1>d. ASSUME \A g : /\ Holds(high, e0, g) => Holds(high', e0, g)
                    /\ low' = low /\ extension' = extension
      PROVE  HasTurn(directory[f0], f0, k0)'
  BY <1>a, <1>b, <1>d
<1> HIDE DEF e0
<1>1. CASE StateChanged
  <2>1. UNCHANGED queues
    BY <1>1 DEF StateChanged
  <2> QED
    BY <1>c, <2>1
<1>2. CASE FileListStartOrStop
  <2>1. UNCHANGED queues
    BY <1>2 DEF FileListStartOrStop
  <2> QED
    BY <1>c, <2>1
<1>3. CASE LoadCancel
  <2>1. UNCHANGED queues
    BY <1>3 DEF LoadCancel
  <2> QED
    BY <1>c, <2>1
<1>4. CASE LoadEnded
  <2>1. UNCHANGED queues
    BY <1>4 DEF LoadEnded
  <2> QED
    BY <1>c, <2>1
<1>5. CASE Stop
  <2>1. UNCHANGED queues
    BY <1>5 DEF Stop
  <2> QED
    BY <1>c, <2>1
<1>6. CASE HighPriorityQueue
  <2>0. This.dir \in Dirs
    BY <1>6, TopIs DEF HighPriorityQueue, Typed
  <2>1. CASE UNCHANGED queues
    BY <1>c, <2>1
  <2>2. CASE ~UNCHANGED queues
    <3> DEFINE f == Head(high[This.dir])
    <3>1. PassedOn(high, low, high', low', This.dir) /\ extension' = extension /\ ~IsNeedy(f, "info")
      BY <1>6, <1>0, <2>0, <2>2 DEF HighPriorityQueue, QueuesTyped, PassedOn
    <3>2. \A g : /\ Holds(high, e0, g) <=> Holds(high', e0, g) \/ (e0 = This.dir /\ g = f)
                 /\ Holds(low', e0, g) <=> Holds(low, e0, g) \/ (e0 = This.dir /\ g = f)
      BY <1>0, <3>1, PassedOnFacts
    <3> HIDE DEF f
    <3>3. f0 = f => k0 # "info"
      BY <3>1
    <3> QED
      BY <1>a, <1>b, <3>1, <3>2, <3>3
  <2> QED
    BY <2>1, <2>2
<1>7. CASE LowPriorityQueue
  <2>0. This.dir \in Dirs
    BY <1>7, TopIs DEF LowPriorityQueue, Typed
  <2>1. CASE UNCHANGED queues
    BY <1>c, <2>1
  <2>2. CASE ~UNCHANGED queues
    <3> DEFINE f == Head(low[This.dir])
    <3>1. PassedOn(low, extension, low', extension', This.dir) /\ high' = high
      BY <1>7, <1>0, <2>0, <2>2 DEF LowPriorityQueue, QueuesTyped, PassedOn
    <3>2. \A k \in Low : ~IsNeedy(f, k)
      BY <1>7, <2>2 DEF LowPriorityQueue
    <3>3. \A g : /\ Holds(low, e0, g) <=> Holds(low', e0, g) \/ (e0 = This.dir /\ g = f)
                 /\ Holds(extension', e0, g) <=> Holds(extension, e0, g) \/ (e0 = This.dir /\ g = f)
      BY <1>0, <3>1, PassedOnFacts
    <3> HIDE DEF f
    <3>4. f0 = f => k0 \in {"info", "extension"}
      BY <3>2 DEF Low, Kinds
    <3> QED
      BY <1>a, <1>b, <3>1, <3>3, <3>4
  <2> QED
    BY <2>1, <2>2
<1>8. CASE ExtensionQueue
  <2>0. This.dir \in Dirs
    BY <1>8, TopIs DEF ExtensionQueue, Typed
  <2>1. CASE UNCHANGED queues
    BY <1>c, <2>1
  <2>2. CASE ~UNCHANGED queues
    <3> DEFINE f == Head(extension[This.dir])
    <3>1. /\ RemoveFromWorkQueue(This.dir, f) /\ ~IsNeedy(f, "extension")
          /\ high[This.dir] = <<>> /\ low[This.dir] = <<>>
      BY <1>8, <2>2 DEF ExtensionQueue
    <3> HIDE DEF f
    <3>2. \A g : /\ Holds(high', e0, g) <=> Holds(high, e0, g) /\ ~(e0 = This.dir /\ g = f)
                 /\ Holds(low', e0, g) <=> Holds(low, e0, g) /\ ~(e0 = This.dir /\ g = f)
                 /\ Holds(extension', e0, g) <=> Holds(extension, e0, g) /\ ~(e0 = This.dir /\ g = f)
      BY <1>0, <2>0, <3>1, RemovedFacts
    <3>3. e0 = This.dir => ~Holds(high, e0, f0) /\ ~Holds(low, e0, f0)
      BY <3>1 DEF Holds, Queued
    <3>4. f0 = f => k0 # "extension"
      BY <3>1
    <3> QED
      BY <1>a, <1>b, <3>2, <3>3, <3>4
  <2> QED
    BY <2>1, <2>2
<1>9. CASE QueuesEmpty
  <2>1. UNCHANGED queues
    BY <1>9 DEF QueuesEmpty
  <2> QED
    BY <1>c, <2>1
<1>10. CASE CallReadyCallbacks
  <2>1. UNCHANGED queues
    BY <1>10 DEF CallReadyCallbacks
  <2> QED
    BY <1>c, <2>1
<1>11. CASE WakeUp
  <2>1. UNCHANGED queues
    BY <1>11 DEF WakeUp
  <2> QED
    BY <1>c, <2>1
<1>12. CASE Waking
  <2>1. UNCHANGED queues
    BY <1>12 DEF Waking
  <2> QED
    BY <1>c, <2>1
<1>13. CASE Told
  <2>1. UNCHANGED queues
    BY <1>13 DEF Told
  <2> QED
    BY <1>c, <2>1
<1>14. CASE Invalidate
  <2>1. CASE UNCHANGED queues
    BY <1>c, <2>1
  <2>2. CASE ~UNCHANGED queues
    BY <1>14, <2>2, InvalidateOn, <1>0, RemovedFacts, <1>a, <1>b DEF Invalidate, CancelLoadingFileAttributes, Redone
  <2> QED
    BY <2>1, <2>2
<1>15. CASE Cancelled
  BY <1>15, CancelledStack, <1>0, AddedFacts, <1>d DEF Cancelled
<1>16. CASE Reload
  <2>1. UNCHANGED queues
    BY <1>16 DEF Reload
  <2> QED
    BY <1>c, <2>1
<1>17. CASE Unloaded
  <2>1. UNCHANGED queues
    BY <1>17 DEF Unloaded
  <2> QED
    BY <1>c, <2>1
<1>18. CASE Reloaded
  BY <1>18, ReloadedStack, <1>0, AddedAllFacts, <1>d DEF Reloaded
<1>19. ASSUME NEW m \in Monitors, MonitorAdd(m) PROVE HasTurn(directory[f0], f0, k0)' \/ Redone(todo', f0, directory[f0])
  <2>1. Place(m) \in Dirs /\ At[m] \in Dirs /\ About[m] \in Files \cup {AllFiles}
    BY PlaceTyped
  <2>2. /\ low' = low /\ extension' = extension
        /\ \A g : Holds(high, e0, g) => Holds(high', e0, g)
    <3>1. CASE About[m] = AllFiles
      BY <1>19, <3>1, <1>0, <2>1, AddedAllFacts DEF MonitorAdd
    <3>2. CASE About[m] # AllFiles
      BY <1>19, <2>1, <3>2, <1>0, AddedFacts DEF MonitorAdd
    <3> QED
      BY <3>1, <3>2
  <2> QED
    BY <1>d, <2>2
<1>20. ASSUME NEW m \in Monitors, MonitorRemove(m) PROVE HasTurn(directory[f0], f0, k0)' \/ Redone(todo', f0, directory[f0])
  <2>1. UNCHANGED queues
    BY <1>20 DEF MonitorRemove
  <2> QED
    BY <1>c, <2>1
<1>21. ASSUME NEW c \in Callbacks, CallWhenReady(c) PROVE HasTurn(directory[f0], f0, k0)' \/ Redone(todo', f0, directory[f0])
  <2>1. Place(c) \in Dirs /\ At[c] \in Dirs /\ About[c] \in Files \cup {AllFiles}
    BY PlaceTyped
  <2>2. /\ low' = low /\ extension' = extension
        /\ \A g : Holds(high, e0, g) => Holds(high', e0, g)
    <3>1. CASE About[c] = AllFiles
      BY <1>21, <3>1, <1>0, <2>1, AddedAllFacts DEF CallWhenReady
    <3>2. CASE About[c] # AllFiles
      BY <1>21, <2>1, <3>2, <1>0, AddedFacts DEF CallWhenReady
    <3> QED
      BY <3>1, <3>2
  <2> QED
    BY <1>d, <2>2
<1>22. ASSUME NEW c \in Callbacks, CancelCallback(c) PROVE HasTurn(directory[f0], f0, k0)' \/ Redone(todo', f0, directory[f0])
  <2>1. UNCHANGED queues
    BY <1>22 DEF CancelCallback
  <2> QED
    BY <1>c, <2>1
<1>23. ASSUME NEW f \in Files, NotifyFileChanged(f) PROVE HasTurn(directory[f0], f0, k0)' \/ Redone(todo', f0, directory[f0])
  BY <1>23, DirectoryTyped, <1>0, AddedFacts, <1>d DEF NotifyFileChanged
<1>24. ASSUME NEW f \in Files, NotifyFileRemoved(f) PROVE HasTurn(directory[f0], f0, k0)' \/ Redone(todo', f0, directory[f0])
  BY <1>0, <1>24, PutBackFacts, <1>a, <1>b DEF NotifyFileRemoved
<1>25. ASSUME NEW f \in Files, InvalidateFile(f, AllAttributes) PROVE HasTurn(directory[f0], f0, k0)' \/ Redone(todo', f0, directory[f0])
  BY <1>25, InvalidateFileOn, <1>0, RemovedFacts, <1>a, <1>b DEF InvalidateFile, CancelLoadingFileAttributes, Redone
<1>26. ASSUME NEW d \in Dirs, ForceReload(d) PROVE HasTurn(directory[f0], f0, k0)' \/ Redone(todo', f0, directory[f0])
  <2>1. UNCHANGED queues
    BY <1>26 DEF ForceReload
  <2> QED
    BY <1>c, <2>1
<1>27. ASSUME NEW d \in Dirs, NEW k \in Kinds, Answer(d, k) PROVE HasTurn(directory[f0], f0, k0)' \/ Redone(todo', f0, directory[f0])
  <2>1. CASE UNCHANGED queues
    BY <1>c, <2>1
  <2>2. CASE ~UNCHANGED queues
    <3>1. PICK o \in ops : o.kind # "list" /\ MarkGone(directory[o.file], {o.file})
      BY <1>27, <2>2 DEF Answer
    <3>2. directory[o.file] \in Dirs
      BY <3>1, DirectoryTyped DEF Typed, JobsTyped
    <3>3. \A g : /\ Holds(high', e0, g) <=> Holds(high, e0, g) /\ ~(e0 = directory[o.file] /\ g \in {o.file})
                 /\ Holds(low', e0, g) <=> Holds(low, e0, g) /\ ~(e0 = directory[o.file] /\ g \in {o.file})
                 /\ Holds(extension', e0, g) <=> Holds(extension, e0, g) /\ ~(e0 = directory[o.file] /\ g \in {o.file})
      BY <1>0, <3>1, <3>2, MarkedGoneFacts
    <3>4. f0 \notin {o.file}
      BY <1>0, <3>1 DEF MarkGone
    <3> QED
      BY <1>a, <1>b, <3>3, <3>4
  <2> QED
    BY <2>1, <2>2
<1>28. ASSUME NEW d \in Dirs, DirectoryLoadDone(d) PROVE HasTurn(directory[f0], f0, k0)' \/ Redone(todo', f0, directory[f0])
  <2>1. PICK missing : MarkGone(d, missing)
    BY <1>28 DEF DirectoryLoadDone
  <2>2. \A g : /\ Holds(high', e0, g) <=> Holds(high, e0, g) /\ ~(e0 = d /\ g \in missing)
               /\ Holds(low', e0, g) <=> Holds(low, e0, g) /\ ~(e0 = d /\ g \in missing)
               /\ Holds(extension', e0, g) <=> Holds(extension, e0, g) /\ ~(e0 = d /\ g \in missing)
    BY <1>0, <2>1, MarkedGoneFacts
  <2>3. f0 \notin missing
    BY <1>0, <2>1 DEF MarkGone
  <2> QED
    BY <1>a, <1>b, <2>2, <2>3
<1>29. ASSUME NEW d \in Dirs, CallReadyCallbacksAtIdle(d) PROVE HasTurn(directory[f0], f0, k0)' \/ Redone(todo', f0, directory[f0])
  <2>1. UNCHANGED queues
    BY <1>29 DEF CallReadyCallbacksAtIdle
  <2> QED
    BY <1>c, <2>1
<1>30. ASSUME NEW d \in Dirs, DirectoryReads(d) PROVE HasTurn(directory[f0], f0, k0)' \/ Redone(todo', f0, directory[f0])
  <2>1. UNCHANGED queues
    BY <1>30 DEF DirectoryReads
  <2> QED
    BY <1>c, <2>1
<1> QED
  BY StepsAre, <1>1, <1>2, <1>3, <1>4, <1>5, <1>6, <1>7, <1>8, <1>9, <1>10, <1>11, <1>12, <1>13, <1>14, <1>15, <1>16, <1>17, <1>18, <1>19, <1>20, <1>21, <1>22, <1>23, <1>24, <1>25, <1>26, <1>27, <1>28, <1>29, <1>30

\* What is fetched for a need is fetched on, or asked for again.
LEMMA FetchStays ==
  ASSUME Typed, OpsPlaced, Next, "Moved" \notin Changes, NEW f0 \in Files, NEW k0 \in Kinds \ {"count"},
         IsNeedy(f0, k0), Lacks(f0, k0)', Fetching(f0, k0)
  PROVE  Fetching(f0, k0)' \/ Redone(todo', f0, directory[f0])
<1>0. JobsTyped /\ upToDate \in [Files -> SUBSET Kinds]
  BY DEF Typed, FilesTyped
<1>a. PICK o0 \in ops : o0.file = f0 /\ o0.kind = k0 /\ o0.live /\ o0.dir = directory[f0] /\ k0 # "list"
  BY DEF Fetching, OpsPlaced, Kinds
<1>b. ASSUME ops \subseteq ops' PROVE Fetching(f0, k0)'
  BY <1>a, <1>b DEF Fetching
<1>c. ASSUME NEW S, NEW T, CancelJobs(S, T), o0 \notin S PROVE Fetching(f0, k0)'
  <2>1. \E p \in ops' : p.dir = o0.dir /\ p.kind = o0.kind /\ p.file = o0.file /\ p.live = (o0.live /\ o0 \notin S)
    BY <1>0, <1>a, <1>c, CancelledOps
  <2> QED
    BY <1>a, <1>c, <2>1 DEF Fetching
<1>1. CASE StateChanged
  <2>1. ops \subseteq ops'
    BY <1>1 DEF StateChanged, jobVars
  <2> QED
    BY <1>b, <2>1
<1>2. CASE FileListStartOrStop
  <2>1. ops \subseteq ops'
    BY <1>2 DEF FileListStartOrStop, jobVars
  <2> QED
    BY <1>b, <2>1
<1>3. CASE LoadCancel
  <2>1. ops \subseteq ops'
    BY <1>3 DEF LoadCancel, jobVars
  <2> QED
    BY <1>b, <2>1
<1>4. CASE LoadEnded
  BY <1>4, <1>a DEF LoadEnded, Fetching
<1>5. CASE Stop
  <2>1. CASE UNCHANGED jobVars
    BY <1>b, <2>1 DEF jobVars
  <2>2. CASE ~UNCHANGED jobVars
    <3>1. PICK S : CancelJobs(S, {}) /\ \A o \in S : ~IsNeedy(o.file, o.kind)
      BY <1>5, <2>2 DEF Stop
    <3> QED
      BY <1>a, <1>c, <3>1
  <2> QED
    BY <2>1, <2>2
<1>6. CASE HighPriorityQueue
  <2>1. ops \subseteq ops'
    BY <1>6 DEF HighPriorityQueue, StartJobs, jobVars
  <2> QED
    BY <1>b, <2>1
<1>7. CASE LowPriorityQueue
  <2>1. ops \subseteq ops'
    BY <1>7 DEF LowPriorityQueue, StartJobs, jobVars
  <2> QED
    BY <1>b, <2>1
<1>8. CASE ExtensionQueue
  <2>1. ops \subseteq ops'
    BY <1>8 DEF ExtensionQueue, StartJobs, jobVars
  <2> QED
    BY <1>b, <2>1
<1>9. CASE QueuesEmpty
  <2>1. ops \subseteq ops'
    BY <1>9 DEF QueuesEmpty, jobVars
  <2> QED
    BY <1>b, <2>1
<1>10. CASE CallReadyCallbacks
  <2>1. ops \subseteq ops'
    BY <1>10 DEF CallReadyCallbacks, jobVars
  <2> QED
    BY <1>b, <2>1
<1>11. CASE WakeUp
  <2>1. ops \subseteq ops'
    BY <1>11 DEF WakeUp, jobVars
  <2> QED
    BY <1>b, <2>1
<1>12. CASE Waking
  <2>1. ops \subseteq ops'
    BY <1>12 DEF Waking
  <2> QED
    BY <1>b, <2>1
<1>13. CASE Told
  <2>1. ops \subseteq ops'
    BY <1>13 DEF Told, jobVars
  <2> QED
    BY <1>b, <2>1
<1>14. CASE Invalidate
  <2>1. CASE UNCHANGED jobVars
    BY <1>b, <2>1 DEF jobVars
  <2>2. CASE ~UNCHANGED jobVars
    <3> DEFINE S == {o \in Fetches({This.file}, This.set \ {"extension"}) : o.dir = directory[This.file]}
               T == Outdated({This.file}, This.set)
    <3>1. CancelJobs(S, T) /\ This.file # NoFile
      BY <1>14, <2>2 DEF Invalidate, CancelLoadingFileAttributes
    <3>2. \A o \in S : o.file = This.file
      BY DEF Fetches
    <3> HIDE DEF S, T
    <3>3. Requeued(todo', This.file)
      BY <1>14, <3>1, InvalidateOn
    <3> QED
      BY <1>a, <1>c, <3>1, <3>2, <3>3 DEF Redone
  <2> QED
    BY <2>1, <2>2
<1>15. CASE Cancelled
  <2>1. ops \subseteq ops'
    BY <1>15 DEF Cancelled, jobVars
  <2> QED
    BY <1>b, <2>1
<1>16. CASE Reload
  <2>1. ops \subseteq ops'
    BY <1>16 DEF Reload, jobVars
  <2> QED
    BY <1>b, <2>1
<1>17. CASE Unloaded
  <2>1. ops \subseteq ops'
    BY <1>17 DEF Unloaded, jobVars
  <2> QED
    BY <1>b, <2>1
<1>18. CASE Reloaded
  <2>1. ops \subseteq ops'
    BY <1>18 DEF Reloaded, jobVars
  <2> QED
    BY <1>b, <2>1
<1>19. ASSUME NEW m \in Monitors, MonitorAdd(m) PROVE Fetching(f0, k0)' \/ Redone(todo', f0, directory[f0])
  <2>1. ops \subseteq ops'
    BY <1>19 DEF MonitorAdd, jobVars
  <2> QED
    BY <1>b, <2>1
<1>20. ASSUME NEW m \in Monitors, MonitorRemove(m) PROVE Fetching(f0, k0)' \/ Redone(todo', f0, directory[f0])
  <2>1. ops \subseteq ops'
    BY <1>20 DEF MonitorRemove, jobVars
  <2> QED
    BY <1>b, <2>1
<1>21. ASSUME NEW c \in Callbacks, CallWhenReady(c) PROVE Fetching(f0, k0)' \/ Redone(todo', f0, directory[f0])
  <2>1. ops \subseteq ops'
    BY <1>21 DEF CallWhenReady, jobVars
  <2> QED
    BY <1>b, <2>1
<1>22. ASSUME NEW c \in Callbacks, CancelCallback(c) PROVE Fetching(f0, k0)' \/ Redone(todo', f0, directory[f0])
  <2>1. ops \subseteq ops'
    BY <1>22 DEF CancelCallback, jobVars
  <2> QED
    BY <1>b, <2>1
<1>23. ASSUME NEW f \in Files, NotifyFileChanged(f) PROVE Fetching(f0, k0)' \/ Redone(todo', f0, directory[f0])
  <2>1. PICK T : CancelJobs({}, T)
    BY <1>23 DEF NotifyFileChanged
  <2> QED
    BY <1>c, <2>1
<1>24. ASSUME NEW f \in Files, NotifyFileRemoved(f) PROVE Fetching(f0, k0)' \/ Redone(todo', f0, directory[f0])
  <2>1. ops \subseteq ops'
    BY <1>24 DEF NotifyFileRemoved, jobVars
  <2> QED
    BY <1>b, <2>1
<1>25. ASSUME NEW f \in Files, InvalidateFile(f, AllAttributes) PROVE Fetching(f0, k0)' \/ Redone(todo', f0, directory[f0])
  <2> DEFINE S == {o \in Fetches({f}, AllAttributes \ {"extension"}) : o.dir = directory[f]}
             T == Outdated({f}, AllAttributes)
  <2>1. CancelJobs(S, T)
    BY <1>25 DEF InvalidateFile, CancelLoadingFileAttributes
  <2>2. \A o \in S : o.file = f
    BY DEF Fetches
  <2> HIDE DEF S, T
  <2>3. Requeued(todo', f)
    BY <1>25, InvalidateFileOn
  <2> QED
    BY <1>a, <1>c, <2>1, <2>2, <2>3 DEF Redone
<1>26. ASSUME NEW d \in Dirs, ForceReload(d) PROVE Fetching(f0, k0)' \/ Redone(todo', f0, directory[f0])
  <2> DEFINE S == {o \in ops : o.dir = d /\ o.kind \in AllAttributes}
             T == Outdated(FileList(d), AllAttributes)
  <2>1. CancelJobs(S, T)
    BY <1>26 DEF ForceReload
  <2>2. \A o \in S : o.dir = d
    OBVIOUS
  <2> HIDE DEF S, T
  <2>3. More(todo', <<>>, {<<"state changed", d>>, <<"reload", d>>})
    BY <1>26, ForceReloadOn
  <2>4. On(todo', "reload", d)
    BY <2>3, MoreTwo
  <2> QED
    BY <1>a, <1>c, <2>1, <2>2, <2>4 DEF Redone
<1>27. ASSUME NEW d \in Dirs, NEW k \in Kinds, Answer(d, k) PROVE Fetching(f0, k0)' \/ Redone(todo', f0, directory[f0])
  <2>1. PICK o \in ops : /\ o.kind = k /\ ops' = ops \ {o}
                         /\ upToDate' = IF o.live THEN [upToDate EXCEPT ![o.file] = @ \cup {k}] ELSE upToDate
    BY <1>27 DEF Answer
  <2>2. CASE o = o0
    <3>1. k0 \in upToDate'[f0]
      BY <1>0, <1>a, <2>1, <2>2
    <3> QED
      BY <3>1 DEF Lacks
  <2>3. CASE o # o0
    BY <1>a, <2>1, <2>3 DEF Fetching
  <2> QED
    BY <2>2, <2>3
<1>28. ASSUME NEW d \in Dirs, DirectoryLoadDone(d) PROVE Fetching(f0, k0)' \/ Redone(todo', f0, directory[f0])
  <2>1. ops \subseteq ops'
    BY <1>28 DEF DirectoryLoadDone, jobVars
  <2> QED
    BY <1>b, <2>1
<1>29. ASSUME NEW d \in Dirs, CallReadyCallbacksAtIdle(d) PROVE Fetching(f0, k0)' \/ Redone(todo', f0, directory[f0])
  <2>1. ops \subseteq ops'
    BY <1>29 DEF CallReadyCallbacksAtIdle, jobVars
  <2> QED
    BY <1>b, <2>1
<1>30. ASSUME NEW d \in Dirs, DirectoryReads(d) PROVE Fetching(f0, k0)' \/ Redone(todo', f0, directory[f0])
  <2>1. ops \subseteq ops'
    BY <1>30 DEF DirectoryReads, jobVars
  <2> QED
    BY <1>b, <2>1
<1> QED
  BY StepsAre, <1>1, <1>2, <1>3, <1>4, <1>5, <1>6, <1>7, <1>8, <1>9, <1>10, <1>11, <1>12, <1>13, <1>14, <1>15, <1>16, <1>17, <1>18, <1>19, <1>20, <1>21, <1>22, <1>23, <1>24, <1>25, <1>26, <1>27, <1>28, <1>29, <1>30

\* The calls that have files queued again.
RedoCall(x) == x \in {"cancelled", "reload", "unloaded", "reloaded"}

LEMMA CalmCallsRedo ==
  /\ ~RedoCall("state changed") /\ ~RedoCall("file list") /\ ~RedoCall("stop") /\ ~RedoCall("queues")
  /\ ~RedoCall("ready") /\ ~RedoCall("load cancel") /\ ~RedoCall("load ended") /\ ~RedoCall("wake up")
  /\ ~RedoCall("waking") /\ ~RedoCall("told") /\ ~RedoCall("invalidate")
BY DEF RedoCall

LEMMA CalmRedo ==
  ASSUME StackStays, NEW x, Running(x), ~RedoCall(x)
  PROVE  \A f, e : Redone(todo, f, e) => Redone(todo', f, e)
<1>1. This.do = x
  BY DEF Running, This
<1> QED
  BY <1>1 DEF StackStays, Redone, RedoCall

LEMMA RedoStays ==
  ASSUME Typed, Listed, Next, "Moved" \notin Changes, NEW f0 \in Files, f0 \notin gone'
  PROVE  Redone(todo, f0, directory[f0]) => Redone(todo', f0, directory[f0]) \/ Holds(high', directory[f0], f0)
<1>0. StackStays /\ QueuesTyped /\ f0 \notin gone' /\ directory[f0] \in Dirs
  BY StackStaysNext, DirectoryTyped DEF Typed
<1>a. ASSUME todo = <<>> PROVE ~Redone(todo, f0, directory[f0])
  BY <1>a, NothingOn DEF Redone
<1>1. CASE StateChanged
  <2>1. Running("state changed")
    BY <1>1 DEF StateChanged
  <2> QED
    BY <1>0, <2>1, CalmRedo, CalmCallsRedo
<1>2. CASE FileListStartOrStop
  <2>1. Running("file list")
    BY <1>2 DEF FileListStartOrStop
  <2> QED
    BY <1>0, <2>1, CalmRedo, CalmCallsRedo
<1>3. CASE LoadCancel
  <2>1. Running("load cancel")
    BY <1>3 DEF LoadCancel
  <2> QED
    BY <1>0, <2>1, CalmRedo, CalmCallsRedo
<1>4. CASE LoadEnded
  <2>1. Running("load ended")
    BY <1>4 DEF LoadEnded
  <2> QED
    BY <1>0, <2>1, CalmRedo, CalmCallsRedo
<1>5. CASE Stop
  <2>1. Running("stop")
    BY <1>5 DEF Stop
  <2> QED
    BY <1>0, <2>1, CalmRedo, CalmCallsRedo
<1>6. CASE HighPriorityQueue
  <2>1. Running("queues")
    BY <1>6 DEF HighPriorityQueue
  <2> QED
    BY <1>0, <2>1, CalmRedo, CalmCallsRedo
<1>7. CASE LowPriorityQueue
  <2>1. Running("queues")
    BY <1>7 DEF LowPriorityQueue
  <2> QED
    BY <1>0, <2>1, CalmRedo, CalmCallsRedo
<1>8. CASE ExtensionQueue
  <2>1. Running("queues")
    BY <1>8 DEF ExtensionQueue
  <2> QED
    BY <1>0, <2>1, CalmRedo, CalmCallsRedo
<1>9. CASE QueuesEmpty
  <2>1. Running("queues")
    BY <1>9 DEF QueuesEmpty
  <2> QED
    BY <1>0, <2>1, CalmRedo, CalmCallsRedo
<1>10. CASE CallReadyCallbacks
  <2>1. Running("ready")
    BY <1>10 DEF CallReadyCallbacks
  <2> QED
    BY <1>0, <2>1, CalmRedo, CalmCallsRedo
<1>11. CASE WakeUp
  <2>1. Running("wake up")
    BY <1>11 DEF WakeUp
  <2> QED
    BY <1>0, <2>1, CalmRedo, CalmCallsRedo
<1>12. CASE Waking
  <2>1. Running("waking")
    BY <1>12 DEF Waking
  <2> QED
    BY <1>0, <2>1, CalmRedo, CalmCallsRedo
<1>13. CASE Told
  <2>1. Running("told")
    BY <1>13 DEF Told
  <2> QED
    BY <1>0, <2>1, CalmRedo, CalmCallsRedo
<1>14. CASE Invalidate
  <2>1. Running("invalidate")
    BY <1>14 DEF Invalidate
  <2> QED
    BY <1>0, <2>1, CalmRedo, CalmCallsRedo
<1>15. CASE Cancelled
  <2>1. This.do = "cancelled" /\ AddToWorkQueue(directory[This.file], This.file)
    BY <1>15 DEF Cancelled, Running, This
  <2>2. This.file \in Files /\ directory[This.file] \in Dirs
    BY <1>15, CancelledStack
  <2>3. CASE f0 = This.file
    BY <1>0, <2>1, <2>2, <2>3, AddedFacts
  <2>4. CASE f0 # This.file
    BY <1>0, <2>1, <2>4 DEF StackStays, Redone
  <2> QED
    BY <2>3, <2>4
<1>16. CASE Reload
  <2>1. This.do = "reload"
    BY <1>16 DEF Reload, Running, This
  <2>2. More(todo', Rest, {<<"load cancel", This.dir>>, <<"unloaded", This.dir>>})
    BY <1>16, ReloadOn
  <2>3. On(todo', "unloaded", This.dir)
    BY <2>2, MoreTwo
  <2>4. CASE directory[f0] = This.dir
    BY <2>3, <2>4 DEF Redone
  <2>5. CASE directory[f0] # This.dir
    BY <1>0, <2>1, <2>5 DEF StackStays, Redone
  <2> QED
    BY <2>4, <2>5
<1>17. CASE Unloaded
  <2>1. This.do = "unloaded"
    BY <1>17 DEF Unloaded, Running, This
  <2>2. More(todo', Rest, {<<"invalidate", This.dir>>, <<"reloaded", This.dir>>})
    BY <1>17, UnloadedOn
  <2>3. On(todo', "reloaded", This.dir)
    BY <2>2, MoreTwo
  <2>4. CASE directory[f0] = This.dir
    BY <2>3, <2>4 DEF Redone
  <2>5. CASE directory[f0] # This.dir
    BY <1>0, <2>1, <2>5 DEF StackStays, Redone
  <2> QED
    BY <2>4, <2>5
<1>18. CASE Reloaded
  <2>1. This.do = "reloaded" /\ AddAllToWorkQueue(This.dir) /\ gone' = gone
    BY <1>18 DEF Reloaded, Running, This, files
  <2>2. This.dir \in Dirs
    BY <1>18, ReloadedStack
  <2>3. CASE directory[f0] = This.dir
    BY <1>0, <2>1, <2>3, <2>2, AddedAllFacts DEF FileList
  <2>4. CASE directory[f0] # This.dir
    BY <1>0, <2>1, <2>4 DEF StackStays, Redone
  <2> QED
    BY <2>3, <2>4
<1>19. ASSUME NEW m \in Monitors, MonitorAdd(m) PROVE Redone(todo, f0, directory[f0]) => Redone(todo', f0, directory[f0]) \/ Holds(high', directory[f0], f0)
  <2>1. todo = <<>>
    BY <1>19 DEF MonitorAdd, Ask, MainLoop
  <2> QED
    BY <1>a, <2>1
<1>20. ASSUME NEW m \in Monitors, MonitorRemove(m) PROVE Redone(todo, f0, directory[f0]) => Redone(todo', f0, directory[f0]) \/ Holds(high', directory[f0], f0)
  <2>1. todo = <<>>
    BY <1>20 DEF MonitorRemove, Ask, MainLoop
  <2> QED
    BY <1>a, <2>1
<1>21. ASSUME NEW c \in Callbacks, CallWhenReady(c) PROVE Redone(todo, f0, directory[f0]) => Redone(todo', f0, directory[f0]) \/ Holds(high', directory[f0], f0)
  <2>1. todo = <<>>
    BY <1>21 DEF CallWhenReady, Ask, MainLoop
  <2> QED
    BY <1>a, <2>1
<1>22. ASSUME NEW c \in Callbacks, CancelCallback(c) PROVE Redone(todo, f0, directory[f0]) => Redone(todo', f0, directory[f0]) \/ Holds(high', directory[f0], f0)
  <2>1. todo = <<>>
    BY <1>22 DEF CancelCallback, Ask, MainLoop
  <2> QED
    BY <1>a, <2>1
<1>23. ASSUME NEW f \in Files, NotifyFileChanged(f) PROVE Redone(todo, f0, directory[f0]) => Redone(todo', f0, directory[f0]) \/ Holds(high', directory[f0], f0)
  <2>1. todo = <<>>
    BY <1>23 DEF NotifyFileChanged, Ask, MainLoop
  <2> QED
    BY <1>a, <2>1
<1>24. ASSUME NEW f \in Files, NotifyFileRemoved(f) PROVE Redone(todo, f0, directory[f0]) => Redone(todo', f0, directory[f0]) \/ Holds(high', directory[f0], f0)
  <2>1. todo = <<>>
    BY <1>24 DEF NotifyFileRemoved, Ask, MainLoop
  <2> QED
    BY <1>a, <2>1
<1>25. ASSUME NEW f \in Files, InvalidateFile(f, AllAttributes) PROVE Redone(todo, f0, directory[f0]) => Redone(todo', f0, directory[f0]) \/ Holds(high', directory[f0], f0)
  <2>1. todo = <<>>
    BY <1>25 DEF InvalidateFile, Ask, MainLoop
  <2> QED
    BY <1>a, <2>1
<1>26. ASSUME NEW d \in Dirs, ForceReload(d) PROVE Redone(todo, f0, directory[f0]) => Redone(todo', f0, directory[f0]) \/ Holds(high', directory[f0], f0)
  <2>1. todo = <<>>
    BY <1>26 DEF ForceReload, Ask, MainLoop
  <2> QED
    BY <1>a, <2>1
<1>27. ASSUME NEW d \in Dirs, NEW k \in Kinds, Answer(d, k) PROVE Redone(todo, f0, directory[f0]) => Redone(todo', f0, directory[f0]) \/ Holds(high', directory[f0], f0)
  <2>1. todo = <<>>
    BY <1>27 DEF Answer, MainLoop
  <2> QED
    BY <1>a, <2>1
<1>28. ASSUME NEW d \in Dirs, DirectoryLoadDone(d) PROVE Redone(todo, f0, directory[f0]) => Redone(todo', f0, directory[f0]) \/ Holds(high', directory[f0], f0)
  <2>1. todo = <<>>
    BY <1>28 DEF DirectoryLoadDone, MainLoop
  <2> QED
    BY <1>a, <2>1
<1>29. ASSUME NEW d \in Dirs, CallReadyCallbacksAtIdle(d) PROVE Redone(todo, f0, directory[f0]) => Redone(todo', f0, directory[f0]) \/ Holds(high', directory[f0], f0)
  <2>1. todo = <<>>
    BY <1>29 DEF CallReadyCallbacksAtIdle, MainLoop
  <2> QED
    BY <1>a, <2>1
<1>30. ASSUME NEW d \in Dirs, DirectoryReads(d) PROVE Redone(todo, f0, directory[f0]) => Redone(todo', f0, directory[f0]) \/ Holds(high', directory[f0], f0)
  <2>1. todo = <<>>
    BY <1>30 DEF DirectoryReads, MainLoop
  <2> QED
    BY <1>a, <2>1
<1> QED
  BY StepsAre, <1>1, <1>2, <1>3, <1>4, <1>5, <1>6, <1>7, <1>8, <1>9, <1>10, <1>11, <1>12, <1>13, <1>14, <1>15, <1>16, <1>17, <1>18, <1>19, <1>20, <1>21, <1>22, <1>23, <1>24, <1>25, <1>26, <1>27, <1>28, <1>29, <1>30

\* Nobody comes back from being gone.
LEMMA GoneStays ==
  ASSUME Typed, Next, "Moved" \notin Changes
  PROVE  gone \subseteq gone'
<1>1. CASE StateChanged
  BY <1>1 DEF StateChanged, files
<1>2. CASE FileListStartOrStop
  BY <1>2 DEF FileListStartOrStop
<1>3. CASE LoadCancel
  BY <1>3 DEF LoadCancel
<1>4. CASE LoadEnded
  BY <1>4 DEF LoadEnded, files
<1>5. CASE Stop
  BY <1>5 DEF Stop, files
<1>6. CASE HighPriorityQueue
  BY <1>6 DEF HighPriorityQueue, files
<1>7. CASE LowPriorityQueue
  BY <1>7 DEF LowPriorityQueue
<1>8. CASE ExtensionQueue
  BY <1>8 DEF ExtensionQueue
<1>9. CASE QueuesEmpty
  BY <1>9 DEF QueuesEmpty, files
<1>10. CASE CallReadyCallbacks
  BY <1>10 DEF CallReadyCallbacks, files
<1>11. CASE WakeUp
  BY <1>11 DEF WakeUp, files
<1>12. CASE Waking
  BY <1>12 DEF Waking, files
<1>13. CASE Told
  BY <1>13 DEF Told, files
<1>14. CASE Invalidate
  BY <1>14 DEF Invalidate, files
<1>15. CASE Cancelled
  BY <1>15 DEF Cancelled
<1>16. CASE Reload
  BY <1>16 DEF Reload
<1>17. CASE Unloaded
  BY <1>17 DEF Unloaded, files
<1>18. CASE Reloaded
  BY <1>18 DEF Reloaded, files
<1>19. ASSUME NEW m \in Monitors, MonitorAdd(m) PROVE gone \subseteq gone'
  BY <1>19 DEF MonitorAdd, files
<1>20. ASSUME NEW m \in Monitors, MonitorRemove(m) PROVE gone \subseteq gone'
  BY <1>20 DEF MonitorRemove, files
<1>21. ASSUME NEW c \in Callbacks, CallWhenReady(c) PROVE gone \subseteq gone'
  BY <1>21 DEF CallWhenReady, files
<1>22. ASSUME NEW c \in Callbacks, CancelCallback(c) PROVE gone \subseteq gone'
  BY <1>22 DEF CancelCallback, files
<1>23. ASSUME NEW f \in Files, NotifyFileChanged(f) PROVE gone \subseteq gone'
  BY <1>23 DEF NotifyFileChanged
<1>24. ASSUME NEW f \in Files, NotifyFileRemoved(f) PROVE gone \subseteq gone'
  BY <1>24 DEF NotifyFileRemoved
<1>25. ASSUME NEW f \in Files, InvalidateFile(f, AllAttributes) PROVE gone \subseteq gone'
  BY <1>25 DEF InvalidateFile, files
<1>26. ASSUME NEW d \in Dirs, ForceReload(d) PROVE gone \subseteq gone'
  BY <1>26 DEF ForceReload, files
<1>27. ASSUME NEW d \in Dirs, NEW k \in Kinds, Answer(d, k) PROVE gone \subseteq gone'
  BY <1>27 DEF Answer, MarkGone
<1>28. ASSUME NEW d \in Dirs, DirectoryLoadDone(d) PROVE gone \subseteq gone'
  BY <1>28 DEF DirectoryLoadDone, MarkGone
<1>29. ASSUME NEW d \in Dirs, CallReadyCallbacksAtIdle(d) PROVE gone \subseteq gone'
  BY <1>29 DEF CallReadyCallbacksAtIdle, files
<1>30. ASSUME NEW d \in Dirs, DirectoryReads(d) PROVE gone \subseteq gone'
  BY <1>30 DEF DirectoryReads
<1> QED
  BY StepsAre, <1>1, <1>2, <1>3, <1>4, <1>5, <1>6, <1>7, <1>8, <1>9, <1>10, <1>11, <1>12, <1>13, <1>14, <1>15, <1>16, <1>17, <1>18, <1>19, <1>20, <1>21, <1>22, <1>23, <1>24, <1>25, <1>26, <1>27, <1>28, <1>29, <1>30

\* What is needed of a file is fetched, has a turn to come, or the file will be queued again.
SeenTo(f, k) == HasTurn(directory[f], f, k) \/ Fetching(f, k) \/ Redone(todo, f, directory[f])
AllSeenTo == \A f \in Files \ gone, k \in Kinds \ {"count"} : IsNeedy(f, k) => SeenTo(f, k)

LEMMA AllSeenToKept ==
  ASSUME Typed, Listed, OpsPlaced, AllSeenTo, Next, "Moved" \notin Changes
  PROVE  AllSeenTo'
<1>1. directory' = directory /\ gone \subseteq gone'
  BY DirectoryKept, GoneStays
<1>2. ASSUME NEW f \in Files, NEW k \in Kinds \ {"count"}, f \notin gone', IsNeedy(f, k)'
      PROVE  SeenTo(f, k)'
  <2>1. Lacks(f, k)' /\ Wanted(f, k)' /\ f \notin gone
    BY <1>1, <1>2 DEF IsNeedy, LacksNow
  <2>2. CASE Holds(high', directory[f], f)
    BY <1>1, <2>2 DEF SeenTo, HasTurn
  <2>3. CASE Redone(todo', f, directory[f])
    BY <1>1, <2>3 DEF SeenTo
  <2>4. CASE Lacks(f, k) /\ Wanted(f, k)
    <3>1. IsNeedy(f, k)
      BY <2>4 DEF IsNeedy, LacksNow
    <3>2. SeenTo(f, k)
      BY <2>1, <3>1 DEF AllSeenTo
    <3>3. CASE HasTurn(directory[f], f, k)
      BY <1>2, <3>1, <3>3, TurnStays, <2>3 DEF SeenTo
    <3>4. CASE Fetching(f, k)
      BY <2>1, <3>1, <3>4, FetchStays, <2>3 DEF SeenTo
    <3>5. CASE Redone(todo, f, directory[f])
      BY <1>2, <2>2, <2>3, <3>5, RedoStays
    <3> QED
      BY <3>2, <3>3, <3>4, <3>5 DEF SeenTo
  <2> QED
    BY <1>2, <2>1, <2>2, <2>3, <2>4, LackAppears, WantAppears
<1> QED
  BY <1>2 DEF AllSeenTo

-----------------------------------------------------------------------------
(* The invariant                                                           *)

JobsInv ==
  /\ Typed /\ QueuesPlaced /\ OpsPlaced /\ Stacked /\ Listed /\ Counted /\ LoadingTold
  /\ FreshAnswers /\ Attended /\ SlotsFilled /\ OnlyAsked /\ AllSeenTo

LEMMA JobsInvInit ==
  ASSUME Init
  PROVE  JobsInv
<1>1. Typed
  BY TypedInit
<1>2. ops = {} /\ todo = <<>> /\ jobs = 0 /\ ~aborted
  BY DEF Init
<1>3. \A x, d : ~On(todo, x, d)
  BY <1>2, NothingOn
<1>4. QueuesPlaced
  BY DEF Init, QueuesPlaced, Holds, Queued
<1>5. OpsPlaced
  BY <1>2 DEF OpsPlaced
<1>6. Stacked
  <2>1. again = {} /\ inLoop = {} /\ waking = FALSE
    BY DEF Init
  <2>2. Lawful(todo)
    BY <1>2 DEF Lawful
  <2> QED
    BY <1>3, <2>1, <2>2 DEF Stacked, Serving, Looping
<1>7. Listed
  <2>1. monitors = {} /\ (\A c \in Callbacks : calls[c] = "none") /\ monitored = {}
    BY DEF Init
  <2>2. ASSUME NEW d \in Dirs PROVE ListAt(d)
    BY <1>2, <2>1, <1>3 DEF IsAnyoneMonitoringFileList, InProgress, ListAt, LoadOn
  <2> QED
    BY <2>2 DEF Listed
<1>8. Counted
  BY <1>2, FS_EmptySet, JobsAssumption DEF Counted
<1>9. LoadingTold
  <2>1. loading = {}
    BY DEF Init
  <2> QED
    BY <1>2, <2>1 DEF LoadingTold, LoadFor
<1>10. FreshAnswers
  BY DEF Init, FreshAnswers
<1>11. Attended
  BY DEF Init, Queued, Attended, QueueAt, QueueLeft, Holds
<1>12. SlotsFilled
  BY DEF Init, SlotsFilled
<1>13. OnlyAsked
  BY <1>2 DEF OnlyAsked
<1>14. AllSeenTo
  BY DEF Init, IsNeedy, Wanted, AllSeenTo
<1> QED
  BY <1>1, <1>4, <1>5, <1>6, <1>7, <1>8, <1>9, <1>10, <1>11, <1>12, <1>13, <1>14 DEF JobsInv

LEMMA JobsInvNext ==
  ASSUME JobsInv, [Next]_vars, "Moved" \notin Changes
  PROVE  JobsInv'
<1>1. CASE Next
  <2>1. /\ Typed /\ QueuesPlaced /\ OpsPlaced /\ Stacked /\ Listed /\ Counted /\ LoadingTold
        /\ FreshAnswers /\ Attended /\ SlotsFilled /\ OnlyAsked /\ AllSeenTo
    BY DEF JobsInv
  <2>2. Typed' /\ QueuesPlaced' /\ OpsPlaced'
    BY <1>1, <2>1, TypedNext, QueuesPlacedKept, OpsPlacedKept
  <2>3. Stacked' /\ Listed' /\ Counted' /\ LoadingTold'
    BY <1>1, <2>1, StackedKept, ListedKept, CountedKept, LoadingToldKept
  <2>4. FreshAnswers'
    BY <1>1, <2>1, FreshAnswersKept
  <2>5. Attended' /\ SlotsFilled'
    BY <1>1, <2>1, AttendedKept, SlotsFilledKept
  <2>6. OnlyAsked'
    BY <1>1, <2>1, <2>2, <2>3, OnlyAskedKept
  <2>7. AllSeenTo'
    BY <1>1, <2>1, AllSeenToKept
  <2> QED
    BY <2>2, <2>3, <2>4, <2>5, <2>6, <2>7 DEF JobsInv
<1>2. CASE UNCHANGED vars
  <2>1. UNCHANGED <<jobVars, waking, queues, lists, inLoop, again, idle, clients, files, todo, aborted, nrequests>>
    BY <1>2 DEF vars
  <2>2. Typed'
    BY <2>1 DEF JobsInv, Typed, JobsTyped, QueuesTyped, ListsTyped, ClientsTyped, FilesTyped, StackTyped,
                jobVars, queues, lists, clients, files
  <2>3. QueuesPlaced' /\ OpsPlaced' /\ Counted' /\ FreshAnswers'
    BY <2>1 DEF JobsInv, QueuesPlaced, OpsPlaced, Counted, FreshAnswers, Holds, jobVars, queues, files
  <2>4. todo' = todo /\ again' = again /\ inLoop' = inLoop /\ waking' = waking /\ ops' = ops /\ loading' = loading
    BY <2>1 DEF jobVars, files
  <2>5. Stacked' /\ LoadingTold'
    BY <2>4 DEF JobsInv, Stacked, LoadingTold, LoadFor
  <2>6. ASSUME NEW d \in Dirs PROVE ListAt(d)'
    <3>1. ListAt(d)
      BY DEF JobsInv, Listed
    <3>2. IsAnyoneMonitoringFileList(d)' <=> IsAnyoneMonitoringFileList(d)
      BY <2>1 DEF IsAnyoneMonitoringFileList, Place, clients, files
    <3>3. monitored' = monitored /\ loaded' = loaded /\ waiting' = waiting
      BY <2>1 DEF lists, jobVars
    <3> QED
      BY <2>4, <3>1, <3>2, <3>3 DEF ListAt, ListDue, LoadOn, InProgress
  <2>7. Attended' /\ SlotsFilled'
    BY <2>1, <2>4 DEF jobVars, queues, JobsInv, Attended, QueueAt, QueueLeft, SlotsFilled
  <2>8. OnlyAsked'
    <3>1. UNCHANGED <<monitors, calls, listed, directory, gone, upToDate>>
      BY <2>1 DEF clients, files
    <3> QED
      BY <2>4, <3>1 DEF JobsInv, OnlyAsked, Asked, Lacks, Wanted, Includes, LoadLeft, LoadFor
  <2>9. AllSeenTo'
    <3>1. UNCHANGED <<monitors, calls, listed, directory, gone, upToDate, high, low, extension>>
      BY <2>1 DEF clients, files, queues
    <3>2. \A f, k : /\ IsNeedy(f, k)' <=> IsNeedy(f, k)
                    /\ SeenTo(f, k)' <=> SeenTo(f, k)
      BY <2>4, <3>1 DEF IsNeedy, LacksNow, Lacks, Wanted, Includes, SeenTo, HasTurn, Fetching
    <3> QED
      BY <3>1, <3>2 DEF JobsInv, AllSeenTo
  <2> QED
    BY <2>2, <2>3, <2>5, <2>6, <2>7, <2>8, <2>9 DEF JobsInv, Listed
<1> QED
  BY <1>1, <1>2

LEMMA JobsInvHolds ==
  ASSUME "Moved" \notin Changes
  PROVE  Spec => []JobsInv
BY JobsInvInit, JobsInvNext, PTL DEF Spec

-----------------------------------------------------------------------------
(* Theorems: no file is moved to another directory                         *)

\* Every variable of the jobs keeps its type, and there are never more jobs than slots:
\* async_job_start of nautilus-directory-async.c finds async_job_count at most MAX_ASYNC_JOBS.
THEOREM JobsTypeOK ==
  ASSUME "Moved" \notin Changes
  PROVE  Spec => []TypeOK
<1>1. ASSUME JobsInv PROVE TypeOK
  <2>1. jobs \in 0..MaxJobs
    BY <1>1, FS_CardinalityType, JobsAssumption DEF JobsInv, Counted
  <2>2. directory \in [Files -> Dirs]
    BY <1>1, JobsAssumption DEF JobsInv, Typed, FilesTyped
  <2> QED
    BY <1>1, <2>1, <2>2 DEF JobsInv, TypeOK, Typed, JobsTyped, QueuesTyped, ListsTyped, ClientsTyped, FilesTyped, StackTyped
<1> QED
  BY <1>1, JobsInvHolds, PTL

\* The count of jobs is that of the operations in progress, whoever started, cancelled or
\* answered them, one of a kind per directory, and no assertion of the *_stop functions or of
\* file_list_start_or_stop fails.
THEOREM JobsAreCounted ==
  ASSUME "Moved" \notin Changes
  PROVE  Spec => []JobsCounted
<1>1. ASSUME JobsInv PROVE JobsCounted
  BY <1>1 DEF JobsInv, Counted, JobsCounted
<1> QED
  BY <1>1, JobsInvHolds, PTL

\* Whenever the main loop is back, a directory is monitored exactly when somebody wants its
\* list, a list that is monitored is loaded or will be, one that nobody wants is not being
\* loaded, and a file is said to be loading exactly while its directory is.
THEOREM ListsAreServed ==
  ASSUME "Moved" \notin Changes
  PROVE  Spec => []ListServed
<1>1. ASSUME JobsInv, MainLoop PROVE ListServed
  <2>1. todo = <<>> /\ (\A x, d : ~On(todo, x, d)) /\ \A d \in Dirs : ~Held(todo, d)
    BY <1>1, NothingOn DEF MainLoop
  <2>2. again = {}
    BY <1>1, <2>1 DEF JobsInv, Typed, ListsTyped, Stacked, Serving, Looping
  <2>3. ASSUME NEW d \in Dirs
        PROVE  /\ d \in monitored <=> IsAnyoneMonitoringFileList(d)
               /\ d \in monitored => d \in loaded \/ InProgress(d, "list") \/ d \in waiting
               /\ InProgress(d, "list") => d \in monitored
    BY <1>1, <2>1, <2>2 DEF JobsInv, Listed, ListDue, ListAt
  <2>4. loading = {o.file : o \in {p \in ops : p.kind = "list"}} \ {NoFile}
    <3>1. loading \subseteq Files /\ NoFile \notin Files
      BY <1>1, JobsAssumption DEF JobsInv, Typed, FilesTyped
    <3>2. \A o \in ops : o.dir \in Dirs /\ o.file \in Files \cup {NoFile}
      BY <1>1 DEF JobsInv, Typed, JobsTyped, Operations
    <3>3. \A f \in Files : f \in loading <=> \E d \in Dirs : LoadFor(d, f)
      BY <1>1, <2>1 DEF JobsInv, LoadingTold
    <3>4. \A f \in Files : f \in loading <=> \E o \in ops : o.kind = "list" /\ o.file = f
      BY <3>2, <3>3 DEF LoadFor
    <3> QED
      BY <3>1, <3>2, <3>4
  <2> QED
    BY <2>3, <2>4 DEF ListServed
<1>2. JobsInv => ListServed
  BY <1>1 DEF ListServed
<1> QED
  BY <1>2, JobsInvHolds, PTL

\* The answer of a job for a count, a deep count or the file system is not taken when the attribute
\* was invalidated meanwhile: each way to invalidate it cancels the job, and the callback of a
\* cancelled job drops what it read.  Nothing is said of the load of a folder's list, which tells the
\* folder's count and is not cancelled: what is true of that, TLC shows (CountsFresh, refuted).
THEOREM AnswersAreFresh ==
  ASSUME "Moved" \notin Changes
  PROVE  Spec => []FreshAnswers
<1>1. JobsInv => FreshAnswers
  BY DEF JobsInv
<1> QED
  BY <1>1, JobsInvHolds, PTL

\* Whenever the main loop is back, work left in a queue of a directory waits for a fetch of the
\* directory to end or for a slot, and a slot is waited for only while some job has one, so
\* that it is given on.  MAX_ASYNC_JOBS (10 in nautilus-directory-async.c) must exceed one: a
\* load that ends when its idle callback is done wakes up nobody.
THEOREM QueuesAreServed ==
  ASSUME "Moved" \notin Changes, MaxJobs # 1
  PROVE  Spec => []QueueServed
<1>1. ASSUME JobsInv, MainLoop PROVE QueueServed
  <2>1. todo = <<>> /\ \A x, d : ~On(todo, x, d)
    BY <1>1, NothingOn DEF MainLoop
  <2>2. again \cap Dirs = {}
    BY <1>1, <2>1, IdleServing DEF JobsInv
  <2>3. ASSUME NEW d \in Dirs, high[d] # <<>> \/ low[d] # <<>> \/ extension[d] # <<>>
        PROVE  d \in waiting \/ \E o \in ops : o.dir = d /\ o.kind # "list"
    <3>1. QueueLeft(d)
      BY <1>1, <2>3, HeadHeld DEF JobsInv, Typed, QueuesTyped, QueueLeft
    <3>2. ~QueueDue(todo, again, d)
      BY <2>1, <2>2 DEF QueueDue
    <3> QED
      BY <1>1, <3>1, <3>2 DEF JobsInv, Attended, QueueAt, Working
  <2>4. waiting # {} => ops # {}
    BY <2>1, <1>1, JobsAssumption, FS_CardinalityType, FS_EmptySet DEF Woken, JobsInv, Counted, SlotsFilled
  <2> QED
    BY <2>3, <2>4 DEF QueueServed
<1>2. JobsInv => QueueServed
  BY <1>1 DEF QueueServed
<1> QED
  BY <1>2, JobsInvHolds, PTL

\* Whenever the main loop is back, whatever is fetched of a file is not known yet and somebody
\* wants it, although monitors and callbacks come and go while the service loops run, and files
\* are told of meanwhile: each way to stop wanting puts a turn of the loop on the stack.
THEOREM OnlyWantedFetched ==
  ASSUME "Moved" \notin Changes
  PROVE  Spec => []OnlyWanted
<1>1. ASSUME JobsInv, MainLoop PROVE OnlyWanted
  <2>1. todo = <<>> /\ \A x, d : ~On(todo, x, d)
    BY <1>1, NothingOn DEF MainLoop
  <2>2. again \cap Dirs = {}
    BY <1>1, <2>1, IdleServing DEF JobsInv
  <2>3. ASSUME NEW o \in ops, o.kind # "list", o.live
        PROVE  Lacks(o.file, o.kind) /\ Wanted(o.file, o.kind)
    <3>1. o.dir \in Dirs
      BY <1>1 DEF JobsInv, Typed, JobsTyped, Operations
    <3>2. ~StopOn(todo, again, o.dir) /\ ~LoadLeft(o.dir)
      BY <2>1, <2>2, <3>1 DEF StopOn, LoadLeft
    <3> QED
      BY <1>1, <2>3, <3>2 DEF JobsInv, OnlyAsked, Asked
  <2> QED
    BY <2>3 DEF OnlyWanted
<1>2. JobsInv => OnlyWanted
  BY <1>1 DEF OnlyWanted
<1> QED
  BY <1>2, JobsInvHolds, PTL

\* Whenever the main loop is back, what somebody wants of a file that is there, and is not known,
\* is being fetched or the file has a turn in a queue, however it was invalidated, cancelled or
\* reloaded meanwhile. (Counts are another matter: see NeedyUnderway.)
THEOREM WantedIsUnderway ==
  ASSUME "Moved" \notin Changes
  PROVE  Spec => []NeedyUnderway
<1>1. ASSUME JobsInv, MainLoop PROVE NeedyUnderway
  <2>1. todo = <<>>
    BY <1>1 DEF MainLoop
  <2>2. ASSUME NEW f \in Files \ gone, NEW k \in Kinds \ {"count"}, IsNeedy(f, k) PROVE Underway(f, k)
    <3>1. ~Redone(todo, f, directory[f])
      BY <2>1, NothingOn DEF Redone
    <3>2. HasTurn(directory[f], f, k) \/ Fetching(f, k)
      BY <1>1, <2>2, <3>1 DEF JobsInv, AllSeenTo, SeenTo
    <3> QED
      BY <3>2 DEF HasTurn, Holds, Fetching, Underway
  <2> QED
    BY <2>2 DEF NeedyUnderway
<1>2. JobsInv => NeedyUnderway
  BY <1>1 DEF NeedyUnderway
<1> QED
  BY <1>2, JobsInvHolds, PTL
=============================================================================
