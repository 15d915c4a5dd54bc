---------------------------- MODULE WindowsProofs -----------------------------
(* Proofs about Windows, for any windows, styles, desks and commands.                *)
(*                                                                                   *)
(* Handlers are compositions of routines on the record wm. A lemma for each routine  *)
(* says what it keeps, in five strengths: SameWindows (the focus routines), Works    *)
(* (all but AddWindow and Destroy) and Keeps (Works but for what shows), Goes        *)
(* (AddWindow too) and Leads (Destroy too, which keeps the pointers valid unless the *)
(* pointer is on another screen). The lemma of a handler chains those of its         *)
(* routines.                                                                         *)
(*                                                                                   *)
(* What the clients are told runs along: Tells says that WM_STATE is right for some  *)
(* windows or that queued events will make it so, and Informs that a routine keeps   *)
(* that for whatever windows it held of. So does what shows: Sees says that some     *)
(* windows show, or will when fvwm has heard of them, and Reveals that this is kept. *)
EXTENDS Windows, SequenceTheorems, WellFoundedInduction, TLAPS

\* A record with all of wm's fields and no other.
Fields == {"list", "ring", "MAPPED", "MAP_PENDING", "ICONIFIED", "ICON_UNMAPPED", "STICKY", "Desk",
           "FocusDesk", "CurrentDesk", "Focus", "PreviousFocus", "FocusOnNextTimeStamp", "Ungrabbed",
           "Hilite", "mapped", "gone", "frame", "icon", "state", "grab", "xfocus", "away", "held",
           "queue"}
Rec(s) == s = [x \in Fields |-> s[x]]

\* The focus list and the stacking ring: the same windows, each once.
Lists(s) ==
  /\ s.list \in Seq(Windows) /\ s.ring \in Seq(Windows)
  /\ ToSet(s.list) = ToSet(s.ring) /\ IsInjective(s.list) /\ IsInjective(s.ring)

Flags(s) ==
  /\ s.MAPPED \subseteq Windows /\ s.MAP_PENDING \subseteq Windows /\ s.ICONIFIED \subseteq Windows
  /\ s.ICON_UNMAPPED \subseteq Windows /\ s.STICKY \subseteq Windows
  /\ s.Desk \in [Windows -> Desks] /\ s.FocusDesk \in [Windows -> Desks \cup {-1}]
  /\ s.CurrentDesk \in Desks

FocusTypes(s) ==
  /\ s.Focus \in Pointer /\ s.PreviousFocus \in Pointer /\ s.FocusOnNextTimeStamp \in Pointer
  /\ s.Ungrabbed \in Pointer /\ s.Hilite \in Pointer
  /\ s.xfocus \in Pointer \cup {Root} /\ s.queue \in Seq(EventRecord)

ServerTypes(s) ==
  /\ s.mapped \subseteq Windows /\ s.gone \subseteq Windows
  /\ s.frame \subseteq Windows /\ s.icon \subseteq Windows
  /\ s.state \in [Windows -> States] /\ s.away \in BOOLEAN /\ s.held \in BOOLEAN

\* What ClickGrabs says.
Grabs(s) == s.grab = (ClickToFocus \cap Managed(s)) \ {s.Ungrabbed}

Base(s) == Rec(s) /\ Lists(s) /\ Flags(s) /\ FocusTypes(s) /\ ServerTypes(s) /\ Grabs(s)

\* What Intact says.
Valid(s) ==
  {s.Focus, s.PreviousFocus, s.FocusOnNextTimeStamp, s.Ungrabbed, s.Hilite}
    \subseteq Managed(s) \cup {NoWindow}

\* ShownOnce, and which flags a window that shows has.
Shown(s) ==
  /\ \A w \in s.frame \cup s.icon : w \in Managed(s) /\ s.Desk[w] = s.CurrentDesk
  /\ s.icon \subseteq s.ICONIFIED /\ s.frame \cap s.ICONIFIED = {}
  /\ s.frame \subseteq s.MAPPED \cup s.MAP_PENDING

Timed(q) == \E k \in DOMAIN q : q[k].type \in InputEvents \cup CommandTypes

\* What NewTimeStamp says.
Stamped(s) == s.FocusOnNextTimeStamp # NoWindow => Timed(s.queue)

-----------------------------------------------------------------------------
(* Lists                                                                   *)

\* Sets of naturals have a least element.
LEMMA Least ==
  ASSUME NEW T, T \subseteq Nat, T # {}
  PROVE  \E n \in T : \A m \in T : n <= m
<1> DEFINE R == OpToRel(<, Nat)
<1>1. IsWellFoundedOn(R, Nat)
  BY NatLessThanWellFounded
<1>2. \A x, y \in Nat : x < y => <<x, y>> \in R
  BY DEF OpToRel
<1> HIDE DEF R
<1>3. PICK n \in T : \A m \in T : ~ (<<m, n>> \in R)
  BY <1>1, WFMin, Zenon
<1>4. \A m \in T : n <= m
  <2> TAKE m \in T
  <2>1. m \in Nat /\ n \in Nat
    OBVIOUS
  <2>2. ~(m < n)
    BY <2>1, <1>2, <1>3
  <2> QED BY <2>1, <2>2
<1> QED BY <1>4

\* Any set of places of a list can be put in order: by induction on the length.
Increasing(r) == \A i, j \in DOMAIN r : i < j => r[i] < r[j]
Enumerates(K, L) ==
  \E n \in 0..L : \E r \in [1..n -> K] : (\A k \in K : \E i \in 1..n : r[i] = k) /\ Increasing(r)

\* One more place: it is either left out, or it comes last.
LEMMA EnumerateStep ==
  ASSUME NEW L \in Nat, \A K \in SUBSET (1..L) : Enumerates(K, L), NEW K \in SUBSET (1..(L + 1))
  PROVE  Enumerates(K, L + 1)
<1> DEFINE K0 == K \ {L + 1}
<1>1. K0 \in SUBSET (1..L)
  OBVIOUS
<1>2. PICK n \in 0..L : \E r \in [1..n -> K0] : (\A k \in K0 : \E i \in 1..n : r[i] = k) /\ Increasing(r)
  BY <1>1 DEF Enumerates
<1>3. PICK r \in [1..n -> K0] : (\A k \in K0 : \E i \in 1..n : r[i] = k) /\ Increasing(r)
  BY <1>2
<1>4. CASE L + 1 \notin K
  <2>1. K0 = K
    BY <1>4
  <2> QED
    BY <1>3, <2>1 DEF Enumerates
<1>5. CASE L + 1 \in K
  <2> DEFINE p == [i \in 1..(n + 1) |-> IF i = n + 1 THEN L + 1 ELSE r[i]]
  <2>1. p \in [1..(n + 1) -> K]
    BY <1>3, <1>5
  <2>2. \A k \in K : \E i \in 1..(n + 1) : p[i] = k
    <3> TAKE k \in K
    <3>1. CASE k = L + 1
      <4>1. n + 1 \in 1..(n + 1) /\ p[n + 1] = L + 1
        OBVIOUS
      <4> QED
        BY <3>1, <4>1
    <3>2. CASE k # L + 1
      <4>1. PICK i \in 1..n : r[i] = k
        BY <3>2, <1>3
      <4> QED
        BY <4>1
    <3> QED BY <3>1, <3>2
  <2>3. Increasing(p)
    <3> SUFFICES ASSUME NEW i \in 1..(n + 1), NEW j \in 1..(n + 1), i < j PROVE p[i] < p[j]
      BY DEF Increasing
    <3>1. i \in 1..n
      OBVIOUS
    <3>2. p[i] = r[i] /\ r[i] \in 1..L
      <4>1. r[i] \in K0
        BY <3>1, <1>3
      <4>2. i # n + 1
        BY <3>1
      <4> QED
        BY <4>1, <4>2, <1>1
    <3>3. CASE j = n + 1
      <4>1. p[j] = L + 1
        BY <3>3
      <4> QED
        BY <3>2, <4>1
    <3>4. CASE j # n + 1
      <4>1. j \in 1..n
        BY <3>4
      <4>2. p[j] = r[j] /\ r[i] < r[j]
        BY <3>1, <4>1, <1>3 DEF Increasing
      <4> QED
        BY <3>2, <4>2
    <3> QED BY <3>3, <3>4
  <2> HIDE DEF p
  <2>4. n + 1 \in 0..(L + 1)
    OBVIOUS
  <2> QED
    BY <2>1, <2>2, <2>3, <2>4 DEF Enumerates
<1> QED BY <1>4, <1>5

\* Any set of places of a list can be put in order; a least length for which it could not
\* has one before it.
LEMMA EnumerateAll == \A L \in Nat : \A K \in SUBSET (1..L) : Enumerates(K, L)
<1> DEFINE T == {L \in Nat : ~ \A K \in SUBSET (1..L) : Enumerates(K, L)}
<1> SUFFICES ASSUME T # {} PROVE FALSE
  OBVIOUS
<1>1. T \subseteq Nat
  OBVIOUS
<1>2. PICK l \in T : \A m \in T : l <= m
  BY <1>1, Least
<1>3. ASSUME NEW K \in SUBSET (1..0) PROVE Enumerates(K, 0)
  <2>1. K = {} /\ 0 \in 0..0 /\ <<>> \in [1..0 -> K] /\ Increasing(<<>>)
    BY DEF Increasing
  <2> QED
    BY <2>1 DEF Enumerates
<1>4. l \in Nat /\ l # 0
  BY <1>3
<1>5. l - 1 \in Nat /\ l - 1 \notin T
  BY <1>2, <1>4
<1>6. \A K \in SUBSET (1..(l - 1)) : Enumerates(K, l - 1)
  BY <1>5
<1>7. \A K \in SUBSET (1..(l - 1 + 1)) : Enumerates(K, l - 1 + 1)
  BY <1>5, <1>6, EnumerateStep
<1>8. l - 1 + 1 = l
  BY <1>4
<1> QED BY <1>2, <1>7, <1>8

\* Those(q, G) holds the windows of q that are in G.
LEMMA ThoseOf ==
  ASSUME NEW q \in Seq(Windows), NEW G
  PROVE  /\ Those(q, G) \in Seq(Windows)
         /\ ToSet(Those(q, G)) = ToSet(q) \cap G
<1> DEFINE K == {k \in DOMAIN q : q[k] \in G}
           Fits(r) == /\ \A k \in K : \E i \in DOMAIN r : r[i] = k
                      /\ \A i, j \in DOMAIN r : i < j => r[i] < r[j]
           All == UNION {[1..n -> K] : n \in 0..Len(q)}
           places == CHOOSE r \in All : Fits(r)
<1>1. Len(q) \in Nat /\ DOMAIN q = 1..Len(q) /\ \A k \in DOMAIN q : q[k] \in Windows
  OBVIOUS
<1>2. K \in SUBSET (1..Len(q))
  BY <1>1
<1>3. Enumerates(K, Len(q))
  <2> HIDE DEF K
  <2> QED
    BY <1>1, <1>2, EnumerateAll
<1>4. \E r \in All : Fits(r)
  <2> HIDE DEF K
  <2>1. PICK n \in 0..Len(q) : \E r \in [1..n -> K] : (\A k \in K : \E i \in 1..n : r[i] = k) /\ Increasing(r)
    BY <1>3 DEF Enumerates
  <2>2. PICK r \in [1..n -> K] : (\A k \in K : \E i \in 1..n : r[i] = k) /\ Increasing(r)
    BY <2>1
  <2>3. r \in All
    BY <2>2
  <2>4. Fits(r)
    BY <2>2 DEF Increasing
  <2> QED
    BY <2>3, <2>4
<1>5. places \in All /\ Fits(places)
  <2> HIDE DEF All, Fits
  <2> QED
    BY <1>4
<1>6. Those(q, G) = [i \in DOMAIN places |-> q[places[i]]]
  BY DEF Those
<1> HIDE DEF places
<1>7. PICK n \in 0..Len(q) : places \in [1..n -> K]
  BY <1>5
<1>8. \A i \in 1..n : places[i] \in DOMAIN q /\ q[places[i]] \in G /\ q[places[i]] \in Windows
  BY <1>7, <1>1
<1>9. Those(q, G) = [i \in 1..n |-> q[places[i]]]
  BY <1>6, <1>7
<1>10. n \in Nat
  BY <1>1
<1>11. Those(q, G) \in Seq(Windows)
  BY <1>8, <1>9, <1>10
<1>12. ToSet(Those(q, G)) \subseteq ToSet(q) \cap G
  BY <1>8, <1>9 DEF ToSet
<1>13. ASSUME NEW w \in ToSet(q) \cap G PROVE w \in ToSet(Those(q, G))
  <2>1. PICK k \in DOMAIN q : q[k] = w
    BY DEF ToSet
  <2>2. PICK i \in 1..n : places[i] = k
    BY <2>1, <1>5, <1>7
  <2> QED
    BY <2>1, <2>2, <1>9 DEF ToSet
<1> QED BY <1>11, <1>12, <1>13

\* Without takes w off a list that has every window once, and nothing else.
LEMMA WithoutRemoves ==
  ASSUME NEW q \in Seq(Windows), IsInjective(q), NEW w
  PROVE  /\ Without(q, w) \in Seq(Windows) /\ IsInjective(Without(q, w))
         /\ ToSet(Without(q, w)) = ToSet(q) \ {w}
<1>0. Len(q) \in Nat /\ DOMAIN q = 1..Len(q) /\ \A i \in 1..Len(q) : q[i] \in Windows
  OBVIOUS
<1>1. CASE w \notin ToSet(q)
  BY <1>1 DEF Without
<1>2. CASE w \in ToSet(q)
  <2> DEFINE k == Position(q, w)
             p == Without(q, w)
             a == SubSeq(q, 1, k - 1)
             b == SubSeq(q, k + 1, Len(q))
  <2>1. k \in 1..Len(q) /\ q[k] = w
    BY <1>2 DEF ToSet, Position
  <2>2. p = a \o b
    BY <1>2 DEF Without, RemoveAt
  <2> HIDE DEF k, p
  <2>3. a \in Seq(Windows) /\ Len(a) = k - 1 /\ \A i \in 1..(k - 1) : a[i] = q[i]
    BY <2>1
  <2>4. b \in Seq(Windows) /\ Len(b) = Len(q) - k /\ \A i \in 1..(Len(q) - k) : b[i] = q[k + i]
    BY <2>1
  <2> HIDE DEF a, b
  <2>5. p \in Seq(Windows) /\ Len(p) = Len(a) + Len(b)
        /\ \A i \in 1..(Len(a) + Len(b)) : p[i] = IF i <= Len(a) THEN a[i] ELSE b[i - Len(a)]
    BY ONLY <2>2, <2>3, <2>4, ConcatProperties
  <2>6. Len(p) = Len(q) - 1
    BY <1>0, <2>1, <2>3, <2>4, <2>5
  <2>7. \A i \in 1..(k - 1) : p[i] = q[i]
    <3> TAKE i \in 1..(k - 1)
    <3>1. i \in 1..(Len(a) + Len(b)) /\ i <= Len(a)
      BY <1>0, <2>1, <2>3, <2>4
    <3> QED
      BY <3>1, <2>3, <2>5
  <2>8. \A i \in k..(Len(q) - 1) : p[i] = q[i + 1]
    <3> TAKE i \in k..(Len(q) - 1)
    <3>1. i \in 1..(Len(a) + Len(b)) /\ ~(i <= Len(a)) /\ i - Len(a) \in 1..(Len(q) - k) /\ k + (i - Len(a)) = i + 1
      BY <1>0, <2>1, <2>3, <2>4
    <3>2. p[i] = b[i - Len(a)] /\ b[i - Len(a)] = q[k + (i - Len(a))]
      BY <3>1, <2>4, <2>5
    <3> QED
      BY <3>1, <3>2
  <2>9. \A i \in 1..Len(p) : \/ i < k /\ p[i] = q[i] /\ i \in 1..Len(q)
                             \/ i >= k /\ p[i] = q[i + 1] /\ i + 1 \in 1..Len(q)
    BY <1>0, <2>1, <2>6, <2>7, <2>8
  <2>10. DOMAIN p = 1..Len(p)
    BY <2>5
  <2>11. IsInjective(p)
    <3> SUFFICES ASSUME NEW i \in 1..Len(p), NEW j \in 1..Len(p), p[i] = p[j] PROVE i = j
      BY <2>10 DEF IsInjective
    <3>1. \A x, y \in 1..Len(q) : q[x] = q[y] => x = y
      BY <1>0 DEF IsInjective
    <3>2. i \in Int /\ j \in Int /\ k \in Int
      BY <2>1
    <3>3. CASE i < k /\ j < k
      BY <3>1, <3>2, <3>3, <2>9
    <3>4. CASE i >= k /\ j >= k
      BY <3>1, <3>2, <3>4, <2>9
    <3>5. CASE i < k /\ j >= k
      <4>1. i = j + 1
        BY <3>1, <3>2, <3>5, <2>9
      <4> QED
        BY <3>2, <3>5, <4>1
    <3>6. CASE i >= k /\ j < k
      <4>1. j = i + 1
        BY <3>1, <3>2, <3>6, <2>9
      <4> QED
        BY <3>2, <3>6, <4>1
    <3> QED
      BY <3>2, <3>3, <3>4, <3>5, <3>6
  <2>12. ToSet(p) \subseteq ToSet(q) \ {w}
    <3> SUFFICES ASSUME NEW i \in 1..Len(p) PROVE p[i] \in ToSet(q) /\ p[i] # w
      BY <2>10 DEF ToSet
    <3>1. PICK j \in 1..Len(q) : p[i] = q[j] /\ j # k
      BY <2>9, <2>1
    <3>2. q[j] # w
      BY <3>1, <1>0, <2>1 DEF IsInjective
    <3> QED
      BY <3>1, <3>2, <1>0 DEF ToSet
  <2>13. ASSUME NEW v \in ToSet(q) \ {w} PROVE v \in ToSet(p)
    <3>1. PICK j \in 1..Len(q) : q[j] = v
      BY <1>0 DEF ToSet
    <3>2. CASE j < k
      <4>1. j \in 1..Len(p) /\ p[j] = v
        BY <3>1, <3>2, <2>1, <2>6, <2>7
      <4> QED
        BY <4>1, <2>10 DEF ToSet
    <3>3. CASE j > k
      <4>1. j - 1 \in 1..Len(p) /\ j - 1 \in k..(Len(q) - 1) /\ (j - 1) + 1 = j
        BY <3>3, <2>1, <2>6, <1>0
      <4>2. p[j - 1] = v
        BY <4>1, <3>1, <2>8
      <4> QED
        BY <4>1, <4>2, <2>10 DEF ToSet
    <3> QED
      BY <3>1, <3>2, <3>3, <2>1
  <2> QED
    BY <2>5, <2>11, <2>12, <2>13 DEF p
<1> QED
  BY <1>1, <1>2

\* A new window at the head of a list, or at its end.
LEMMA PutFirst ==
  ASSUME NEW q \in Seq(Windows), IsInjective(q), NEW w \in Windows, w \notin ToSet(q)
  PROVE  /\ <<w>> \o q \in Seq(Windows) /\ IsInjective(<<w>> \o q)
         /\ ToSet(<<w>> \o q) = ToSet(q) \cup {w}
<1> DEFINE p == <<w>> \o q
<1>0. Len(q) \in Nat /\ DOMAIN q = 1..Len(q)
  OBVIOUS
<1>1. p \in Seq(Windows) /\ Len(p) = Len(q) + 1 /\ p[1] = w /\ \A i \in 1..Len(q) : p[i + 1] = q[i]
  BY ConcatProperties
<1> HIDE DEF p
<1>2. DOMAIN p = 1..(Len(q) + 1)
  BY <1>1
<1>3. \A i \in 1..(Len(q) + 1) : i = 1 \/ (i - 1 \in 1..Len(q) /\ p[i] = q[i - 1])
  <2> TAKE i \in 1..(Len(q) + 1)
  <2>1. i = 1 \/ (i - 1 \in 1..Len(q) /\ i - 1 + 1 = i)
    BY <1>0
  <2> QED
    BY <2>1, <1>1
<1>4. \A i \in 1..Len(q) : q[i] # w
  BY <1>0 DEF ToSet
<1>5. IsInjective(p)
  <2> SUFFICES ASSUME NEW i \in 1..(Len(q) + 1), NEW j \in 1..(Len(q) + 1), p[i] = p[j] PROVE i = j
    BY <1>2 DEF IsInjective
  <2>1. CASE i = 1 \/ j = 1
    BY <2>1, <1>1, <1>3, <1>4
  <2>2. CASE i # 1 /\ j # 1
    <3>1. i - 1 = j - 1
      BY <2>2, <1>0, <1>3 DEF IsInjective
    <3> QED
      BY <3>1, <1>0
  <2> QED
    BY <2>1, <2>2
<1>6. ToSet(p) \subseteq ToSet(q) \cup {w}
  BY <1>0, <1>1, <1>2, <1>3 DEF ToSet
<1>7. w \in ToSet(p)
  <2>1. 1 \in 1..(Len(q) + 1)
    BY <1>0
  <2> QED
    BY <2>1, <1>1, <1>2 DEF ToSet
<1>8. ASSUME NEW v \in ToSet(q) PROVE v \in ToSet(p)
  <2>1. PICK i \in 1..Len(q) : q[i] = v
    BY <1>0 DEF ToSet
  <2>2. i + 1 \in 1..(Len(q) + 1) /\ p[i + 1] = v
    BY <2>1, <1>0, <1>1
  <2> QED
    BY <2>2, <1>2 DEF ToSet
<1> QED
  BY <1>1, <1>5, <1>6, <1>7, <1>8 DEF p

\* A new window at the end of a list.
LEMMA PutLast ==
  ASSUME NEW q \in Seq(Windows), IsInjective(q), NEW w \in Windows, w \notin ToSet(q)
  PROVE  /\ Append(q, w) \in Seq(Windows) /\ IsInjective(Append(q, w))
         /\ ToSet(Append(q, w)) = ToSet(q) \cup {w}
<1> DEFINE p == Append(q, w)
<1>0. Len(q) \in Nat /\ DOMAIN q = 1..Len(q)
  OBVIOUS
<1>1. p \in Seq(Windows) /\ Len(p) = Len(q) + 1 /\ p[Len(q) + 1] = w /\ \A i \in 1..Len(q) : p[i] = q[i]
  OBVIOUS
<1> HIDE DEF p
<1>2. DOMAIN p = 1..(Len(q) + 1)
  BY <1>1
<1>4. \A i \in 1..Len(q) : q[i] # w
  BY <1>0 DEF ToSet
<1>5. IsInjective(p)
  <2> SUFFICES ASSUME NEW i \in 1..(Len(q) + 1), NEW j \in 1..(Len(q) + 1), p[i] = p[j] PROVE i = j
    BY <1>2 DEF IsInjective
  <2>1. CASE i = Len(q) + 1 \/ j = Len(q) + 1
    BY <2>1, <1>0, <1>1, <1>4
  <2>2. CASE i # Len(q) + 1 /\ j # Len(q) + 1
    <3>1. i \in 1..Len(q) /\ j \in 1..Len(q)
      BY <2>2, <1>0
    <3> QED
      BY <3>1, <1>0, <1>1 DEF IsInjective
  <2> QED
    BY <2>1, <2>2
<1>6. ToSet(p) \subseteq ToSet(q) \cup {w}
  <2> SUFFICES ASSUME NEW i \in 1..(Len(q) + 1) PROVE p[i] \in ToSet(q) \cup {w}
    BY <1>2 DEF ToSet
  <2>1. i = Len(q) + 1 \/ i \in 1..Len(q)
    BY <1>0
  <2> QED
    BY <2>1, <1>0, <1>1 DEF ToSet
<1>7. w \in ToSet(p)
  <2>1. Len(q) + 1 \in 1..(Len(q) + 1)
    BY <1>0
  <2> QED
    BY <2>1, <1>1, <1>2 DEF ToSet
<1>8. ASSUME NEW v \in ToSet(q) PROVE v \in ToSet(p)
  <2>1. PICK i \in 1..Len(q) : q[i] = v
    BY <1>0 DEF ToSet
  <2>2. i \in 1..(Len(q) + 1) /\ p[i] = v
    BY <2>1, <1>0, <1>1
  <2> QED
    BY <2>2, <1>2 DEF ToSet
<1> QED
  BY <1>1, <1>5, <1>6, <1>7, <1>8 DEF p

\* The window after w is another one.
LEMMA NextOfFacts ==
  ASSUME NEW s, Lists(s), NEW w \in Managed(s)
  PROVE  NextOf(s, w) \in (Managed(s) \ {w}) \cup {NoWindow}
<1> DEFINE k == Position(s.list, w)
<1>1. k \in DOMAIN s.list /\ s.list[k] = w /\ DOMAIN s.list = 1..Len(s.list) /\ Len(s.list) \in Nat
  BY DEF Managed, ToSet, Position, Lists
<1> HIDE DEF k
<1>2. NextOf(s, w) = IF k + 1 \in DOMAIN s.list THEN s.list[k + 1] ELSE NoWindow
  BY DEF NextOf, k
<1>3. CASE k + 1 \in DOMAIN s.list
  <2>1. s.list[k + 1] \in Managed(s)
    BY <1>3 DEF Managed, ToSet
  <2>2. s.list[k + 1] # w
    BY <1>1, <1>3 DEF IsInjective, Lists
  <2> QED
    BY <1>2, <1>3, <2>1, <2>2
<1> QED
  BY <1>2, <1>3

-----------------------------------------------------------------------------
(* Records                                                                 *)

\* r differs from s in no other fields than those of F.
Only(s, r, F) == Rec(r) /\ \A x \in Fields \ F : r[x] = s[x]

\* All but what is shown.
Core(s) == Base(s) /\ Valid(s)

\* The pointers to windows are the same.
SamePointers(s, r) ==
  /\ r.Focus = s.Focus /\ r.PreviousFocus = s.PreviousFocus /\ r.Ungrabbed = s.Ungrabbed
  /\ r.FocusOnNextTimeStamp = s.FocusOnNextTimeStamp /\ r.Hilite = s.Hilite

\* Events that no routine queues, and nobody but clients.
Foreign(e) == e.type = "MapRequest" \/ (e.type = "Stick" /\ e.win \notin Stuck)

\* No event is lost or moved on the way from q to p, FocusIn events aside, and no foreign one is new.
Heard(q, p) ==
  /\ \A k \in DOMAIN q : q[k].type # "FocusIn" => k \in DOMAIN p /\ p[k] = q[k]
  /\ \A k \in DOMAIN p : Foreign(p[k]) => k \in DOMAIN q /\ q[k] = p[k]

\* Heard is reflexive and transitive.
LEMMA HeardItself == \A q : Heard(q, q)
BY DEF Heard

LEMMA HeardTwice ==
  ASSUME NEW q, NEW p, NEW o, Heard(q, p), Heard(p, o) PROVE Heard(q, o)
BY DEF Heard

\* What the routines that move the focus or the order of windows leave alone.
SameWindows(s, r) ==
  /\ Managed(r) = Managed(s)
  /\ r.MAPPED = s.MAPPED /\ r.MAP_PENDING = s.MAP_PENDING
  /\ r.ICONIFIED = s.ICONIFIED /\ r.ICON_UNMAPPED = s.ICON_UNMAPPED /\ r.STICKY = s.STICKY
  /\ r.Desk = s.Desk /\ r.FocusDesk = s.FocusDesk /\ r.CurrentDesk = s.CurrentDesk
  /\ r.mapped = s.mapped /\ r.gone = s.gone /\ r.frame = s.frame /\ r.icon = s.icon
  /\ r.state = s.state /\ r.held = s.held
  /\ (r.away => s.away) /\ r.away \in BOOLEAN
  /\ (Timed(s.queue) => Timed(r.queue)) /\ Heard(s.queue, r.queue)

\* Types and what shows do not depend on what the focus routines change.
LEMMA SameWindowsFacts ==
  ASSUME NEW s, NEW r, SameWindows(s, r)
  PROVE  /\ Flags(s) => Flags(r)
         /\ ServerTypes(s) => ServerTypes(r)
         /\ Shown(s) => Shown(r)
BY DEF SameWindows, Flags, ServerTypes, Shown

\* SameWindows is transitive.
LEMMA SameWindowsTwice ==
  ASSUME NEW s, NEW r, NEW t, SameWindows(s, r), SameWindows(r, t)
  PROVE  SameWindows(s, t)
<1>1. Heard(s.queue, t.queue)
  BY HeardTwice DEF SameWindows
<1> QED
  BY <1>1 DEF SameWindows

\* SameWindows is reflexive.
LEMMA SameWindowsItself ==
  ASSUME NEW s, Base(s) PROVE SameWindows(s, s)
BY HeardItself DEF SameWindows, Base, ServerTypes

\* Event makes events, MapRequest and the like only for windows.
LEMMA EventType ==
  ASSUME NEW w \in Pointer, NEW type \in EventTypes, type \in ClientEvents => w \in Windows
  PROVE  Event(type, w) \in EventRecord /\ Event(type, w).type = type /\ Event(type, w).win = w
BY WindowsAssumption DEF WindowsAssumption, Event, EventRecord

\* One more event at the end of the queue.
LEMMA QueueAppend ==
  ASSUME NEW q \in Seq(EventRecord), NEW e \in EventRecord
  PROVE  /\ Append(q, e) \in Seq(EventRecord)
         /\ Timed(q) => Timed(Append(q, e))
         /\ e.type \in InputEvents \cup CommandTypes => Timed(Append(q, e))
         /\ ~Foreign(e) => Heard(q, Append(q, e))
<1>1. /\ Append(q, e) \in Seq(EventRecord) /\ Len(q) \in Nat /\ DOMAIN q = 1..Len(q)
      /\ DOMAIN Append(q, e) = 1..(Len(q) + 1) /\ Append(q, e)[Len(q) + 1] = e
      /\ \A k \in 1..Len(q) : Append(q, e)[k] = q[k]
  OBVIOUS
<1>2. Timed(q) => Timed(Append(q, e))
  BY <1>1 DEF Timed
<1>3. Len(q) + 1 \in DOMAIN Append(q, e)
  BY <1>1
<1>4. ~Foreign(e) => Heard(q, Append(q, e))
  <2>1. \A k \in DOMAIN q : k \in DOMAIN Append(q, e) /\ Append(q, e)[k] = q[k]
    BY <1>1
  <2>2. \A k \in DOMAIN Append(q, e) : k \in DOMAIN q \/ Append(q, e)[k] = e
    BY <1>1
  <2> QED
    BY <2>1, <2>2 DEF Heard
<1> QED
  BY <1>1, <1>2, <1>3, <1>4 DEF Timed

\* More events at the end of the queue.
LEMMA QueueConcat ==
  ASSUME NEW q \in Seq(EventRecord), NEW p \in Seq(EventRecord)
  PROVE  /\ q \o p \in Seq(EventRecord) /\ (Timed(q) => Timed(q \o p))
         /\ (\A k \in DOMAIN p : ~Foreign(p[k])) => Heard(q, q \o p)
         /\ \A k \in DOMAIN q : k \in DOMAIN (q \o p) /\ (q \o p)[k] = q[k]
         /\ \A k \in DOMAIN p : \E j \in DOMAIN (q \o p) :
              (q \o p)[j] = p[k] /\ \A i \in DOMAIN q : i < j
         /\ \A k \in DOMAIN (q \o p) : k \in DOMAIN q \/ \E i \in DOMAIN p : (q \o p)[k] = p[i]
<1>1. /\ q \o p \in Seq(EventRecord) /\ Len(q \o p) = Len(q) + Len(p) /\ Len(q) \in Nat /\ Len(p) \in Nat
      /\ \A k \in 1..Len(q) : (q \o p)[k] = q[k]
      /\ \A k \in (Len(q) + 1)..(Len(q) + Len(p)) : (q \o p)[k] = p[k - Len(q)]
  BY ConcatProperties
<1> DEFINE o == q \o p
<1>2. DOMAIN o = 1..Len(o) /\ DOMAIN q = 1..Len(q) /\ DOMAIN p = 1..Len(p)
  BY <1>1
<1> HIDE DEF o
<1>3. \A k \in DOMAIN q : k \in DOMAIN o /\ o[k] = q[k]
  BY <1>1, <1>2 DEF o
<1>4. ASSUME NEW k \in DOMAIN p
      PROVE  \E j \in DOMAIN o : o[j] = p[k] /\ \A i \in DOMAIN q : i < j
  <2>1. /\ Len(q) + k \in (Len(q) + 1)..(Len(q) + Len(p)) /\ Len(q) + k \in DOMAIN o
        /\ (Len(q) + k) - Len(q) = k
    BY <1>1, <1>2 DEF o
  <2>2. o[Len(q) + k] = p[k]
    BY <1>1, <2>1 DEF o
  <2>3. \A i \in DOMAIN q : i < Len(q) + k
    BY <1>1, <1>2
  <2> QED
    BY <2>1, <2>2, <2>3
<1>5. ASSUME NEW k \in DOMAIN o, k \notin DOMAIN q PROVE \E i \in DOMAIN p : o[k] = p[i]
  <2>1. k \in (Len(q) + 1)..(Len(q) + Len(p)) /\ k - Len(q) \in DOMAIN p
    BY <1>1, <1>2, <1>5 DEF o
  <2>2. o[k] = p[k - Len(q)]
    BY <1>1, <2>1 DEF o
  <2> QED
    BY <2>1, <2>2
<1>6. Timed(q) => Timed(o)
  BY <1>3 DEF Timed
<1>7. (\A k \in DOMAIN p : ~Foreign(p[k])) => Heard(q, o)
  BY <1>3, <1>5 DEF Heard
<1> QED
  BY <1>1, <1>3, <1>4, <1>5, <1>6, <1>7 DEF o

\* Replacing the FocusIn events of the queue loses no other event.
LEMMA InputFocusQueue ==
  ASSUME NEW q \in Seq(EventRecord), NEW t \in Pointer
  PROVE  LET old == {k \in DOMAIN q : q[k].type = "FocusIn"}
             event == Event("FocusIn", t)
             p == IF old = {} THEN Append(q, event)
                  ELSE [k \in DOMAIN q |-> IF k \in old THEN event ELSE q[k]]
         IN p \in Seq(EventRecord) /\ (Timed(q) => Timed(p)) /\ Heard(q, p)
<1> DEFINE old == {k \in DOMAIN q : q[k].type = "FocusIn"}
           event == Event("FocusIn", t)
           p == [k \in DOMAIN q |-> IF k \in old THEN event ELSE q[k]]
<1>1. event \in EventRecord /\ event.type = "FocusIn"
  BY EventType DEF EventTypes, ClientEvents
<1>2. DOMAIN q = 1..Len(q) /\ Len(q) \in Nat /\ \A k \in DOMAIN q : q[k] \in EventRecord
  OBVIOUS
<1>3. p \in Seq(EventRecord)
  <2> HIDE DEF event
  <2> QED
    BY <1>1, <1>2
<1>4. ASSUME Timed(q) PROVE Timed(p)
  <2>1. PICK k \in DOMAIN q : q[k].type \in InputEvents \cup CommandTypes
    BY <1>4 DEF Timed
  <2>2. k \notin old
    BY <2>1 DEF InputEvents, CommandTypes, WindowCommands
  <2>3. k \in DOMAIN p /\ p[k] = q[k]
    BY <2>2
  <2> HIDE DEF p
  <2> QED
    BY <2>1, <2>3 DEF Timed
<1>5. Heard(q, p)
  <2> HIDE DEF event
  <2> QED
    BY <1>1 DEF Heard, Foreign
<1>6. /\ Append(q, event) \in Seq(EventRecord) /\ (Timed(q) => Timed(Append(q, event)))
      /\ Heard(q, Append(q, event))
  <2> HIDE DEF event
  <2> QED
    BY <1>1, QueueAppend DEF Foreign
<1> HIDE DEF p, event
<1> QED
  BY <1>3, <1>4, <1>5, <1>6 DEF p, event

\* XSetInputFocus changes nothing of fvwm's.
LEMMA XSetInputFocusKeeps ==
  ASSUME NEW s, Core(s), NEW t \in Pointer
  PROVE  LET r == XSetInputFocus(s, t)
         IN /\ Core(r) /\ SameWindows(s, r) /\ SamePointers(s, r)
            /\ r.list = s.list /\ r.ring = s.ring /\ r.grab = s.grab
<1> DEFINE old == {k \in DOMAIN s.queue : s.queue[k].type = "FocusIn"}
           event == Event("FocusIn", t)
           q == IF old = {} THEN Append(s.queue, event)
                ELSE [k \in DOMAIN s.queue |-> IF k \in old THEN event ELSE s.queue[k]]
           r == XSetInputFocus(s, t)
<1>1. CASE t = s.xfocus \/ (t # NoWindow /\ ~Viewable(s, t))
  <2>1. r = s
    BY <1>1 DEF XSetInputFocus
  <2> QED
    BY <2>1, SameWindowsItself DEF SamePointers, Core
<1>2. CASE ~(t = s.xfocus \/ (t # NoWindow /\ ~Viewable(s, t)))
  <2>1. r = [s EXCEPT !.xfocus = t, !.queue = q]
    BY <1>2 DEF XSetInputFocus
  <2>2. q \in Seq(EventRecord) /\ (Timed(s.queue) => Timed(q)) /\ Heard(s.queue, q)
    BY InputFocusQueue DEF Core, Base, FocusTypes
  <2> HIDE DEF q, r
  <2>3. Only(s, r, {"xfocus", "queue"}) /\ r.xfocus = t /\ r.queue = q
    BY <2>1 DEF Core, Base, Rec, Fields, Only
  <2>4. /\ r.list = s.list /\ r.ring = s.ring /\ r.grab = s.grab /\ SamePointers(s, r) /\ Rec(r)
    BY <2>3 DEF Only, Fields, SamePointers
  <2>5. SameWindows(s, r)
    BY <2>2, <2>3 DEF Only, Fields, SameWindows, Managed, Core, Base, ServerTypes
  <2>6. Lists(r) /\ Grabs(r) /\ Valid(r)
    BY <2>4 DEF Lists, Grabs, Valid, Core, Base, Managed, SamePointers
  <2>7. FocusTypes(r)
    BY <2>2, <2>3, <2>4 DEF FocusTypes, SamePointers, Core, Base
  <2> QED
    BY <2>4, <2>5, <2>6, <2>7, SameWindowsFacts DEF Core, Base, r
<1> QED
  BY <1>1, <1>2

-----------------------------------------------------------------------------
(* The focus and the stacking order                                        *)

\* A window of a list goes to its head, or to its end.
LEMMA MoveFirst ==
  ASSUME NEW q \in Seq(Windows), IsInjective(q), NEW w \in ToSet(q)
  PROVE  LET p == <<w>> \o Without(q, w)
         IN p \in Seq(Windows) /\ IsInjective(p) /\ ToSet(p) = ToSet(q)
<1> DEFINE p == Without(q, w)
<1>1. p \in Seq(Windows) /\ IsInjective(p) /\ ToSet(p) = ToSet(q) \ {w}
  BY WithoutRemoves
<1>2. w \in Windows
  BY DEF ToSet
<1> HIDE DEF p
<1>3. /\ <<w>> \o p \in Seq(Windows) /\ IsInjective(<<w>> \o p)
      /\ ToSet(<<w>> \o p) = ToSet(p) \cup {w}
  BY <1>1, <1>2, PutFirst
<1>4. ToSet(p) \cup {w} = ToSet(q)
  BY <1>1
<1> QED
  BY <1>3, <1>4 DEF p

\* A window of a list goes to its end.
LEMMA MoveLast ==
  ASSUME NEW q \in Seq(Windows), IsInjective(q), NEW w \in ToSet(q)
  PROVE  LET p == Append(Without(q, w), w)
         IN p \in Seq(Windows) /\ IsInjective(p) /\ ToSet(p) = ToSet(q)
<1> DEFINE p == Without(q, w)
<1>1. p \in Seq(Windows) /\ IsInjective(p) /\ ToSet(p) = ToSet(q) \ {w}
  BY WithoutRemoves
<1>2. w \in Windows
  BY DEF ToSet
<1> HIDE DEF p
<1>3. /\ Append(p, w) \in Seq(Windows) /\ IsInjective(Append(p, w))
      /\ ToSet(Append(p, w)) = ToSet(p) \cup {w}
  BY <1>1, <1>2, PutLast
<1>4. ToSet(p) \cup {w} = ToSet(q)
  BY <1>1
<1> QED
  BY <1>3, <1>4 DEF p

\* A new order of either list is fine.
LEMMA NewOrder ==
  ASSUME NEW s, Core(s), NEW p \in Seq(Windows), IsInjective(p), ToSet(p) = Managed(s),
         NEW t, t = [s EXCEPT !.list = p] \/ t = [s EXCEPT !.ring = p]
  PROVE  Core(t) /\ SameWindows(s, t) /\ SamePointers(s, t) /\ t.away = s.away
<1>1. ASSUME NEW r, Only(s, r, {"list", "ring"}), Lists(r), Managed(r) = Managed(s)
      PROVE  Core(r) /\ SameWindows(s, r) /\ SamePointers(s, r) /\ r.away = s.away
  <2>1. SameWindows(s, r) /\ SamePointers(s, r) /\ r.away = s.away
    BY <1>1, HeardItself DEF Only, Fields, SameWindows, SamePointers, Core, Base, ServerTypes
  <2>2. FocusTypes(r) /\ Grabs(r) /\ Valid(r) /\ Rec(r)
    BY <1>1 DEF Only, Fields, FocusTypes, Grabs, Valid, Core, Base
  <2> QED
    BY <2>1, <2>2, <1>1, SameWindowsFacts DEF Core, Base
<1>2. t = [s EXCEPT !.list = p] => Only(s, t, {"list", "ring"}) /\ t.list = p /\ t.ring = s.ring
  BY DEF Core, Base, Rec, Fields, Only
<1>3. t = [s EXCEPT !.ring = p] => Only(s, t, {"list", "ring"}) /\ t.ring = p /\ t.list = s.list
  BY DEF Core, Base, Rec, Fields, Only
<1>4. Lists(s)
  BY DEF Core, Base
<1>5. ASSUME NEW r, Only(s, r, {"list", "ring"}), r.list = p, r.ring = s.ring
      PROVE  Lists(r) /\ Managed(r) = Managed(s)
  BY <1>4, <1>5 DEF Lists, Managed
<1>6. ASSUME NEW r, Only(s, r, {"list", "ring"}), r.ring = p, r.list = s.list
      PROVE  Lists(r) /\ Managed(r) = Managed(s)
  BY <1>4, <1>6 DEF Lists, Managed
<1> QED
  BY <1>1, <1>2, <1>3, <1>5, <1>6

\* What the lists of a consistent state look like.
LEMMA ListsOf ==
  ASSUME NEW s, Core(s)
  PROVE  /\ s.list \in Seq(Windows) /\ IsInjective(s.list) /\ ToSet(s.list) = Managed(s)
         /\ s.ring \in Seq(Windows) /\ IsInjective(s.ring) /\ ToSet(s.ring) = Managed(s)
         /\ Managed(s) \subseteq Windows /\ NoWindow \notin Managed(s)
<1>1. /\ s.list \in Seq(Windows) /\ IsInjective(s.list) /\ ToSet(s.list) = Managed(s)
      /\ s.ring \in Seq(Windows) /\ IsInjective(s.ring) /\ ToSet(s.ring) = Managed(s)
  BY DEF Core, Base, Lists, Managed
<1>2. Managed(s) \subseteq Windows
  BY <1>1 DEF ToSet
<1> QED
  BY <1>1, <1>2, WindowsAssumption DEF WindowsAssumption

\* SetFocus moves the window to the head of the focus list and changes nothing else there.
LEMMA FocusListKeeps ==
  ASSUME NEW s, Core(s), NEW t \in Managed(s) \cup {NoWindow}, NEW b \in BOOLEAN
  PROVE  LET r == FocusList(s, t, b)
         IN Core(r) /\ SameWindows(s, r) /\ SamePointers(s, r) /\ r.away = s.away
<1> DEFINE p == <<t>> \o Without(s.list, t)
<1>1. CASE b /\ t # NoWindow /\ t # s.Focus
  <2>1. p \in Seq(Windows) /\ IsInjective(p) /\ ToSet(p) = Managed(s)
    BY <1>1, ListsOf, MoveFirst
  <2>2. FocusList(s, t, b) = [s EXCEPT !.list = p]
    BY <1>1 DEF FocusList
  <2> HIDE DEF p
  <2>3. LET r == FocusList(s, t, b)
        IN Core(r) /\ SameWindows(s, r) /\ SamePointers(s, r) /\ r.away = s.away
    BY <2>1, <2>2, NewOrder
  <2> QED
    BY <2>3
<1>2. CASE ~(b /\ t # NoWindow /\ t # s.Focus)
  <2>1. FocusList(s, t, b) = s
    BY <1>2 DEF FocusList
  <2> QED
    BY <2>1, SameWindowsItself DEF SamePointers, Core
<1> QED
  BY <1>1, <1>2

\* RaiseWindow changes the order only.
LEMMA RaiseKeeps ==
  ASSUME NEW s, Core(s), NEW w \in Managed(s)
  PROVE  LET r == RaiseWindow(s, w)
         IN Core(r) /\ SameWindows(s, r) /\ SamePointers(s, r) /\ r.away = s.away
<1> DEFINE p == <<w>> \o Without(s.ring, w)
<1>1. p \in Seq(Windows) /\ IsInjective(p) /\ ToSet(p) = Managed(s)
  BY ListsOf, MoveFirst
<1>2. RaiseWindow(s, w) = [s EXCEPT !.ring = p]
  BY DEF RaiseWindow
<1> HIDE DEF p
<1> QED
  BY <1>1, <1>2, NewOrder

\* LowerWindow changes the order only.
LEMMA LowerKeeps ==
  ASSUME NEW s, Core(s), NEW w \in Managed(s)
  PROVE  LET r == LowerWindow(s, w)
         IN Core(r) /\ SameWindows(s, r) /\ SamePointers(s, r) /\ r.away = s.away
<1> DEFINE p == Append(Without(s.ring, w), w)
<1>1. p \in Seq(Windows) /\ IsInjective(p) /\ ToSet(p) = Managed(s)
  BY ListsOf, MoveLast
<1>2. LowerWindow(s, w) = [s EXCEPT !.ring = p]
  BY DEF LowerWindow
<1> HIDE DEF p
<1> QED
  BY <1>1, <1>2, NewOrder

\* The focus and the released window change, and the grabs with it.
LEMMA NewFocus ==
  ASSUME NEW s, Core(s), NEW r, Only(s, r, {"Focus", "Ungrabbed", "grab"}), Grabs(r),
         r.Focus \in Managed(s) \cup {NoWindow}, r.Ungrabbed \in Managed(s) \cup {NoWindow}
  PROVE  /\ Core(r) /\ SameWindows(s, r) /\ r.away = s.away /\ r.PreviousFocus = s.PreviousFocus
         /\ r.FocusOnNextTimeStamp = s.FocusOnNextTimeStamp /\ r.Hilite = s.Hilite
<1>1. Managed(r) = Managed(s) /\ Lists(r) /\ Rec(r)
  BY DEF Only, Fields, Managed, Lists, Core, Base
<1>2. /\ SameWindows(s, r) /\ r.away = s.away /\ r.PreviousFocus = s.PreviousFocus
      /\ r.FocusOnNextTimeStamp = s.FocusOnNextTimeStamp /\ r.Hilite = s.Hilite
  BY <1>1, HeardItself DEF Only, Fields, SameWindows, Core, Base, ServerTypes
<1>3. FocusTypes(r)
  BY <1>2, ListsOf DEF Only, Fields, FocusTypes, Core, Base, Pointer
<1>4. Valid(r)
  BY <1>1, <1>2 DEF Valid, Core
<1> QED
  BY <1>1, <1>2, <1>3, <1>4, SameWindowsFacts DEF Core, Base

\* The focus moves: to a window of T, nowhere or not at all.
Refocused(s, r, T) ==
  /\ Core(r) /\ SameWindows(s, r) /\ r.PreviousFocus = s.PreviousFocus
  /\ r.FocusOnNextTimeStamp = s.FocusOnNextTimeStamp /\ r.Hilite = s.Hilite
  /\ r.Focus \in {s.Focus, NoWindow} \cup T

\* SetFocus with the pointer on another screen.
LEMMA SetFocusAwayKeeps ==
  ASSUME NEW s, Core(s) PROVE Refocused(s, SetFocusAway(s), {})
<1> DEFINE t == [s EXCEPT !.grab = @ \cup {s.Ungrabbed}, !.Focus = NoWindow, !.Ungrabbed = NoWindow]
<1>1. CASE s.Ungrabbed \in ClickToFocus
  <2>1. /\ Only(s, t, {"Focus", "Ungrabbed", "grab"})
        /\ t.grab = s.grab \cup {s.Ungrabbed} /\ t.Focus = NoWindow /\ t.Ungrabbed = NoWindow
    BY DEF Only, Core, Base, Rec, Fields
  <2>2. SetFocusAway(s) = XSetInputFocus(t, NoWindow)
    BY <1>1 DEF SetFocusAway
  <2> HIDE DEF t
  <2>3. s.Ungrabbed \in Managed(s) /\ Managed(t) = Managed(s)
    BY <1>1, <2>1, WindowsAssumption DEF Core, Valid, WindowsAssumption, Only, Fields, Managed
  <2>4. Grabs(t)
    BY <1>1, <2>1, <2>3, ListsOf DEF Core, Base, Grabs
  <2>5. /\ Core(t) /\ SameWindows(s, t) /\ t.PreviousFocus = s.PreviousFocus
        /\ t.FocusOnNextTimeStamp = s.FocusOnNextTimeStamp /\ t.Hilite = s.Hilite
    BY <2>1, <2>4, NewFocus
  <2>6. NoWindow \in Pointer
    BY DEF Pointer
  <2> QED
    BY <2>1, <2>2, <2>5, <2>6, XSetInputFocusKeeps, SameWindowsTwice DEF Refocused, SamePointers
<1>2. CASE s.Ungrabbed \notin ClickToFocus
  BY <1>2, SameWindowsItself DEF SetFocusAway, Refocused, Core
<1> QED
  BY <1>1, <1>2

\* The window released last gets its grab back, and then none but Fw is without.
LEMMA RegrabKeeps ==
  ASSUME NEW s, Core(s), NEW Fw \in Managed(s) \cup {NoWindow}
  PROVE  LET r == Regrab(s, Fw)
         IN /\ Refocused(s, r, {}) /\ r.Focus = s.Focus /\ r.away = s.away
            /\ r.Ungrabbed \in ClickToFocus => r.Ungrabbed = Fw
<1> DEFINE t == [s EXCEPT !.grab = @ \cup {s.Ungrabbed}, !.Ungrabbed = NoWindow]
<1>1. CASE s.Ungrabbed \in ClickToFocus /\ s.Ungrabbed # Fw
  <2>1. /\ Only(s, t, {"Focus", "Ungrabbed", "grab"})
        /\ t.grab = s.grab \cup {s.Ungrabbed} /\ t.Focus = s.Focus /\ t.Ungrabbed = NoWindow
    BY DEF Only, Core, Base, Rec, Fields
  <2>2. Regrab(s, Fw) = t
    BY <1>1 DEF Regrab
  <2> HIDE DEF t
  <2>3. s.Ungrabbed \in Managed(s) /\ Managed(t) = Managed(s) /\ NoWindow \notin ClickToFocus
    BY <1>1, <2>1, WindowsAssumption DEF Core, Valid, WindowsAssumption, Only, Fields, Managed
  <2>4. Grabs(t)
    BY <1>1, <2>1, <2>3 DEF Core, Base, Grabs
  <2>5. s.Focus \in Managed(s) \cup {NoWindow}
    BY DEF Core, Valid
  <2>6. /\ Core(t) /\ SameWindows(s, t) /\ t.PreviousFocus = s.PreviousFocus /\ t.away = s.away
        /\ t.FocusOnNextTimeStamp = s.FocusOnNextTimeStamp /\ t.Hilite = s.Hilite
    BY <2>1, <2>4, <2>5, NewFocus
  <2> QED
    BY <2>1, <2>2, <2>3, <2>6 DEF Refocused
<1>2. CASE ~(s.Ungrabbed \in ClickToFocus /\ s.Ungrabbed # Fw)
  BY <1>2, SameWindowsItself DEF Regrab, Refocused, Core
<1> QED
  BY <1>1, <1>2

\* The window that gets the focus is released, if no other one is.
LEMMA UngrabKeeps ==
  ASSUME NEW s, Core(s), NEW Fw \in Managed(s) \cup {NoWindow},
         s.Ungrabbed \in ClickToFocus => s.Ungrabbed = Fw
  PROVE  LET r == Ungrab(s, Fw)
         IN Refocused(s, r, {}) /\ r.Focus = s.Focus /\ r.away = s.away
<1> DEFINE t == [s EXCEPT !.grab = @ \ {Fw}, !.Ungrabbed = Fw]
<1>1. CASE Fw \in ClickToFocus
  <2>1. /\ Only(s, t, {"Focus", "Ungrabbed", "grab"})
        /\ t.grab = s.grab \ {Fw} /\ t.Focus = s.Focus /\ t.Ungrabbed = Fw
    BY DEF Only, Core, Base, Rec, Fields
  <2>2. Ungrab(s, Fw) = t
    BY <1>1 DEF Ungrab
  <2> HIDE DEF t
  <2>3. Managed(t) = Managed(s)
    BY <2>1 DEF Only, Fields, Managed
  <2>4. Grabs(t)
    BY <1>1, <2>1, <2>3 DEF Core, Base, Grabs
  <2>5. s.Focus \in Managed(s) \cup {NoWindow}
    BY DEF Core, Valid
  <2>6. /\ Core(t) /\ SameWindows(s, t) /\ t.PreviousFocus = s.PreviousFocus /\ t.away = s.away
        /\ t.FocusOnNextTimeStamp = s.FocusOnNextTimeStamp /\ t.Hilite = s.Hilite
    BY <2>1, <2>4, <2>5, NewFocus
  <2> QED
    BY <2>1, <2>2, <2>6 DEF Refocused
<1>2. CASE Fw \notin ClickToFocus
  BY <1>2, SameWindowsItself DEF Ungrab, Refocused, Core
<1> QED
  BY <1>1, <1>2

\* The focus goes to Fw or, for a window that refuses input, nowhere.
LEMMA GiveFocusKeeps ==
  ASSUME NEW s, Core(s), NEW Fw \in Managed(s) \cup {NoWindow}
  PROVE  LET r == GiveFocus(s, Fw)
         IN /\ Refocused(s, r, {Fw})
            /\ Fw = NoWindow => r.Focus = NoWindow
<1>1. Fw \in Pointer /\ NoWindow \in Pointer /\ NoWindow \notin NoInput
  BY ListsOf, WindowsAssumption DEF Pointer, WindowsAssumption
<1>2. ASSUME NEW f \in {Fw, NoWindow}
      PROVE  LET r == [XSetInputFocus(s, f) EXCEPT !.Focus = f]
             IN Refocused(s, r, {Fw}) /\ r.Focus = f
  <2> DEFINE x == XSetInputFocus(s, f)
             r == [x EXCEPT !.Focus = f]
  <2>1. Core(x) /\ SameWindows(s, x) /\ SamePointers(s, x)
    BY <1>1, XSetInputFocusKeeps
  <2> HIDE DEF x
  <2>2. Only(x, r, {"Focus", "Ungrabbed", "grab"}) /\ r.Focus = f /\ r.Ungrabbed = x.Ungrabbed /\ r.grab = x.grab
    BY <2>1 DEF Only, Core, Base, Rec, Fields
  <2> HIDE DEF r
  <2>3. Managed(r) = Managed(x) /\ Managed(x) = Managed(s)
    BY <2>1, <2>2 DEF Only, Fields, Managed, SameWindows
  <2>4. Grabs(r)
    BY <2>1, <2>2, <2>3 DEF Core, Base, Grabs
  <2>5. x.Ungrabbed \in Managed(x) \cup {NoWindow}
    BY <2>1 DEF Core, Valid
  <2>6. /\ Core(r) /\ SameWindows(x, r) /\ r.PreviousFocus = x.PreviousFocus
        /\ r.FocusOnNextTimeStamp = x.FocusOnNextTimeStamp /\ r.Hilite = x.Hilite
    BY <2>1, <2>2, <2>3, <2>4, <2>5, NewFocus
  <2>7. SameWindows(s, r)
    BY <2>1, <2>6, SameWindowsTwice
  <2> QED
    BY <2>1, <2>2, <2>6, <2>7 DEF Refocused, SamePointers, r, x
<1>3. CASE Fw \notin NoInput
  BY <1>2, <1>3 DEF GiveFocus
<1>4. CASE Fw \in NoInput
  <2>1. Fw # NoWindow
    BY <1>1, <1>4
  <2>2. CASE s.Focus # NoWindow /\ s.Desk[s.Focus] = s.CurrentDesk
    BY <1>4, <2>1, <2>2, SameWindowsItself DEF GiveFocus, Refocused, Core
  <2>3. CASE ~(s.Focus # NoWindow /\ s.Desk[s.Focus] = s.CurrentDesk)
    BY <1>4, <2>1, <2>3, <1>2 DEF GiveFocus
  <2> QED
    BY <2>2, <2>3
<1> QED
  BY <1>3, <1>4

\* SetFocus as a whole.
LEMMA SetFocusKeeps ==
  ASSUME NEW s, Core(s), NEW t \in Managed(s) \cup {NoWindow}, NEW b \in BOOLEAN
  PROVE  LET r == SetFocus(s, t, b)
         IN Refocused(s, r, {t}) /\ (~s.away /\ t = NoWindow => r.Focus = NoWindow)
<1> DEFINE s1 == FocusList(s, t, b)
           Fw == IF t # NoWindow /\ s1.Desk[t] # s1.CurrentDesk THEN NoWindow ELSE t
           s2 == Regrab(s1, Fw)
           s3 == Ungrab(s2, Fw)
           s4 == GiveFocus(s3, Fw)
<1>1. Core(s1) /\ SameWindows(s, s1) /\ SamePointers(s, s1) /\ s1.away = s.away
  BY FocusListKeeps
<1>2. SetFocus(s, t, b) = IF s1.away THEN SetFocusAway(s1) ELSE s4
  BY DEF SetFocus
<1> HIDE DEF s1
<1>3. Fw \in Managed(s) \cup {NoWindow} /\ Fw \in {t, NoWindow} /\ Managed(s1) = Managed(s)
  BY <1>1 DEF SameWindows
<1> HIDE DEF Fw
<1>4. Refocused(s1, SetFocusAway(s1), {})
  BY <1>1, SetFocusAwayKeeps
<1>5. Refocused(s1, s2, {}) /\ (s2.Ungrabbed \in ClickToFocus => s2.Ungrabbed = Fw)
  BY <1>1, <1>3, RegrabKeeps
<1> HIDE DEF s2
<1>6. Core(s2) /\ Managed(s2) = Managed(s)
  BY <1>3, <1>5 DEF Refocused, SameWindows
<1>7. Refocused(s2, s3, {})
  BY <1>3, <1>5, <1>6, UngrabKeeps
<1> HIDE DEF s3
<1>8. Core(s3) /\ Managed(s3) = Managed(s)
  BY <1>6, <1>7 DEF Refocused, SameWindows
<1>9. Refocused(s3, s4, {Fw}) /\ (Fw = NoWindow => s4.Focus = NoWindow)
  BY <1>3, <1>8, GiveFocusKeeps
<1> HIDE DEF s4
<1>10. SameWindows(s, s4)
  BY <1>1, <1>5, <1>7, <1>9, SameWindowsTwice DEF Refocused
<1>11. Refocused(s, s4, {t})
  BY <1>1, <1>3, <1>5, <1>7, <1>9, <1>10 DEF Refocused, SamePointers
<1>12. Refocused(s, SetFocusAway(s1), {t})
  BY <1>1, <1>4, SameWindowsTwice DEF Refocused, SamePointers
<1> QED
  BY <1>1, <1>2, <1>3, <1>9, <1>11, <1>12

\* The pointer is confined to this screen.
LEMMA ConfinedKeeps ==
  ASSUME NEW s, Core(s)
  PROVE  LET r == Confined(s)
         IN Core(r) /\ SameWindows(s, r) /\ SamePointers(s, r)
<1> DEFINE e == Event("EnterNotify", NoWindow)
           q == Append(s.queue, e)
           r == [s EXCEPT !.away = FALSE, !.queue = q]
<1>1. CASE s.held \/ ~s.away
  BY <1>1, SameWindowsItself DEF Confined, SamePointers, Core
<1>2. CASE ~(s.held \/ ~s.away)
  <2>1. e \in EventRecord /\ e.type = "EnterNotify"
    BY EventType DEF Pointer, EventTypes, InputEvents, ClientEvents
  <2>2. q \in Seq(EventRecord) /\ (Timed(s.queue) => Timed(q)) /\ Heard(s.queue, q)
    <3> HIDE DEF e
    <3> QED
      BY <2>1, QueueAppend DEF Core, Base, FocusTypes, Foreign
  <2>3. Confined(s) = r
    BY <1>2 DEF Confined
  <2> HIDE DEF q
  <2>4. Only(s, r, {"away", "queue"}) /\ r.away = FALSE /\ r.queue = q
    BY DEF Only, Core, Base, Rec, Fields
  <2> HIDE DEF r
  <2>5. Managed(r) = Managed(s) /\ Lists(r) /\ Grabs(r) /\ Rec(r) /\ SamePointers(s, r)
    BY <2>4 DEF Only, Fields, Managed, Lists, Grabs, Core, Base, SamePointers
  <2>6. SameWindows(s, r)
    BY <2>2, <2>4, <2>5 DEF Only, Fields, SameWindows
  <2>7. FocusTypes(r) /\ Valid(r)
    BY <2>2, <2>4, <2>5 DEF Only, Fields, FocusTypes, Valid, Core, Base, SamePointers
  <2> QED
    BY <2>3, <2>5, <2>6, <2>7, SameWindowsFacts DEF Core, Base
<1> QED
  BY <1>1, <1>2

\* One of the other pointers changes.
LEMMA NewPointer ==
  ASSUME NEW s, Core(s), NEW r,
         Only(s, r, {"Focus", "PreviousFocus", "FocusOnNextTimeStamp", "Hilite"}),
         {r.Focus, r.PreviousFocus, r.FocusOnNextTimeStamp, r.Hilite} \subseteq Managed(s) \cup {NoWindow}
  PROVE  Core(r) /\ SameWindows(s, r) /\ r.away = s.away /\ r.queue = s.queue /\ r.Ungrabbed = s.Ungrabbed
<1>1. Managed(r) = Managed(s) /\ Lists(r) /\ Rec(r) /\ Grabs(r)
  BY DEF Only, Fields, Managed, Lists, Core, Base, Grabs
<1>2. SameWindows(s, r) /\ r.away = s.away /\ r.queue = s.queue /\ r.Ungrabbed = s.Ungrabbed
  BY <1>1, HeardItself DEF Only, Fields, SameWindows, Core, Base, ServerTypes
<1>3. FocusTypes(r)
  BY <1>2, ListsOf DEF Only, Fields, FocusTypes, Core, Base, Pointer
<1>4. Valid(r)
  BY <1>1, <1>2 DEF Valid, Core
<1> QED
  BY <1>1, <1>2, <1>3, <1>4, SameWindowsFacts DEF Core, Base

\* GrabEm takes the focus away and may remember it in PreviousFocus.
LEMMA GrabEmKeeps ==
  ASSUME NEW s, Core(s)
  PROVE  LET r == GrabEm(s)
         IN /\ Core(r) /\ SameWindows(s, r)
            /\ r.FocusOnNextTimeStamp = s.FocusOnNextTimeStamp /\ r.Hilite = s.Hilite
            /\ r.Focus \in {s.Focus, NoWindow} /\ r.PreviousFocus \in {s.Focus, s.PreviousFocus}
<1> DEFINE p == IF s.PreviousFocus = NoWindow THEN s.Focus ELSE s.PreviousFocus
           s1 == [s EXCEPT !.PreviousFocus = p]
           s2 == SetFocus(s1, NoWindow, FALSE)
<1>1. /\ Only(s, s1, {"Focus", "PreviousFocus", "FocusOnNextTimeStamp", "Hilite"})
      /\ s1.Focus = s.Focus /\ s1.PreviousFocus = p /\ s1.Hilite = s.Hilite
      /\ s1.FocusOnNextTimeStamp = s.FocusOnNextTimeStamp
  <2> HIDE DEF p
  <2> QED
    BY DEF Only, Core, Base, Rec, Fields
<1>2. GrabEm(s) = Confined(s2)
  BY DEF GrabEm
<1>3. p \in {s.Focus, s.PreviousFocus}
  OBVIOUS
<1> HIDE DEF s1, p
<1>4. Core(s1) /\ SameWindows(s, s1)
  BY <1>1, <1>3, NewPointer DEF Core, Valid
<1>5. Refocused(s1, s2, {NoWindow})
  BY <1>4, SetFocusKeeps
<1> HIDE DEF s2
<1>6. Core(Confined(s2)) /\ SameWindows(s2, Confined(s2)) /\ SamePointers(s2, Confined(s2))
  BY <1>5, ConfinedKeeps DEF Refocused
<1>7. SameWindows(s, Confined(s2))
  BY <1>4, <1>5, <1>6, SameWindowsTwice DEF Refocused
<1> QED
  BY <1>1, <1>2, <1>3, <1>5, <1>6, <1>7 DEF Refocused, SamePointers

\* UngrabEm gives the focus back to PreviousFocus and forgets it.
LEMMA UngrabEmKeeps ==
  ASSUME NEW s, Core(s)
  PROVE  LET r == UngrabEm(s)
         IN /\ Core(r) /\ SameWindows(s, r)
            /\ r.FocusOnNextTimeStamp = s.FocusOnNextTimeStamp /\ r.Hilite = s.Hilite
            /\ r.Focus \in {s.Focus, s.PreviousFocus, NoWindow} /\ r.PreviousFocus = NoWindow
<1> DEFINE x == SetFocus(s, s.PreviousFocus, FALSE)
           r == [x EXCEPT !.PreviousFocus = NoWindow]
<1>1. CASE s.PreviousFocus = NoWindow
  BY <1>1, SameWindowsItself DEF UngrabEm, Core
<1>2. CASE s.PreviousFocus # NoWindow
  <2>1. UngrabEm(s) = r
    BY <1>2 DEF UngrabEm
  <2>2. s.PreviousFocus \in Managed(s) \cup {NoWindow}
    BY DEF Core, Valid
  <2>3. Refocused(s, x, {s.PreviousFocus})
    BY <2>2, SetFocusKeeps
  <2> HIDE DEF x
  <2>4. /\ Only(x, r, {"Focus", "PreviousFocus", "FocusOnNextTimeStamp", "Hilite"})
        /\ r.Focus = x.Focus /\ r.PreviousFocus = NoWindow /\ r.Hilite = x.Hilite
        /\ r.FocusOnNextTimeStamp = x.FocusOnNextTimeStamp
    BY <2>3 DEF Only, Refocused, Core, Base, Rec, Fields
  <2> HIDE DEF r
  <2>5. Core(r) /\ SameWindows(x, r)
    BY <2>3, <2>4, NewPointer DEF Core, Valid, Refocused
  <2>6. SameWindows(s, r)
    BY <2>3, <2>5, SameWindowsTwice DEF Refocused
  <2> QED
    BY <2>1, <2>3, <2>4, <2>5, <2>6 DEF Refocused
<1> QED
  BY <1>1, <1>2

\* The focus will go to t with the next time stamp.
LEMMA HandleHardFocusKeeps ==
  ASSUME NEW s, Core(s), NEW t \in Managed(s) \cup {NoWindow}
  PROVE  LET r == HandleHardFocus(s, t)
         IN /\ Core(r) /\ SameWindows(s, r) /\ r.FocusOnNextTimeStamp = t /\ r.Hilite = s.Hilite
            /\ {r.Focus, r.PreviousFocus} \subseteq {NoWindow, s.PreviousFocus}
            /\ ~s.held => Timed(r.queue)
<1> DEFINE s1 == [s EXCEPT !.FocusOnNextTimeStamp = t, !.Focus = NoWindow]
           s2 == GrabEm(s1)
           e == Event("MotionNotify", NoWindow)
           q == Append(s2.queue, e)
           s3 == IF s.held THEN s2 ELSE [s2 EXCEPT !.queue = q]
<1>1. HandleHardFocus(s, t) = UngrabEm(s3)
  BY DEF HandleHardFocus
<1>2. /\ Only(s, s1, {"Focus", "PreviousFocus", "FocusOnNextTimeStamp", "Hilite"})
      /\ s1.Focus = NoWindow /\ s1.PreviousFocus = s.PreviousFocus /\ s1.Hilite = s.Hilite
      /\ s1.FocusOnNextTimeStamp = t
  BY DEF Only, Core, Base, Rec, Fields
<1> HIDE DEF s1
<1>3. Core(s1) /\ SameWindows(s, s1)
  BY <1>2, NewPointer DEF Core, Valid
<1>4. /\ Core(s2) /\ SameWindows(s1, s2) /\ s2.FocusOnNextTimeStamp = t /\ s2.Hilite = s.Hilite
      /\ s2.Focus = NoWindow /\ s2.PreviousFocus \in {NoWindow, s.PreviousFocus}
  BY <1>2, <1>3, GrabEmKeeps
<1> HIDE DEF s2
<1>5. /\ Core(s3) /\ SameWindows(s2, s3) /\ SamePointers(s2, s3)
      /\ ~s.held => Timed(s3.queue)
  <2>1. CASE s.held
    BY <2>1, <1>4, SameWindowsItself DEF SamePointers, Core
  <2>2. CASE ~s.held
    <3>1. e \in EventRecord /\ e.type = "MotionNotify"
      BY EventType DEF Pointer, EventTypes, InputEvents, ClientEvents
    <3>2. q \in Seq(EventRecord) /\ Timed(q) /\ Heard(s2.queue, q)
      <4> HIDE DEF e
      <4> QED
        BY <3>1, <1>4, QueueAppend DEF Core, Base, FocusTypes, InputEvents, Foreign
    <3> HIDE DEF q
    <3>3. Only(s2, s3, {"queue"}) /\ s3.queue = q
      BY <2>2, <1>4 DEF Only, Core, Base, Rec, Fields
    <3> HIDE DEF s3
    <3>4. Managed(s3) = Managed(s2) /\ Lists(s3) /\ Grabs(s3) /\ Rec(s3) /\ SamePointers(s2, s3)
      BY <1>4, <3>3 DEF Only, Fields, Managed, Lists, Grabs, Core, Base, SamePointers
    <3>5. SameWindows(s2, s3)
      BY <1>4, <3>2, <3>3, <3>4 DEF Only, Fields, SameWindows, Core, Base, ServerTypes
    <3>6. FocusTypes(s3) /\ Valid(s3)
      BY <1>4, <3>2, <3>3, <3>4 DEF Only, Fields, FocusTypes, Valid, Core, Base, SamePointers
    <3> QED
      BY <1>4, <3>2, <3>3, <3>4, <3>5, <3>6, SameWindowsFacts DEF Core, Base
  <2> QED
    BY <2>1, <2>2
<1> HIDE DEF s3
<1>6. LET r == UngrabEm(s3)
      IN /\ Core(r) /\ SameWindows(s3, r) /\ r.FocusOnNextTimeStamp = t /\ r.Hilite = s.Hilite
         /\ {r.Focus, r.PreviousFocus} \subseteq {NoWindow, s.PreviousFocus}
  BY <1>4, <1>5, UngrabEmKeeps DEF SamePointers
<1>7. SameWindows(s, UngrabEm(s3)) /\ (~s.held => Timed(UngrabEm(s3).queue))
  <2>1. SameWindows(s, s3)
    BY <1>3, <1>4, <1>5, SameWindowsTwice
  <2>2. SameWindows(s, UngrabEm(s3))
    BY <2>1, <1>6, SameWindowsTwice
  <2>3. Timed(s3.queue) => Timed(UngrabEm(s3).queue)
    BY <1>6 DEF SameWindows
  <2> QED
    BY <2>2, <2>3, <1>5
<1> QED
  BY <1>1, <1>6, <1>7

\* An event with a time clears FocusOnNextTimeStamp.
LEMMA StashEventTimeKeeps ==
  ASSUME NEW s, Core(s)
  PROVE  LET r == StashEventTime(s)
         IN /\ Core(r) /\ SameWindows(s, r) /\ r.FocusOnNextTimeStamp = NoWindow
            /\ r.Hilite = s.Hilite /\ r.PreviousFocus = s.PreviousFocus
<1> DEFINE t == s.FocusOnNextTimeStamp
           x == SetFocus(s, t, TRUE)
           r == [x EXCEPT !.FocusOnNextTimeStamp = NoWindow]
<1>1. CASE t = NoWindow
  BY <1>1, SameWindowsItself DEF StashEventTime, Core
<1>2. CASE t # NoWindow
  <2>1. StashEventTime(s) = r
    BY <1>2 DEF StashEventTime
  <2>2. t \in Managed(s) \cup {NoWindow}
    BY DEF Core, Valid
  <2>3. Refocused(s, x, {t})
    BY <2>2, SetFocusKeeps
  <2> HIDE DEF x
  <2>4. /\ Only(x, r, {"Focus", "PreviousFocus", "FocusOnNextTimeStamp", "Hilite"})
        /\ r.Focus = x.Focus /\ r.PreviousFocus = x.PreviousFocus /\ r.Hilite = x.Hilite
        /\ r.FocusOnNextTimeStamp = NoWindow
    BY <2>3 DEF Only, Refocused, Core, Base, Rec, Fields
  <2> HIDE DEF r
  <2>5. Core(r) /\ SameWindows(x, r)
    BY <2>3, <2>4, NewPointer DEF Core, Valid, Refocused
  <2>6. SameWindows(s, r)
    BY <2>3, <2>5, SameWindowsTwice DEF Refocused
  <2> QED
    BY <2>1, <2>3, <2>4, <2>5, <2>6 DEF Refocused
<1> QED
  BY <1>1, <1>2

-----------------------------------------------------------------------------
(* WM_STATE                                                                *)

\* A client that is mapped again has its MapNotify queued behind its MapRequest.
MapsAnswered(s) ==
  \A k \in DOMAIN s.queue : s.queue[k].type = "MapRequest" /\ s.queue[k].win \in s.mapped =>
    \E j \in DOMAIN s.queue : k < j /\ s.queue[j].type = "MapNotify" /\ s.queue[j].win = s.queue[k].win

\* fvwm heard that w was mapped, or will; it knows that w is mapped or an icon.
Ready(s, w) ==
  w \in s.mapped => \E k \in DOMAIN s.queue : s.queue[k].type = "MapNotify" /\ s.queue[k].win = w
Known(s, w) == w \in s.MAPPED \cup s.ICONIFIED

NormalTold(s, w) == w \in s.mapped => s.state[w] = "Normal" /\ (Known(s, w) \/ Ready(s, w))

\* HandleUnmapNotify does nothing about a window that is neither MAPPED nor ICONIFIED when the event
\* comes: an UnmapNotify counts for a known window or behind a MapNotify.
IconicTold(s, w) ==
  w \notin s.mapped \cup s.gone =>
    \/ s.state[w] = "Iconic"
    \/ \E k \in DOMAIN s.queue :
         /\ s.queue[k].type = "UnmapNotify" /\ s.queue[k].win = w
         /\ Known(s, w) \/ \E j \in DOMAIN s.queue :
              j < k /\ s.queue[j].type = "MapNotify" /\ s.queue[j].win = w

\* WM_STATE is right for the windows of W, or events are queued that will make it so.
Tells(s, W) == MapsAnswered(s) /\ \A w \in W : NormalTold(s, w) /\ IconicTold(s, w)

\* What is told of windows in s is told of them in r.
Informs(s, r) ==
  /\ \A W \in SUBSET Windows : Tells(s, W) => Tells(r, W)
  /\ \A w \in Windows : Ready(s, w) => Ready(r, w)

\* Nothing of w changes that WM_STATE depends on, though w may be gone or fvwm may know of it.
Unmoved(s, r, w) ==
  /\ (w \in r.mapped <=> w \in s.mapped) /\ (w \in s.gone => w \in r.gone)
  /\ r.state[w] = s.state[w] /\ (Known(s, w) => Known(r, w))

\* With a queue where nothing is lost, what is told of such a window stays told of it.
LEMMA UnmovedTold ==
  ASSUME NEW s, NEW r, NEW w, Unmoved(s, r, w),
         \A k \in DOMAIN s.queue : s.queue[k].type # "FocusIn" => k \in DOMAIN r.queue /\ r.queue[k] = s.queue[k]
  PROVE  /\ Ready(s, w) => Ready(r, w)
         /\ NormalTold(s, w) => NormalTold(r, w)
         /\ IconicTold(s, w) => IconicTold(r, w)
<1>1. Known(s, w) => Known(r, w)
  BY DEF Unmoved
<1>2. ASSUME NEW k \in DOMAIN s.queue, s.queue[k].type # "FocusIn"
      PROVE  k \in DOMAIN r.queue /\ r.queue[k] = s.queue[k]
  BY <1>2
<1>3. Ready(s, w) => Ready(r, w)
  BY <1>2 DEF Ready, Unmoved
<1>4. NormalTold(s, w) => NormalTold(r, w)
  BY <1>1, <1>3 DEF NormalTold, Unmoved
<1>5. ASSUME IconicTold(s, w), w \notin r.mapped \cup r.gone, s.state[w] # "Iconic"
      PROVE  IconicTold(r, w)
  <2>1. PICK k \in DOMAIN s.queue :
          /\ s.queue[k].type = "UnmapNotify" /\ s.queue[k].win = w
          /\ Known(s, w) \/ \E j \in DOMAIN s.queue :
               j < k /\ s.queue[j].type = "MapNotify" /\ s.queue[j].win = w
    BY <1>5 DEF IconicTold, Unmoved
  <2>2. k \in DOMAIN r.queue /\ r.queue[k].type = "UnmapNotify" /\ r.queue[k].win = w
    BY <2>1, <1>2
  <2>3. Known(r, w) \/ \E j \in DOMAIN r.queue :
          j < k /\ r.queue[j].type = "MapNotify" /\ r.queue[j].win = w
    BY <2>1, <1>1, <1>2
  <2> QED
    BY <2>2, <2>3 DEF IconicTold
<1> QED
  BY <1>3, <1>4, <1>5 DEF IconicTold, Unmoved

\* No MapRequest is queued by a routine.
LEMMA HeardAnswered ==
  ASSUME NEW s, NEW r, r.mapped \subseteq s.mapped, Heard(s.queue, r.queue), MapsAnswered(s)
  PROVE  MapsAnswered(r)
<1> SUFFICES ASSUME NEW k \in DOMAIN r.queue, r.queue[k].type = "MapRequest", r.queue[k].win \in r.mapped
             PROVE  \E j \in DOMAIN r.queue : k < j /\ r.queue[j].type = "MapNotify"
                                              /\ r.queue[j].win = r.queue[k].win
  BY DEF MapsAnswered
<1>1. k \in DOMAIN s.queue /\ s.queue[k] = r.queue[k]
  BY DEF Heard, Foreign
<1>2. PICK j \in DOMAIN s.queue : k < j /\ s.queue[j].type = "MapNotify"
                                  /\ s.queue[j].win = s.queue[k].win
  BY <1>1 DEF MapsAnswered
<1>3. j \in DOMAIN r.queue /\ r.queue[j] = s.queue[j]
  BY <1>2 DEF Heard
<1> QED
  BY <1>1, <1>2, <1>3

\* What is told of the windows of W is told of fewer windows too.
LEMMA TellsFewer ==
  ASSUME NEW s, NEW W, NEW V, Tells(s, W), V \subseteq W PROVE Tells(s, V)
BY DEF Tells

\* Nothing changes that WM_STATE depends on, though fvwm may know of more windows.
Silent(s, r) ==
  /\ r.mapped = s.mapped /\ r.gone = s.gone /\ r.state = s.state
  /\ s.MAPPED \cup s.ICONIFIED \subseteq r.MAPPED \cup r.ICONIFIED
  /\ Heard(s.queue, r.queue)

LEMMA SilentInforms ==
  ASSUME NEW s, NEW r, Silent(s, r) PROVE Informs(s, r)
<1>1. MapsAnswered(s) => MapsAnswered(r)
  BY HeardAnswered DEF Silent
<1>2. \A w : Unmoved(s, r, w)
  BY DEF Silent, Unmoved, Known
<1>3. \A w : /\ Ready(s, w) => Ready(r, w)
             /\ NormalTold(s, w) => NormalTold(r, w)
             /\ IconicTold(s, w) => IconicTold(r, w)
  BY <1>2, UnmovedTold DEF Silent, Heard
<1> QED
  BY <1>1, <1>3 DEF Informs, Tells

\* The windows of G are mapped if they were not: each MapNotify is queued behind all other events.
Maps(s, r, G) ==
  /\ Heard(s.queue, r.queue) /\ r.gone = s.gone /\ s.mapped \subseteq r.mapped
  /\ G \subseteq r.mapped \cup r.gone /\ r.mapped \ s.mapped \subseteq G
  /\ \A w \in r.mapped \ s.mapped : \E j \in DOMAIN r.queue :
       /\ r.queue[j].type = "MapNotify" /\ r.queue[j].win = w
       /\ \A k \in DOMAIN s.queue : k < j

\* Windows that are mapped and have WM_STATE Normal are told the truth if fvwm knows of them or
\* will hear of it.
LEMMA MapsInforms ==
  ASSUME NEW s, NEW r, NEW G, Maps(s, r, G), \A w \in G : r.state[w] = "Normal",
         \A w \in Windows \ G : r.state[w] = s.state[w],
         \A w \in Windows : Known(s, w) => Known(r, w)
  PROVE  /\ Informs(s, r)
         /\ \A W \in SUBSET Windows :
              Tells(s, W) /\ (\A w \in G : Known(r, w) \/ Ready(s, w)) => Tells(r, W \cup G)
<1>1. ASSUME NEW w, Ready(s, w) PROVE Ready(r, w)
  <2>1. CASE w \in s.mapped
    BY <1>1, <2>1 DEF Ready, Maps, Heard
  <2>2. CASE w \in r.mapped \ s.mapped
    BY <2>2 DEF Ready, Maps
  <2> QED
    BY <2>1, <2>2 DEF Ready
<1>2. ASSUME MapsAnswered(s) PROVE MapsAnswered(r)
  <2> SUFFICES ASSUME NEW k \in DOMAIN r.queue, r.queue[k].type = "MapRequest",
                      r.queue[k].win \in r.mapped
               PROVE  \E j \in DOMAIN r.queue : k < j /\ r.queue[j].type = "MapNotify"
                                                /\ r.queue[j].win = r.queue[k].win
    BY DEF MapsAnswered
  <2>1. k \in DOMAIN s.queue /\ s.queue[k] = r.queue[k]
    BY DEF Maps, Heard, Foreign
  <2>2. CASE r.queue[k].win \in s.mapped
    <3>1. PICK j \in DOMAIN s.queue : k < j /\ s.queue[j].type = "MapNotify"
                                      /\ s.queue[j].win = s.queue[k].win
      BY <1>2, <2>1, <2>2 DEF MapsAnswered
    <3>2. j \in DOMAIN r.queue /\ r.queue[j] = s.queue[j]
      BY <3>1 DEF Maps, Heard
    <3> QED
      BY <2>1, <3>1, <3>2
  <2>3. CASE r.queue[k].win \notin s.mapped
    BY <2>1, <2>3 DEF Maps
  <2> QED
    BY <2>2, <2>3
<1>3. ASSUME NEW w \in G, w \in s.mapped => Known(r, w) \/ Ready(s, w)
      PROVE  NormalTold(r, w) /\ IconicTold(r, w)
  <2>1. w \in r.mapped => Known(r, w) \/ Ready(r, w)
    BY <1>1, <1>3 DEF Ready
  <2> QED
    BY <2>1 DEF NormalTold, IconicTold, Maps
<1>4. ASSUME NEW w \in Windows \ G PROVE Unmoved(s, r, w)
  BY DEF Unmoved, Maps
<1>5. ASSUME NEW w \in Windows, NormalTold(s, w), IconicTold(s, w)
      PROVE  NormalTold(r, w) /\ IconicTold(r, w)
  <2>1. CASE w \in G
    BY <1>3, <1>5, <2>1 DEF NormalTold
  <2>2. CASE w \notin G
    BY <1>4, <1>5, <2>2, UnmovedTold DEF Maps, Heard
  <2> QED
    BY <2>1, <2>2
<1>6. ASSUME NEW W \in SUBSET Windows, Tells(s, W), \A w \in G : Known(r, w) \/ Ready(s, w)
      PROVE  Tells(r, W \cup G)
  BY <1>2, <1>3, <1>5, <1>6 DEF Tells
<1>7. ASSUME NEW W \in SUBSET Windows, Tells(s, W) PROVE Tells(r, W)
  BY <1>2, <1>5, <1>7 DEF Tells
<1> QED
  BY <1>1, <1>6, <1>7 DEF Informs

\* Windows that are unmapped and have WM_STATE Iconic are told the truth.
LEMMA UnmapsInforms ==
  ASSUME NEW s, NEW r, NEW G, Heard(s.queue, r.queue), r.gone = s.gone, r.mapped = s.mapped \ G,
         \A w \in G : r.state[w] = "Iconic", \A w \in Windows \ G : r.state[w] = s.state[w],
         \A w \in Windows : Known(s, w) => Known(r, w)
  PROVE  /\ Informs(s, r)
         /\ \A W \in SUBSET Windows : Tells(s, W) => Tells(r, W \cup G)
<1>1. ASSUME NEW w, Ready(s, w) PROVE Ready(r, w)
  BY <1>1 DEF Ready, Heard
<1>2. MapsAnswered(s) => MapsAnswered(r)
  BY HeardAnswered
<1>3. \A w \in G : NormalTold(r, w) /\ IconicTold(r, w)
  BY DEF NormalTold, IconicTold
<1>4. \A w \in Windows \ G : Unmoved(s, r, w)
  BY DEF Unmoved
<1>5. ASSUME NEW w \in Windows \ G, NormalTold(s, w), IconicTold(s, w)
      PROVE  NormalTold(r, w) /\ IconicTold(r, w)
  BY <1>4, <1>5, UnmovedTold DEF Heard
<1>6. ASSUME NEW W \in SUBSET Windows, Tells(s, W) PROVE Tells(r, W \cup G)
  BY <1>2, <1>3, <1>5, <1>6 DEF Tells
<1>7. ASSUME NEW W \in SUBSET Windows, Tells(s, W) PROVE Tells(r, W)
  BY <1>6, <1>7, TellsFewer
<1> QED
  BY <1>1, <1>6, <1>7 DEF Informs

\* Only w moves: what is told of the others stays told of them.
LEMMA OthersTold ==
  ASSUME NEW s, NEW r, NEW w, Heard(s.queue, r.queue), r.mapped \subseteq s.mapped,
         \A v \in Windows \ {w} : Unmoved(s, r, v),
         NEW W \in SUBSET Windows, Tells(s, W), w \in W => NormalTold(r, w) /\ IconicTold(r, w)
  PROVE  Tells(r, W)
<1>1. MapsAnswered(r)
  BY HeardAnswered DEF Tells
<1>2. ASSUME NEW v \in W PROVE NormalTold(r, v) /\ IconicTold(r, v)
  <2>1. CASE v = w
    BY <2>1
  <2>2. CASE v # w
    <3>1. NormalTold(s, v) /\ IconicTold(s, v) /\ Unmoved(s, r, v)
      BY <2>2 DEF Tells
    <3> QED
      BY <3>1, UnmovedTold DEF Heard
  <2> QED
    BY <2>1, <2>2
<1> QED
  BY <1>1, <1>2 DEF Tells

\* Informs is reflexive and transitive.
LEMMA InformsItself == \A s : Informs(s, s)
BY DEF Informs

LEMMA InformsTwice ==
  ASSUME NEW s, NEW r, NEW t, Informs(s, r), Informs(r, t) PROVE Informs(s, t)
BY DEF Informs

\* The focus routines say nothing about WM_STATE.
LEMMA SameWindowsInforms ==
  ASSUME NEW s, NEW r, SameWindows(s, r) PROVE Informs(s, r)
<1>1. Silent(s, r)
  BY DEF SameWindows, Silent
<1> QED
  BY <1>1, SilentInforms

-----------------------------------------------------------------------------
(* What shows                                                              *)

Here(s, w) == s.Desk[w] = s.CurrentDesk

\* A client that is mapped has its frame on the current desk, if fvwm heard of the mapping, and
\* is no icon. A window iconified for its own sake has its icon there, unless it was iconified
\* on another desk and its icon is a sticky one. A sticky window is on the current desk.
Appears(s, w) ==
  /\ Ready(s, w) \/ (w \in s.MAPPED /\ (Here(s, w) => w \in s.frame))
  /\ w \in s.mapped => w \notin s.ICONIFIED
  /\ Here(s, w) /\ w \in s.ICONIFIED \ (s.ICON_UNMAPPED \cup StickyIcon) => w \in s.icon
  /\ w \in s.STICKY => Here(s, w)

\* Only iconified windows are iconified for another window's sake, and fvwm's flags are those of
\* windows it knows.
Marked(s) == s.ICON_UNMAPPED \subseteq s.ICONIFIED /\ s.ICONIFIED \cup s.STICKY \subseteq Managed(s)

\* Only the windows of Stuck will be stuck.
Asked(s) == \A k \in DOMAIN s.queue : s.queue[k].type = "Stick" => s.queue[k].win \in Stuck

\* The windows of W appear, but for those of Stuck.
Sees(s, W) ==
  Asked(s) /\ Marked(s) /\ W \subseteq Managed(s) /\ \A w \in W \ Stuck : Appears(s, w)

\* What appears in s appears in r.
Reveals(s, r) == \A W \in SUBSET Windows : Sees(s, W) => Sees(r, W)

\* Reveals is reflexive and transitive.
LEMMA RevealsItself == \A s : Reveals(s, s)
BY DEF Reveals

LEMMA RevealsTwice ==
  ASSUME NEW s, NEW r, NEW t, Reveals(s, r), Reveals(r, t) PROVE Reveals(s, t)
BY DEF Reveals

\* Fewer windows appear if more do.
LEMMA SeesFewer ==
  ASSUME NEW s, NEW W, NEW V, Sees(s, W), V \subseteq W PROVE Sees(s, V)
BY DEF Sees

\* No routine queues a Stick but for the windows of Stuck.
LEMMA HeardAsked ==
  ASSUME NEW s, NEW r, Heard(s.queue, r.queue), Asked(s) PROVE Asked(r)
BY DEF Heard, Foreign, Asked

\* What appears can be looked at window by window.
LEMMA RevealsBy ==
  ASSUME NEW s, NEW r, Asked(s) => Asked(r), Managed(s) \subseteq Managed(r), Marked(s) => Marked(r),
         \A w \in Managed(s) \ Stuck : Marked(s) /\ Appears(s, w) => Appears(r, w)
  PROVE  Reveals(s, r)
BY DEF Reveals, Sees

\* The same for all windows but one.
LEMMA SeesOthers ==
  ASSUME NEW s, NEW r, NEW w, Asked(s) => Asked(r), Managed(s) \ {w} \subseteq Managed(r),
         Marked(s) => Marked(r), \A v \in Managed(s) \ {w} : Appears(s, v) => Appears(r, v),
         NEW W \in SUBSET Windows, w \notin W, Sees(s, W)
  PROVE  Sees(r, W)
BY DEF Sees

\* Clients that are unmapped and events that are queued hide nothing that fvwm shows.
LEMMA SeenStill ==
  ASSUME NEW s, NEW r, Managed(r) = Managed(s), Asked(s) => Asked(r),
         r.MAPPED = s.MAPPED, r.ICONIFIED = s.ICONIFIED, r.ICON_UNMAPPED = s.ICON_UNMAPPED,
         r.STICKY = s.STICKY, r.Desk = s.Desk, r.CurrentDesk = s.CurrentDesk,
         r.frame = s.frame, r.icon = s.icon, r.mapped \subseteq s.mapped,
         \A k \in DOMAIN s.queue : s.queue[k].type # "FocusIn" => k \in DOMAIN r.queue /\ r.queue[k] = s.queue[k]
  PROVE  Reveals(s, r)
<1>1. Marked(s) => Marked(r)
  BY DEF Marked
<1>2. ASSUME NEW w, Ready(s, w) PROVE Ready(r, w)
  <2>1. CASE w \in r.mapped
    <3>1. PICK k \in DOMAIN s.queue : s.queue[k].type = "MapNotify" /\ s.queue[k].win = w
      BY <1>2, <2>1 DEF Ready
    <3>2. k \in DOMAIN r.queue /\ r.queue[k] = s.queue[k]
      BY <3>1
    <3> QED
      BY <3>1, <3>2 DEF Ready
  <2> QED
    BY <2>1 DEF Ready
<1>3. \A w : Appears(s, w) => Appears(r, w)
  BY <1>2 DEF Appears, Here
<1> QED
  BY <1>1, <1>3, RevealsBy

\* The focus routines hide nothing.
LEMMA SameWindowsReveals ==
  ASSUME NEW s, NEW r, SameWindows(s, r) PROVE Reveals(s, r)
<1>1. Asked(s) => Asked(r)
  BY HeardAsked DEF SameWindows
<1> QED
  BY <1>1, SeenStill DEF SameWindows, Heard

-----------------------------------------------------------------------------
(* Desks and icons                                                         *)

\* What every routine but Destroy keeps, whatever shows.
Keeps(s, r) ==
  /\ Core(r) /\ Shown(r) /\ Managed(r) = Managed(s) /\ r.held = s.held /\ (r.away => s.away)
  /\ (~s.held /\ Stamped(s) => Stamped(r)) /\ Informs(s, r)

\* Moreover what appears still does.
Works(s, r) == Keeps(s, r) /\ Reveals(s, r)

\* Keeps is transitive.
LEMMA KeepsTwice ==
  ASSUME NEW s, NEW r, NEW t, Keeps(s, r), Keeps(r, t)
  PROVE  Keeps(s, t)
<1>1. Informs(s, t)
  BY InformsTwice DEF Keeps
<1> QED
  BY <1>1 DEF Keeps

\* Works is transitive.
LEMMA WorksTwice ==
  ASSUME NEW s, NEW r, NEW t, Works(s, r), Works(r, t)
  PROVE  Works(s, t)
BY KeepsTwice, RevealsTwice DEF Works

\* Works is reflexive.
LEMMA WorksItself ==
  ASSUME NEW s, Core(s), Shown(s) PROVE Works(s, s)
BY InformsItself, RevealsItself DEF Works, Keeps

\* The focus routines keep everything if FocusOnNextTimeStamp stays.
LEMMA RefocusedWorks ==
  ASSUME NEW s, NEW r, Shown(s), Core(r), SameWindows(s, r),
         r.FocusOnNextTimeStamp = s.FocusOnNextTimeStamp
  PROVE  Works(s, r)
<1>1. Informs(s, r) /\ Reveals(s, r) /\ Shown(r)
  BY SameWindowsFacts, SameWindowsInforms, SameWindowsReveals
<1> QED
  BY <1>1 DEF Works, Keeps, SameWindows, Stamped

\* What is shown, how, and what the clients are told changes.
Windowing == {"MAPPED", "MAP_PENDING", "ICONIFIED", "ICON_UNMAPPED", "STICKY", "Desk", "FocusDesk",
              "CurrentDesk", "mapped", "gone", "frame", "icon", "state", "xfocus", "queue", "Hilite"}

\* Lists, grabs and pointers do not depend on what is shown.
LEMMA NewWindowing ==
  ASSUME NEW s, Core(s), NEW r, Only(s, r, Windowing), Flags(r), ServerTypes(r),
         r.xfocus \in Pointer \cup {Root}, r.queue \in Seq(EventRecord),
         r.Hilite \in Managed(s) \cup {NoWindow}, Timed(s.queue) => Timed(r.queue)
  PROVE  /\ Core(r) /\ Managed(r) = Managed(s) /\ r.held = s.held /\ r.away = s.away
         /\ Stamped(s) => Stamped(r)
         /\ r.Focus = s.Focus /\ r.PreviousFocus = s.PreviousFocus /\ r.Ungrabbed = s.Ungrabbed
         /\ r.FocusOnNextTimeStamp = s.FocusOnNextTimeStamp
<1>1. /\ r.list = s.list /\ r.ring = s.ring /\ r.grab = s.grab /\ r.held = s.held /\ r.away = s.away
      /\ r.Focus = s.Focus /\ r.PreviousFocus = s.PreviousFocus /\ r.Ungrabbed = s.Ungrabbed
      /\ r.FocusOnNextTimeStamp = s.FocusOnNextTimeStamp
  BY DEF Only, Fields, Windowing
<1>2. Managed(r) = Managed(s) /\ Lists(r) /\ Rec(r) /\ Grabs(r)
  BY <1>1 DEF Only, Managed, Lists, Core, Base, Grabs
<1>3. r.Hilite \in Pointer
  BY ListsOf DEF Pointer
<1>4. FocusTypes(r) /\ Valid(r)
  BY <1>1, <1>2, <1>3 DEF FocusTypes, Valid, Core, Base
<1> QED
  BY <1>1, <1>2, <1>4 DEF Core, Base, Stamped

\* What HideFrames changes.
LEMMA HideFramesFacts ==
  ASSUME NEW s, Core(s), NEW G
  PROVE  LET r == HideFrames(s, G)
         IN Only(s, r, {"frame", "xfocus"}) /\ r.frame = s.frame \ G /\ r.xfocus \in {s.xfocus, Root}
<1> DEFINE x == IF s.xfocus \in G \cap s.frame THEN Root ELSE s.xfocus
<1>1. HideFrames(s, G) = [s EXCEPT !.frame = @ \ G, !.xfocus = x]
  BY DEF HideFrames
<1>2. x \in {s.xfocus, Root}
  OBVIOUS
<1> HIDE DEF x
<1> QED
  BY <1>1, <1>2 DEF Only, Core, Base, Rec, Fields

\* What HideIcons changes.
LEMMA HideIconsFacts ==
  ASSUME NEW s, Core(s), NEW G
  PROVE  LET r == HideIcons(s, G)
         IN Only(s, r, {"icon", "xfocus"}) /\ r.icon = s.icon \ G /\ r.xfocus \in {s.xfocus, Root}
<1> DEFINE x == IF s.xfocus \in G \cap s.icon THEN Root ELSE s.xfocus
<1>1. HideIcons(s, G) = [s EXCEPT !.icon = @ \ G, !.xfocus = x]
  BY DEF HideIcons
<1>2. x \in {s.xfocus, Root}
  OBVIOUS
<1> HIDE DEF x
<1> QED
  BY <1>1, <1>2 DEF Only, Core, Base, Rec, Fields

\* Hiding frames or icons is right for lists, grabs and pointers.
LEMMA HideKeeps ==
  ASSUME NEW s, Core(s), NEW G
  PROVE  /\ Core(HideFrames(s, G)) /\ Core(HideIcons(s, G))
         /\ SamePointers(s, HideFrames(s, G)) /\ SamePointers(s, HideIcons(s, G))
<1>1. ASSUME NEW r, Only(s, r, {"frame", "icon", "xfocus"}), r.frame \subseteq s.frame,
             r.icon \subseteq s.icon, r.xfocus \in {s.xfocus, Root}
      PROVE  Core(r) /\ SamePointers(s, r)
  <2>1. Flags(r) /\ ServerTypes(r)
    BY <1>1 DEF Only, Fields, Flags, ServerTypes, Core, Base
  <2>2. /\ r.xfocus \in Pointer \cup {Root} /\ r.queue \in Seq(EventRecord)
        /\ r.Hilite \in Managed(s) \cup {NoWindow} /\ r.queue = s.queue /\ SamePointers(s, r)
    BY <1>1 DEF Only, Fields, FocusTypes, Valid, Core, Base, SamePointers
  <2>3. Only(s, r, Windowing)
    BY <1>1 DEF Only, Fields, Windowing
  <2> QED
    BY <2>1, <2>2, <2>3, NewWindowing
<1>2. LET r == HideFrames(s, G)
      IN Only(s, r, {"frame", "icon", "xfocus"}) /\ r.frame \subseteq s.frame /\ r.icon \subseteq s.icon
  BY HideFramesFacts DEF Only, Fields
<1>3. LET r == HideIcons(s, G)
      IN Only(s, r, {"frame", "icon", "xfocus"}) /\ r.frame \subseteq s.frame /\ r.icon \subseteq s.icon
  BY HideIconsFacts DEF Only, Fields
<1> QED
  BY <1>1, <1>2, <1>3, HideFramesFacts, HideIconsFacts

\* What UnmapIt changes.
LEMMA UnmapItFacts ==
  ASSUME NEW s, Core(s), NEW G
  PROVE  LET r == UnmapIt(s, G)
         IN /\ Only(s, r, {"frame", "icon", "xfocus"}) /\ r.xfocus \in {s.xfocus, Root}
            /\ r.icon = s.icon \ (G \cap s.ICONIFIED)
            /\ r.frame = s.frame \ ((G \ s.ICONIFIED) \cap (s.MAPPED \cup s.MAP_PENDING))
<1> DEFINE h == HideIcons(s, G \cap s.ICONIFIED)
           F == (G \ s.ICONIFIED) \cap (s.MAPPED \cup s.MAP_PENDING)
           r == HideFrames(h, F)
<1>1. UnmapIt(s, G) = r
  BY DEF UnmapIt
<1>2. /\ Only(s, h, {"icon", "xfocus"}) /\ h.icon = s.icon \ (G \cap s.ICONIFIED) /\ Core(h)
      /\ h.xfocus \in {s.xfocus, Root}
  BY HideIconsFacts, HideKeeps
<1> HIDE DEF h, F
<1>3. Only(h, r, {"frame", "xfocus"}) /\ r.frame = h.frame \ F /\ r.xfocus \in {h.xfocus, Root}
  BY <1>2, HideFramesFacts
<1> HIDE DEF r
<1>4. Only(s, r, {"frame", "icon", "xfocus"}) /\ r.icon = h.icon /\ h.frame = s.frame
  BY <1>2, <1>3 DEF Only, Fields
<1> QED
  BY <1>1, <1>2, <1>3, <1>4 DEF F

\* What MapIt changes.
LEMMA MapItFacts ==
  ASSUME NEW s, Core(s), NEW G \in SUBSET Windows
  PROVE  LET r == MapIt(s, G)
             shown == (G \ s.ICONIFIED) \cap s.MAPPED
         IN /\ Only(s, r, {"frame", "icon", "MAP_PENDING"})
            /\ r.icon = s.icon \cup (G \cap s.ICONIFIED)
            /\ r.frame = s.frame \cup shown /\ r.MAP_PENDING = s.MAP_PENDING \cup shown
BY DEF MapIt, Only, Core, Base, Rec, Fields

\* What MapIt and UnmapIt do is right for the rest of the state.
LEMMA ShowKeeps ==
  ASSUME NEW s, Core(s), NEW r, Only(s, r, {"frame", "icon", "MAP_PENDING", "xfocus"}),
         r.frame \subseteq Windows, r.icon \subseteq Windows, r.MAP_PENDING \subseteq Windows,
         r.xfocus \in {s.xfocus, Root}
  PROVE  Core(r) /\ Managed(r) = Managed(s) /\ r.held = s.held /\ r.away = s.away
         /\ (Stamped(s) => Stamped(r)) /\ SamePointers(s, r)
<1>1. Flags(r) /\ ServerTypes(r)
  BY DEF Only, Fields, Flags, ServerTypes, Core, Base
<1>2. /\ r.xfocus \in Pointer \cup {Root} /\ r.queue \in Seq(EventRecord)
      /\ r.Hilite \in Managed(s) \cup {NoWindow} /\ r.queue = s.queue /\ SamePointers(s, r)
  BY DEF Only, Fields, FocusTypes, Valid, Core, Base, SamePointers
<1>3. Only(s, r, Windowing)
  BY DEF Only, Fields, Windowing
<1> QED
  BY <1>1, <1>2, <1>3, NewWindowing

\* changeDesks hides all of the old desk that does not stay, and shows only the new one.
LEMMA changeDesksWorks ==
  ASSUME NEW s, Core(s), Shown(s), NEW desk \in Desks
  PROVE  Works(s, changeDesks(s, desk))
<1> DEFINE old == s.CurrentDesk
           stay == {w \in Managed(s) : Stays(s, w)}
           shown == {w \in Managed(s) \ stay : s.Desk[w] = desk}
           hidden == {w \in Managed(s) \ stay : s.Desk[w] = old}
           D == [w \in Windows |-> IF w \in stay THEN desk ELSE s.Desk[w]]
           FD == [w \in Windows |-> IF w \in hidden THEN (IF w = s.Focus THEN old ELSE -1)
                                    ELSE IF w \in stay /\ w = s.Focus THEN old ELSE s.FocusDesk[w]]
           s1 == [s EXCEPT !.CurrentDesk = desk, !.Desk = D, !.FocusDesk = FD]
           t == FocusWin(s1, shown)
           m == MapIt(s1, shown)
           s2 == UnmapIt(m, hidden)
           f == IF t \in ClickToFocus THEN t ELSE NoWindow
<1>1. CASE desk = old
  BY <1>1, WorksItself DEF changeDesks
<1>2. CASE desk # old
  <2>1. changeDesks(s, desk) = SetFocus(s2, f, TRUE)
    BY <1>2 DEF changeDesks
  <2>2. /\ Managed(s) \subseteq Windows /\ stay \subseteq Managed(s)
        /\ shown \subseteq Managed(s) \ stay /\ hidden \subseteq Managed(s) \ stay
        /\ \A w \in shown : s.Desk[w] = desk
        /\ \A w \in Managed(s) \ stay : s.Desk[w] = old => w \in hidden
    BY ListsOf
  <2>3. D \in [Windows -> Desks] /\ FD \in [Windows -> Desks \cup {-1}]
        /\ \A w \in Windows : D[w] = IF w \in stay THEN desk ELSE s.Desk[w]
    <3> HIDE DEF hidden, stay
    <3> QED
      BY DEF Core, Base, Flags
  <2>4. t \in shown \cup {NoWindow}
    BY DEF FocusWin
  <2> HIDE DEF D, FD, shown, hidden, stay
  <2>5. /\ Only(s, s1, {"CurrentDesk", "Desk", "FocusDesk"})
        /\ s1.CurrentDesk = desk /\ s1.Desk = D /\ s1.FocusDesk = FD
    BY DEF Only, Core, Base, Rec, Fields
  <2> HIDE DEF t, s1
  <2>6. /\ Core(s1) /\ Managed(s1) = Managed(s) /\ s1.held = s.held /\ s1.away = s.away
        /\ Stamped(s) => Stamped(s1)
    <3>1. Flags(s1) /\ ServerTypes(s1)
      BY <2>3, <2>5 DEF Only, Fields, Flags, ServerTypes, Core, Base
    <3>2. /\ s1.xfocus \in Pointer \cup {Root} /\ s1.queue \in Seq(EventRecord)
          /\ s1.Hilite \in Managed(s) \cup {NoWindow} /\ s1.queue = s.queue
      BY <2>5 DEF Only, Fields, FocusTypes, Valid, Core, Base
    <3>3. Only(s, s1, Windowing)
      BY <2>5 DEF Only, Fields, Windowing
    <3> QED
      BY <3>1, <3>2, <3>3, NewWindowing
  <2>7. /\ Only(s1, m, {"frame", "icon", "MAP_PENDING"})
        /\ m.icon = s1.icon \cup (shown \cap s1.ICONIFIED)
        /\ m.frame = s1.frame \cup ((shown \ s1.ICONIFIED) \cap s1.MAPPED)
        /\ m.MAP_PENDING = s1.MAP_PENDING \cup ((shown \ s1.ICONIFIED) \cap s1.MAPPED)
    BY <2>2, <2>6, MapItFacts
  <2> HIDE DEF m
  <2>8. /\ s1.icon = s.icon /\ s1.frame = s.frame /\ s1.ICONIFIED = s.ICONIFIED
        /\ s1.MAPPED = s.MAPPED /\ s1.MAP_PENDING = s.MAP_PENDING
    BY <2>5 DEF Only, Fields
  <2>9. /\ Core(m) /\ Managed(m) = Managed(s) /\ m.held = s.held /\ m.away = s.away
        /\ Stamped(s) => Stamped(m)
    <3>1. /\ m.frame \subseteq Windows /\ m.icon \subseteq Windows /\ m.MAP_PENDING \subseteq Windows
      BY <2>2, <2>7, <2>8 DEF Core, Base, Flags, ServerTypes
    <3>2. m.xfocus = s1.xfocus /\ Only(s1, m, {"frame", "icon", "MAP_PENDING", "xfocus"})
      BY <2>7 DEF Only, Fields
    <3> QED
      BY <2>6, <3>1, <3>2, ShowKeeps
  <2>10. /\ Only(m, s2, {"frame", "icon", "xfocus"}) /\ s2.xfocus \in {m.xfocus, Root}
         /\ s2.icon = m.icon \ (hidden \cap m.ICONIFIED)
         /\ s2.frame = m.frame \ ((hidden \ m.ICONIFIED) \cap (m.MAPPED \cup m.MAP_PENDING))
    BY <2>9, UnmapItFacts
  <2> HIDE DEF s2
  <2>11. /\ Core(s2) /\ Managed(s2) = Managed(s) /\ s2.held = s.held /\ s2.away = s.away
         /\ Stamped(s) => Stamped(s2)
    <3>1. /\ s2.frame \subseteq Windows /\ s2.icon \subseteq Windows /\ s2.MAP_PENDING \subseteq Windows
      BY <2>9, <2>10 DEF Only, Fields, Core, Base, Flags, ServerTypes
    <3>2. Only(m, s2, {"frame", "icon", "MAP_PENDING", "xfocus"})
      BY <2>10 DEF Only, Fields
    <3> QED
      BY <2>9, <2>10, <3>1, <3>2, ShowKeeps
  <2>12. /\ m.ICONIFIED = s.ICONIFIED /\ m.MAPPED = s.MAPPED
         /\ s2.ICONIFIED = s.ICONIFIED /\ s2.MAPPED = s.MAPPED /\ s2.MAP_PENDING = m.MAP_PENDING
         /\ s2.Desk = D /\ s2.CurrentDesk = desk
    BY <2>5, <2>7, <2>8, <2>10 DEF Only, Fields
  <2>13. Shown(s2)
    <3>1. s2.icon \subseteq s2.ICONIFIED /\ s2.frame \cap s2.ICONIFIED = {}
          /\ s2.frame \subseteq s2.MAPPED \cup s2.MAP_PENDING
      BY <2>7, <2>8, <2>10, <2>12 DEF Shown
    <3>2. ASSUME NEW w \in s2.frame \cup s2.icon
          PROVE  w \in Managed(s2) /\ s2.Desk[w] = s2.CurrentDesk
      <4>1. CASE w \in shown
        BY <4>1, <2>2, <2>3, <2>11, <2>12
      <4>2. CASE w \notin shown
        <5>1. w \in s.frame \cup s.icon
          BY <3>2, <4>2, <2>7, <2>8, <2>10
        <5>2. w \in Managed(s) /\ s.Desk[w] = old
          BY <5>1 DEF Shown
        <5>3. w \notin hidden
          BY <3>2, <5>1, <2>7, <2>8, <2>10, <2>12 DEF Shown
        <5>4. w \in stay
          BY <5>2, <5>3, <2>2
        <5> QED
          BY <5>2, <5>4, <2>2, <2>3, <2>11, <2>12
      <4> QED
        BY <4>1, <4>2
    <3> QED
      BY <3>1, <3>2 DEF Shown
  <2>14. Works(s, s2)
    <3>1. Silent(s, s2)
      BY <2>5, <2>7, <2>10, HeardItself DEF Only, Fields, Silent
    <3>2. /\ s2.mapped = s.mapped /\ s2.queue = s.queue /\ s2.STICKY = s.STICKY
          /\ s2.ICON_UNMAPPED = s.ICON_UNMAPPED
      BY <2>5, <2>7, <2>10 DEF Only, Fields
    <3>3. ASSUME NEW w \in Managed(s), Marked(s), Appears(s, w) PROVE Appears(s2, w)
      <4>1. Ready(s, w) => Ready(s2, w)
        BY <3>2 DEF Ready
      <4>2. w \notin s.mapped => Ready(s2, w)
        BY <3>2 DEF Ready
      <4>3. s.ICON_UNMAPPED \subseteq s.ICONIFIED /\ (w \in s.mapped => w \notin s.ICONIFIED)
        BY <3>3 DEF Marked, Appears
      <4>4. CASE w \in stay
        <5>1. Here(s2, w) /\ w \notin hidden
          BY <4>4, <2>2, <2>3, <2>12 DEF Here
        <5>2. w \in s.frame => w \in s2.frame
          BY <5>1, <2>7, <2>8, <2>10
        <5>3. w \in s.icon => w \in s2.icon
          BY <5>1, <2>7, <2>8, <2>10
        <5>4. CASE w \in s.STICKY
          BY <3>2, <3>3, <4>1, <5>1, <5>2, <5>3, <5>4, <2>12 DEF Appears
        <5>5. CASE w \notin s.STICKY
          <6>1. w \in s.ICONIFIED /\ w \in StickyIcon \cup s.ICON_UNMAPPED
            BY <4>3, <4>4, <5>5 DEF stay, Stays
          <6> QED
            BY <3>2, <4>2, <4>3, <5>5, <6>1, <2>12 DEF Appears
        <5> QED
          BY <5>4, <5>5
      <4>5. CASE w \notin stay
        <5>1. w \notin s.STICKY
          BY <4>5 DEF stay, Stays
        <5>2. Here(s2, w) => w \in shown /\ w \notin hidden
          BY <1>2, <4>5, <2>2, <2>3, <2>12 DEF Here, shown, hidden
        <5>3. Here(s2, w) /\ w \in s.MAPPED \ s.ICONIFIED => w \in s2.frame
          BY <5>2, <2>7, <2>8, <2>10
        <5>4. Here(s2, w) /\ w \in s.ICONIFIED => w \in s2.icon
          BY <5>2, <2>7, <2>8, <2>10
        <5>5. Ready(s2, w) \/ w \in s.MAPPED \ s.ICONIFIED
          BY <3>3, <4>1, <4>2, <4>3 DEF Appears
        <5> QED
          BY <3>2, <4>3, <5>1, <5>3, <5>4, <5>5, <2>12 DEF Appears
      <4> QED
        BY <4>4, <4>5
    <3>4. Marked(s) => Marked(s2)
      BY <3>2, <2>11, <2>12 DEF Marked
    <3>5. Reveals(s, s2)
      BY <3>2, <3>3, <3>4, <2>11, RevealsBy DEF Asked
    <3> QED
      BY <3>1, <3>5, <2>11, <2>13, SilentInforms DEF Works, Keeps
  <2>15. f \in Managed(s2) \cup {NoWindow}
    BY <2>2, <2>4, <2>11
  <2> HIDE DEF f
  <2>16. Works(s2, SetFocus(s2, f, TRUE))
    BY <2>11, <2>13, <2>15, SetFocusKeeps, RefocusedWorks DEF Refocused
  <2> QED
    BY <2>1, <2>14, <2>16, WorksTwice
<1> QED
  BY <1>1, <1>2

\* A routine that changes only the windowing is right for the rest of the state.
LEMMA WindowingWorks ==
  ASSUME NEW s, Core(s), NEW r, Only(s, r, Windowing), Flags(r), ServerTypes(r),
         r.xfocus \in Pointer \cup {Root}, r.queue \in Seq(EventRecord),
         r.Hilite \in Managed(s) \cup {NoWindow}, Timed(s.queue) => Timed(r.queue), Shown(r),
         Informs(s, r), Reveals(s, r)
  PROVE  Works(s, r)
BY NewWindowing DEF Works, Keeps

\* A window sent to another desk is hidden if it was seen, shown if it will be.
LEMMA changeWindowsDeskWorks ==
  ASSUME NEW s, Core(s), Shown(s), NEW w \in Managed(s), NEW desk \in Desks
  PROVE  Works(s, changeWindowsDesk(s, w, desk))
<1> DEFINE D == [s.Desk EXCEPT ![w] = desk]
           moved == [s EXCEPT !.Desk = D]
           u == UnmapIt(moved, {w})
           m == MapIt(moved, {w})
<1>0. w \in Windows
  BY ListsOf
<1>1. CASE s.Desk[w] = desk \/ Stays(s, w)
  BY <1>1, WorksItself DEF changeWindowsDesk
<1>2. CASE ~(s.Desk[w] = desk \/ Stays(s, w))
  <2>1. changeWindowsDesk(s, w, desk) = IF s.Desk[w] = s.CurrentDesk THEN u
                                        ELSE IF desk = s.CurrentDesk THEN m ELSE moved
    BY <1>2 DEF changeWindowsDesk
  <2>2. D \in [Windows -> Desks] /\ D[w] = desk /\ \A v \in Windows \ {w} : D[v] = s.Desk[v]
    BY <1>0 DEF Core, Base, Flags
  <2> HIDE DEF D
  <2>3. Only(s, moved, {"Desk"}) /\ moved.Desk = D
    BY DEF Only, Core, Base, Rec, Fields
  <2> HIDE DEF moved
  <2>4. /\ moved.ICONIFIED = s.ICONIFIED /\ moved.MAPPED = s.MAPPED /\ moved.CurrentDesk = s.CurrentDesk
        /\ moved.MAP_PENDING = s.MAP_PENDING /\ moved.frame = s.frame /\ moved.icon = s.icon
    BY <2>3 DEF Only, Fields
  <2>5. /\ Core(moved) /\ Managed(moved) = Managed(s) /\ moved.held = s.held /\ moved.away = s.away
        /\ Stamped(s) => Stamped(moved)
    <3>1. Flags(moved) /\ ServerTypes(moved)
      BY <2>2, <2>3 DEF Only, Fields, Flags, ServerTypes, Core, Base
    <3>2. /\ moved.xfocus \in Pointer \cup {Root} /\ moved.queue \in Seq(EventRecord)
          /\ moved.Hilite \in Managed(s) \cup {NoWindow} /\ moved.queue = s.queue
      BY <2>3 DEF Only, Fields, FocusTypes, Valid, Core, Base
    <3>3. Only(s, moved, Windowing)
      BY <2>3 DEF Only, Fields, Windowing
    <3> QED
      BY <3>1, <3>2, <3>3, NewWindowing
  <2>6. ASSUME NEW r, Only(moved, r, {"frame", "icon", "MAP_PENDING", "xfocus"}),
               moved.frame \ {w} \subseteq r.frame, moved.icon \ {w} \subseteq r.icon,
               desk = s.CurrentDesk => /\ w \in s.MAPPED \ s.ICONIFIED => w \in r.frame
                                       /\ w \in s.ICONIFIED => w \in r.icon
        PROVE  Reveals(s, r)
    <3>1. /\ r.ICONIFIED = s.ICONIFIED /\ r.MAPPED = s.MAPPED /\ r.STICKY = s.STICKY
          /\ r.ICON_UNMAPPED = s.ICON_UNMAPPED /\ r.mapped = s.mapped /\ r.queue = s.queue
          /\ r.Desk = D /\ r.CurrentDesk = s.CurrentDesk /\ Managed(r) = Managed(s)
      BY <2>6, <2>3 DEF Only, Fields, Managed
    <3>2. ASSUME NEW v \in Managed(s), Appears(s, v) PROVE Appears(r, v)
      <4>1. Ready(s, v) => Ready(r, v)
        BY <3>1 DEF Ready
      <4>2. CASE v = w
        <5>1. w \notin s.STICKY
          BY <1>2 DEF Stays
        <5>2. Here(r, w) => desk = s.CurrentDesk
          BY <3>1, <2>2 DEF Here
        <5>3. Ready(r, w) \/ w \in s.MAPPED \ s.ICONIFIED
          BY <3>1, <3>2, <4>1, <4>2 DEF Appears, Ready
        <5> QED
          BY <2>6, <3>1, <3>2, <4>2, <5>1, <5>2, <5>3 DEF Appears
      <4>3. CASE v # w
        <5>1. Here(r, v) <=> Here(s, v)
          BY <4>3, <3>1, <2>2, ListsOf DEF Here
        <5>2. (v \in s.frame => v \in r.frame) /\ (v \in s.icon => v \in r.icon)
          BY <2>6, <2>4, <4>3
        <5> QED
          BY <3>1, <3>2, <4>1, <5>1, <5>2 DEF Appears
      <4> QED
        BY <4>2, <4>3
    <3>3. Marked(s) => Marked(r)
      BY <3>1 DEF Marked
    <3> QED
      BY <3>1, <3>2, <3>3, RevealsBy DEF Asked
  <2>7. CASE s.Desk[w] = s.CurrentDesk
    <3>1. /\ Only(moved, u, {"frame", "icon", "xfocus"}) /\ u.xfocus \in {moved.xfocus, Root}
          /\ u.icon = moved.icon \ ({w} \cap moved.ICONIFIED)
          /\ u.frame = moved.frame \ (({w} \ moved.ICONIFIED) \cap (moved.MAPPED \cup moved.MAP_PENDING))
      BY <2>5, UnmapItFacts
    <3> HIDE DEF u
    <3>2. /\ Core(u) /\ Managed(u) = Managed(s) /\ u.held = s.held /\ u.away = s.away
          /\ Stamped(s) => Stamped(u)
      <4>1. /\ u.frame \subseteq Windows /\ u.icon \subseteq Windows /\ u.MAP_PENDING \subseteq Windows
        BY <2>5, <3>1 DEF Only, Fields, Core, Base, Flags, ServerTypes
      <4>2. Only(moved, u, {"frame", "icon", "MAP_PENDING", "xfocus"})
        BY <3>1 DEF Only, Fields
      <4> QED
        BY <2>5, <3>1, <4>1, <4>2, ShowKeeps
    <3>3. /\ u.ICONIFIED = s.ICONIFIED /\ u.MAPPED = s.MAPPED /\ u.MAP_PENDING = s.MAP_PENDING
          /\ u.Desk = D /\ u.CurrentDesk = s.CurrentDesk
      BY <2>3, <2>4, <3>1 DEF Only, Fields
    <3>4. w \notin u.frame \cup u.icon
      BY <2>4, <3>1 DEF Shown
    <3>5. Shown(u)
      BY <2>2, <2>4, <3>1, <3>2, <3>3, <3>4, ListsOf DEF Shown
    <3>6. Silent(s, u)
      BY <2>3, <3>1, HeardItself DEF Only, Fields, Silent
    <3>7. Reveals(s, u)
      <4>1. Only(moved, u, {"frame", "icon", "MAP_PENDING", "xfocus"}) /\ desk # s.CurrentDesk
        BY <1>2, <2>7, <3>1 DEF Only, Fields
      <4>2. moved.frame \ {w} \subseteq u.frame /\ moved.icon \ {w} \subseteq u.icon
        BY <3>1
      <4> QED
        BY <4>1, <4>2, <2>6
    <3> QED
      BY <2>1, <2>7, <3>2, <3>5, <3>6, <3>7, SilentInforms DEF Works, Keeps
  <2>8. CASE s.Desk[w] # s.CurrentDesk
    <3>0. w \notin s.frame \cup s.icon
      BY <2>8 DEF Shown
    <3>1. Shown(moved)
      BY <2>2, <2>3, <2>4, <2>5, <3>0, ListsOf DEF Shown
    <3>2. CASE desk # s.CurrentDesk
      <4>1. Silent(s, moved)
        BY <2>3, HeardItself DEF Only, Fields, Silent
      <4>2. Only(moved, moved, {"frame", "icon", "MAP_PENDING", "xfocus"})
        BY <2>3 DEF Only
      <4>3. Reveals(s, moved)
        BY <2>6, <3>2, <4>2
      <4> QED
        BY <2>1, <2>5, <2>8, <3>1, <3>2, <4>1, <4>3, SilentInforms DEF Works, Keeps
    <3>3. CASE desk = s.CurrentDesk
      <4>1. /\ Only(moved, m, {"frame", "icon", "MAP_PENDING"})
            /\ m.icon = moved.icon \cup ({w} \cap moved.ICONIFIED)
            /\ m.frame = moved.frame \cup (({w} \ moved.ICONIFIED) \cap moved.MAPPED)
            /\ m.MAP_PENDING = moved.MAP_PENDING \cup (({w} \ moved.ICONIFIED) \cap moved.MAPPED)
        BY <1>0, <2>5, MapItFacts
      <4> HIDE DEF m
      <4>2. /\ Core(m) /\ Managed(m) = Managed(s) /\ m.held = s.held /\ m.away = s.away
            /\ Stamped(s) => Stamped(m)
        <5>1. /\ m.frame \subseteq Windows /\ m.icon \subseteq Windows /\ m.MAP_PENDING \subseteq Windows
          BY <1>0, <2>5, <4>1 DEF Core, Base, Flags, ServerTypes
        <5>2. m.xfocus = moved.xfocus /\ Only(moved, m, {"frame", "icon", "MAP_PENDING", "xfocus"})
          BY <4>1 DEF Only, Fields
        <5> QED
          BY <2>5, <5>1, <5>2, ShowKeeps
      <4>3. m.ICONIFIED = s.ICONIFIED /\ m.MAPPED = s.MAPPED /\ m.Desk = D /\ m.CurrentDesk = s.CurrentDesk
        BY <2>3, <2>4, <4>1 DEF Only, Fields
      <4>4. Shown(m)
        <5>1. m.icon \subseteq m.ICONIFIED /\ m.frame \cap m.ICONIFIED = {}
              /\ m.frame \subseteq m.MAPPED \cup m.MAP_PENDING
          BY <2>4, <4>1, <4>3 DEF Shown
        <5>2. ASSUME NEW v \in m.frame \cup m.icon PROVE v \in Managed(m) /\ m.Desk[v] = m.CurrentDesk
          <6>1. v = w \/ v \in moved.frame \cup moved.icon
            BY <4>1
          <6>2. CASE v = w
            BY <6>2, <2>2, <3>3, <4>2, <4>3
          <6>3. CASE v # w
            BY <6>1, <6>3, <2>3, <2>4, <2>5, <3>1, <4>2, <4>3 DEF Shown
          <6> QED
            BY <6>2, <6>3
        <5> QED
          BY <5>1, <5>2 DEF Shown
      <4>5. Silent(s, m)
        BY <2>3, <4>1, HeardItself DEF Only, Fields, Silent
      <4>6. Only(moved, m, {"frame", "icon", "MAP_PENDING", "xfocus"})
        BY <4>1 DEF Only, Fields
      <4>7. Reveals(s, m)
        BY <2>6, <2>4, <4>1, <4>6
      <4> QED
        BY <2>1, <2>8, <3>3, <4>2, <4>4, <4>5, <4>7, SilentInforms DEF Works, Keeps
    <3> QED
      BY <3>2, <3>3
  <2> QED
    BY <2>7, <2>8
<1> QED
  BY <1>1, <1>2

\* FocusOn: the desk, the stacking order, the focus.
LEMMA FocusOnWorks ==
  ASSUME NEW s, Core(s), Shown(s), NEW w \in Managed(s)
  PROVE  Works(s, FocusOn(s, w, TRUE))
<1> DEFINE c == changeDesks(s, s.Desk[w])
           l == RaiseWindow(c, w)
           u == UngrabEm(l)
           r == SetFocus(u, w, TRUE)
<1>1. s.Desk[w] \in Desks
  BY ListsOf DEF Core, Base, Flags
<1>2. FocusOn(s, w, TRUE) = r
  BY DEF FocusOn
<1>3. Works(s, c)
  BY <1>1, changeDesksWorks
<1> HIDE DEF c
<1>4. Core(c) /\ Shown(c) /\ w \in Managed(c)
  BY <1>3 DEF Works, Keeps
<1>5. Works(c, l)
  BY <1>4, RaiseKeeps, RefocusedWorks DEF SamePointers
<1> HIDE DEF l
<1>6. Core(l) /\ Shown(l) /\ w \in Managed(l)
  BY <1>4, <1>5 DEF Works, Keeps
<1>7. Works(l, u)
  BY <1>6, UngrabEmKeeps, RefocusedWorks
<1> HIDE DEF u
<1>8. Core(u) /\ Shown(u) /\ w \in Managed(u) \cup {NoWindow}
  BY <1>6, <1>7 DEF Works, Keeps
<1>9. Works(u, r)
  BY <1>8, SetFocusKeeps, RefocusedWorks DEF Refocused
<1> HIDE DEF r
<1>10. Works(s, l)
  BY <1>3, <1>5, WorksTwice
<1>11. Works(s, u)
  BY <1>10, <1>7, WorksTwice
<1> QED
  BY <1>2, <1>9, <1>11, WorksTwice

\* Mapping windows only tells fvwm, of each window that was not mapped.
LEMMA MapClientsKeeps ==
  ASSUME NEW s, Core(s), Shown(s), NEW G \in SUBSET Managed(s)
  PROVE  LET r == MapClients(s, G)
         IN /\ Core(r) /\ Shown(r) /\ SamePointers(s, r) /\ Only(s, r, {"mapped", "queue"})
            /\ Maps(s, r, G) /\ (Timed(s.queue) => Timed(r.queue))
<1> DEFINE new == Those(s.list, G \ (s.mapped \cup s.gone))
           p == [k \in DOMAIN new |-> Event("MapNotify", new[k])]
           M == s.mapped \cup ToSet(new)
           q == s.queue \o p
           r == [s EXCEPT !.mapped = M, !.queue = q]
<1>1. MapClients(s, G) = r
  BY DEF MapClients
<1>2. /\ new \in Seq(Windows) /\ ToSet(new) \subseteq Windows
      /\ ToSet(new) = G \ (s.mapped \cup s.gone)
  <2>1. s.list \in Seq(Windows) /\ ToSet(s.list) \subseteq Windows /\ ToSet(s.list) = Managed(s)
    BY ListsOf
  <2>2. ToSet(new) = ToSet(s.list) \cap (G \ (s.mapped \cup s.gone)) /\ new \in Seq(Windows)
    BY <2>1, ThoseOf
  <2> QED
    BY <2>1, <2>2
<1> HIDE DEF new
<1>3. /\ p \in Seq(EventRecord) /\ DOMAIN p = DOMAIN new
      /\ \A k \in DOMAIN p : p[k].type = "MapNotify" /\ p[k].win = new[k]
  <2>1. DOMAIN new = 1..Len(new) /\ Len(new) \in Nat /\ \A k \in DOMAIN new : new[k] \in Windows
    BY <1>2
  <2>2. \A k \in DOMAIN new :
          LET e == Event("MapNotify", new[k])
          IN e \in EventRecord /\ e.type = "MapNotify" /\ e.win = new[k]
    BY <2>1, EventType DEF Pointer, EventTypes, ClientEvents
  <2> HIDE DEF Event
  <2>3. p \in [1..Len(new) -> EventRecord]
    BY <2>1, <2>2
  <2>4. p \in Seq(EventRecord)
    BY <2>1, <2>3
  <2> QED
    BY <2>2, <2>4
<1>4. s.queue \in Seq(EventRecord)
  BY DEF Core, Base, FocusTypes
<1> HIDE DEF p
<1>5. /\ q \in Seq(EventRecord) /\ (Timed(s.queue) => Timed(q)) /\ Heard(s.queue, q)
      /\ \A k \in DOMAIN p : \E j \in DOMAIN q : q[j] = p[k] /\ \A i \in DOMAIN s.queue : i < j
  BY <1>3, <1>4, QueueConcat DEF Foreign
<1> HIDE DEF q
<1>6. M \subseteq Windows
  BY <1>2 DEF Core, Base, ServerTypes
<1> HIDE DEF M
<1>7. Only(s, r, {"mapped", "queue"}) /\ r.mapped = M /\ r.queue = q
  BY DEF Only, Core, Base, Rec, Fields
<1> HIDE DEF r
<1>8. Flags(r) /\ ServerTypes(r) /\ Shown(r)
  BY <1>6, <1>7 DEF Only, Fields, Flags, ServerTypes, Shown, Managed, Core, Base
<1>9. r.xfocus \in Pointer \cup {Root} /\ r.Hilite \in Managed(s) \cup {NoWindow} /\ SamePointers(s, r)
  BY <1>7 DEF Only, Fields, FocusTypes, Valid, Core, Base, SamePointers
<1>10. Only(s, r, Windowing) /\ r.gone = s.gone
  BY <1>7 DEF Only, Fields, Windowing
<1>11. Core(r)
  BY <1>5, <1>7, <1>8, <1>9, <1>10, NewWindowing
<1>12. Maps(s, r, G)
  <2>1. r.mapped \ s.mapped \subseteq G /\ G \subseteq r.mapped \cup r.gone /\ s.mapped \subseteq r.mapped
    BY <1>2, <1>7, <1>10 DEF M
  <2>2. ASSUME NEW w \in r.mapped \ s.mapped
        PROVE  \E j \in DOMAIN q : /\ q[j].type = "MapNotify" /\ q[j].win = w
                                   /\ \A k \in DOMAIN s.queue : k < j
    <3>1. PICK k \in DOMAIN new : new[k] = w
      BY <1>7, <2>2 DEF M, ToSet
    <3> QED
      BY <1>3, <1>5, <3>1
  <2> QED
    BY <1>5, <1>7, <1>10, <2>1, <2>2 DEF Maps
<1> QED
  BY <1>1, <1>5, <1>7, <1>8, <1>9, <1>11, <1>12

\* DeIconify shows the frames of a group before it takes the ICONIFIED flags away, and no icon
\* is left behind. WM_STATE of the window will be right, whatever it was.
LEMMA DeIconifyWorks ==
  ASSUME NEW s, Core(s), Shown(s), NEW w \in Managed(s)
  PROVE  LET r == DeIconify(s, w)
         IN Works(s, r) /\ \A W \in SUBSET Windows : Tells(s, W) => Tells(r, W \cup {w})
<1> DEFINE G == Group(s, w)
           here == {t \in G : s.Desk[t] = s.CurrentDesk}
           s0 == RaiseWindow(s, w)
           s1 == MapClients(s0, G)
           state == [t \in Windows |-> IF t \in G THEN "Normal" ELSE s1.state[t]]
           hilite == IF s1.Hilite \in G THEN NoWindow ELSE s1.Hilite
           a == [s1 EXCEPT !.MAPPED = @ \cup G, !.frame = @ \cup here, !.MAP_PENDING = @ \cup here,
                           !.state = state, !.ICON_UNMAPPED = @ \ G, !.Hilite = hilite]
           s2 == HideIcons(a, G)
           s3 == [s2 EXCEPT !.ICONIFIED = @ \ G]
<1>1. DeIconify(s, w) = IF w \in ClickToFocus THEN FocusOn(s3, w, TRUE) ELSE s3
  BY DEF DeIconify
<1>2. G \subseteq Managed(s) /\ here \subseteq G /\ \A t \in here : s.Desk[t] = s.CurrentDesk
  BY DEF Group
<1>3. Works(s, s0) /\ SameWindows(s, s0)
  BY RaiseKeeps, RefocusedWorks DEF SamePointers
<1> HIDE DEF s0
<1>4. /\ Core(s1) /\ Shown(s1) /\ SamePointers(s0, s1) /\ Only(s0, s1, {"mapped", "queue"})
      /\ Maps(s0, s1, G) /\ (Timed(s0.queue) => Timed(s1.queue))
  BY <1>2, <1>3, MapClientsKeeps DEF Works, Keeps
<1> HIDE DEF s1
<1>5. /\ Core(s0) /\ Shown(s0) /\ Managed(s1) = Managed(s) /\ Managed(s0) = Managed(s)
      /\ Managed(s) \subseteq Windows
      /\ s1.Desk = s.Desk /\ s1.CurrentDesk = s.CurrentDesk /\ s1.state = s0.state
      /\ s1.MAPPED = s0.MAPPED /\ s1.ICONIFIED = s0.ICONIFIED
  <2>1. s1.Desk = s0.Desk /\ s1.CurrentDesk = s0.CurrentDesk /\ s1.state = s0.state /\ s1.list = s0.list
        /\ s1.MAPPED = s0.MAPPED /\ s1.ICONIFIED = s0.ICONIFIED
    BY <1>4 DEF Only, Fields
  <2> QED
    BY <1>3, <2>1, ListsOf DEF Works, Keeps, SameWindows, Managed
<1>6. /\ state \in [Windows -> States] /\ hilite \in Managed(s) \cup {NoWindow}
      /\ \A t \in Windows : state[t] = IF t \in G THEN "Normal" ELSE s0.state[t]
  BY <1>4, <1>5 DEF Core, Base, ServerTypes, Valid, States
<1> HIDE DEF G, here, state, hilite
<1>7. /\ Only(s1, a, {"MAPPED", "frame", "MAP_PENDING", "state", "ICON_UNMAPPED", "Hilite"})
      /\ a.MAPPED = s1.MAPPED \cup G /\ a.frame = s1.frame \cup here
      /\ a.MAP_PENDING = s1.MAP_PENDING \cup here /\ a.state = state
      /\ a.ICON_UNMAPPED = s1.ICON_UNMAPPED \ G /\ a.Hilite = hilite
  BY <1>4 DEF Only, Core, Base, Rec, Fields
<1> HIDE DEF a
<1>8. Core(a)
  <2>1. Flags(a) /\ ServerTypes(a)
    BY <1>2, <1>4, <1>5, <1>6, <1>7 DEF Only, Fields, Flags, ServerTypes, Core, Base
  <2>2. a.xfocus \in Pointer \cup {Root} /\ a.queue \in Seq(EventRecord) /\ a.queue = s1.queue
    BY <1>4, <1>7 DEF Only, Fields, FocusTypes, Core, Base
  <2>3. Only(s1, a, Windowing)
    BY <1>7 DEF Only, Fields, Windowing
  <2> QED
    BY <1>4, <1>5, <1>6, <1>7, <2>1, <2>2, <2>3, NewWindowing
<1>9. Only(a, s2, {"icon", "xfocus"}) /\ s2.icon = a.icon \ G /\ s2.xfocus \in {a.xfocus, Root}
  BY <1>8, HideIconsFacts
<1> HIDE DEF s2
<1>10. Only(s2, s3, {"ICONIFIED"}) /\ s3.ICONIFIED = s2.ICONIFIED \ G
  BY <1>9 DEF Only, Rec, Fields
<1> HIDE DEF s3
<1>11. /\ s3.MAPPED = s1.MAPPED \cup G /\ s3.frame = s1.frame \cup here
       /\ s3.MAP_PENDING = s1.MAP_PENDING \cup here /\ s3.state = state
       /\ s3.ICON_UNMAPPED = s1.ICON_UNMAPPED \ G /\ s3.Hilite = hilite
       /\ s3.icon = s1.icon \ G /\ s3.ICONIFIED = s1.ICONIFIED \ G /\ s3.xfocus \in {s1.xfocus, Root}
       /\ Only(s1, s3, {"MAPPED", "frame", "MAP_PENDING", "state", "ICON_UNMAPPED", "Hilite", "icon",
                        "xfocus", "ICONIFIED"})
  BY <1>7, <1>9, <1>10 DEF Only, Fields
<1>12. /\ Informs(s0, s3)
       /\ \A W \in SUBSET Windows : Tells(s0, W) => Tells(s3, W \cup G)
  <2>1. s3.mapped = s1.mapped /\ s3.gone = s1.gone /\ s3.queue = s1.queue
    BY <1>11 DEF Only, Fields
  <2>2. Maps(s0, s3, G)
    BY <1>4, <2>1 DEF Maps
  <2>3. /\ \A t \in Windows : Known(s0, t) => Known(s3, t)
        /\ \A t \in G : Known(s3, t)
    BY <1>5, <1>11 DEF Known
  <2>4. (\A t \in G : s3.state[t] = "Normal") /\ (\A t \in Windows \ G : s3.state[t] = s0.state[t])
    BY <1>2, <1>5, <1>6, <1>11
  <2> QED
    BY <2>2, <2>3, <2>4, MapsInforms
<1>13. Works(s0, s3)
  <2>1. Flags(s3) /\ ServerTypes(s3)
    BY <1>2, <1>4, <1>5, <1>6, <1>11 DEF Only, Fields, Flags, ServerTypes, Core, Base
  <2>2. s3.xfocus \in Pointer \cup {Root} /\ s3.queue \in Seq(EventRecord) /\ s3.queue = s1.queue
    BY <1>4, <1>11 DEF Only, Fields, FocusTypes, Core, Base
  <2>3. Only(s1, s3, Windowing) /\ Managed(s3) = Managed(s) /\ s3.Desk = s.Desk
        /\ s3.CurrentDesk = s.CurrentDesk
    BY <1>5, <1>11 DEF Only, Fields, Windowing, Managed
  <2>4. Only(s0, s3, Windowing)
    BY <1>4, <2>3 DEF Only, Fields, Windowing
  <2>5. Shown(s3)
    BY <1>2, <1>4, <1>5, <1>11, <2>3 DEF Shown
  <2>6. Reveals(s0, s3)
    <3>1. /\ s3.mapped = s1.mapped /\ s3.STICKY = s0.STICKY /\ s1.frame = s0.frame /\ s1.icon = s0.icon
          /\ s1.ICON_UNMAPPED = s0.ICON_UNMAPPED /\ s0.Desk = s.Desk /\ s0.CurrentDesk = s.CurrentDesk
      BY <1>4, <1>5, <1>11 DEF Only, Fields
    <3>2. ASSUME NEW v \in Managed(s0), Appears(s0, v) PROVE Appears(s3, v)
      <4>1. (Here(s3, v) <=> Here(s0, v)) /\ (Ready(s0, v) => Ready(s3, v))
        BY <1>5, <1>12, <2>3, <3>1 DEF Here, Informs
      <4>2. CASE v \in G
        <5>1. Here(s3, v) => v \in here
          BY <4>2, <2>3 DEF here, Here
        <5> QED
          BY <1>11, <3>1, <3>2, <4>1, <4>2, <5>1 DEF Appears
      <4>3. CASE v \notin G
        <5>1. v \in s3.mapped => v \in s0.mapped
          BY <1>4, <3>1, <4>3 DEF Maps
        <5> QED
          BY <1>5, <1>11, <3>1, <3>2, <4>1, <4>3, <5>1 DEF Appears
      <4> QED
        BY <4>2, <4>3
    <3>3. Marked(s0) => Marked(s3)
      BY <1>5, <1>11, <2>3, <3>1 DEF Marked
    <3>4. Asked(s0) => Asked(s3)
      BY <1>4, <2>2, HeardAsked DEF Maps
    <3> QED
      BY <1>5, <2>3, <3>2, <3>3, <3>4, RevealsBy
  <2> QED
    BY <1>4, <1>5, <1>6, <1>11, <1>12, <2>1, <2>2, <2>4, <2>5, <2>6, WindowingWorks
<1>14. Works(s, s3)
  BY <1>3, <1>13, WorksTwice
<1>15. Works(s3, FocusOn(s3, w, TRUE))
  BY <1>14, FocusOnWorks DEF Works, Keeps
<1>16. ASSUME NEW W \in SUBSET Windows, Tells(s, W)
       PROVE  Tells(s3, W \cup {w}) /\ Tells(FocusOn(s3, w, TRUE), W \cup {w})
  <2>1. Tells(s0, W)
    BY <1>3, <1>16 DEF Works, Keeps, Informs
  <2>2. w \in G /\ w \in Windows
    BY <1>5 DEF Group, G
  <2>3. Tells(s3, W \cup {w})
    <3>1. Tells(s3, W \cup G) /\ W \cup {w} \subseteq W \cup G
      BY <1>12, <2>1, <2>2
    <3> HIDE DEF s3
    <3> QED
      BY <3>1, TellsFewer
  <2> QED
    BY <1>15, <2>2, <2>3 DEF Works, Keeps, Informs
<1> QED
  BY <1>1, <1>14, <1>15, <1>16, WorksTwice

\* Iconify hides the frames of a whole group, and of its icons shows at most one, on this desk.
LEMMA IconifyWorks ==
  ASSUME NEW s, Core(s), Shown(s), NEW w \in Managed(s)
  PROVE  LET r == Iconify(s, w)
         IN Works(s, r) /\ \A W \in SUBSET Windows : Tells(s, W) => Tells(r, W \cup {w})
<1> DEFINE G == Group(s, w)
           n == NextOf(s, w)
           s1 == IF w = s.Hilite /\ w \in ClickToFocus /\ n # NoWindow THEN SetFocus(s, n, TRUE) ELSE s
           h == HideFrames(s1, G)
           s2 == HideIcons(h, G)
           state == [t \in Windows |-> IF t \in G THEN "Iconic" ELSE s2.state[t]]
           hilite == IF s2.Hilite \in G THEN NoWindow ELSE s2.Hilite
           icon == IF s2.Desk[w] = s2.CurrentDesk THEN s2.icon \cup {w} ELSE s2.icon
           s3 == [s2 EXCEPT !.MAPPED = @ \ G, !.mapped = @ \ G, !.state = state, !.Hilite = hilite,
                            !.ICONIFIED = @ \cup G, !.ICON_UNMAPPED = (@ \cup G) \ {w}, !.icon = icon]
           s4 == LowerWindow(s3, w)
           p == IF s4.PreviousFocus = w THEN NoWindow ELSE s4.PreviousFocus
           s5 == [s4 EXCEPT !.PreviousFocus = p]
           t == IF w \in ClickToFocus THEN NextOf(s5, w) ELSE NoWindow
           s6 == SetFocus(s5, t, TRUE)
<1>1. Iconify(s, w) = IF w = s4.Focus /\ w \in ClickToFocus \cup SloppyFocus THEN s6 ELSE s4
  BY DEF Iconify, FocusNext
<1>2. w \in G /\ G \subseteq Managed(s) /\ Managed(s) \subseteq Windows
  BY ListsOf DEF Group
<1>3. n \in Managed(s) \cup {NoWindow}
  BY NextOfFacts DEF Core, Base
<1>4. Works(s, s1)
  <2> HIDE DEF n
  <2>1. Works(s, SetFocus(s, n, TRUE))
    BY <1>3, SetFocusKeeps, RefocusedWorks DEF Refocused
  <2> QED
    BY <2>1, WorksItself
<1> HIDE DEF G, s1
<1>5. Core(s1) /\ Shown(s1) /\ Managed(s1) = Managed(s)
  BY <1>4 DEF Works, Keeps
<1>6. /\ Only(s1, h, {"frame", "xfocus"}) /\ h.frame = s1.frame \ G /\ h.xfocus \in {s1.xfocus, Root}
      /\ Core(h)
  BY <1>5, HideFramesFacts, HideKeeps
<1> HIDE DEF h
<1>7. Only(h, s2, {"icon", "xfocus"}) /\ s2.icon = h.icon \ G /\ s2.xfocus \in {h.xfocus, Root} /\ Core(s2)
  BY <1>6, HideIconsFacts, HideKeeps
<1> HIDE DEF s2
<1>8. /\ Only(s1, s2, {"frame", "icon", "xfocus"}) /\ s2.frame = s1.frame \ G
      /\ s2.icon = s1.icon \ G /\ s2.xfocus \in {s1.xfocus, Root}
  BY <1>6, <1>7 DEF Only, Fields
<1>9. /\ state \in [Windows -> States] /\ hilite \in Managed(s) \cup {NoWindow}
      /\ \A v \in Windows : state[v] = IF v \in G THEN "Iconic" ELSE s2.state[v]
  <2>1. s2.state \in [Windows -> States] /\ s2.Hilite \in Managed(s2) \cup {NoWindow}
    BY <1>7 DEF Core, Base, ServerTypes, Valid
  <2>2. Managed(s2) = Managed(s)
    BY <1>5, <1>8 DEF Only, Fields, Managed
  <2> QED
    BY <2>1, <2>2 DEF States
<1>10. /\ icon \subseteq s2.icon \cup {w} /\ (w \in icon => w \in s2.icon \/ s2.Desk[w] = s2.CurrentDesk)
       /\ s2.icon \subseteq icon /\ (s2.Desk[w] = s2.CurrentDesk => w \in icon)
  OBVIOUS
<1> HIDE DEF state, hilite, icon
<1>11. /\ Only(s2, s3, {"MAPPED", "mapped", "state", "Hilite", "ICONIFIED", "ICON_UNMAPPED", "icon"})
       /\ s3.MAPPED = s2.MAPPED \ G /\ s3.mapped = s2.mapped \ G /\ s3.state = state
       /\ s3.Hilite = hilite /\ s3.ICONIFIED = s2.ICONIFIED \cup G
       /\ s3.ICON_UNMAPPED = (s2.ICON_UNMAPPED \cup G) \ {w} /\ s3.icon = icon
  BY <1>7 DEF Only, Core, Base, Rec, Fields
<1> HIDE DEF s3
<1>12. /\ s3.MAPPED = s1.MAPPED \ G /\ s3.mapped = s1.mapped \ G /\ s3.state = state
       /\ s3.Hilite = hilite /\ s3.ICONIFIED = s1.ICONIFIED \cup G
       /\ s3.ICON_UNMAPPED = (s1.ICON_UNMAPPED \cup G) \ {w} /\ s3.icon = icon
       /\ s3.frame = s1.frame \ G /\ s3.xfocus \in {s1.xfocus, Root}
       /\ s3.Desk = s1.Desk /\ s3.CurrentDesk = s1.CurrentDesk /\ s3.MAP_PENDING = s1.MAP_PENDING
       /\ s2.Desk = s1.Desk /\ s2.CurrentDesk = s1.CurrentDesk
       /\ Only(s1, s3, {"MAPPED", "mapped", "state", "Hilite", "ICONIFIED", "ICON_UNMAPPED", "icon",
                        "frame", "xfocus"})
  BY <1>8, <1>11 DEF Only, Fields
<1>13. /\ Informs(s1, s3)
       /\ \A W \in SUBSET Windows : Tells(s1, W) => Tells(s3, W \cup G)
  <2>1. /\ s3.gone = s1.gone /\ s3.queue = s1.queue /\ s2.state = s1.state
        /\ \A v \in Windows : Known(s1, v) => Known(s3, v)
    BY <1>8, <1>12 DEF Only, Fields, Known
  <2>2. (\A v \in G : s3.state[v] = "Iconic") /\ (\A v \in Windows \ G : s3.state[v] = s1.state[v])
    BY <1>2, <1>9, <1>12, <2>1
  <2> QED
    BY <1>12, <2>1, <2>2, HeardItself, UnmapsInforms
<1>14. Works(s1, s3)
  <2>1. Flags(s3) /\ ServerTypes(s3)
    <3>1. icon \subseteq Windows
      BY <1>2, <1>5, <1>8, <1>10 DEF Core, Base, ServerTypes
    <3>2. Flags(s3)
      BY <1>2, <1>5, <1>12 DEF Only, Fields, Flags, Core, Base
    <3>3. s3.gone = s1.gone /\ s3.away = s1.away /\ s3.held = s1.held
      BY <1>12 DEF Only, Fields
    <3> QED
      BY <1>2, <1>5, <1>9, <1>12, <3>1, <3>2, <3>3 DEF ServerTypes, Core, Base
  <2>2. s3.xfocus \in Pointer \cup {Root} /\ s3.queue \in Seq(EventRecord) /\ s3.queue = s1.queue
    BY <1>5, <1>12 DEF Only, Fields, FocusTypes, Core, Base
  <2>3. Only(s1, s3, Windowing) /\ Managed(s3) = Managed(s1)
    BY <1>5, <1>12 DEF Only, Fields, Windowing, Managed
  <2>4. Shown(s3)
    <3>1. s3.frame \subseteq s3.MAPPED \cup s3.MAP_PENDING /\ s3.frame \cap s3.ICONIFIED = {}
      BY <1>5, <1>12 DEF Shown
    <3>2. s3.icon \subseteq s3.ICONIFIED
      BY <1>2, <1>5, <1>8, <1>10, <1>12 DEF Shown
    <3>3. \A v \in s3.frame \cup s3.icon : v \in Managed(s3) /\ s3.Desk[v] = s3.CurrentDesk
      BY <1>2, <1>5, <1>8, <1>10, <1>12, <2>3 DEF Shown
    <3> QED
      BY <3>1, <3>2, <3>3 DEF Shown
  <2>5. Reveals(s1, s3)
    <3>1. s3.STICKY = s1.STICKY
      BY <1>12 DEF Only, Fields
    <3>2. ASSUME NEW v \in Managed(s1), Appears(s1, v) PROVE Appears(s3, v)
      <4>1. /\ Here(s3, v) <=> Here(s1, v)
            /\ Ready(s1, v) => Ready(s3, v)
            /\ v \notin s3.mapped => Ready(s3, v)
        BY <1>12, <2>2 DEF Here, Ready
      <4>2. CASE v \in G
        <5>1. Here(s3, v) /\ v \notin s3.ICON_UNMAPPED => v \in s3.icon
          BY <1>10, <1>12, <4>2 DEF Here
        <5> QED
          BY <1>12, <3>1, <3>2, <4>1, <4>2, <5>1 DEF Appears
      <4>3. CASE v \notin G
        BY <1>2, <1>8, <1>10, <1>12, <3>1, <3>2, <4>1, <4>3 DEF Appears
      <4> QED
        BY <4>2, <4>3
    <3>3. Marked(s1) => Marked(s3)
      BY <1>2, <1>5, <1>12, <2>3, <3>1 DEF Marked
    <3> QED
      BY <2>2, <2>3, <3>2, <3>3, RevealsBy DEF Asked
  <2> QED
    BY <1>5, <1>9, <1>12, <1>13, <2>1, <2>2, <2>3, <2>4, <2>5, WindowingWorks
<1>15. Works(s, s3) /\ Core(s3) /\ Shown(s3) /\ w \in Managed(s3)
  BY <1>4, <1>14, WorksTwice DEF Works, Keeps
<1>16. Works(s3, s4)
  BY <1>15, LowerKeeps, RefocusedWorks DEF SamePointers
<1> HIDE DEF s4
<1>17. Works(s, s4) /\ Core(s4) /\ Shown(s4)
  BY <1>15, <1>16, WorksTwice DEF Works, Keeps
<1>18. p \in Managed(s4) \cup {NoWindow}
  BY <1>17 DEF Core, Valid
<1> HIDE DEF p
<1>19. /\ Only(s4, s5, {"Focus", "PreviousFocus", "FocusOnNextTimeStamp", "Hilite"})
       /\ s5.Focus = s4.Focus /\ s5.PreviousFocus = p /\ s5.Hilite = s4.Hilite
       /\ s5.FocusOnNextTimeStamp = s4.FocusOnNextTimeStamp
  BY <1>17 DEF Only, Core, Base, Rec, Fields
<1> HIDE DEF s5
<1>20. Works(s4, s5)
  <2>1. Core(s5) /\ SameWindows(s4, s5)
    BY <1>17, <1>18, <1>19, NewPointer DEF Core, Valid
  <2> QED
    BY <2>1, <1>17, <1>19, RefocusedWorks
<1>21. Core(s5) /\ Shown(s5) /\ w \in Managed(s5) /\ Lists(s5)
  BY <1>2, <1>17, <1>20 DEF Works, Keeps, Core, Base
<1>22. t \in Managed(s5) \cup {NoWindow}
  BY <1>21, NextOfFacts
<1> HIDE DEF t
<1>23. Works(s5, s6)
  BY <1>21, <1>22, SetFocusKeeps, RefocusedWorks DEF Refocused
<1> HIDE DEF s6
<1>24. Works(s, s6)
  BY <1>17, <1>20, <1>23, WorksTwice
<1>25. ASSUME NEW W \in SUBSET Windows, Tells(s, W)
       PROVE  Tells(s4, W \cup {w}) /\ Tells(s6, W \cup {w})
  <2>1. Tells(s1, W)
    BY <1>4, <1>25 DEF Works, Keeps, Informs
  <2>2. Tells(s3, W \cup {w}) /\ W \cup {w} \in SUBSET Windows
    <3>1. Tells(s3, W \cup G) /\ W \cup {w} \subseteq W \cup G
      BY <1>2, <1>13, <2>1
    <3> QED
      BY <1>2, <3>1, TellsFewer
  <2>3. Tells(s4, W \cup {w})
    BY <1>16, <2>2 DEF Works, Keeps, Informs
  <2>4. Tells(s5, W \cup {w})
    BY <1>20, <2>2, <2>3 DEF Works, Keeps, Informs
  <2> QED
    BY <1>23, <2>2, <2>3, <2>4 DEF Works, Keeps, Informs
<1> QED
  BY <1>1, <1>17, <1>24, <1>25

\* Stick changes a flag.
LEMMA StickWorks ==
  ASSUME NEW s, Core(s), Shown(s), NEW w \in Managed(s), w \in Stuck
  PROVE  Works(s, Stick(s, w))
<1> DEFINE S == IF w \in s.STICKY THEN s.STICKY \ {w} ELSE s.STICKY \cup {w}
           r == [s EXCEPT !.STICKY = S]
<1>1. Stick(s, w) = r
  BY DEF Stick
<1>2. /\ S \subseteq Windows /\ S \subseteq s.STICKY \cup {w}
      /\ \A v : v # w => (v \in S <=> v \in s.STICKY)
  BY ListsOf DEF Core, Base, Flags
<1> HIDE DEF S
<1>3. Only(s, r, {"STICKY"}) /\ r.STICKY = S
  BY DEF Only, Core, Base, Rec, Fields
<1> HIDE DEF r
<1>4. Flags(r) /\ ServerTypes(r) /\ Shown(r)
  BY <1>2, <1>3 DEF Only, Fields, Flags, ServerTypes, Shown, Managed, Core, Base
<1>5. /\ r.xfocus \in Pointer \cup {Root} /\ r.queue \in Seq(EventRecord) /\ r.queue = s.queue
      /\ r.Hilite \in Managed(s) \cup {NoWindow} /\ Only(s, r, Windowing)
  BY <1>3 DEF Only, Fields, FocusTypes, Valid, Core, Base, Windowing
<1>6. Silent(s, r)
  BY <1>3, HeardItself DEF Only, Fields, Silent
<1>7. Reveals(s, r)
  <2>1. /\ Managed(r) = Managed(s) /\ r.MAPPED = s.MAPPED /\ r.ICONIFIED = s.ICONIFIED
        /\ r.ICON_UNMAPPED = s.ICON_UNMAPPED /\ r.Desk = s.Desk /\ r.CurrentDesk = s.CurrentDesk
        /\ r.frame = s.frame /\ r.icon = s.icon /\ r.mapped = s.mapped
    BY <1>3 DEF Only, Fields, Managed
  <2>2. Marked(s) => Marked(r)
    BY <1>2, <1>3, <2>1 DEF Marked
  <2>3. \A v \in Managed(s) \ Stuck : Appears(s, v) => Appears(r, v)
    BY <1>2, <1>3, <1>5, <2>1 DEF Appears, Here, Ready
  <2> QED
    BY <1>5, <2>1, <2>2, <2>3, RevealsBy DEF Asked
<1> QED
  BY <1>1, <1>4, <1>5, <1>6, <1>7, WindowingWorks, SilentInforms

\* An interactive move takes the focus and gives it back, or keeps it when the grab fails.
LEMMA MoveWorks ==
  ASSUME NEW s, Core(s), Shown(s) PROVE Works(s, Move(s))
<1> DEFINE g == GrabEm(s)
<1>1. Works(s, g)
  BY GrabEmKeeps, RefocusedWorks
<1> HIDE DEF g
<1>2. Works(g, UngrabEm(g))
  BY <1>1, UngrabEmKeeps, RefocusedWorks DEF Works, Keeps
<1> QED
  BY <1>1, <1>2, WorksTwice DEF Move, g

-----------------------------------------------------------------------------
(* Windows come and go                                                     *)

\* What AddWindow keeps as well; what every routine keeps.
Goes(s, r) ==
  /\ Core(r) /\ Shown(r) /\ r.held = s.held /\ (r.away => s.away)
  /\ (~s.held /\ Stamped(s) => Stamped(r)) /\ Informs(s, r) /\ Reveals(s, r)

Leads(s, r) ==
  /\ Base(r) /\ Shown(r) /\ r.held = s.held /\ (r.away => s.away)
  /\ ~s.away => Valid(r)
  /\ ~s.held /\ Stamped(s) => Stamped(r)
  /\ Tells(s, Managed(s)) => Tells(r, Managed(r))
  /\ Sees(s, Managed(s)) => Sees(r, Managed(r))

\* Works is stronger than Goes, and than Leads.
LEMMA WorksGoes ==
  ASSUME NEW s, NEW r, Works(s, r) PROVE Goes(s, r) /\ Leads(s, r)
<1>1. Managed(s) \in SUBSET Windows
  BY ListsOf DEF Works, Keeps
<1>2. /\ Tells(s, Managed(s)) => Tells(r, Managed(r))
      /\ Sees(s, Managed(s)) => Sees(r, Managed(r))
  BY <1>1 DEF Works, Keeps, Informs, Reveals
<1> QED
  BY <1>2 DEF Works, Keeps, Goes, Leads, Core

\* Leads after Works.
LEMMA WorksThenLeads ==
  ASSUME NEW s, NEW r, NEW t, Works(s, r), Leads(r, t) PROVE Leads(s, t)
<1>1. /\ Tells(s, Managed(s)) => Tells(r, Managed(r))
      /\ Sees(s, Managed(s)) => Sees(r, Managed(r))
  BY WorksGoes DEF Leads
<1> QED
  BY <1>1 DEF Works, Keeps, Leads

\* A new window is told the truth by the time its MapRequest is handled.
LEMMA AddedLeads ==
  ASSUME NEW a, NEW s, NEW t, Core(a), NEW w \in Windows, Goes(a, s), Managed(s) = Managed(a) \cup {w},
         Works(s, t), Ready(a, w), Sees(a, Managed(a)) => Sees(s, Managed(s)),
         \A W \in SUBSET Windows : Tells(s, W) /\ Ready(s, w) => Tells(t, W \cup {w})
  PROVE  Leads(a, t)
<1>1. ASSUME Tells(a, Managed(a)) PROVE Tells(t, Managed(t))
  <2>1. Managed(a) \in SUBSET Windows
    BY ListsOf
  <2>2. Tells(s, Managed(a)) /\ Ready(s, w)
    BY <1>1, <2>1 DEF Goes, Informs
  <2> QED
    BY <2>1, <2>2 DEF Works, Keeps
<1>2. Sees(s, Managed(s)) => Sees(t, Managed(t))
  BY WorksGoes DEF Leads
<1> QED
  BY <1>1, <1>2 DEF Goes, Works, Keeps, Leads, Core

\* Goes is transitive.
LEMMA GoesTwice ==
  ASSUME NEW s, NEW r, NEW t, Goes(s, r), Goes(r, t) PROVE Goes(s, t)
<1>1. Informs(s, t) /\ Reveals(s, t)
  BY InformsTwice, RevealsTwice DEF Goes
<1> QED
  BY <1>1 DEF Goes

\* AddWindow puts the new window on both lists and grabs its buttons if it is click-to-focus. A
\* window that is sticky from the start is on the current desk.
LEMMA AddWindowGoes ==
  ASSUME NEW s, Core(s), Shown(s), NEW w \in Windows, w \notin Managed(s)
  PROVE  LET r == AddWindow(s, w)
         IN /\ Goes(s, r) /\ Managed(r) = Managed(s) \cup {w}
            /\ Ready(s, w) /\ Sees(s, Managed(s)) => Sees(r, Managed(r))
<1> DEFINE desk == PlaceWindow(s, w)
           s1 == IF w \in ShowOnMap THEN s ELSE changeDesks(s, desk)
           l == <<w>> \o s1.list
           g == <<w>> \o s1.ring
           D == [s1.Desk EXCEPT ![w] = desk]
           FD == [s1.FocusDesk EXCEPT ![w] = 0]
           a == [s1 EXCEPT !.list = l, !.ring = g, !.Desk = D, !.FocusDesk = FD,
                           !.STICKY = @ \cup ({w} \cap StickyStyle),
                           !.grab = @ \cup ({w} \cap ClickToFocus)]
<1>1. AddWindow(s, w) = RaiseWindow(a, w)
  BY DEF AddWindow
<1>2. desk \in Desks
  <2>1. s.CurrentDesk \in Desks /\ s.Desk \in [Windows -> Desks] /\ Managed(s) \subseteq Windows
    BY ListsOf DEF Core, Base, Flags
  <2>2. StartDesk[w] \in Desks \cup {-1}
    BY WindowsAssumption DEF WindowsAssumption
  <2> QED
    BY <2>1, <2>2 DEF PlaceWindow
<1>3. Works(s, s1) /\ (w \in StickyStyle => desk = s1.CurrentDesk)
  <2>1. w \in StickyStyle => desk = s.CurrentDesk
    BY DEF PlaceWindow
  <2> HIDE DEF desk
  <2>2. desk = s.CurrentDesk => s1 = s
    BY DEF changeDesks
  <2>3. Works(s, s1)
    BY <1>2, changeDesksWorks, WorksItself
  <2> QED
    BY <2>1, <2>2, <2>3
<1> HIDE DEF desk, s1
<1>4. Core(s1) /\ Shown(s1) /\ Managed(s1) = Managed(s) /\ w \notin Managed(s1)
  BY <1>3 DEF Works, Keeps
<1>5. /\ l \in Seq(Windows) /\ IsInjective(l) /\ ToSet(l) = Managed(s1) \cup {w}
      /\ g \in Seq(Windows) /\ IsInjective(g) /\ ToSet(g) = Managed(s1) \cup {w}
  BY <1>4, ListsOf, PutFirst
<1>6. /\ D \in [Windows -> Desks] /\ FD \in [Windows -> Desks \cup {-1}]
      /\ \A v \in Windows \ {w} : D[v] = s1.Desk[v]
      /\ D[w] = desk
  <2>1. 0 \in Desks
    BY WindowsAssumption DEF WindowsAssumption
  <2> QED
    BY <1>2, <1>4, <2>1 DEF Core, Base, Flags
<1> HIDE DEF l, g, D, FD
<1>7. /\ Only(s1, a, {"list", "ring", "Desk", "FocusDesk", "STICKY", "grab"})
      /\ a.list = l /\ a.ring = g /\ a.Desk = D /\ a.FocusDesk = FD
      /\ a.STICKY = s1.STICKY \cup ({w} \cap StickyStyle)
      /\ a.grab = s1.grab \cup ({w} \cap ClickToFocus)
  BY <1>4 DEF Only, Core, Base, Rec, Fields
<1> HIDE DEF a
<1>8. /\ a.MAPPED = s1.MAPPED /\ a.MAP_PENDING = s1.MAP_PENDING /\ a.ICONIFIED = s1.ICONIFIED
      /\ a.CurrentDesk = s1.CurrentDesk /\ a.frame = s1.frame /\ a.icon = s1.icon
      /\ a.Ungrabbed = s1.Ungrabbed /\ a.queue = s1.queue /\ a.held = s1.held /\ a.away = s1.away
      /\ SamePointers(s1, a)
  BY <1>7 DEF Only, Fields, SamePointers
<1>9. Managed(a) = Managed(s1) \cup {w} /\ Lists(a)
  BY <1>5, <1>7 DEF Managed, Lists
<1>10. Flags(a) /\ FocusTypes(a) /\ ServerTypes(a)
  BY <1>4, <1>6, <1>7 DEF Only, Fields, Flags, FocusTypes, ServerTypes, Core, Base
<1>11. Grabs(a)
  <2>1. s1.Ungrabbed # w
    BY <1>4, WindowsAssumption DEF Core, Valid, WindowsAssumption
  <2> QED
    BY <1>4, <1>7, <1>8, <1>9, <2>1 DEF Grabs, Core, Base
<1>12. Core(a)
  BY <1>4, <1>7, <1>8, <1>9, <1>10, <1>11 DEF Core, Base, Valid, Only, SamePointers
<1>13. Shown(a)
  BY <1>4, <1>6, <1>7, <1>8, <1>9, ListsOf DEF Shown
<1>14. /\ Goes(s1, a)
       /\ Ready(s1, w) /\ Sees(s1, Managed(s1)) => Sees(a, Managed(a))
  <2>1. Silent(s1, a) /\ a.mapped = s1.mapped /\ a.ICON_UNMAPPED = s1.ICON_UNMAPPED
    BY <1>7, HeardItself DEF Only, Fields, Silent
  <2>2. \A v : Ready(s1, v) => Ready(a, v)
    BY <1>8, <2>1 DEF Ready
  <2>3. Marked(s1) => Marked(a)
    BY <1>7, <1>8, <1>9, <2>1 DEF Marked
  <2>4. ASSUME NEW v \in Managed(s1), Appears(s1, v) PROVE Appears(a, v)
    <3>1. v \in Windows \ {w}
      BY <1>4, ListsOf
    <3>2. Here(a, v) <=> Here(s1, v)
      BY <1>6, <1>7, <1>8, <3>1 DEF Here
    <3> QED
      BY <1>7, <1>8, <2>1, <2>2, <2>4, <3>1, <3>2 DEF Appears
  <2>5. Reveals(s1, a)
    BY <1>8, <1>9, <2>3, <2>4, RevealsBy DEF Asked
  <2>6. ASSUME Ready(s1, w), Sees(s1, Managed(s1)) PROVE Sees(a, Managed(a))
    <3>1. Sees(a, Managed(s1)) /\ Marked(s1)
      BY <1>4, <2>5, <2>6, ListsOf DEF Reveals, Sees
    <3>2. w \notin a.ICONIFIED /\ (w \in a.STICKY => w \in StickyStyle)
      BY <1>4, <1>7, <1>8, <3>1 DEF Marked
    <3>3. w \in a.STICKY => Here(a, w)
      BY <1>3, <1>6, <1>7, <1>8, <3>2 DEF Here
    <3>4. Appears(a, w)
      BY <2>2, <2>6, <3>2, <3>3 DEF Appears
    <3> QED
      BY <1>9, <3>1, <3>4 DEF Sees
  <2> QED
    BY <1>8, <1>12, <1>13, <2>1, <2>5, <2>6, SilentInforms DEF Goes, Stamped, SamePointers
<1>15. w \in Managed(a)
  BY <1>9
<1>16. Works(a, RaiseWindow(a, w))
  BY <1>12, <1>13, <1>15, RaiseKeeps, RefocusedWorks DEF SamePointers
<1>17. Goes(s, RaiseWindow(a, w))
  BY <1>3, <1>14, <1>16, WorksGoes, GoesTwice
<1>18. ASSUME Ready(s, w), Sees(s, Managed(s))
       PROVE  LET r == RaiseWindow(a, w) IN Sees(r, Managed(r))
  <2>1. Ready(s1, w) /\ Sees(s1, Managed(s1))
    BY <1>3, <1>18, WorksGoes DEF Leads, Works, Keeps, Informs
  <2> QED
    BY <1>14, <1>16, <2>1, WorksGoes DEF Leads
<1> QED
  BY <1>1, <1>4, <1>9, <1>16, <1>17, <1>18 DEF Works, Keeps

\* The focus leaves w for good, unless the pointer is on another screen.
LEMMA PassFocusKeeps ==
  ASSUME NEW s, Core(s), Shown(s), NEW w \in Managed(s)
  PROVE  LET r == PassFocus(s, w)
         IN /\ Works(s, r) /\ SameWindows(s, r) /\ r.Hilite = s.Hilite
            /\ r.PreviousFocus \in {NoWindow, s.PreviousFocus}
            /\ ~s.away /\ s.PreviousFocus # w => r.Focus # w
<1> DEFINE n == NextOf(s, w)
           h == HandleHardFocus(s, n)
           f == SetFocus(s, NoWindow, TRUE)
<1>1. w # NoWindow
  BY ListsOf
<1>2. CASE w # s.Focus
  <2>1. PassFocus(s, w) = s
    BY <1>2 DEF PassFocus
  <2> QED
    BY <1>2, <2>1, WorksItself, SameWindowsItself DEF Core
<1>3. CASE w = s.Focus /\ w \in ClickToFocus /\ n # NoWindow
  <2>1. PassFocus(s, w) = h
    BY <1>3 DEF PassFocus
  <2>2. n \in Managed(s) \cup {NoWindow}
    BY NextOfFacts DEF Core, Base
  <2> HIDE DEF n
  <2>3. /\ Core(h) /\ SameWindows(s, h) /\ h.FocusOnNextTimeStamp = n /\ h.Hilite = s.Hilite
        /\ {h.Focus, h.PreviousFocus} \subseteq {NoWindow, s.PreviousFocus}
        /\ ~s.held => Timed(h.queue)
    BY <2>2, HandleHardFocusKeeps
  <2> HIDE DEF h
  <2>4. Works(s, h)
    <3>1. Shown(h) /\ Informs(s, h) /\ Reveals(s, h)
      BY <2>3, SameWindowsFacts, SameWindowsInforms, SameWindowsReveals
    <3> QED
      BY <2>3, <3>1 DEF Works, Keeps, SameWindows, Stamped
  <2> QED
    BY <1>1, <2>1, <2>3, <2>4
<1>4. CASE w = s.Focus /\ ~(w \in ClickToFocus /\ n # NoWindow)
  <2>1. PassFocus(s, w) = f
    BY <1>4 DEF PassFocus
  <2>2. Refocused(s, f, {NoWindow}) /\ (~s.away => f.Focus = NoWindow)
    BY SetFocusKeeps
  <2> HIDE DEF f
  <2>3. Works(s, f)
    BY <2>2, RefocusedWorks DEF Refocused
  <2> QED
    BY <1>1, <2>1, <2>2, <2>3 DEF Refocused
<1> QED
  BY <1>2, <1>3, <1>4

\* What is left of a window that nothing shows any more.
LEMMA FreedLeads ==
  ASSUME NEW s, Core(s), Shown(s), NEW w \in Managed(s), w \notin s.frame,
         s.Hilite # w, s.PreviousFocus # w
  PROVE  LET r == Freed([s EXCEPT !.FocusOnNextTimeStamp = Forget(@, w), !.Ungrabbed = Forget(@, w)], w)
         IN /\ Base(r) /\ Shown(r) /\ r.held = s.held /\ r.away = s.away
            /\ s.Focus # w => Valid(r)
            /\ Stamped(s) => Stamped(r)
            /\ Managed(r) = Managed(s) \ {w}
            /\ \A W \in SUBSET Windows : w \notin W =>
                 /\ Tells(s, W) => Tells(r, W)
                 /\ Sees(s, W) => Sees(r, W)
<1> DEFINE o == Forget(s.FocusOnNextTimeStamp, w)
           u == Forget(s.Ungrabbed, w)
           a == [s EXCEPT !.FocusOnNextTimeStamp = o, !.Ungrabbed = u]
           h == HideIcons(a, {w})
           x == IF a.xfocus \in {w} \cap a.icon THEN Root ELSE a.xfocus
           l == Without(h.list, w)
           g == Without(h.ring, w)
           r == [h EXCEPT !.list = l, !.ring = g,
                   !.MAPPED = @ \ {w}, !.MAP_PENDING = @ \ {w}, !.ICONIFIED = @ \ {w},
                   !.ICON_UNMAPPED = @ \ {w}, !.STICKY = @ \ {w}, !.grab = @ \ {w}]
<1>1. Freed(a, w) = r
  BY DEF Freed
<1>2. /\ o \in {s.FocusOnNextTimeStamp, NoWindow} /\ o # w
      /\ u = IF s.Ungrabbed = w THEN NoWindow ELSE s.Ungrabbed
      /\ w \in Windows /\ w # NoWindow
  BY ListsOf DEF Forget
<1> HIDE DEF o, u
<1>3. Only(s, a, {"FocusOnNextTimeStamp", "Ungrabbed"}) /\ a.FocusOnNextTimeStamp = o /\ a.Ungrabbed = u
  BY DEF Only, Core, Base, Rec, Fields
<1> HIDE DEF a
<1>4. Only(a, h, {"icon", "xfocus"}) /\ h.icon = a.icon \ {w} /\ h.xfocus \in {a.xfocus, Root}
  <2>1. h = [a EXCEPT !.icon = @ \ {w}, !.xfocus = x]
    BY DEF HideIcons
  <2>2. x \in {a.xfocus, Root}
    OBVIOUS
  <2> HIDE DEF x, h
  <2> QED
    BY <1>3, <2>1, <2>2 DEF Only, Rec, Fields
<1> HIDE DEF h
<1>5. /\ Only(s, h, {"icon", "xfocus", "FocusOnNextTimeStamp", "Ungrabbed"})
      /\ h.icon = s.icon \ {w} /\ h.xfocus \in {s.xfocus, Root}
      /\ h.FocusOnNextTimeStamp = o /\ h.Ungrabbed = u /\ h.list = s.list /\ h.ring = s.ring
  BY <1>3, <1>4 DEF Only, Fields
<1>6. /\ l \in Seq(Windows) /\ IsInjective(l) /\ ToSet(l) = Managed(s) \ {w}
      /\ g \in Seq(Windows) /\ IsInjective(g) /\ ToSet(g) = Managed(s) \ {w}
  BY <1>5, ListsOf, WithoutRemoves
<1> HIDE DEF l, g
<1>7. /\ Only(h, r, {"list", "ring", "MAPPED", "MAP_PENDING", "ICONIFIED", "ICON_UNMAPPED",
                     "STICKY", "grab"})
      /\ r.list = l /\ r.ring = g /\ r.MAPPED = h.MAPPED \ {w} /\ r.MAP_PENDING = h.MAP_PENDING \ {w}
      /\ r.ICONIFIED = h.ICONIFIED \ {w} /\ r.ICON_UNMAPPED = h.ICON_UNMAPPED \ {w}
      /\ r.STICKY = h.STICKY \ {w} /\ r.grab = h.grab \ {w}
  BY <1>5 DEF Only, Rec, Fields
<1> HIDE DEF r
<1>8. /\ Rec(r) /\ r.MAPPED = s.MAPPED \ {w} /\ r.MAP_PENDING = s.MAP_PENDING \ {w}
      /\ r.ICONIFIED = s.ICONIFIED \ {w} /\ r.ICON_UNMAPPED = s.ICON_UNMAPPED \ {w}
      /\ r.STICKY = s.STICKY \ {w} /\ r.grab = s.grab \ {w} /\ r.icon = s.icon \ {w}
      /\ r.frame = s.frame /\ r.Desk = s.Desk /\ r.FocusDesk = s.FocusDesk
      /\ r.CurrentDesk = s.CurrentDesk /\ r.Focus = s.Focus /\ r.PreviousFocus = s.PreviousFocus
      /\ r.Hilite = s.Hilite /\ r.FocusOnNextTimeStamp = o /\ r.Ungrabbed = u
      /\ r.xfocus \in {s.xfocus, Root} /\ r.queue = s.queue /\ r.away = s.away /\ r.held = s.held
      /\ r.mapped = s.mapped /\ r.gone = s.gone /\ r.state = s.state
  BY <1>5, <1>7 DEF Only, Fields
<1>9. Managed(r) = Managed(s) \ {w} /\ Lists(r)
  BY <1>6, <1>7 DEF Managed, Lists
<1>10. Flags(r) /\ ServerTypes(r)
  BY <1>8 DEF Flags, ServerTypes, Core, Base
<1>11. FocusTypes(r)
  BY <1>2, <1>8 DEF FocusTypes, Core, Base, Pointer
<1>12. Grabs(r)
  <2>1. NoWindow \notin ClickToFocus
    BY WindowsAssumption DEF WindowsAssumption
  <2> QED
    BY <1>2, <1>8, <1>9, <2>1 DEF Grabs, Core, Base
<1>13. s.Focus # w => Valid(r)
  BY <1>2, <1>8, <1>9 DEF Valid, Core
<1>14. Shown(r)
  BY <1>8, <1>9 DEF Shown
<1>15. Stamped(s) => Stamped(r)
  BY <1>2, <1>8 DEF Stamped
<1>16. ASSUME NEW W \in SUBSET Windows, w \notin W, Tells(s, W) PROVE Tells(r, W)
  <2>1. \A v \in Windows \ {w} : Unmoved(s, r, v)
    BY <1>8 DEF Unmoved, Known
  <2>2. Heard(s.queue, r.queue) /\ r.mapped \subseteq s.mapped
    BY <1>8, HeardItself
  <2> QED
    BY <1>16, <2>1, <2>2, OthersTold
<1>17. ASSUME NEW W \in SUBSET Windows, w \notin W, Sees(s, W) PROVE Sees(r, W)
  <2>1. Marked(s) => Marked(r)
    BY <1>8, <1>9 DEF Marked
  <2>2. \A v \in Managed(s) \ {w} : Appears(s, v) => Appears(r, v)
    BY <1>8 DEF Appears, Here, Ready
  <2> QED
    BY <1>8, <1>9, <1>17, <2>1, <2>2, SeesOthers DEF Asked
<1> QED
  BY <1>1, <1>8, <1>9, <1>10, <1>11, <1>12, <1>13, <1>14, <1>15, <1>16, <1>17 DEF Base, a, o, u

\* Destroy leaves no pointer to the window behind, unless the pointer is on another screen:
\* then SetFocus does not take the focus away from it.
LEMMA DestroyLeads ==
  ASSUME NEW s, Core(s), Shown(s), NEW w \in Managed(s)
  PROVE  LET r == Destroy(s, w)
         IN /\ Leads(s, r) /\ Managed(r) = Managed(s) \ {w}
            /\ \A W \in SUBSET Windows : w \notin W =>
                 /\ Tells(s, W) => Tells(r, W)
                 /\ Sees(s, W) => Sees(r, W)
<1> DEFINE h == HideFrames(s, {w})
           i == Forget(h.Hilite, w)
           p == Forget(h.PreviousFocus, w)
           s1 == [h EXCEPT !.Hilite = i, !.PreviousFocus = p]
           s2 == PassFocus(s1, w)
           r == Freed([s2 EXCEPT !.FocusOnNextTimeStamp = Forget(@, w), !.Ungrabbed = Forget(@, w)], w)
<1>1. Destroy(s, w) = r
  BY DEF Destroy
<1>2. /\ Core(h) /\ SamePointers(s, h) /\ Only(s, h, {"frame", "xfocus"}) /\ h.frame = s.frame \ {w}
      /\ h.xfocus \in {s.xfocus, Root}
  BY HideKeeps, HideFramesFacts
<1> HIDE DEF h
<1>3. Keeps(s, h) /\ \A W \in SUBSET Windows : w \notin W /\ Sees(s, W) => Sees(h, W)
  <2>1. Managed(h) = Managed(s) /\ h.held = s.held /\ h.away = s.away /\ h.queue = s.queue
    BY <1>2 DEF Only, Fields, Managed
  <2>2. Shown(h)
    BY <1>2, <2>1 DEF Only, Fields, Shown
  <2>3. Silent(s, h)
    BY <1>2, HeardItself DEF Only, Fields, Silent
  <2>4. /\ h.MAPPED = s.MAPPED /\ h.ICONIFIED = s.ICONIFIED /\ h.ICON_UNMAPPED = s.ICON_UNMAPPED
        /\ h.STICKY = s.STICKY /\ h.Desk = s.Desk /\ h.CurrentDesk = s.CurrentDesk
        /\ h.icon = s.icon /\ h.mapped = s.mapped
    BY <1>2 DEF Only, Fields
  <2>5. Marked(s) => Marked(h)
    BY <2>1, <2>4 DEF Marked
  <2>6. \A v \in Managed(s) \ {w} : Appears(s, v) => Appears(h, v)
    BY <1>2, <2>1, <2>4 DEF Appears, Here, Ready
  <2>7. Keeps(s, h)
    BY <1>2, <2>1, <2>2, <2>3, SilentInforms DEF Keeps, Stamped, SamePointers
  <2> QED
    BY <2>1, <2>5, <2>6, <2>7, SeesOthers DEF Asked
<1>4. w # NoWindow /\ w \in Managed(h) /\ Shown(h)
  BY <1>3, ListsOf DEF Keeps
<1>5. i \in Managed(h) \cup {NoWindow} /\ p \in Managed(h) \cup {NoWindow} /\ i # w /\ p # w
  BY <1>2, <1>4 DEF Forget, Core, Valid
<1> HIDE DEF i, p
<1>6. /\ Only(h, s1, {"Focus", "PreviousFocus", "FocusOnNextTimeStamp", "Hilite"})
      /\ s1.Focus = h.Focus /\ s1.PreviousFocus = p /\ s1.Hilite = i
      /\ s1.FocusOnNextTimeStamp = h.FocusOnNextTimeStamp
  BY <1>2 DEF Only, Core, Base, Rec, Fields
<1> HIDE DEF s1
<1>7. Core(s1) /\ SameWindows(h, s1) /\ s1.away = h.away
  BY <1>2, <1>5, <1>6, NewPointer DEF Core, Valid
<1>8. Works(h, s1) /\ Shown(s1) /\ w \in Managed(s1) /\ w \notin s1.frame
  BY <1>2, <1>4, <1>6, <1>7, RefocusedWorks DEF Works, Keeps, SameWindows
<1>9. /\ Works(s1, s2) /\ SameWindows(s1, s2) /\ s2.Hilite = s1.Hilite
      /\ s2.PreviousFocus \in {NoWindow, s1.PreviousFocus}
      /\ ~s1.away /\ s1.PreviousFocus # w => s2.Focus # w
  BY <1>7, <1>8, PassFocusKeeps
<1> HIDE DEF s2
<1>10. s2.Hilite # w /\ s2.PreviousFocus # w /\ w \notin s2.frame /\ w \in Managed(s2)
  BY <1>4, <1>5, <1>6, <1>8, <1>9 DEF SameWindows
<1>11. Keeps(s, s2) /\ Keeps(s, s1) /\ Works(h, s2)
  BY <1>3, <1>8, <1>9, KeepsTwice, WorksTwice DEF Works
<1>12. /\ Base(r) /\ Shown(r) /\ r.held = s2.held /\ r.away = s2.away
       /\ s2.Focus # w => Valid(r)
       /\ Stamped(s2) => Stamped(r)
       /\ Managed(r) = Managed(s2) \ {w}
       /\ \A W \in SUBSET Windows : w \notin W =>
            /\ Tells(s2, W) => Tells(r, W)
            /\ Sees(s2, W) => Sees(r, W)
  BY <1>9, <1>10, FreedLeads DEF Works, Keeps
<1> HIDE DEF r
<1>13. ~s.away => s2.Focus # w
  BY <1>5, <1>6, <1>9, <1>11 DEF Works, Keeps
<1>14. Managed(r) = Managed(s) \ {w}
  BY <1>11, <1>12 DEF Works, Keeps
<1>15. ASSUME NEW W \in SUBSET Windows, w \notin W
       PROVE  (Tells(s, W) => Tells(r, W)) /\ (Sees(s, W) => Sees(r, W))
  <2>1. Tells(s, W) => Tells(r, W)
    BY <1>11, <1>12, <1>15 DEF Keeps, Informs
  <2>2. Sees(s, W) => Sees(r, W)
    BY <1>3, <1>11, <1>12, <1>15 DEF Works, Reveals
  <2> QED
    BY <2>1, <2>2
<1>16. /\ Tells(s, Managed(s)) => Tells(r, Managed(r))
       /\ Sees(s, Managed(s)) => Sees(r, Managed(r))
  <2>1. Managed(r) \in SUBSET Windows /\ w \notin Managed(r)
    BY <1>14, ListsOf
  <2> QED
    BY <1>14, <1>15, <2>1, TellsFewer, SeesFewer
<1> QED
  BY <1>1, <1>11, <1>12, <1>13, <1>14, <1>15, <1>16 DEF Leads, Works, Keeps

\* What happens elsewhere: clients, the user and the server.
Elsewhere(s, r) ==
  /\ Only(s, r, {"mapped", "gone", "xfocus", "queue", "away", "held"})
  /\ r.mapped \subseteq Windows /\ r.gone \subseteq Windows /\ r.xfocus \in Pointer \cup {Root}
  /\ r.queue \in Seq(EventRecord) /\ r.away \in BOOLEAN /\ r.held \in BOOLEAN

\* Clients, the user and the server change nothing that the lists, grabs, pointers and frames
\* depend on.
LEMMA ElsewhereKeeps ==
  ASSUME NEW s, Base(s), Shown(s), NEW r, Elsewhere(s, r)
  PROVE  /\ Base(r) /\ Shown(r) /\ Managed(r) = Managed(s) /\ SamePointers(s, r)
         /\ Valid(s) => Valid(r)
         /\ Stamped(s) /\ (Timed(s.queue) => Timed(r.queue)) => Stamped(r)
<1>1. /\ Rec(r) /\ r.list = s.list /\ r.ring = s.ring /\ r.grab = s.grab /\ SamePointers(s, r)
      /\ r.MAPPED = s.MAPPED /\ r.MAP_PENDING = s.MAP_PENDING /\ r.ICONIFIED = s.ICONIFIED
      /\ r.frame = s.frame /\ r.icon = s.icon /\ r.Desk = s.Desk /\ r.CurrentDesk = s.CurrentDesk
      /\ r.state = s.state
  BY DEF Elsewhere, Only, Fields, SamePointers
<1>2. Flags(r)
  BY DEF Elsewhere, Only, Fields, Flags, Base
<1>3. Managed(r) = Managed(s) /\ Lists(r)
  BY <1>1 DEF Managed, Lists, Base
<1>4. FocusTypes(r) /\ ServerTypes(r)
  BY <1>1 DEF Elsewhere, FocusTypes, ServerTypes, Base, SamePointers
<1>5. Grabs(r) /\ (Valid(s) => Valid(r))
  BY <1>1, <1>3 DEF Grabs, Valid, Base, SamePointers
<1>6. Shown(r)
  BY <1>1, <1>3 DEF Shown
<1>7. Stamped(s) /\ (Timed(s.queue) => Timed(r.queue)) => Stamped(r)
  BY <1>1 DEF Stamped, SamePointers
<1> QED
  BY <1>1, <1>2, <1>3, <1>4, <1>5, <1>6, <1>7 DEF Base

\* They hide nothing either, but for windows they unmap.
LEMMA ElsewhereReveals ==
  ASSUME NEW s, NEW r, Elsewhere(s, r), r.mapped \subseteq s.mapped, Asked(s) => Asked(r),
         \A k \in DOMAIN s.queue : s.queue[k].type # "FocusIn" => k \in DOMAIN r.queue /\ r.queue[k] = s.queue[k]
  PROVE  Reveals(s, r)
<1>1. /\ Managed(r) = Managed(s) /\ r.MAPPED = s.MAPPED /\ r.ICONIFIED = s.ICONIFIED
      /\ r.ICON_UNMAPPED = s.ICON_UNMAPPED /\ r.STICKY = s.STICKY /\ r.Desk = s.Desk
      /\ r.CurrentDesk = s.CurrentDesk /\ r.frame = s.frame /\ r.icon = s.icon
  BY DEF Elsewhere, Only, Fields, Managed
<1> QED
  BY <1>1, SeenStill

\* A queue of no event, and of one event of a client.
LEMMA NoEvent == <<>> \in Seq(EventRecord) /\ DOMAIN <<>> = {}
OBVIOUS

LEMMA ClientEvent ==
  ASSUME NEW w \in Windows, NEW type \in EventTypes
  PROVE  LET p == <<Event(type, w)>>
         IN p \in Seq(EventRecord) /\ \A k \in DOMAIN p : p[k].type = type /\ p[k].win = w
<1>1. Event(type, w) \in EventRecord /\ Event(type, w).type = type /\ Event(type, w).win = w
  BY EventType DEF Pointer
<1> HIDE DEF EventRecord, Event
<1> QED
  BY <1>1

\* A client window that dies.
LEMMA KilledElsewhere ==
  ASSUME NEW s, Base(s), NEW w \in Windows
  PROVE  LET r == Killed(s, w)
         IN /\ Elsewhere(s, r) /\ r.away = s.away /\ r.held = s.held
            /\ Timed(s.queue) => Timed(r.queue)
            /\ \A W \in SUBSET Windows : Tells(s, W) => Tells(r, W)
            /\ Reveals(s, r)
<1> DEFINE told(type) == IF w \in Managed(s) THEN <<Event(type, w)>> ELSE <<>>
           a == IF w \in s.mapped THEN told("UnmapNotify") ELSE <<>>
           b == told("DestroyNotify")
           q == s.queue \o a \o b
           x == IF s.xfocus = w /\ w \in s.mapped THEN Root ELSE s.xfocus
           r == [s EXCEPT !.gone = @ \cup {w}, !.mapped = @ \ {w}, !.xfocus = x, !.queue = q]
<1>1. Killed(s, w) = r
  BY DEF Killed
<1>2. /\ a \in Seq(EventRecord) /\ b \in Seq(EventRecord)
      /\ \A k \in DOMAIN a : ~Foreign(a[k])
      /\ \A k \in DOMAIN b : ~Foreign(b[k])
  BY NoEvent, ClientEvent DEF EventTypes, ClientEvents, Foreign
<1> HIDE DEF a, b
<1>3. q \in Seq(EventRecord) /\ (Timed(s.queue) => Timed(q)) /\ Heard(s.queue, q)
  <2>1. s.queue \in Seq(EventRecord)
    BY DEF Base, FocusTypes
  <2>2. /\ s.queue \o a \in Seq(EventRecord) /\ (Timed(s.queue) => Timed(s.queue \o a))
        /\ Heard(s.queue, s.queue \o a)
    BY <1>2, <2>1, QueueConcat
  <2>3. q \in Seq(EventRecord) /\ (Timed(s.queue \o a) => Timed(q)) /\ Heard(s.queue \o a, q)
    BY <1>2, <2>2, QueueConcat
  <2> QED
    BY <2>2, <2>3, HeardTwice
<1>4. x \in {s.xfocus, Root}
  OBVIOUS
<1> HIDE DEF q, x
<1>5. /\ Only(s, r, {"mapped", "gone", "xfocus", "queue", "away", "held"}) /\ r.away = s.away
      /\ r.held = s.held /\ r.mapped = s.mapped \ {w} /\ r.gone = s.gone \cup {w} /\ r.xfocus = x /\ r.queue = q
  BY DEF Only, Base, Rec, Fields
<1> HIDE DEF r
<1>6. ASSUME NEW W \in SUBSET Windows, Tells(s, W) PROVE Tells(r, W)
  <2>1. \A v \in Windows \ {w} : Unmoved(s, r, v)
    BY <1>5 DEF Unmoved, Known, Only, Fields
  <2>2. Heard(s.queue, r.queue) /\ r.mapped \subseteq s.mapped
    BY <1>3, <1>5
  <2>3. NormalTold(r, w) /\ IconicTold(r, w)
    BY <1>5 DEF NormalTold, IconicTold
  <2> QED
    BY <1>6, <2>1, <2>2, <2>3, OthersTold
<1>7. Elsewhere(s, r)
  BY <1>3, <1>4, <1>5 DEF Elsewhere, Base, FocusTypes, ServerTypes
<1>8. Reveals(s, r)
  <2>1. Heard(s.queue, r.queue) /\ r.mapped \subseteq s.mapped
    BY <1>3, <1>5
  <2> QED
    BY <1>7, <2>1, HeardAsked, ElsewhereReveals DEF Heard
<1> QED
  BY <1>1, <1>3, <1>5, <1>6, <1>7, <1>8

\* Whatever the command, a consistent state leads to one.
LEMMA ExecuteFunctionLeads ==
  ASSUME NEW s, Core(s), Shown(s), NEW e \in EventRecord, e.type \in CommandTypes,
         e.type = "Stick" => e.win \in Stuck
  PROVE  Leads(s, ExecuteFunction(s, e))
<1>1. e.desk \in Desks
  BY DEF EventRecord
<1>2. CASE e.type = "Desk"
  <2>1. ExecuteFunction(s, e) = changeDesks(s, e.desk)
    BY <1>2 DEF ExecuteFunction, WindowCommands
  <2> QED
    BY <1>1, <2>1, changeDesksWorks, WorksGoes
<1>3. CASE e.type = "Move"
  <2>1. ExecuteFunction(s, e) = Move(s)
    BY <1>3 DEF ExecuteFunction, WindowCommands
  <2> QED
    BY <2>1, MoveWorks, WorksGoes
<1>4. CASE e.type \in WindowCommands /\ e.win \notin Managed(s)
  <2>1. ExecuteFunction(s, e) = s
    BY <1>4 DEF ExecuteFunction, WindowCommands
  <2> QED
    BY <2>1, WorksItself, WorksGoes
<1>5. CASE e.type \in WindowCommands /\ e.win \in Managed(s)
  <2> DEFINE w == e.win
             r == ExecuteFunction(s, e)
  <2>1. w \in Windows
    BY <1>5, ListsOf
  <2>2. CASE e.type = "Iconify"
    <3>1. r = DeIconify(s, w) \/ r = Iconify(s, w)
      BY <1>5, <2>2 DEF ExecuteFunction
    <3> HIDE DEF r
    <3>2. Works(s, r)
      BY <1>5, <3>1, DeIconifyWorks, IconifyWorks
    <3> QED
      BY <3>2, WorksGoes DEF r
  <2>3. CASE e.type = "WindowsDesk"
    <3>1. r = changeWindowsDesk(s, w, e.desk)
      BY <1>5, <2>3 DEF ExecuteFunction
    <3> QED
      BY <1>1, <1>5, <3>1, changeWindowsDeskWorks, WorksGoes
  <2>4. CASE e.type = "Stick"
    <3>1. r = Stick(s, w)
      BY <1>5, <2>4 DEF ExecuteFunction
    <3> QED
      BY <1>5, <2>4, <3>1, StickWorks, WorksGoes
  <2>5. CASE e.type = "Focus"
    <3>1. r = FocusOn(s, w, TRUE)
      BY <1>5, <2>5 DEF ExecuteFunction
    <3> QED
      BY <1>5, <3>1, FocusOnWorks, WorksGoes
  <2>6. CASE e.type = "Raise"
    <3>1. r = RaiseWindow(s, w)
      BY <1>5, <2>6 DEF ExecuteFunction
    <3>2. Works(s, r)
      BY <1>5, <3>1, RaiseKeeps, RefocusedWorks DEF SamePointers
    <3> QED
      BY <3>2, WorksGoes
  <2>7. CASE e.type = "Lower"
    <3>1. r = LowerWindow(s, w)
      BY <1>5, <2>7 DEF ExecuteFunction
    <3>2. Works(s, r)
      BY <1>5, <3>1, LowerKeeps, RefocusedWorks DEF SamePointers
    <3> QED
      BY <3>2, WorksGoes
  <2>8. CASE e.type = "Destroy" /\ w \in s.gone
    <3>1. r = Destroy(s, w)
      BY <1>5, <2>8 DEF ExecuteFunction
    <3> QED
      BY <1>5, <3>1, DestroyLeads
  <2>9. CASE e.type = "Destroy" /\ w \notin s.gone
    <3>1. r = Killed(s, w)
      BY <1>5, <2>9 DEF ExecuteFunction
    <3> HIDE DEF r
    <3>2. /\ Elsewhere(s, r) /\ r.away = s.away /\ r.held = s.held /\ (Timed(s.queue) => Timed(r.queue))
          /\ \A W \in SUBSET Windows : Tells(s, W) => Tells(r, W)
          /\ Reveals(s, r)
      BY <2>1, <3>1, KilledElsewhere DEF Core
    <3>3. /\ Base(r) /\ Shown(r) /\ Managed(r) = Managed(s) /\ (Valid(s) => Valid(r))
          /\ (Stamped(s) => Stamped(r))
      BY <3>2, ElsewhereKeeps DEF Core
    <3>4. /\ Tells(s, Managed(s)) => Tells(r, Managed(r))
          /\ Sees(s, Managed(s)) => Sees(r, Managed(r))
      BY <3>2, <3>3, ListsOf DEF Reveals
    <3> QED
      BY <3>2, <3>3, <3>4 DEF Leads, Core, r
  <2> QED
    BY <1>5, <2>2, <2>3, <2>4, <2>5, <2>6, <2>7, <2>8, <2>9 DEF WindowCommands
<1> QED
  BY <1>2, <1>3, <1>4, <1>5 DEF CommandTypes

-----------------------------------------------------------------------------
(* Handlers                                                                *)

\* The inductive invariant. All windows are told the truth and show as they should, or events are
\* queued that will make it so. On one screen the pointer is never away, and no pointer dangles. Without
\* Grabbers nobody else holds the pointer, and the focus never waits in vain for a time stamp.
IInv ==
  /\ Base(wm) /\ Shown(wm) /\ Tells(wm, Managed(wm)) /\ Sees(wm, Managed(wm))
  /\ wish \in [Windows -> {"nothing", "shown", "iconic", "withdrawn"}]
  /\ nrequests \in Nat /\ ninputs \in Nat
  /\ Screens = 1 => ~wm.away /\ Valid(wm)
  /\ ~Grabbers => ~wm.held /\ Stamped(wm)

\* What remains of the invariant when fvwm has led t to the next state.
LEMMA Handled ==
  ASSUME IInv, NEW t, t.held = wm.held, t.away => wm.away, ~wm.held /\ Stamped(wm) => Stamped(t),
         Leads(t, wm'), Tells(wm', Managed(wm')), Sees(wm', Managed(wm')),
         wish' = wish, nrequests' \in Nat, ninputs' \in Nat
  PROVE  IInv'
<1>1. Base(wm') /\ Shown(wm') /\ wm'.held = wm.held /\ (wm'.away => wm.away)
  BY DEF Leads
<1>2. ~wm.away => Valid(wm')
  BY DEF Leads
<1>3. ~wm.held /\ Stamped(wm) => Stamped(wm')
  BY DEF Leads
<1>4. Screens = 1 => ~wm'.away /\ Valid(wm')
  BY <1>1, <1>2 DEF IInv
<1>5. ~Grabbers => ~wm'.held /\ Stamped(wm')
  BY <1>1, <1>3 DEF IInv
<1> QED
  BY <1>1, <1>4, <1>5 DEF IInv

\* The state a handler starts from.
LEMMA TakenFacts ==
  ASSUME IInv, NEW type, Arrives(type)
  PROVE  /\ Core(Taken) /\ Shown(Taken) /\ Managed(Taken) = Managed(wm)
         /\ Taken.held = wm.held /\ Taken.away = wm.away
         /\ Head(wm.queue) \in EventRecord /\ Head(wm.queue).type = type
         /\ type \notin InputEvents \cup CommandTypes => (Stamped(wm) => Stamped(Taken))
<1> DEFINE q == Tail(wm.queue)
           t == [wm EXCEPT !.queue = q]
<1>1. Base(wm) /\ Shown(wm) /\ Valid(wm)
  BY DEF IInv, Arrives, Intact, Pointers, Valid
<1>2. wm.queue \in Seq(EventRecord) /\ wm.queue # <<>> /\ Head(wm.queue).type = type
  BY <1>1 DEF Base, FocusTypes, Arrives
<1>3. q \in Seq(EventRecord) /\ Head(wm.queue) \in EventRecord
  BY <1>2
<1>4. ASSUME type \notin InputEvents \cup CommandTypes, Timed(wm.queue) PROVE Timed(q)
  <2>1. PICK k \in DOMAIN wm.queue : wm.queue[k].type \in InputEvents \cup CommandTypes
    BY <1>4 DEF Timed
  <2>2. /\ k \in 1..Len(wm.queue) /\ k # 1 /\ Len(wm.queue) \in Nat /\ DOMAIN q = 1..Len(q)
        /\ Len(q) = Len(wm.queue) - 1 /\ \A i \in 1..Len(q) : q[i] = wm.queue[i + 1]
    BY <1>2, <1>4, <2>1
  <2>3. k - 1 \in DOMAIN q /\ q[k - 1] = wm.queue[k]
    BY <2>2
  <2> HIDE DEF q
  <2> QED
    BY <2>1, <2>3 DEF Timed
<1> HIDE DEF q
<1>5. /\ Only(wm, t, {"mapped", "gone", "xfocus", "queue", "away", "held"}) /\ t.queue = q
      /\ t.mapped = wm.mapped /\ t.gone = wm.gone /\ t.xfocus = wm.xfocus
      /\ t.away = wm.away /\ t.held = wm.held
  BY <1>1 DEF Only, Base, Rec, Fields
<1>6. Taken = t
  BY DEF Taken, q
<1> HIDE DEF t
<1>7. Elsewhere(wm, t)
  BY <1>1, <1>3, <1>5 DEF Elsewhere, Base, FocusTypes, ServerTypes
<1>8. /\ Base(t) /\ Shown(t) /\ Managed(t) = Managed(wm) /\ Valid(t)
      /\ Stamped(wm) /\ (Timed(wm.queue) => Timed(t.queue)) => Stamped(t)
  BY <1>1, <1>7, ElsewhereKeeps
<1> QED
  BY <1>2, <1>3, <1>4, <1>5, <1>6, <1>8 DEF Core

\* The event that is handled was the first of the queue; the others move up.
LEMMA TakenQueue ==
  ASSUME IInv, NEW type, Arrives(type)
  PROVE  LET o == wm.queue
             q == Tail(o)
         IN /\ \A k \in DOMAIN o : k = 1 \/ (k - 1 \in DOMAIN q /\ q[k - 1] = o[k])
            /\ \A k \in DOMAIN q : k + 1 \in DOMAIN o /\ q[k] = o[k + 1]
            /\ o[1].type = type /\ o[1].win = Head(o).win /\ 1 \in DOMAIN o
            /\ DOMAIN o \subseteq Nat \ {0} /\ DOMAIN q \subseteq Nat \ {0}
            /\ Only(wm, Taken, {"queue"}) /\ Taken.queue = q
<1> DEFINE o == wm.queue
           q == Tail(o)
<1>1. o \in Seq(EventRecord) /\ o # <<>> /\ Head(o).type = type /\ Rec(wm)
  BY DEF IInv, Base, FocusTypes, Arrives
<1>2. /\ Len(o) \in Nat \ {0} /\ DOMAIN o = 1..Len(o) /\ DOMAIN q = 1..Len(q)
      /\ Len(q) = Len(o) - 1 /\ \A i \in 1..Len(q) : q[i] = o[i + 1] /\ Head(o) = o[1]
  BY <1>1
<1>3. Head(o) = o[1]
  BY <1>1
<1>4. Only(wm, Taken, {"queue"}) /\ Taken.queue = q
  <2> HIDE DEF q
  <2>1. Taken = [wm EXCEPT !.queue = q]
    BY DEF Taken, q
  <2> QED
    BY <1>1, <2>1 DEF Only, Rec, Fields
<1> HIDE DEF o, q
<1>5. \A k \in DOMAIN o : k = 1 \/ (k - 1 \in DOMAIN q /\ q[k - 1] = o[k])
  BY <1>2
<1> QED
  BY <1>1, <1>2, <1>3, <1>4, <1>5 DEF o, q

\* What is told without the event that is handled: all but what the event itself told, and fvwm
\* has heard of a MapRequest what it needs.
LEMMA TakenTold ==
  ASSUME IInv, NEW type, Arrives(type)
  PROVE  LET w == Head(wm.queue).win
         IN /\ Tells(Taken, Managed(Taken) \ {w})
            /\ type \notin {"MapNotify", "UnmapNotify"} => Tells(Taken, Managed(Taken))
            /\ type = "UnmapNotify" /\ (w \in Taken.gone \/ ~Known(Taken, w)) => Tells(Taken, Managed(Taken))
            /\ type = "MapRequest" => Ready(Taken, w)
            /\ type = "MapNotify" /\ w \in Managed(Taken) =>
                 /\ w \in Taken.mapped => Taken.state[w] = "Normal"
                 /\ w \notin Taken.mapped \cup Taken.gone =>
                      \/ Taken.state[w] = "Iconic"
                      \/ \E k \in DOMAIN Taken.queue : Taken.queue[k].type = "UnmapNotify"
                                                       /\ Taken.queue[k].win = w
<1> DEFINE t == Taken
           w == Head(wm.queue).win
           o == wm.queue
           q == Tail(o)
<1>1. /\ o \in Seq(EventRecord) /\ o # <<>> /\ Head(o).type = type /\ Base(wm)
      /\ MapsAnswered(wm) /\ \A v \in Managed(wm) : NormalTold(wm, v) /\ IconicTold(wm, v)
  BY DEF IInv, Base, FocusTypes, Arrives, Tells
<1>2. /\ \A k \in DOMAIN o : k = 1 \/ (k - 1 \in DOMAIN q /\ q[k - 1] = o[k])
      /\ \A k \in DOMAIN q : k + 1 \in DOMAIN o /\ q[k] = o[k + 1]
      /\ o[1].type = type /\ o[1].win = w /\ DOMAIN o \subseteq Nat \ {0} /\ DOMAIN q \subseteq Nat \ {0}
      /\ 1 \in DOMAIN o
  BY TakenQueue
<1>3. /\ t.mapped = wm.mapped /\ t.gone = wm.gone /\ t.state = wm.state /\ t.queue = q
      /\ t.MAPPED = wm.MAPPED /\ t.ICONIFIED = wm.ICONIFIED /\ Managed(t) = Managed(wm)
  BY TakenQueue DEF Only, Fields, Managed
<1> HIDE DEF t, q, w
<1>4. MapsAnswered(t)
  <2> SUFFICES ASSUME NEW k \in DOMAIN q, q[k].type = "MapRequest", q[k].win \in wm.mapped
               PROVE  \E j \in DOMAIN q : k < j /\ q[j].type = "MapNotify" /\ q[j].win = q[k].win
    BY <1>3 DEF MapsAnswered
  <2>1. k + 1 \in DOMAIN o /\ o[k + 1] = q[k]
    BY <1>2
  <2>2. PICK j \in DOMAIN o : k + 1 < j /\ o[j].type = "MapNotify" /\ o[j].win = q[k].win
    BY <1>1, <2>1 DEF MapsAnswered
  <2>3. j - 1 \in DOMAIN q /\ q[j - 1] = o[j] /\ k < j - 1
    BY <1>2, <2>2
  <2> QED
    BY <2>2, <2>3
<1>5. ASSUME NEW v \in Managed(t), type # "MapNotify" \/ v # w PROVE NormalTold(t, v)
  <2> SUFFICES ASSUME v \in wm.mapped
               PROVE  wm.state[v] = "Normal" /\ (Known(wm, v) \/ \E k \in DOMAIN q :
                        q[k].type = "MapNotify" /\ q[k].win = v)
    BY <1>3 DEF NormalTold, Known, Ready
  <2>1. wm.state[v] = "Normal" /\ (Known(wm, v) \/ \E k \in DOMAIN o :
                        o[k].type = "MapNotify" /\ o[k].win = v)
    BY <1>1, <1>3 DEF NormalTold, Ready
  <2>2. ASSUME NEW k \in DOMAIN o, o[k].type = "MapNotify", o[k].win = v
        PROVE  \E i \in DOMAIN q : q[i].type = "MapNotify" /\ q[i].win = v
    BY <1>2, <1>5, <2>2
  <2> QED
    BY <2>1, <2>2
<1>6. ASSUME NEW v \in Managed(t), v \notin wm.mapped \cup wm.gone, wm.state[v] # "Iconic"
      PROVE  \E k \in DOMAIN o :
               /\ o[k].type = "UnmapNotify" /\ o[k].win = v
               /\ Known(wm, v) \/ \E j \in DOMAIN o : j < k /\ o[j].type = "MapNotify" /\ o[j].win = v
  BY <1>1, <1>3, <1>6 DEF IconicTold
<1>7. ASSUME NEW v \in Managed(t), \/ v # w
                                   \/ type \notin {"MapNotify", "UnmapNotify"}
                                   \/ type = "UnmapNotify" /\ (v \in wm.gone \/ ~Known(wm, v))
      PROVE  IconicTold(t, v)
  <2> SUFFICES ASSUME v \notin wm.mapped \cup wm.gone, wm.state[v] # "Iconic"
               PROVE  \E k \in DOMAIN q :
                        /\ q[k].type = "UnmapNotify" /\ q[k].win = v
                        /\ Known(wm, v) \/ \E j \in DOMAIN q : j < k /\ q[j].type = "MapNotify" /\ q[j].win = v
    BY <1>3 DEF IconicTold, Known
  <2>1. PICK k \in DOMAIN o :
          /\ o[k].type = "UnmapNotify" /\ o[k].win = v
          /\ Known(wm, v) \/ \E j \in DOMAIN o : j < k /\ o[j].type = "MapNotify" /\ o[j].win = v
    BY <1>6
  <2>2. CASE Known(wm, v)
    <3>1. k # 1
      BY <1>2, <1>7, <2>1, <2>2
    <3> QED
      BY <1>2, <2>1, <2>2, <3>1
  <2>3. CASE ~Known(wm, v)
    <3>1. PICK j \in DOMAIN o : j < k /\ o[j].type = "MapNotify" /\ o[j].win = v
      BY <2>1, <2>3
    <3>2. j # 1 /\ k # 1
      BY <1>2, <1>7, <3>1
    <3>3. /\ k - 1 \in DOMAIN q /\ q[k - 1] = o[k] /\ j - 1 \in DOMAIN q /\ q[j - 1] = o[j]
          /\ j - 1 < k - 1
      BY <1>2, <3>1, <3>2
    <3> QED
      BY <2>1, <3>1, <3>3
  <2> QED
    BY <2>2, <2>3
<1>8. ASSUME type = "MapRequest" PROVE Ready(t, w)
  <2> SUFFICES ASSUME w \in wm.mapped PROVE \E k \in DOMAIN q : q[k].type = "MapNotify" /\ q[k].win = w
    BY <1>3 DEF Ready
  <2>1. PICK j \in DOMAIN o : 1 < j /\ o[j].type = "MapNotify" /\ o[j].win = w
    BY <1>1, <1>2, <1>8 DEF MapsAnswered
  <2> QED
    BY <1>2, <2>1
<1>9. ASSUME type = "MapNotify", w \in Managed(t)
      PROVE  /\ w \in t.mapped => t.state[w] = "Normal"
             /\ w \notin t.mapped \cup t.gone =>
                  t.state[w] = "Iconic" \/ \E k \in DOMAIN t.queue : t.queue[k].type = "UnmapNotify"
                                                                    /\ t.queue[k].win = w
  <2>1. w \in t.mapped => t.state[w] = "Normal"
    BY <1>1, <1>3, <1>9 DEF NormalTold
  <2>2. ASSUME w \notin t.mapped \cup t.gone, t.state[w] # "Iconic"
        PROVE  \E k \in DOMAIN t.queue : t.queue[k].type = "UnmapNotify" /\ t.queue[k].win = w
    <3>1. PICK k \in DOMAIN o : o[k].type = "UnmapNotify" /\ o[k].win = w
      BY <1>3, <1>6, <1>9, <2>2
    <3>2. k # 1
      BY <1>2, <1>9, <3>1
    <3> QED
      BY <1>2, <1>3, <3>1, <3>2
  <2> QED
    BY <2>1, <2>2
<1>10. Tells(t, Managed(t) \ {w})
  BY <1>4, <1>5, <1>7 DEF Tells
<1>11. type \notin {"MapNotify", "UnmapNotify"} => Tells(t, Managed(t))
  BY <1>4, <1>5, <1>7 DEF Tells
<1>12. type = "UnmapNotify" /\ (w \in t.gone \/ ~Known(t, w)) => Tells(t, Managed(t))
  <2>1. Known(t, w) = Known(wm, w)
    BY <1>3 DEF Known
  <2> QED
    BY <1>3, <1>4, <1>5, <1>7, <2>1 DEF Tells
<1> QED
  BY <1>8, <1>9, <1>10, <1>11, <1>12 DEF t, w

\* What appears without the event that is handled: all but the window it told the mapping of.
LEMMA TakenSeen ==
  ASSUME IInv, NEW type, Arrives(type)
  PROVE  LET w == Head(wm.queue).win
         IN /\ Sees(Taken, Managed(Taken) \ {w})
            /\ type # "MapNotify" => Sees(Taken, Managed(Taken))
            /\ w \in Taken.STICKY \ Stuck => Here(Taken, w)
            /\ type = "Stick" => w \in Stuck
<1> DEFINE t == Taken
           w == Head(wm.queue).win
           o == wm.queue
           q == Tail(o)
<1>1. /\ \A k \in DOMAIN o : k = 1 \/ (k - 1 \in DOMAIN q /\ q[k - 1] = o[k])
      /\ \A k \in DOMAIN q : k + 1 \in DOMAIN o /\ q[k] = o[k + 1]
      /\ o[1].type = type /\ o[1].win = w /\ 1 \in DOMAIN o
  BY TakenQueue
<1>2. /\ t.MAPPED = wm.MAPPED /\ t.ICONIFIED = wm.ICONIFIED /\ t.ICON_UNMAPPED = wm.ICON_UNMAPPED
      /\ t.STICKY = wm.STICKY /\ t.Desk = wm.Desk /\ t.CurrentDesk = wm.CurrentDesk
      /\ t.frame = wm.frame /\ t.icon = wm.icon /\ t.mapped = wm.mapped /\ t.queue = q
      /\ Managed(t) = Managed(wm)
  BY TakenQueue DEF Only, Fields, Managed
<1>3. Asked(wm) /\ Marked(wm) /\ \A v \in Managed(wm) \ Stuck : Appears(wm, v)
  BY DEF IInv, Sees
<1> HIDE DEF t, q, w
<1>4. Asked(t)
  BY <1>1, <1>2, <1>3 DEF Asked
<1>5. Marked(t)
  BY <1>2, <1>3 DEF Marked
<1>6. ASSUME NEW v \in Managed(t) \ Stuck, type # "MapNotify" \/ v # w PROVE Appears(t, v)
  <2>1. Ready(wm, v) => Ready(t, v)
    BY <1>1, <1>2, <1>6 DEF Ready
  <2>2. Appears(wm, v)
    BY <1>2, <1>3, <1>6
  <2> QED
    BY <1>2, <2>1, <2>2 DEF Appears, Here
<1>7. ASSUME w \in t.STICKY \ Stuck PROVE Here(t, w)
  <2>1. Appears(wm, w)
    BY <1>2, <1>3, <1>7 DEF Marked
  <2> QED
    BY <1>2, <1>7, <2>1 DEF Appears, Here
<1>8. type = "Stick" => w \in Stuck
  BY <1>1, <1>3 DEF Asked
<1> QED
  BY <1>4, <1>5, <1>6, <1>7, <1>8 DEF Sees, t, w

\* Handlers of events without a time; what MapNotify and UnmapNotify told, the handler must make
\* true, and show what MapNotify told of.
LEMMA Untimed ==
  ASSUME IInv, NEW type, Arrives(type), type \notin InputEvents \cup CommandTypes,
         Leads(Taken, wm'), type \in {"MapNotify", "UnmapNotify"} => Tells(wm', Managed(wm')),
         type = "MapNotify" => Sees(wm', Managed(wm')), Same
  PROVE  IInv'
<1>1. /\ Taken.held = wm.held /\ Taken.away = wm.away
      /\ Stamped(wm) => Stamped(Taken)
  BY TakenFacts
<1>2. wish' = wish /\ nrequests' \in Nat /\ ninputs' \in Nat
  BY DEF Same, IInv
<1>3. /\ type \notin {"MapNotify", "UnmapNotify"} => Tells(Taken, Managed(Taken))
      /\ type # "MapNotify" => Sees(Taken, Managed(Taken))
  BY TakenTold, TakenSeen
<1> HIDE DEF Taken
<1>4. Tells(wm', Managed(wm')) /\ Sees(wm', Managed(wm'))
  BY <1>3 DEF Leads
<1> QED
  BY <1>1, <1>2, <1>4, Handled

\* Handlers of events with a time.
LEMMA WithTime ==
  ASSUME IInv, NEW type, Arrives(type), type \notin {"MapNotify", "UnmapNotify"}
  PROVE  LET t == StashEventTime(Taken)
         IN /\ Core(t) /\ Shown(t) /\ Managed(t) = Managed(wm)
            /\ Leads(t, wm') /\ Same => IInv'
<1> DEFINE t == StashEventTime(Taken)
<1>1. /\ Core(Taken) /\ Shown(Taken) /\ Managed(Taken) = Managed(wm)
      /\ Taken.held = wm.held /\ Taken.away = wm.away /\ Tells(Taken, Managed(Taken))
      /\ Sees(Taken, Managed(Taken))
  BY TakenFacts, TakenTold, TakenSeen
<1>2. Core(t) /\ SameWindows(Taken, t) /\ t.FocusOnNextTimeStamp = NoWindow
  BY <1>1, StashEventTimeKeeps
<1> HIDE DEF t
<1>3. Shown(t) /\ Managed(t) = Managed(wm) /\ t.held = wm.held /\ (t.away => wm.away) /\ Stamped(t)
  BY <1>1, <1>2, SameWindowsFacts DEF SameWindows, Stamped
<1>4. Tells(t, Managed(t)) /\ Sees(t, Managed(t))
  <2>1. Informs(Taken, t) /\ Reveals(Taken, t) /\ Managed(t) = Managed(Taken) /\ Managed(t) \in SUBSET Windows
    BY <1>1, <1>2, <1>3, SameWindowsInforms, SameWindowsReveals, ListsOf
  <2> HIDE DEF Taken
  <2> QED
    BY <1>1, <2>1 DEF Informs, Reveals
<1>5. ASSUME Leads(t, wm'), Same PROVE IInv'
  <2>1. wish' = wish /\ nrequests' \in Nat /\ ninputs' \in Nat
    BY <1>5 DEF Same, IInv
  <2>2. Tells(wm', Managed(wm')) /\ Sees(wm', Managed(wm'))
    BY <1>4, <1>5 DEF Leads
  <2> QED
    BY <1>3, <1>5, <2>1, <2>2, Handled
<1> QED
  BY <1>2, <1>3, <1>5 DEF t

\* Moving the focus to a window or nowhere, as most handlers do.
LEMMA SetFocusLeads ==
  ASSUME NEW s, Core(s), Shown(s), NEW t \in Managed(s) \cup {NoWindow}
  PROVE  LET r == SetFocus(s, t, TRUE)
         IN Works(s, r) /\ Leads(s, r)
BY SetFocusKeeps, RefocusedWorks, WorksGoes DEF Refocused

\* A client window is mapped and its frame is shown.
LEMMA MapRequestShows ==
  ASSUME NEW s, Core(s), Shown(s), NEW w \in Managed(s), w \notin s.ICONIFIED
  PROVE  LET shown == [MapClients(s, {w}) EXCEPT !.state[w] = "Normal"]
             framed == [shown EXCEPT !.frame = @ \cup {w}, !.MAP_PENDING = @ \cup {w}]
         IN /\ Works(s, shown)
            /\ \A W \in SUBSET Windows : Tells(s, W) /\ Ready(s, w) => Tells(shown, W \cup {w})
            /\ s.Desk[w] = s.CurrentDesk => Works(shown, framed)
<1> DEFINE m == MapClients(s, {w})
           S == [m.state EXCEPT ![w] = "Normal"]
           shown == [m EXCEPT !.state = S]
           framed == [shown EXCEPT !.frame = @ \cup {w}, !.MAP_PENDING = @ \cup {w}]
<1>1. /\ Core(m) /\ Shown(m) /\ SamePointers(s, m) /\ Only(s, m, {"mapped", "queue"})
      /\ Maps(s, m, {w}) /\ (Timed(s.queue) => Timed(m.queue))
  BY MapClientsKeeps
<1> HIDE DEF m
<1>2. Managed(m) = Managed(s) /\ w \in Windows /\ m.state = s.state /\ m.MAPPED = s.MAPPED
      /\ m.ICONIFIED = s.ICONIFIED
  BY <1>1, ListsOf DEF Only, Fields, Managed
<1>3. S \in [Windows -> States] /\ \A v \in Windows : S[v] = IF v = w THEN "Normal" ELSE s.state[v]
  BY <1>1, <1>2 DEF Core, Base, ServerTypes, States
<1> HIDE DEF S
<1>4. Only(m, shown, {"state"}) /\ shown.state = S
  BY <1>1 DEF Only, Core, Base, Rec, Fields
<1> HIDE DEF shown
<1>5. /\ Works(s, shown)
      /\ \A W \in SUBSET Windows : Tells(s, W) /\ Ready(s, w) => Tells(shown, W \cup {w})
  <2>1. Flags(shown) /\ ServerTypes(shown) /\ Shown(shown)
    BY <1>1, <1>3, <1>4 DEF Only, Fields, Flags, ServerTypes, Shown, Managed, Core, Base
  <2>2. /\ shown.xfocus \in Pointer \cup {Root} /\ shown.queue \in Seq(EventRecord)
        /\ shown.queue = m.queue /\ shown.Hilite \in Managed(m) \cup {NoWindow}
        /\ Only(m, shown, Windowing) /\ shown.mapped = m.mapped /\ shown.gone = m.gone
        /\ shown.MAPPED = m.MAPPED /\ shown.ICONIFIED = m.ICONIFIED
    BY <1>1, <1>4 DEF Only, Fields, FocusTypes, Valid, Core, Base, Windowing
  <2>3. Only(s, shown, Windowing)
    BY <1>1, <2>2 DEF Only, Fields, Windowing
  <2>4. Maps(s, shown, {w})
    BY <1>1, <2>2 DEF Maps
  <2>5. /\ \A v \in {w} : shown.state[v] = "Normal"
        /\ \A v \in Windows \ {w} : shown.state[v] = s.state[v]
        /\ \A v \in Windows : Known(s, v) => Known(shown, v)
    BY <1>2, <1>3, <1>4, <2>2 DEF Known
  <2>6. /\ Informs(s, shown)
        /\ \A W \in SUBSET Windows : Tells(s, W) /\ Ready(s, w) => Tells(shown, W \cup {w})
    BY <2>4, <2>5, MapsInforms
  <2>7. Reveals(s, shown)
    <3>1. /\ shown.ICON_UNMAPPED = s.ICON_UNMAPPED /\ shown.STICKY = s.STICKY /\ shown.Desk = s.Desk
          /\ shown.CurrentDesk = s.CurrentDesk /\ shown.frame = s.frame /\ shown.icon = s.icon
          /\ Managed(shown) = Managed(s)
      BY <1>1, <1>4 DEF Only, Fields, Managed
    <3>2. ASSUME NEW v \in Managed(s), Appears(s, v) PROVE Appears(shown, v)
      <4>1. v \in shown.mapped => v \notin s.ICONIFIED
        BY <2>4, <3>2 DEF Maps, Appears
      <4>2. Ready(s, v) => Ready(shown, v)
        BY <2>6, <3>2, ListsOf DEF Informs
      <4> QED
        BY <1>2, <2>2, <3>1, <3>2, <4>1, <4>2 DEF Appears, Here
    <3> QED
      BY <1>2, <2>2, <2>4, <3>1, <3>2, RevealsBy, HeardAsked DEF Maps, Marked
  <2> QED
    BY <1>1, <1>2, <2>1, <2>2, <2>3, <2>6, <2>7, WindowingWorks
<1>6. ASSUME s.Desk[w] = s.CurrentDesk PROVE Works(shown, framed)
  <2>1. /\ Core(shown) /\ Shown(shown) /\ w \in Managed(shown)
    BY <1>5 DEF Works, Keeps
  <2>2. shown.ICONIFIED = s.ICONIFIED /\ shown.Desk = s.Desk /\ shown.CurrentDesk = s.CurrentDesk
    BY <1>1, <1>4 DEF Only, Fields
  <2>3. /\ Only(shown, framed, {"frame", "MAP_PENDING"}) /\ framed.frame = shown.frame \cup {w}
        /\ framed.MAP_PENDING = shown.MAP_PENDING \cup {w}
    BY <2>1 DEF Only, Core, Base, Rec, Fields
  <2> HIDE DEF framed
  <2>4. Flags(framed) /\ ServerTypes(framed)
    BY <1>2, <2>1, <2>3 DEF Only, Fields, Flags, ServerTypes, Core, Base
  <2>5. /\ framed.xfocus \in Pointer \cup {Root} /\ framed.queue \in Seq(EventRecord)
        /\ framed.queue = shown.queue /\ framed.Hilite \in Managed(shown) \cup {NoWindow}
        /\ Only(shown, framed, Windowing) /\ Managed(framed) = Managed(shown)
        /\ framed.ICONIFIED = shown.ICONIFIED /\ framed.Desk = shown.Desk /\ framed.icon = shown.icon
        /\ framed.CurrentDesk = shown.CurrentDesk /\ framed.MAPPED = shown.MAPPED
    BY <2>1, <2>3 DEF Only, Fields, FocusTypes, Valid, Core, Base, Windowing, Managed
  <2>6. Shown(framed)
    <3>1. /\ framed.icon \subseteq framed.ICONIFIED /\ framed.frame \cap framed.ICONIFIED = {}
          /\ framed.frame \subseteq framed.MAPPED \cup framed.MAP_PENDING
      BY <1>6, <2>1, <2>2, <2>3, <2>5 DEF Shown
    <3>2. \A v \in framed.frame \cup framed.icon : v \in Managed(framed) /\ framed.Desk[v] = framed.CurrentDesk
      BY <1>6, <2>1, <2>2, <2>3, <2>5 DEF Shown
    <3> QED
      BY <3>1, <3>2 DEF Shown
  <2>7. Silent(shown, framed)
    BY <2>3, HeardItself DEF Only, Fields, Silent
  <2>8. Reveals(shown, framed)
    <3>1. /\ framed.ICON_UNMAPPED = shown.ICON_UNMAPPED /\ framed.STICKY = shown.STICKY
          /\ framed.mapped = shown.mapped
      BY <2>3 DEF Only, Fields
    <3>2. \A v : Appears(shown, v) => Appears(framed, v)
      BY <2>3, <2>5, <3>1 DEF Appears, Here, Ready
    <3> QED
      BY <2>5, <3>1, <3>2, RevealsBy DEF Asked, Marked
  <2> QED
    BY <2>1, <2>4, <2>5, <2>6, <2>7, <2>8, WindowingWorks, SilentInforms
<1> QED
  BY <1>5, <1>6 DEF shown, S, m

\* MapRequest, for a new window, an icon or a window that was unmapped.
LEMMA MapRequestStep ==
  ASSUME IInv, HandleMapRequest PROVE IInv'
<1> DEFINE w == Head(wm.queue).win
           a == Taken
           s == IF w \in Managed(a) \cup a.gone THEN a ELSE AddWindow(a, w)
           shown == [MapClients(s, {w}) EXCEPT !.state[w] = "Normal"]
           framed == [shown EXCEPT !.frame = @ \cup {w}, !.MAP_PENDING = @ \cup {w}]
<1>1. Arrives("MapRequest") /\ Same
  BY DEF HandleMapRequest
<1>2. wm' = IF w \notin Managed(s) THEN s
            ELSE IF w \in s.ICONIFIED THEN DeIconify(s, w)
            ELSE IF w \in StartIconic THEN Iconify(s, w)
            ELSE IF s.Desk[w] # s.CurrentDesk THEN shown
            ELSE IF w \in ClickToFocus /\ s.Focus \in ClickToFocus \cup {NoWindow}
            THEN SetFocus(framed, w, TRUE)
            ELSE framed
  BY DEF HandleMapRequest, Win
<1>3. Core(a) /\ Shown(a) /\ w \in Windows /\ Ready(a, w)
  <2>1. /\ Core(a) /\ Shown(a) /\ Head(wm.queue) \in EventRecord /\ Head(wm.queue).type = "MapRequest"
        /\ Ready(a, w)
    BY <1>1, TakenFacts, TakenTold
  <2> QED
    BY <2>1 DEF EventRecord, ClientEvents
<1>4. ASSUME Leads(a, wm') PROVE IInv'
  BY <1>1, <1>4, Untimed DEF InputEvents, CommandTypes, WindowCommands
<1> HIDE DEF a, w
<1>5. /\ Goes(a, s) /\ (w \in Managed(s) => Managed(s) = Managed(a) \cup {w}) /\ (w \notin Managed(s) => s = a)
      /\ Sees(a, Managed(a)) => Sees(s, Managed(s))
  <2>1. CASE w \in Managed(a) \cup a.gone
    BY <1>3, <2>1, WorksItself, WorksGoes
  <2>2. CASE w \notin Managed(a) \cup a.gone
    BY <1>3, <2>2, AddWindowGoes
  <2> QED
    BY <2>1, <2>2
<1> HIDE DEF s
<1>6. Core(s) /\ Shown(s)
  BY <1>5 DEF Goes
<1>7. CASE w \notin Managed(s)
  BY <1>2, <1>3, <1>4, <1>5, <1>7, WorksItself, WorksGoes
<1>8. CASE w \in Managed(s)
  <2>1. ASSUME NEW t, wm' = t, Works(s, t),
               \A W \in SUBSET Windows : Tells(s, W) /\ Ready(s, w) => Tells(t, W \cup {w})
        PROVE  IInv'
    BY <1>3, <1>4, <1>5, <1>8, <2>1, AddedLeads
  <2>2. w \notin s.ICONIFIED =>
          /\ Works(s, shown)
          /\ \A W \in SUBSET Windows : Tells(s, W) /\ Ready(s, w) => Tells(shown, W \cup {w})
          /\ s.Desk[w] = s.CurrentDesk => Works(shown, framed)
    BY <1>6, <1>8, MapRequestShows
  <2> HIDE DEF shown, framed
  <2>3. CASE w \in s.ICONIFIED
    <3>1. wm' = DeIconify(s, w)
      BY <1>2, <1>8, <2>3
    <3> QED
      BY <1>6, <1>8, <2>1, <3>1, DeIconifyWorks
  <2>4. CASE w \notin s.ICONIFIED /\ w \in StartIconic
    <3>1. wm' = Iconify(s, w)
      BY <1>2, <1>8, <2>4
    <3> QED
      BY <1>6, <1>8, <2>1, <3>1, IconifyWorks
  <2>5. CASE w \notin s.ICONIFIED \cup StartIconic /\ s.Desk[w] # s.CurrentDesk
    BY <1>2, <1>8, <2>1, <2>2, <2>5
  <2>6. CASE w \notin s.ICONIFIED \cup StartIconic /\ s.Desk[w] = s.CurrentDesk
    <3>1. wm' \in {framed, SetFocus(framed, w, TRUE)}
      BY <1>2, <1>8, <2>6
    <3>2. Works(shown, framed)
      BY <2>2, <2>6
    <3>3. Core(framed) /\ Shown(framed) /\ w \in Managed(framed) \cup {NoWindow}
      BY <1>8, <2>2, <2>6, <3>2 DEF Works, Keeps
    <3>4. Works(framed, SetFocus(framed, w, TRUE))
      BY <3>3, SetFocusLeads
    <3>5. Works(shown, wm')
      <4>1. Works(shown, SetFocus(framed, w, TRUE))
        BY <3>2, <3>4, WorksTwice
      <4> QED
        BY <3>1, <3>2, <4>1
    <3>6. ASSUME NEW W \in SUBSET Windows, Tells(s, W), Ready(s, w) PROVE Tells(wm', W \cup {w})
      <4>1. Tells(shown, W \cup {w}) /\ W \cup {w} \in SUBSET Windows
        BY <1>3, <2>2, <2>6, <3>6
      <4> QED
        BY <3>5, <4>1 DEF Works, Keeps, Informs
    <3>7. Works(s, wm')
      BY <2>2, <2>6, <3>5, WorksTwice
    <3> QED
      BY <2>1, <3>6, <3>7
  <2> QED
    BY <2>3, <2>4, <2>5, <2>6
<1> QED
  BY <1>7, <1>8

\* The frame shows before the window is no icon any more.
LEMMA MapNotifyWorks ==
  ASSUME NEW a, Core(a), Shown(a), NEW w \in Managed(a)
  PROVE  LET s == HideIcons(a, {w})
             framed == IF s.Desk[w] = s.CurrentDesk THEN [s EXCEPT !.frame = @ \cup {w}] ELSE s
             focused == IF w \in ClickToFocus /\ s.Focus \in ClickToFocus
                        THEN SetFocus(framed, w, TRUE) ELSE framed
             r == [focused EXCEPT !.MAPPED = @ \cup {w}, !.MAP_PENDING = @ \ {w},
                                  !.ICONIFIED = @ \ {w}, !.ICON_UNMAPPED = @ \ {w}]
         IN /\ Keeps(a, r) /\ Silent(a, r) /\ Known(r, w)
            /\ (w \in a.STICKY \ Stuck => Here(a, w)) /\ Sees(a, Managed(a) \ {w}) => Sees(r, Managed(r))
<1> DEFINE s == HideIcons(a, {w})
           F == IF s.Desk[w] = s.CurrentDesk THEN s.frame \cup {w} ELSE s.frame
           e == [s EXCEPT !.frame = F]
           framed == IF s.Desk[w] = s.CurrentDesk THEN [s EXCEPT !.frame = @ \cup {w}] ELSE s
           focused == IF w \in ClickToFocus /\ s.Focus \in ClickToFocus
                      THEN SetFocus(framed, w, TRUE) ELSE framed
           r == [focused EXCEPT !.MAPPED = @ \cup {w}, !.MAP_PENDING = @ \ {w},
                                !.ICONIFIED = @ \ {w}, !.ICON_UNMAPPED = @ \ {w}]
<1>1. Only(a, s, {"icon", "xfocus"}) /\ s.icon = a.icon \ {w} /\ s.xfocus \in {a.xfocus, Root} /\ Core(s)
  BY HideIconsFacts, HideKeeps
<1> HIDE DEF s
<1>2. w \in Windows /\ w \in Managed(s) /\ Managed(s) = Managed(a)
  BY <1>1, ListsOf DEF Only, Fields, Managed
<1>3. framed.frame \in {s.frame \cup {w}, s.frame} /\ Only(s, framed, {"frame"})
      /\ (framed.frame = s.frame \cup {w} <=> (s.Desk[w] = s.CurrentDesk \/ w \in s.frame))
  <2>1. framed = e \/ framed = s
    BY <1>1 DEF Core, Base, Rec
  <2>2. LET z == [s EXCEPT !.frame = @ \cup {w}] IN Only(s, z, {"frame"}) /\ z.frame = s.frame \cup {w}
    BY <1>1 DEF Only, Core, Base, Rec, Fields
  <2>3. Only(s, s, {"frame"})
    BY <1>1 DEF Only, Core, Base
  <2> QED
    BY <2>2, <2>3
<1> HIDE DEF framed
<1>4. /\ Only(a, framed, {"icon", "xfocus", "frame"}) /\ framed.icon = a.icon \ {w}
      /\ framed.xfocus \in {a.xfocus, Root}
      /\ framed.frame \subseteq a.frame \cup {w}
      /\ a.frame \subseteq framed.frame
      /\ (w \in framed.frame <=> a.Desk[w] = a.CurrentDesk)
  <2>1. /\ Only(a, framed, {"icon", "xfocus", "frame"}) /\ framed.icon = a.icon \ {w}
        /\ framed.xfocus \in {a.xfocus, Root}
        /\ s.frame = a.frame /\ s.Desk = a.Desk /\ s.CurrentDesk = a.CurrentDesk
    BY <1>1, <1>3 DEF Only, Fields
  <2>2. w \in a.frame => a.Desk[w] = a.CurrentDesk
    BY DEF Shown
  <2> QED
    BY <1>3, <2>1, <2>2
<1>5. Core(framed) /\ Managed(framed) = Managed(a) /\ framed.held = a.held /\ framed.away = a.away
      /\ (Stamped(a) => Stamped(framed))
  <2>1. framed.frame \subseteq Windows /\ framed.icon \subseteq Windows /\ framed.MAP_PENDING \subseteq Windows
    BY <1>2, <1>4 DEF Only, Fields, Core, Base, ServerTypes, Flags
  <2>2. Only(a, framed, {"frame", "icon", "MAP_PENDING", "xfocus"})
    BY <1>4 DEF Only, Fields
  <2> QED
    BY <1>4, <2>1, <2>2, ShowKeeps
<1>6. Core(focused) /\ SameWindows(framed, focused) /\ focused.FocusOnNextTimeStamp = framed.FocusOnNextTimeStamp
  <2>1. LET z == SetFocus(framed, w, TRUE)
        IN Core(z) /\ SameWindows(framed, z) /\ z.FocusOnNextTimeStamp = framed.FocusOnNextTimeStamp
    BY <1>2, <1>5, SetFocusKeeps DEF Refocused
  <2> QED
    BY <1>5, <2>1, SameWindowsItself DEF Core
<1> HIDE DEF focused
<1>7. /\ focused.MAPPED = a.MAPPED /\ focused.MAP_PENDING = a.MAP_PENDING /\ focused.ICONIFIED = a.ICONIFIED
      /\ focused.icon = a.icon \ {w} /\ focused.frame = framed.frame /\ focused.Desk = a.Desk
      /\ focused.CurrentDesk = a.CurrentDesk /\ Managed(focused) = Managed(a)
      /\ focused.held = a.held /\ (focused.away => a.away) /\ (Stamped(a) => Stamped(focused))
  BY <1>4, <1>5, <1>6 DEF Only, Fields, SameWindows, Stamped
<1>8. /\ Only(focused, r, {"MAPPED", "MAP_PENDING", "ICONIFIED", "ICON_UNMAPPED"})
      /\ r.MAPPED = a.MAPPED \cup {w} /\ r.MAP_PENDING = a.MAP_PENDING \ {w}
      /\ r.ICONIFIED = a.ICONIFIED \ {w} /\ r.ICON_UNMAPPED = focused.ICON_UNMAPPED \ {w}
  BY <1>6, <1>7 DEF Only, Core, Base, Rec, Fields
<1> HIDE DEF r
<1>9. /\ Core(r) /\ Managed(r) = Managed(a) /\ r.held = a.held /\ (r.away => a.away)
      /\ (Stamped(a) => Stamped(r))
  <2>1. Flags(r) /\ ServerTypes(r)
    BY <1>2, <1>6, <1>7, <1>8 DEF Only, Fields, Flags, ServerTypes, Core, Base
  <2>2. /\ r.xfocus \in Pointer \cup {Root} /\ r.queue \in Seq(EventRecord)
        /\ r.queue = focused.queue /\ r.Hilite \in Managed(focused) \cup {NoWindow}
        /\ Only(focused, r, Windowing)
    BY <1>6, <1>8 DEF Only, Fields, FocusTypes, Valid, Core, Base, Windowing
  <2> QED
    BY <1>6, <1>7, <2>1, <2>2, NewWindowing
<1>10. Shown(r)
  <2>1. r.frame = framed.frame /\ r.icon = a.icon \ {w} /\ r.Desk = a.Desk /\ r.CurrentDesk = a.CurrentDesk
    BY <1>7, <1>8 DEF Only, Fields
  <2>2. /\ r.icon \subseteq r.ICONIFIED /\ r.frame \cap r.ICONIFIED = {}
        /\ r.frame \subseteq r.MAPPED \cup r.MAP_PENDING
    BY <1>4, <1>8, <2>1 DEF Shown
  <2>3. \A v \in r.frame \cup r.icon : v \in Managed(r) /\ r.Desk[v] = r.CurrentDesk
    BY <1>2, <1>4, <1>9, <2>1 DEF Shown
  <2> QED
    BY <2>2, <2>3 DEF Shown
<1>11. Silent(a, r) /\ Known(r, w)
  <2>1. /\ focused.mapped = a.mapped /\ focused.gone = a.gone /\ focused.state = a.state
        /\ Heard(a.queue, focused.queue)
    BY <1>4, <1>6 DEF Only, Fields, SameWindows
  <2>2. r.mapped = a.mapped /\ r.gone = a.gone /\ r.state = a.state /\ r.queue = focused.queue
    BY <1>8, <2>1 DEF Only, Fields
  <2> QED
    BY <1>8, <2>1, <2>2 DEF Silent, Known
<1>12. Keeps(a, r)
  BY <1>9, <1>10, <1>11, SilentInforms DEF Keeps
<1>13. ASSUME w \in a.STICKY \ Stuck => Here(a, w), Sees(a, Managed(a) \ {w}) PROVE Sees(r, Managed(r))
  <2>1. /\ r.frame = framed.frame /\ r.icon = a.icon \ {w} /\ r.Desk = a.Desk /\ r.CurrentDesk = a.CurrentDesk
        /\ r.MAPPED = a.MAPPED \cup {w} /\ r.ICONIFIED = a.ICONIFIED \ {w}
    BY <1>7, <1>8 DEF Only, Fields
  <2>2. r.ICON_UNMAPPED = a.ICON_UNMAPPED \ {w} /\ r.STICKY = a.STICKY
    BY <1>4, <1>6, <1>8 DEF Only, Fields, SameWindows
  <2>3. /\ r.mapped = a.mapped /\ Heard(a.queue, r.queue)
    BY <1>11 DEF Silent
  <2>4. Asked(r) /\ Marked(r)
    BY <1>9, <1>13, <2>1, <2>2, <2>3, HeardAsked DEF Sees, Marked
  <2>5. ASSUME NEW v \in Managed(a) \ {w}, Appears(a, v) PROVE Appears(r, v)
    <3>1. Ready(a, v) => Ready(r, v)
      BY <2>3 DEF Ready, Heard
    <3> QED
      BY <1>4, <2>1, <2>2, <2>3, <2>5, <3>1 DEF Appears, Here
  <2>6. w \notin Stuck => Appears(r, w)
    BY <1>4, <1>13, <2>1, <2>2 DEF Appears, Here
  <2> QED
    BY <1>9, <1>13, <2>4, <2>5, <2>6 DEF Sees
<1> QED
  BY <1>11, <1>12, <1>13 DEF r, focused, framed, s

\* MapNotify.
LEMMA MapNotifyStep ==
  ASSUME IInv, HandleMapNotify PROVE IInv'
<1> DEFINE w == Head(wm.queue).win
           a == Taken
           s == HideIcons(a, {w})
           framed == IF s.Desk[w] = s.CurrentDesk THEN [s EXCEPT !.frame = @ \cup {w}] ELSE s
           focused == IF w \in ClickToFocus /\ s.Focus \in ClickToFocus
                      THEN SetFocus(framed, w, TRUE) ELSE framed
           r == [focused EXCEPT !.MAPPED = @ \cup {w}, !.MAP_PENDING = @ \ {w},
                                !.ICONIFIED = @ \ {w}, !.ICON_UNMAPPED = @ \ {w}]
<1>1. Arrives("MapNotify") /\ Same
  BY DEF HandleMapNotify
<1>2. wm' = IF w \notin Managed(a) THEN a ELSE r
  BY DEF HandleMapNotify, Win
<1>3. /\ Core(a) /\ Shown(a) /\ Tells(a, Managed(a) \ {w}) /\ Sees(a, Managed(a) \ {w})
      /\ w \in a.STICKY \ Stuck => Here(a, w)
      /\ w \in Managed(a) =>
           /\ w \in a.mapped => a.state[w] = "Normal"
           /\ w \notin a.mapped \cup a.gone =>
                a.state[w] = "Iconic" \/ \E k \in DOMAIN a.queue : a.queue[k].type = "UnmapNotify"
                                                                  /\ a.queue[k].win = w
  BY <1>1, TakenFacts, TakenTold, TakenSeen
<1>4. ASSUME Leads(a, wm'), Tells(wm', Managed(wm')), Sees(wm', Managed(wm')) PROVE IInv'
  BY <1>1, <1>4, Untimed DEF InputEvents, CommandTypes, WindowCommands
<1> HIDE DEF a, w
<1>5. CASE w \notin Managed(a)
  <2>1. wm' = a /\ Managed(a) \ {w} = Managed(a)
    BY <1>2, <1>5
  <2> QED
    BY <1>3, <1>4, <2>1, WorksItself, WorksGoes
<1>6. CASE w \in Managed(a)
  <2>1. Keeps(a, r) /\ Silent(a, r) /\ Known(r, w) /\ Sees(r, Managed(r))
    BY <1>3, <1>6, MapNotifyWorks
  <2> HIDE DEF r
  <2>2. Tells(r, Managed(a) \ {w}) /\ Managed(r) = Managed(a)
    BY <1>3, <2>1, ListsOf DEF Keeps, Informs
  <2>3. NormalTold(r, w)
    BY <1>3, <1>6, <2>1 DEF NormalTold, Silent
  <2>4. IconicTold(r, w)
    BY <1>3, <1>6, <2>1 DEF IconicTold, Silent, Heard
  <2>5. Tells(r, Managed(r))
    BY <2>2, <2>3, <2>4 DEF Tells
  <2> QED
    BY <1>2, <1>4, <1>6, <2>1, <2>5 DEF Leads, Keeps, Core
<1> QED
  BY <1>5, <1>6

\* Two of the pointers forget w.
LEMMA ForgetsWorks ==
  ASSUME NEW a, Core(a), Shown(a), NEW w
  PROVE  LET r == [a EXCEPT !.Hilite = Forget(@, w), !.PreviousFocus = Forget(@, w)]
         IN Works(a, r) /\ SameWindows(a, r)
<1> DEFINE i == Forget(a.Hilite, w)
           p == Forget(a.PreviousFocus, w)
           r == [a EXCEPT !.Hilite = i, !.PreviousFocus = p]
<1>1. i \in Managed(a) \cup {NoWindow} /\ p \in Managed(a) \cup {NoWindow}
  BY DEF Forget, Core, Valid
<1> HIDE DEF i, p
<1>2. /\ Only(a, r, {"Focus", "PreviousFocus", "FocusOnNextTimeStamp", "Hilite"})
      /\ r.Focus = a.Focus /\ r.PreviousFocus = p /\ r.Hilite = i
      /\ r.FocusOnNextTimeStamp = a.FocusOnNextTimeStamp
  BY DEF Only, Core, Base, Rec, Fields
<1> HIDE DEF r
<1>3. Core(r) /\ SameWindows(a, r)
  BY <1>1, <1>2, NewPointer DEF Core, Valid
<1> QED
  BY <1>2, <1>3, RefocusedWorks DEF r, i, p

\* WM_STATE says that the window is withdrawn; the other windows are told the truth.
LEMMA WithdrawnKeeps ==
  ASSUME NEW s, Core(s), Shown(s), NEW w
  PROVE  LET r == [s EXCEPT !.state[w] = "Withdrawn"]
         IN /\ Core(r) /\ Shown(r) /\ Managed(r) = Managed(s) /\ r.held = s.held /\ r.away = s.away
            /\ Reveals(s, r) /\ (Stamped(s) => Stamped(r))
            /\ \A W \in SUBSET Windows : w \notin W /\ Tells(s, W) => Tells(r, W)
<1> DEFINE S == [s.state EXCEPT ![w] = "Withdrawn"]
           r == [s EXCEPT !.state = S]
<1>1. S \in [Windows -> States] /\ \A v \in Windows \ {w} : S[v] = s.state[v]
  BY DEF Core, Base, ServerTypes, States
<1> HIDE DEF S
<1>2. Only(s, r, {"state"}) /\ r.state = S
  BY DEF Only, Core, Base, Rec, Fields
<1> HIDE DEF r
<1>3. Flags(r) /\ ServerTypes(r) /\ Shown(r)
  BY <1>1, <1>2 DEF Only, Fields, Flags, ServerTypes, Shown, Managed, Core, Base
<1>4. /\ r.xfocus \in Pointer \cup {Root} /\ r.queue \in Seq(EventRecord) /\ r.queue = s.queue
      /\ r.Hilite \in Managed(s) \cup {NoWindow} /\ Only(s, r, Windowing)
  BY <1>2 DEF Only, Fields, FocusTypes, Valid, Core, Base, Windowing
<1>5. ASSUME NEW W \in SUBSET Windows, w \notin W, Tells(s, W) PROVE Tells(r, W)
  <2>1. \A v \in Windows \ {w} : Unmoved(s, r, v)
    BY <1>1, <1>2 DEF Unmoved, Known, Only, Fields
  <2>2. Heard(s.queue, r.queue) /\ r.mapped \subseteq s.mapped
    BY <1>2, HeardItself DEF Only, Fields
  <2> QED
    BY <1>5, <2>1, <2>2, OthersTold
<1>6. Reveals(s, r)
  <2>1. /\ Managed(r) = Managed(s) /\ r.MAPPED = s.MAPPED /\ r.ICONIFIED = s.ICONIFIED
        /\ r.ICON_UNMAPPED = s.ICON_UNMAPPED /\ r.STICKY = s.STICKY /\ r.Desk = s.Desk
        /\ r.CurrentDesk = s.CurrentDesk /\ r.frame = s.frame /\ r.icon = s.icon
        /\ r.mapped = s.mapped /\ r.queue = s.queue
    BY <1>2 DEF Only, Fields, Managed
  <2> QED
    BY <2>1, SeenStill DEF Asked
<1> QED
  BY <1>3, <1>4, <1>5, <1>6, NewWindowing DEF r, S

\* UnmapNotify: the focus is passed on twice, here and in Destroy.
LEMMA UnmapNotifyStep ==
  ASSUME IInv, HandleUnmapNotify PROVE IInv'
<1> DEFINE w == Head(wm.queue).win
           a == Taken
           f == [a EXCEPT !.Hilite = Forget(@, w), !.PreviousFocus = Forget(@, w)]
           s == PassFocus(f, w)
           d == [s EXCEPT !.state[w] = "Withdrawn"]
<1>1. Arrives("UnmapNotify") /\ Same
  BY DEF HandleUnmapNotify
<1>2. wm' = IF w \notin Managed(a) THEN a
            ELSE IF w \notin s.MAPPED \cup s.ICONIFIED \/ w \in s.gone THEN s
            ELSE Destroy(d, w)
  BY DEF HandleUnmapNotify, Win
<1>3. /\ Core(a) /\ Shown(a) /\ Tells(a, Managed(a) \ {w})
      /\ w \in a.gone \/ ~Known(a, w) => Tells(a, Managed(a))
  BY <1>1, TakenFacts, TakenTold
<1>4. ASSUME Leads(a, wm'), Tells(wm', Managed(wm')) PROVE IInv'
  BY <1>1, <1>4, Untimed DEF InputEvents, CommandTypes, WindowCommands
<1> HIDE DEF a, w
<1>5. CASE w \notin Managed(a)
  <2>1. wm' = a /\ Managed(a) \ {w} = Managed(a)
    BY <1>2, <1>5
  <2> QED
    BY <1>3, <1>4, <2>1, WorksItself, WorksGoes
<1>6. CASE w \in Managed(a)
  <2>1. Works(a, f) /\ SameWindows(a, f)
    BY <1>3, ForgetsWorks
  <2> HIDE DEF f
  <2>2. Works(f, s) /\ SameWindows(f, s)
    BY <1>6, <2>1, PassFocusKeeps DEF Works, Keeps
  <2> HIDE DEF s
  <2>3. Works(a, s) /\ Core(s) /\ Shown(s) /\ Managed(s) = Managed(a) /\ w \in Managed(s)
    BY <1>6, <2>1, <2>2, WorksTwice DEF Works, Keeps
  <2>4. s.MAPPED = a.MAPPED /\ s.ICONIFIED = a.ICONIFIED /\ s.gone = a.gone
    BY <2>1, <2>2 DEF SameWindows
  <2>5. CASE w \notin s.MAPPED \cup s.ICONIFIED \/ w \in s.gone
    <3>1. wm' = s
      BY <1>2, <1>6, <2>5
    <3>2. Tells(a, Managed(a))
      BY <1>3, <2>4, <2>5 DEF Known
    <3> QED
      BY <1>4, <2>3, <3>1, <3>2, WorksGoes DEF Leads
  <2>6. CASE ~(w \notin s.MAPPED \cup s.ICONIFIED \/ w \in s.gone)
    <3> DEFINE r == Destroy(d, w)
    <3>1. wm' = r
      BY <1>2, <1>6, <2>6
    <3>2. /\ Core(d) /\ Shown(d) /\ Managed(d) = Managed(s) /\ d.held = s.held /\ d.away = s.away
          /\ Reveals(s, d) /\ (Stamped(s) => Stamped(d))
          /\ \A W \in SUBSET Windows : w \notin W /\ Tells(s, W) => Tells(d, W)
      BY <2>3, WithdrawnKeeps
    <3> HIDE DEF d
    <3>3. /\ Leads(d, r) /\ Managed(r) = Managed(a) \ {w}
          /\ \A W \in SUBSET Windows : w \notin W /\ Tells(d, W) => Tells(r, W)
      BY <2>3, <3>2, DestroyLeads
    <3> HIDE DEF r
    <3>4. Managed(a) \ {w} \in SUBSET Windows /\ w \notin Managed(a) \ {w}
      BY <1>3, ListsOf
    <3>5. Tells(s, Managed(a) \ {w})
      BY <1>3, <2>3, <3>4 DEF Works, Keeps, Informs
    <3>6. Tells(d, Managed(a) \ {w})
      BY <3>2, <3>4, <3>5
    <3>7. Tells(r, Managed(r))
      BY <3>3, <3>4, <3>6
    <3>8. Leads(a, r)
      <4>1. Sees(a, Managed(a)) => Sees(r, Managed(r))
        BY <1>3, <2>3, <3>2, <3>3, ListsOf DEF Works, Reveals, Leads
      <4> QED
        BY <2>3, <3>2, <3>3, <3>7, <4>1 DEF Leads, Works, Keeps
    <3> QED
      BY <1>4, <3>1, <3>7, <3>8
  <2> QED
    BY <2>5, <2>6
<1> QED
  BY <1>5, <1>6

\* A synthetic UnmapNotify.
LEMMA SyntheticUnmapStep ==
  ASSUME IInv, HandleSyntheticUnmap PROVE IInv'
<1>1. Arrives("SyntheticUnmap") /\ Same /\ wm' = Taken
  BY DEF HandleSyntheticUnmap
<1>2. Core(Taken) /\ Shown(Taken)
  BY <1>1, TakenFacts
<1>3. Leads(Taken, wm')
  BY <1>1, <1>2, WorksItself, WorksGoes
<1> QED
  BY <1>1, <1>3, Untimed DEF InputEvents, CommandTypes, WindowCommands

\* DestroyNotify.
LEMMA DestroyNotifyStep ==
  ASSUME IInv, HandleDestroyNotify PROVE IInv'
<1> DEFINE w == Head(wm.queue).win
<1>1. Arrives("DestroyNotify") /\ Same
  BY DEF HandleDestroyNotify
<1>2. wm' = IF w \in Managed(Taken) THEN Destroy(Taken, w) ELSE Taken
  BY DEF HandleDestroyNotify, Win
<1>3. Core(Taken) /\ Shown(Taken)
  BY <1>1, TakenFacts
<1>4. Leads(Taken, wm')
  BY <1>2, <1>3, DestroyLeads, WorksItself, WorksGoes
<1> QED
  BY <1>1, <1>4, Untimed DEF InputEvents, CommandTypes, WindowCommands

\* WM_CHANGE_STATE.
LEMMA ClientMessageStep ==
  ASSUME IInv, HandleClientMessage PROVE IInv'
<1> DEFINE w == Head(wm.queue).win
           e == Event("Iconify", w)
<1>1. Arrives("ClientMessage") /\ Same
  BY DEF HandleClientMessage
<1>2. wm' = IF w \in Managed(Taken) \ Taken.ICONIFIED THEN ExecuteFunction(Taken, e) ELSE Taken
  BY DEF HandleClientMessage, Win
<1>3. Core(Taken) /\ Shown(Taken)
  BY <1>1, TakenFacts
<1>4. w \in Managed(Taken) => e \in EventRecord /\ e.type \in CommandTypes /\ e.type # "Stick"
  <2> SUFFICES ASSUME w \in Managed(Taken) PROVE e \in EventRecord /\ e.type = "Iconify"
    BY DEF CommandTypes, WindowCommands
  <2>1. w \in Windows
    BY <1>3, ListsOf
  <2>2. "Iconify" \in EventTypes /\ "Iconify" \notin ClientEvents /\ w \in Pointer
    BY <2>1 DEF EventTypes, CommandTypes, WindowCommands, ClientEvents, Pointer
  <2> QED
    BY <2>2, EventType
<1> HIDE DEF e, w
<1>5. Leads(Taken, wm')
  BY <1>2, <1>3, <1>4, ExecuteFunctionLeads, WorksItself, WorksGoes
<1> QED
  BY <1>1, <1>5, Untimed DEF InputEvents, CommandTypes, WindowCommands

\* FocusIn changes the highlighted window.
LEMMA FocusInStep ==
  ASSUME IInv, HandleFocusIn PROVE IInv'
<1> DEFINE w == Head(wm.queue).win
           a == Taken
           r == [a EXCEPT !.Hilite = w]
<1>1. Arrives("FocusIn") /\ Same
  BY DEF HandleFocusIn
<1>2. wm' = IF w \in Managed(a) \cup {NoWindow} THEN r ELSE a
  BY DEF HandleFocusIn, Win
<1>3. Core(a) /\ Shown(a)
  BY <1>1, TakenFacts
<1>4. ASSUME Leads(a, wm') PROVE IInv'
  BY <1>1, <1>4, Untimed DEF InputEvents, CommandTypes, WindowCommands
<1> HIDE DEF a, w
<1>5. CASE w \in Managed(a) \cup {NoWindow}
  <2>1. /\ Only(a, r, {"Focus", "PreviousFocus", "FocusOnNextTimeStamp", "Hilite"})
        /\ r.Focus = a.Focus /\ r.PreviousFocus = a.PreviousFocus /\ r.Hilite = w
        /\ r.FocusOnNextTimeStamp = a.FocusOnNextTimeStamp
    BY <1>3 DEF Only, Core, Base, Rec, Fields
  <2> HIDE DEF r
  <2>2. Core(r) /\ SameWindows(a, r)
    BY <1>3, <1>5, <2>1, NewPointer DEF Core, Valid
  <2>3. Works(a, r)
    BY <1>3, <2>1, <2>2, RefocusedWorks
  <2> QED
    BY <1>2, <1>4, <1>5, <2>3, WorksGoes
<1>6. CASE w \notin Managed(a) \cup {NoWindow}
  BY <1>2, <1>3, <1>4, <1>6, WorksItself, WorksGoes
<1> QED
  BY <1>5, <1>6

\* A key press and the command bound to it.
LEMMA KeyPressStep ==
  ASSUME IInv, HandleKeyPress PROVE IInv'
<1> DEFINE t == StashEventTime(Taken)
           e == Head(wm.queue)
<1>1. PICK type \in CommandTypes : Arrives(type)
  BY DEF HandleKeyPress
<1>2. wm' = ExecuteFunction(t, e) /\ Same
  BY DEF HandleKeyPress
<1>3. e \in EventRecord /\ e.type \in CommandTypes /\ (e.type = "Stick" => e.win \in Stuck)
  <2>1. e \in EventRecord /\ e.type = type
    BY <1>1, TakenFacts
  <2>2. type = "Stick" => e.win \in Stuck
    BY <1>1, TakenSeen
  <2> QED
    BY <1>1, <2>1, <2>2
<1>4. Core(t) /\ Shown(t) /\ (Leads(t, wm') => IInv')
  BY <1>1, <1>2, WithTime DEF CommandTypes, WindowCommands
<1> HIDE DEF t, e
<1> QED
  BY <1>2, <1>3, <1>4, ExecuteFunctionLeads

\* A click: the focus and a raise.
LEMMA ButtonPressStep ==
  ASSUME IInv, HandleButtonPress PROVE IInv'
<1> DEFINE t == StashEventTime(Taken)
           w == Head(wm.queue).win
           f == SetFocus(t, w, TRUE)
<1>1. Arrives("ButtonPress") /\ Same
  BY DEF HandleButtonPress
<1>2. wm' = IF w \in Managed(t) \cap ClickToFocus /\ w # t.Ungrabbed THEN RaiseWindow(f, w) ELSE t
  BY DEF HandleButtonPress, Win
<1>3. Core(t) /\ Shown(t) /\ (Leads(t, wm') => IInv')
  BY <1>1, WithTime
<1> HIDE DEF t, w
<1>4. CASE w \in Managed(t) \cap ClickToFocus /\ w # t.Ungrabbed
  <2>1. Works(t, f)
    BY <1>3, <1>4, SetFocusLeads
  <2> HIDE DEF f
  <2>2. Core(f) /\ Shown(f) /\ w \in Managed(f)
    BY <1>4, <2>1 DEF Works, Keeps
  <2>3. Works(f, RaiseWindow(f, w))
    BY <2>2, RaiseKeeps, RefocusedWorks DEF SamePointers
  <2>4. Works(t, RaiseWindow(f, w))
    BY <2>1, <2>3, WorksTwice
  <2> QED
    BY <1>2, <1>3, <1>4, <2>4, WorksGoes
<1>5. CASE ~(w \in Managed(t) \cap ClickToFocus /\ w # t.Ungrabbed)
  BY <1>2, <1>3, <1>5, WorksItself, WorksGoes
<1> QED
  BY <1>4, <1>5

\* EnterNotify on a window or the root.
LEMMA EnterNotifyStep ==
  ASSUME IInv, HandleEnterNotify PROVE IInv'
<1> DEFINE t == StashEventTime(Taken)
           w == Head(wm.queue).win
<1>1. Arrives("EnterNotify") /\ Same
  BY DEF HandleEnterNotify
<1>2. wm' = IF w = NoWindow
            THEN IF t.Focus \in Windows \ (ClickToFocus \cup SloppyFocus)
                 THEN SetFocus(t, NoWindow, TRUE) ELSE t
            ELSE IF w \in Managed(t) \ ClickToFocus THEN SetFocus(t, w, TRUE)
            ELSE t
  BY DEF HandleEnterNotify, Win
<1>3. Core(t) /\ Shown(t) /\ (Leads(t, wm') => IInv')
  BY <1>1, WithTime
<1> HIDE DEF t, w
<1>4. wm' \in {t, SetFocus(t, NoWindow, TRUE)} \/ (w \in Managed(t) /\ wm' = SetFocus(t, w, TRUE))
  BY <1>2
<1>5. Leads(t, t) /\ Leads(t, SetFocus(t, NoWindow, TRUE))
  BY <1>3, WorksItself, WorksGoes, SetFocusLeads
<1>6. w \in Managed(t) => Leads(t, SetFocus(t, w, TRUE))
  BY <1>3, SetFocusLeads
<1> QED
  BY <1>3, <1>4, <1>5, <1>6

\* LeaveNotify from the root: the pointer went to another screen.
LEMMA LeaveNotifyStep ==
  ASSUME IInv, HandleLeaveNotify PROVE IInv'
<1> DEFINE t == StashEventTime(Taken)
           left == IF t.Focus # NoWindow THEN SetFocus(t, NoWindow, TRUE) ELSE t
           r == [left EXCEPT !.Hilite = NoWindow]
<1>1. Arrives("LeaveNotify") /\ Same
  BY DEF HandleLeaveNotify
<1>2. wm' = r
  BY DEF HandleLeaveNotify
<1>3. Core(t) /\ Shown(t) /\ (Leads(t, wm') => IInv')
  BY <1>1, WithTime
<1> HIDE DEF t
<1>4. Works(t, left)
  BY <1>3, WorksItself, SetFocusLeads
<1> HIDE DEF left
<1>5. Core(left) /\ Shown(left)
  BY <1>4 DEF Works, Keeps
<1>6. /\ Only(left, r, {"Focus", "PreviousFocus", "FocusOnNextTimeStamp", "Hilite"})
      /\ r.Focus = left.Focus /\ r.PreviousFocus = left.PreviousFocus /\ r.Hilite = NoWindow
      /\ r.FocusOnNextTimeStamp = left.FocusOnNextTimeStamp
  BY <1>5 DEF Only, Core, Base, Rec, Fields
<1> HIDE DEF r
<1>7. Core(r) /\ SameWindows(left, r)
  BY <1>5, <1>6, NewPointer DEF Core, Valid
<1>8. Works(left, r)
  BY <1>5, <1>6, <1>7, RefocusedWorks
<1>9. Leads(t, r)
  BY <1>4, <1>8, WorksTwice, WorksGoes
<1> QED
  BY <1>2, <1>3, <1>9

\* Motion carries a time.
LEMMA MotionNotifyStep ==
  ASSUME IInv, MotionNotify PROVE IInv'
<1> DEFINE t == StashEventTime(Taken)
<1>1. Arrives("MotionNotify") /\ Same /\ wm' = t
  BY DEF MotionNotify
<1>2. Core(t) /\ Shown(t) /\ (Leads(t, wm') => IInv')
  BY <1>1, WithTime
<1> HIDE DEF t
<1> QED
  BY <1>1, <1>2, WorksItself, WorksGoes

\* A command of a module.
LEMMA ModuleCommandStep ==
  ASSUME IInv, ModuleCommand PROVE IInv'
<1>1. PICK c \in Commands : wm' = ExecuteFunction(wm, c)
  BY DEF ModuleCommand
<1>2. c \in EventRecord /\ c.type \in CommandTypes /\ (c.type = "Stick" => c.win \in Stuck)
  BY WindowsAssumption DEF WindowsAssumption, Stuck
<1>3. Core(wm) /\ Shown(wm)
  BY DEF ModuleCommand, Intact, Pointers, Valid, IInv, Core
<1>4. Leads(wm, ExecuteFunction(wm, c))
  BY <1>2, <1>3, ExecuteFunctionLeads
<1>5. wish' = wish /\ nrequests' \in Nat /\ ninputs' \in Nat
  BY DEF ModuleCommand, IInv
<1>6. Leads(wm, wm') /\ Tells(wm', Managed(wm')) /\ Sees(wm', Managed(wm'))
  BY <1>1, <1>4 DEF Leads, IInv
<1> QED
  BY <1>5, <1>6, Handled

-----------------------------------------------------------------------------
(* Clients, the user and the pointer                                       *)

\* A step elsewhere keeps the invariant.
LEMMA ElsewhereStep ==
  ASSUME IInv, Elsewhere(wm, wm'), Timed(wm.queue) => Timed(wm'.queue), Tells(wm', Managed(wm)),
         Reveals(wm, wm'),
         Screens = 1 => ~wm'.away, ~Grabbers => ~wm'.held,
         wish' \in [Windows -> {"nothing", "shown", "iconic", "withdrawn"}],
         nrequests' \in Nat, ninputs' \in Nat
  PROVE  IInv'
<1>1. Base(wm) /\ Shown(wm)
  BY DEF IInv
<1>2. /\ Base(wm') /\ Shown(wm') /\ (Valid(wm) => Valid(wm')) /\ (Stamped(wm) => Stamped(wm'))
      /\ Managed(wm') = Managed(wm)
  BY <1>1, ElsewhereKeeps
<1>3. Screens = 1 => Valid(wm')
  BY <1>2 DEF IInv
<1>4. ~Grabbers => Stamped(wm')
  BY <1>2 DEF IInv
<1>5. Tells(wm', Managed(wm')) /\ Sees(wm', Managed(wm'))
  <2>1. Managed(wm) \in SUBSET Windows /\ Sees(wm, Managed(wm))
    BY <1>1 DEF IInv, Base, Lists, Managed, ToSet
  <2> QED
    BY <1>2, <2>1 DEF Reveals
<1> QED
  BY <1>2, <1>3, <1>4, <1>5 DEF IInv

\* Nothing but the queue and the pointer's whereabouts changes.
LEMMA NewQueue ==
  ASSUME IInv, NEW r, Only(wm, r, {"queue", "away", "held"}),
         r.queue \in Seq(EventRecord), r.away \in BOOLEAN, r.held \in BOOLEAN
  PROVE  Elsewhere(wm, r) /\ (Heard(wm.queue, r.queue) => Tells(r, Managed(wm)) /\ Reveals(wm, r))
<1>1. Base(wm) /\ Tells(wm, Managed(wm))
  BY DEF IInv
<1>2. /\ r.mapped = wm.mapped /\ r.gone = wm.gone /\ r.xfocus = wm.xfocus
      /\ Only(wm, r, {"mapped", "gone", "xfocus", "queue", "away", "held"})
  BY DEF Only, Fields
<1>3. ASSUME Heard(wm.queue, r.queue) PROVE Tells(r, Managed(wm))
  <2>1. Silent(wm, r)
    BY <1>3 DEF Silent, Only, Fields
  <2>2. Managed(wm) \in SUBSET Windows
    BY <1>1 DEF Base, Lists, Managed, ToSet
  <2> QED
    BY <1>1, <2>1, <2>2, SilentInforms DEF Informs
<1>4. Elsewhere(wm, r)
  BY <1>1, <1>2 DEF Elsewhere, Base, FocusTypes, ServerTypes
<1>5. ASSUME Heard(wm.queue, r.queue) PROVE Reveals(wm, r)
  BY <1>2, <1>4, <1>5, HeardAsked, ElsewhereReveals DEF Heard
<1> QED
  BY <1>3, <1>4, <1>5

\* A client asks for something; only windows that are not mapped are mapped.
LEMMA RequestStep ==
  ASSUME IInv, NEW w \in Windows, NEW request \in {"shown", "iconic"},
         NEW events \in Seq(EventRecord), Request(w, request, events),
         \A k \in DOMAIN events : events[k].type = "MapRequest" => events[k].win \notin wm.mapped,
         \A k \in DOMAIN events : events[k].type # "Stick"
  PROVE  IInv'
<1> DEFINE q == wm.queue \o events
           r == [wm EXCEPT !.queue = q]
<1>1. wm' = r /\ wish' = [wish EXCEPT ![w] = request] /\ nrequests' = nrequests + 1 /\ ninputs' = ninputs
  BY DEF Request
<1>2. /\ Base(wm) /\ wish \in [Windows -> {"nothing", "shown", "iconic", "withdrawn"}]
      /\ nrequests \in Nat /\ ninputs \in Nat
      /\ wm.queue \in Seq(EventRecord) /\ wm.away \in BOOLEAN /\ wm.held \in BOOLEAN
  BY DEF IInv, Base, FocusTypes, ServerTypes
<1>3. /\ q \in Seq(EventRecord) /\ (Timed(wm.queue) => Timed(q))
      /\ \A k \in DOMAIN wm.queue : k \in DOMAIN q /\ q[k] = wm.queue[k]
      /\ \A k \in DOMAIN q : k \in DOMAIN wm.queue \/ \E i \in DOMAIN events : q[k] = events[i]
  BY <1>2, QueueConcat
<1> HIDE DEF q
<1>4. Only(wm, r, {"queue", "away", "held"}) /\ r.queue = q /\ r.away = wm.away /\ r.held = wm.held
  BY <1>2 DEF Only, Base, Rec, Fields
<1> HIDE DEF r
<1>5. Elsewhere(wm, r)
  BY <1>2, <1>3, <1>4, NewQueue
<1>6. /\ wish' \in [Windows -> {"nothing", "shown", "iconic", "withdrawn"}]
      /\ nrequests' \in Nat /\ ninputs' \in Nat
  BY <1>1, <1>2
<1>7. (Screens = 1 => ~wm'.away) /\ (~Grabbers => ~wm'.held)
  BY <1>1, <1>4 DEF IInv
<1>8. Elsewhere(wm, wm') /\ (Timed(wm.queue) => Timed(wm'.queue))
  BY <1>1, <1>3, <1>4, <1>5
<1>9. MapsAnswered(r)
  <2> SUFFICES ASSUME NEW k \in DOMAIN r.queue, r.queue[k].type = "MapRequest",
                      r.queue[k].win \in wm.mapped
               PROVE  \E j \in DOMAIN r.queue : k < j /\ r.queue[j].type = "MapNotify"
                                                /\ r.queue[j].win = r.queue[k].win
    BY <1>4 DEF MapsAnswered, Only, Fields
  <2>1. k \in DOMAIN wm.queue /\ q[k] = wm.queue[k]
    BY <1>3, <1>4
  <2>2. PICK j \in DOMAIN wm.queue : k < j /\ wm.queue[j].type = "MapNotify"
                                     /\ wm.queue[j].win = wm.queue[k].win
    BY <1>4, <2>1 DEF IInv, Tells, MapsAnswered
  <2> QED
    BY <1>3, <1>4, <2>1, <2>2
<1>10. ASSUME NEW v \in Managed(wm) PROVE NormalTold(r, v) /\ IconicTold(r, v)
  <2>1. NormalTold(wm, v) /\ IconicTold(wm, v)
    BY DEF IInv, Tells
  <2>2. Unmoved(wm, r, v)
    BY <1>4 DEF Unmoved, Known, Only, Fields
  <2> QED
    BY <1>3, <1>4, <2>1, <2>2, UnmovedTold
<1>11. Tells(wm', Managed(wm))
  BY <1>1, <1>9, <1>10 DEF Tells
<1>12. Reveals(wm, wm')
  <2>1. Asked(wm) => Asked(r)
    BY <1>3, <1>4 DEF Asked
  <2>2. r.mapped = wm.mapped
    BY <1>4 DEF Only, Fields
  <2> QED
    BY <1>1, <1>3, <1>4, <1>5, <2>1, <2>2, ElsewhereReveals
<1> QED
  BY <1>6, <1>7, <1>8, <1>11, <1>12, ElsewhereStep

\* A client withdraws its window.
LEMMA ClientWithdrawsStep ==
  ASSUME IInv, NEW w \in Windows, ClientWithdraws(w) PROVE IInv'
<1> DEFINE a == IF w \in wm.mapped \cap Managed(wm) THEN <<Event("UnmapNotify", w)>> ELSE <<>>
           b == <<Event("SyntheticUnmap", w)>>
           q == wm.queue \o a \o b
           x == IF wm.xfocus = w /\ w \in wm.mapped THEN Root ELSE wm.xfocus
           r == [wm EXCEPT !.mapped = @ \ {w}, !.xfocus = x, !.queue = q]
<1>1. wm' = r /\ wish' = [wish EXCEPT ![w] = "withdrawn"] /\ nrequests' = nrequests + 1 /\ ninputs' = ninputs
  BY DEF ClientWithdraws
<1>2. /\ Base(wm) /\ wish \in [Windows -> {"nothing", "shown", "iconic", "withdrawn"}]
      /\ nrequests \in Nat /\ ninputs \in Nat
      /\ wm.queue \in Seq(EventRecord) /\ wm.away \in BOOLEAN /\ wm.held \in BOOLEAN
      /\ wm.mapped \subseteq Windows /\ wm.gone \subseteq Windows /\ wm.xfocus \in Pointer \cup {Root}
  BY DEF IInv, Base, FocusTypes, ServerTypes
<1>3. /\ a \in Seq(EventRecord) /\ b \in Seq(EventRecord)
      /\ \A k \in DOMAIN a : a[k].type = "UnmapNotify" /\ a[k].win = w
      /\ \A k \in DOMAIN b : b[k].type = "SyntheticUnmap"
      /\ \A k \in DOMAIN a : ~Foreign(a[k])
      /\ \A k \in DOMAIN b : ~Foreign(b[k])
      /\ w \in wm.mapped \cap Managed(wm) => 1 \in DOMAIN a
  BY NoEvent, ClientEvent DEF EventTypes, ClientEvents, Foreign
<1> HIDE DEF a, b
<1>4. /\ q \in Seq(EventRecord) /\ (Timed(wm.queue) => Timed(q)) /\ Heard(wm.queue, q)
      /\ w \in wm.mapped \cap Managed(wm) =>
           \E j \in DOMAIN q : /\ q[j].type = "UnmapNotify" /\ q[j].win = w
                              /\ \A i \in DOMAIN wm.queue : i < j
  <2> DEFINE o == wm.queue \o a
  <2>1. /\ o \in Seq(EventRecord) /\ (Timed(wm.queue) => Timed(o)) /\ Heard(wm.queue, o)
        /\ \A k \in DOMAIN a : \E j \in DOMAIN o : o[j] = a[k] /\ \A i \in DOMAIN wm.queue : i < j
    BY <1>2, <1>3, QueueConcat
  <2> HIDE DEF o
  <2>2. /\ o \o b \in Seq(EventRecord) /\ (Timed(o) => Timed(o \o b)) /\ Heard(o, o \o b)
        /\ \A k \in DOMAIN o : k \in DOMAIN (o \o b) /\ (o \o b)[k] = o[k]
    BY <1>3, <2>1, QueueConcat
  <2>3. q = o \o b
    BY DEF o
  <2> HIDE DEF q
  <2>4. Heard(wm.queue, q)
    BY <2>1, <2>2, <2>3, HeardTwice
  <2>5. ASSUME w \in wm.mapped \cap Managed(wm)
        PROVE  \E j \in DOMAIN q : /\ q[j].type = "UnmapNotify" /\ q[j].win = w
                                  /\ \A i \in DOMAIN wm.queue : i < j
    <3>1. PICK j \in DOMAIN o : o[j] = a[1] /\ \A i \in DOMAIN wm.queue : i < j
      BY <1>3, <2>1, <2>5
    <3>2. j \in DOMAIN q /\ q[j] = a[1] /\ a[1].type = "UnmapNotify" /\ a[1].win = w
      BY <1>3, <2>2, <2>3, <2>5, <3>1
    <3> QED
      BY <3>1, <3>2
  <2> QED
    BY <2>1, <2>2, <2>3, <2>4, <2>5
<1>5. x \in {wm.xfocus, Root}
  OBVIOUS
<1> HIDE DEF q, x
<1>6. /\ Only(wm, r, {"mapped", "gone", "xfocus", "queue", "away", "held"}) /\ r.queue = q
      /\ r.mapped = wm.mapped \ {w} /\ r.gone = wm.gone /\ r.xfocus = x
      /\ r.away = wm.away /\ r.held = wm.held
  BY <1>2 DEF Only, Base, Rec, Fields
<1> HIDE DEF r
<1>7. Elsewhere(wm, r)
  BY <1>2, <1>4, <1>5, <1>6 DEF Elsewhere
<1>8. /\ wish' \in [Windows -> {"nothing", "shown", "iconic", "withdrawn"}]
      /\ nrequests' \in Nat /\ ninputs' \in Nat
  BY <1>1, <1>2
<1>9. (Screens = 1 => ~wm'.away) /\ (~Grabbers => ~wm'.held)
  BY <1>1, <1>6 DEF IInv
<1>10. Elsewhere(wm, wm') /\ (Timed(wm.queue) => Timed(wm'.queue))
  BY <1>1, <1>4, <1>6, <1>7
<1>11. r.state = wm.state /\ r.MAPPED = wm.MAPPED /\ r.ICONIFIED = wm.ICONIFIED
  BY <1>6 DEF Only, Fields
<1>12. ASSUME w \in Managed(wm), w \notin wm.gone, w \in wm.mapped PROVE IconicTold(r, w)
  <2>1. NormalTold(wm, w)
    BY <1>12 DEF IInv, Tells
  <2>2. PICK j \in DOMAIN q : /\ q[j].type = "UnmapNotify" /\ q[j].win = w
                              /\ \A i \in DOMAIN wm.queue : i < j
    BY <1>4, <1>12
  <2>3. Known(wm, w) => Known(r, w)
    BY <1>11 DEF Known
  <2>4. CASE Known(wm, w)
    BY <1>6, <2>2, <2>3, <2>4 DEF IconicTold
  <2>5. CASE Ready(wm, w)
    <3>1. PICK k \in DOMAIN wm.queue : wm.queue[k].type = "MapNotify" /\ wm.queue[k].win = w
      BY <1>12, <2>5 DEF Ready
    <3>2. k \in DOMAIN q /\ q[k] = wm.queue[k] /\ k < j
      BY <1>4, <2>2, <3>1 DEF Heard
    <3> QED
      BY <1>6, <2>2, <3>1, <3>2 DEF IconicTold
  <2> QED
    BY <1>12, <2>1, <2>4, <2>5 DEF NormalTold
<1>13. ASSUME w \in Managed(wm), w \notin wm.mapped PROVE IconicTold(r, w)
  <2>1. Unmoved(wm, r, w) /\ IconicTold(wm, w)
    BY <1>6, <1>11, <1>13 DEF Unmoved, Known, IInv, Tells
  <2> QED
    BY <1>4, <1>6, <2>1, UnmovedTold DEF Heard
<1>14. Tells(r, Managed(wm))
  <2>1. w \in Managed(wm) => NormalTold(r, w) /\ IconicTold(r, w)
    BY <1>6, <1>12, <1>13 DEF NormalTold, IconicTold
  <2>2. \A v \in Windows \ {w} : Unmoved(wm, r, v)
    BY <1>6, <1>11 DEF Unmoved, Known
  <2>3. Managed(wm) \in SUBSET Windows /\ Tells(wm, Managed(wm))
    BY <1>2 DEF IInv, Base, Lists, Managed, ToSet
  <2>4. Heard(wm.queue, r.queue) /\ r.mapped \subseteq wm.mapped
    BY <1>4, <1>6
  <2> QED
    BY <2>1, <2>2, <2>3, <2>4, OthersTold
<1>15. Tells(wm', Managed(wm)) /\ Reveals(wm, wm')
  <2>1. Heard(wm.queue, r.queue) /\ r.mapped \subseteq wm.mapped
    BY <1>4, <1>6
  <2>2. Reveals(wm, r)
    BY <1>7, <2>1, HeardAsked, ElsewhereReveals DEF Heard
  <2> QED
    BY <1>1, <1>14, <2>2
<1> QED
  BY <1>8, <1>9, <1>10, <1>15, ElsewhereStep

\* A client dies.
LEMMA ClientDiesStep ==
  ASSUME IInv, NEW w \in Windows, ClientDies(w) PROVE IInv'
<1>1. wm' = Killed(wm, w) /\ wish' = wish /\ nrequests' = nrequests + 1 /\ ninputs' = ninputs
  BY DEF ClientDies
<1>2. Base(wm)
  BY DEF IInv
<1>3. /\ Elsewhere(wm, wm') /\ wm'.away = wm.away /\ wm'.held = wm.held
      /\ Timed(wm.queue) => Timed(wm'.queue)
      /\ Tells(wm', Managed(wm)) /\ Reveals(wm, wm')
  <2>1. Managed(wm) \in SUBSET Windows /\ Tells(wm, Managed(wm))
    BY <1>2 DEF IInv, Base, Lists, Managed, ToSet
  <2> QED
    BY <1>1, <1>2, <2>1, KilledElsewhere
<1>4. (Screens = 1 => ~wm'.away) /\ (~Grabbers => ~wm'.held)
  BY <1>3 DEF IInv
<1>5. /\ wish' \in [Windows -> {"nothing", "shown", "iconic", "withdrawn"}]
      /\ nrequests' \in Nat /\ ninputs' \in Nat
  BY <1>1 DEF IInv
<1> QED
  BY <1>3, <1>4, <1>5, ElsewhereStep

\* Every step of a client.
LEMMA ClientStep ==
  ASSUME IInv, NEW w \in Windows, Client(w) PROVE IInv'
<1>1. CASE ClientMaps(w)
  <2> DEFINE p == <<Event("MapRequest", w)>>
  <2>1. p \in Seq(EventRecord) /\ \A k \in DOMAIN p : p[k].type = "MapRequest" /\ p[k].win = w
    BY ClientEvent DEF EventTypes, ClientEvents
  <2>2. w \notin wm.mapped /\ Request(w, "shown", p)
    BY <1>1 DEF ClientMaps
  <2> HIDE DEF p
  <2> QED
    BY <2>1, <2>2, RequestStep
<1>2. CASE ClientIconifies(w)
  <2> DEFINE p == <<Event("ClientMessage", w)>>
  <2>1. p \in Seq(EventRecord) /\ \A k \in DOMAIN p : p[k].type = "ClientMessage" /\ p[k].win = w
    BY ClientEvent DEF EventTypes, ClientEvents
  <2>2. Request(w, "iconic", p)
    BY <1>2 DEF ClientIconifies
  <2> HIDE DEF p
  <2> QED
    BY <2>1, <2>2, RequestStep
<1> QED
  BY <1>1, <1>2, ClientWithdrawsStep, ClientDiesStep DEF Client

\* One more event, and the pointer somewhere.
LEMMA InputStep ==
  ASSUME IInv, NEW e \in EventRecord, ~Foreign(e), NEW away \in BOOLEAN, Screens = 1 => ~away,
         wm' = [wm EXCEPT !.away = away, !.queue = Append(@, e)],
         wish' = wish, nrequests' \in Nat, ninputs' \in Nat
  PROVE  IInv'
<1> DEFINE q == Append(wm.queue, e)
           r == [wm EXCEPT !.away = away, !.queue = q]
<1>1. Base(wm) /\ wm.queue \in Seq(EventRecord) /\ wm.held \in BOOLEAN
  BY DEF IInv, Base, FocusTypes, ServerTypes
<1>2. q \in Seq(EventRecord) /\ (Timed(wm.queue) => Timed(q)) /\ Heard(wm.queue, q)
  BY <1>1, QueueAppend
<1>3. wm' = r
  OBVIOUS
<1> HIDE DEF q
<1>4. Only(wm, r, {"queue", "away", "held"}) /\ r.queue = q /\ r.away = away /\ r.held = wm.held
  BY <1>1 DEF Only, Base, Rec, Fields
<1> HIDE DEF r
<1>5. Elsewhere(wm, r) /\ Tells(r, Managed(wm)) /\ Reveals(wm, r)
  BY <1>1, <1>2, <1>4, NewQueue
<1>6. (Screens = 1 => ~wm'.away) /\ (~Grabbers => ~wm'.held)
  BY <1>3, <1>4 DEF IInv
<1>7. wish' \in [Windows -> {"nothing", "shown", "iconic", "withdrawn"}]
  BY DEF IInv
<1>8. Elsewhere(wm, wm') /\ (Timed(wm.queue) => Timed(wm'.queue)) /\ Tells(wm', Managed(wm))
      /\ Reveals(wm, wm')
  BY <1>2, <1>3, <1>4, <1>5
<1> QED
  BY <1>6, <1>7, <1>8, ElsewhereStep

\* An event of the user where the pointer is.
LEMMA UserInputStep ==
  ASSUME IInv, NEW e \in EventRecord, ~Foreign(e), Input(e) PROVE IInv'
<1>1. wm' = [wm EXCEPT !.queue = Append(@, e)]
  BY DEF Input
<1>2. wm.away \in BOOLEAN /\ (Screens = 1 => ~wm.away) /\ Rec(wm)
  BY DEF IInv, Base, ServerTypes
<1>3. wm' = [wm EXCEPT !.away = wm.away, !.queue = Append(@, e)]
  <2> DEFINE q == Append(wm.queue, e)
  <2>1. wm' = [wm EXCEPT !.queue = q]
    BY <1>1
  <2>2. [wm EXCEPT !.queue = q] = [wm EXCEPT !.away = wm.away, !.queue = q]
    <3> HIDE DEF q
    <3> QED
      BY <1>2 DEF Rec, Fields
  <2> QED
    BY <2>1, <2>2
<1>4. wish' = wish /\ nrequests' \in Nat /\ ninputs' \in Nat
  BY DEF Input, IInv
<1> QED
  BY <1>2, <1>3, <1>4, InputStep

\* Every step of the user and the pointer.
LEMMA UserStep ==
  ASSUME IInv, User PROVE IInv'
<1>1. CASE UserCommand
  <2>1. PICK e \in UserCommands : Input(e)
    BY <1>1 DEF UserCommand
  <2>2. e \in EventRecord /\ e.type \in CommandTypes /\ (e.type = "Stick" => e.win \in Stuck)
    BY WindowsAssumption DEF WindowsAssumption, Stuck
  <2>3. ~Foreign(e)
    BY <2>2 DEF Foreign, CommandTypes, WindowCommands
  <2> QED
    BY <2>1, <2>2, <2>3, UserInputStep
<1>2. ASSUME NEW w \in Pointer, UserClicks(w) PROVE IInv'
  <2>1. Event("ButtonPress", w) \in EventRecord /\ ~Foreign(Event("ButtonPress", w))
    BY EventType DEF Foreign, EventTypes, InputEvents, ClientEvents
  <2> QED
    BY <1>2, <2>1, UserInputStep DEF UserClicks
<1>3. ASSUME NEW w \in Pointer, PointerEnters(w) PROVE IInv'
  <2>1. Event("EnterNotify", w) \in EventRecord /\ ~Foreign(Event("EnterNotify", w))
    BY EventType DEF Foreign, EventTypes, InputEvents, ClientEvents
  <2> QED
    BY <1>3, <2>1, UserInputStep DEF PointerEnters
<1>4. CASE PointerLeaves
  <2>1. Event("LeaveNotify", NoWindow) \in EventRecord /\ ~Foreign(Event("LeaveNotify", NoWindow))
    BY EventType DEF Foreign, EventTypes, InputEvents, ClientEvents, Pointer
  <2>2. Screens # 1
    BY <1>4, WindowsAssumption DEF WindowsAssumption, PointerLeaves
  <2>3. wish' = wish /\ nrequests' \in Nat /\ ninputs' \in Nat
    BY <1>4 DEF PointerLeaves, IInv
  <2>4. wm' = [wm EXCEPT !.away = TRUE, !.queue = Append(@, Event("LeaveNotify", NoWindow))]
    BY <1>4 DEF PointerLeaves
  <2> QED
    BY <2>1, <2>2, <2>3, <2>4, InputStep
<1>5. CASE PointerReturns
  <2>1. Event("EnterNotify", NoWindow) \in EventRecord /\ ~Foreign(Event("EnterNotify", NoWindow))
    BY EventType DEF Foreign, EventTypes, InputEvents, ClientEvents, Pointer
  <2>2. wish' = wish /\ nrequests' \in Nat /\ ninputs' \in Nat
    BY <1>5 DEF PointerReturns, IInv, Same
  <2>3. wm' = [wm EXCEPT !.away = FALSE, !.queue = Append(@, Event("EnterNotify", NoWindow))]
    BY <1>5 DEF PointerReturns
  <2> QED
    BY <2>1, <2>2, <2>3, InputStep
<1>6. CASE PointerHeld
  <2> DEFINE r == [wm EXCEPT !.held = ~@]
  <2>1. wm' = r /\ Grabbers /\ wish' = wish /\ nrequests' \in Nat /\ ninputs' \in Nat
    BY <1>6 DEF PointerHeld, IInv
  <2>2. /\ Base(wm) /\ wm.queue \in Seq(EventRecord) /\ wm.away \in BOOLEAN /\ wm.held \in BOOLEAN
        /\ Screens = 1 => ~wm.away
        /\ wish \in [Windows -> {"nothing", "shown", "iconic", "withdrawn"}]
    BY DEF IInv, Base, FocusTypes, ServerTypes
  <2>3. Only(wm, r, {"queue", "away", "held"}) /\ r.queue = wm.queue /\ r.away = wm.away /\ r.held = ~wm.held
    BY <2>2 DEF Only, Base, Rec, Fields
  <2> HIDE DEF r
  <2>4. Elsewhere(wm, r) /\ Tells(r, Managed(wm)) /\ Reveals(wm, r)
    BY <2>2, <2>3, HeardItself, NewQueue
  <2> QED
    BY <2>1, <2>2, <2>3, <2>4, ElsewhereStep
<1> QED
  BY <1>1, <1>2, <1>3, <1>4, <1>5, <1>6 DEF User

-----------------------------------------------------------------------------
(* The invariant                                                           *)

\* The invariant holds before any window is managed.
LEMMA WindowsInit == ASSUME Init PROVE IInv
<1>1. /\ 0 \in Desks /\ NoWindow \notin Windows
      /\ <<>> \in Seq(Windows) /\ <<>> \in Seq(EventRecord) /\ ToSet(<<>>) = {}
  BY WindowsAssumption DEF WindowsAssumption, ToSet
<1>2. Rec(wm)
  BY DEF Init, Rec, Fields
<1>3. wm.list = <<>> /\ wm.ring = <<>> /\ wm.queue = <<>>
  BY DEF Init
<1>4. Lists(wm) /\ Managed(wm) = {}
  BY <1>1, <1>3 DEF Lists, Managed, IsInjective
<1>5. /\ wm.MAPPED = {} /\ wm.MAP_PENDING = {} /\ wm.ICONIFIED = {} /\ wm.ICON_UNMAPPED = {}
      /\ wm.STICKY = {} /\ wm.Desk = [w \in Windows |-> 0] /\ wm.FocusDesk = [w \in Windows |-> 0]
      /\ wm.CurrentDesk = 0
  BY DEF Init
<1>6. /\ wm.Focus = NoWindow /\ wm.PreviousFocus = NoWindow /\ wm.FocusOnNextTimeStamp = NoWindow
      /\ wm.Ungrabbed = NoWindow /\ wm.Hilite = NoWindow /\ wm.xfocus = NoWindow /\ wm.grab = {}
  BY DEF Init
<1>7. /\ wm.mapped = {} /\ wm.gone = {} /\ wm.frame = {} /\ wm.icon = {} /\ wm.away = FALSE
      /\ wm.held = FALSE /\ wm.state = [w \in Windows |-> "Withdrawn"]
  BY DEF Init
<1>8. Flags(wm)
  BY <1>1, <1>5 DEF Flags
<1>9. FocusTypes(wm)
  BY <1>1, <1>3, <1>6 DEF FocusTypes, Pointer
<1>10. ServerTypes(wm)
  BY <1>7 DEF ServerTypes, States
<1>11. Grabs(wm) /\ Valid(wm) /\ Stamped(wm)
  BY <1>4, <1>6 DEF Grabs, Valid, Stamped
<1>12. Shown(wm)
  BY <1>7 DEF Shown
<1>13. /\ wish \in [Windows -> {"nothing", "shown", "iconic", "withdrawn"}]
       /\ nrequests \in Nat /\ ninputs \in Nat
  BY DEF Init
<1>14. Tells(wm, Managed(wm)) /\ Sees(wm, Managed(wm))
  BY <1>3, <1>4, <1>5 DEF Tells, MapsAnswered, Sees, Asked, Marked
<1> QED
  BY <1>2, <1>4, <1>7, <1>8, <1>9, <1>10, <1>11, <1>12, <1>13, <1>14 DEF IInv, Base

\* Every step keeps the invariant.
LEMMA WindowsNext == ASSUME IInv, [Next]_vars PROVE IInv'
<1>1. CASE UNCHANGED vars
  <2>1. wm' = wm /\ wish' = wish /\ nrequests' = nrequests /\ ninputs' = ninputs
    BY <1>1 DEF vars
  <2> QED
    BY <2>1 DEF IInv
<1>2. CASE Fvwm
  BY <1>2, MapRequestStep, MapNotifyStep, UnmapNotifyStep, SyntheticUnmapStep, DestroyNotifyStep,
     ClientMessageStep, FocusInStep, KeyPressStep, ButtonPressStep, EnterNotifyStep,
     LeaveNotifyStep, MotionNotifyStep DEF Fvwm
<1> QED
  BY <1>1, <1>2, ModuleCommandStep, UserStep, ClientStep DEF Next

\* The inductive invariant the theorems below rest on: lists, grabs and frames agree after every
\* handler, what events are still queued makes up for what does not show and is not told yet, on one
\* screen no pointer dangles, and without another client's grab a time stamp comes.
THEOREM WindowsInvariant == Spec => []IInv
BY WindowsInit, WindowsNext, PTL DEF Spec

\* The invariant says what every field of wm holds.
LEMMA TypeOKHolds == ASSUME IInv PROVE TypeOK
<1>1. Base(wm)
  BY DEF IInv
<1>2. wm.grab \subseteq Windows
  BY <1>1, WindowsAssumption DEF Base, Grabs, WindowsAssumption
<1>3. wm \in WM
  <2>1. Rec(wm) /\ Lists(wm) /\ Flags(wm) /\ FocusTypes(wm) /\ ServerTypes(wm)
    BY <1>1 DEF Base
  <2> QED
    BY <1>2, <2>1 DEF WM, Rec, Fields, Lists, Flags, FocusTypes, ServerTypes
<1> QED
  BY <1>3 DEF TypeOK, IInv

\* Every field of fvwm's and the server's state keeps its type, for any windows, styles, desks
\* and commands.
THEOREM WindowsTypeOK == Spec => []TypeOK
BY WindowsInvariant, TypeOKHolds, PTL

\* The button grabs of click-to-focus windows are never lost nor left behind: SetFocus, AddWindow
\* and Destroy keep them in step with Ungrabbed, on any number of screens.
THEOREM WindowsClickGrabs == Spec => []ClickGrabs
<1>1. IInv => ClickGrabs
  BY DEF IInv, Base, Grabs, ClickGrabs
<1> QED
  BY <1>1, WindowsInvariant, PTL

\* The focus list and the stacking ring hold the same windows once each, whatever SetFocus,
\* RaiseWindow, LowerWindow, AddWindow and Destroy relink.
THEOREM WindowsListsAgree == Spec => []ListsAgree
<1>1. IInv => ListsAgree
  BY DEF IInv, Base, Lists, ListsAgree
<1> QED
  BY <1>1, WindowsInvariant, PTL

\* Nothing of a window shows on a desk it is not on, and never both its frame and its icon,
\* through changeDesks, Iconify, DeIconify, MapRequest and MapNotify in any order.
THEOREM WindowsShownOnce == Spec => []ShownOnce
<1>1. IInv => ShownOnce
  BY DEF IInv, Shown, ShownOnce
<1> QED
  BY <1>1, WindowsInvariant, PTL

\* With one screen none of Scr.Focus, Scr.PreviousFocus, Scr.Ungrabbed, Scr.Hilite and
\* FocusOnNextTimeStamp points to a window Destroy has freed. With more, SetFocus does not move the
\* focus while the pointer is away, and Scr.Focus is left at one.
THEOREM WindowsNoDangling == ASSUME Screens = 1 PROVE Spec => []NoDangling
<1>1. IInv => NoDangling
  BY DEF IInv, Base, Lists, Valid, ListsAgree, NoDangling, Intact, Pointers
<1> QED
  BY <1>1, WindowsInvariant, PTL

\* HandleHardFocus warps the pointer "to guarantee a new time stamp": if no other client holds the
\* pointer, an event with a time is always on its way while FocusOnNextTimeStamp is set.
THEOREM WindowsNewTimeStamp == ASSUME ~Grabbers PROVE Spec => []NewTimeStamp
<1>1. IInv => NewTimeStamp
  BY DEF IInv, Stamped, Timed, NewTimeStamp
<1> QED
  BY <1>1, WindowsInvariant, PTL

\* With no event left to handle, nothing is promised any more.
LEMMA StateToldHolds == ASSUME IInv PROVE StateTold
<1> SUFFICES ASSUME wm.queue = <<>>, NEW w \in Managed(wm), w \notin wm.gone
             PROVE  wm.state[w] = IF w \in wm.mapped THEN "Normal" ELSE "Iconic"
  BY DEF StateTold, Quiet
<1>1. NormalTold(wm, w) /\ IconicTold(wm, w)
  BY DEF IInv, Tells
<1>2. ~\E k \in DOMAIN wm.queue : wm.queue[k].type = "UnmapNotify" /\ wm.queue[k].win = w
  OBVIOUS
<1> QED
  BY <1>1, <1>2 DEF NormalTold, IconicTold

\* Once fvwm has answered every event, WM_STATE tells every client the truth, however requests of
\* clients, withdrawals and deaths interleave with the commands that map and unmap their windows.
THEOREM WindowsStateTold == Spec => []StateTold
BY StateToldHolds, WindowsInvariant, PTL

\* With no event left to handle, fvwm has heard of every window that is mapped.
LEMMA VisibleUnstuckHolds == ASSUME IInv PROVE VisibleUnstuck
<1>1. ShownOnce
  BY DEF IInv, Shown, ShownOnce
<1>2. ASSUME wm.queue = <<>>, NEW w \in Managed(wm) \ Stuck
      PROVE  /\ w \in wm.STICKY => wm.Desk[w] = wm.CurrentDesk
             /\ wm.Desk[w] = wm.CurrentDesk =>
                  /\ w \in wm.mapped => w \in wm.frame
                  /\ w \in wm.ICONIFIED \ (wm.ICON_UNMAPPED \cup StickyIcon) => w \in wm.icon
  <2>1. Appears(wm, w)
    BY <1>2 DEF IInv, Sees
  <2>2. w \in wm.mapped => ~Ready(wm, w)
    BY <1>2 DEF Ready
  <2> QED
    BY <2>1, <2>2 DEF Appears, Here
<1> QED
  BY <1>1, <1>2 DEF VisibleUnstuck, Quiet

\* Once fvwm has answered every event, a window on the current desk shows, its frame if its client is
\* mapped and its icon if it is iconified for its own sake, and a sticky window is on the current
\* desk: through desk changes between the map of a frame and its MapNotify, transients iconified and
\* moved apart from their main window, withdrawals and deaths, on any number of screens.
THEOREM WindowsVisibleUnstuck == Spec => []VisibleUnstuck
BY VisibleUnstuckHolds, WindowsInvariant, PTL

\* If nobody sticks a window and no style makes icons sticky, that is all windows: each shows where
\* it should and nowhere else.
THEOREM WindowsVisible ==
  ASSUME StickyIcon = {}, \A c \in Commands \cup UserCommands : c.type # "Stick"
  PROVE  Spec => []Visible
<1>1. Stuck = {}
  BY DEF Stuck
<1>2. VisibleUnstuck => Visible
  BY <1>1 DEF VisibleUnstuck, Visible
<1> QED
  BY <1>2, WindowsVisibleUnstuck, PTL

\* Lists, grabs, what shows and WM_STATE stay right with any number of screens, when the pointer may
\* leave or be held and pointers of fvwm may dangle.
THEOREM WindowsStillRight == Spec => []StillRight
<1>1. IInv => ListsAgree /\ ClickGrabs
  BY DEF IInv, Base, Lists, ListsAgree, Grabs, ClickGrabs
<1>2. IInv => StillRight
  BY <1>1, VisibleUnstuckHolds, StateToldHolds DEF StillRight
<1> QED
  BY <1>2, WindowsInvariant, PTL
=============================================================================
