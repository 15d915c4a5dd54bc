---------------------------- MODULE ListsProofs -----------------------------
(* What Lists computes, for lists of any length: every fact about Those is   *)
(* proved by induction along the list. The provers cannot instantiate the    *)
(* library's induction rules, so induction is stated for sets: a set of      *)
(* naturals has a least element, and a set of lists that has the empty one   *)
(* and with every list the ones an element longer has them all.              *)
EXTENDS Lists, Integers, SequencesExt, SequenceTheorems, WellFoundedInduction, TLAPS

-----------------------------------------------------------------------------
(* Induction                                                               *)

\* Sets of naturals have a least element.
LEMMA LeastNatural ==
  ASSUME NEW T, T \subseteq Nat, T # {}
  PROVE  \E n \in T : \A m \in T : n <= m
<1> DEFINE R == OpToRel(<, Nat)
<1>1. IsWellFoundedOn(R, Nat)
  BY NatLessThanWellFounded
<1>2. \A x, y \in Nat : x < y => <<x, y>> \in R
  BY DEF OpToRel
<1> HIDE DEF R
<1>3. PICK n \in T : \A m \in T : ~ (<<m, n>> \in R)
  BY <1>1, WFMin, Zenon
<1>4. \A m \in T : n <= m
  <2> TAKE m \in T
  <2>1. m \in Nat /\ n \in Nat
    OBVIOUS
  <2>2. ~(m < n)
    BY <2>1, <1>2, <1>3
  <2> QED BY <2>1, <2>2
<1> QED BY <1>4

\* A set that has 0, and n + 1 for every n it has, has all naturals.
LEMMA NaturalInduction ==
  ASSUME NEW T, 0 \in T, \A n \in Nat : n \in T => n + 1 \in T
  PROVE  Nat \subseteq T
<1> DEFINE U == {n \in Nat : n \notin T}
<1> SUFFICES ASSUME U # {} PROVE FALSE
  OBVIOUS
<1>1. PICK n \in U : \A m \in U : n <= m
  <2>1. U \subseteq Nat
    OBVIOUS
  <2> HIDE DEF U
  <2> QED
    BY <2>1, LeastNatural
<1>2. n \in Nat /\ n # 0 /\ n - 1 \in Nat
  BY <1>1
<1>3. n - 1 \in T
  BY <1>1, <1>2
<1>4. n - 1 + 1 \in T
  BY <1>2, <1>3
<1> QED
  BY <1>1, <1>2, <1>4

\* A set of lists that has the empty list, and with a list all that are an
\* element longer, has them all.
LEMMA ListInduction ==
  ASSUME NEW S, NEW T, <<>> \in T,
         \A q \in Seq(S) : \A x \in S : q \in T => Append(q, x) \in T
  PROVE  Seq(S) \subseteq T
<1> DEFINE U == {n \in Nat : \A q \in Seq(S) : Len(q) = n => q \in T}
<1>1. 0 \in U
  <2> SUFFICES ASSUME NEW q \in Seq(S), Len(q) = 0 PROVE q \in T
    OBVIOUS
  <2>1. q = <<>>
    OBVIOUS
  <2> QED
    BY <2>1
<1>2. ASSUME NEW n \in Nat, n \in U PROVE n + 1 \in U
  <2> SUFFICES ASSUME NEW q \in Seq(S), Len(q) = n + 1 PROVE q \in T
    OBVIOUS
  <2> DEFINE p == [k \in 1..n |-> q[k]]
  <2>1. p \in Seq(S) /\ Len(p) = n
    OBVIOUS
  <2>2. q[n + 1] \in S
    OBVIOUS
  <2>3. q = Append(p, q[n + 1])
    <3>1. Append(p, q[n + 1]) \in Seq(S) /\ Len(Append(p, q[n + 1])) = n + 1
      BY <2>1, <2>2
    <3>2. \A k \in 1..(n + 1) : q[k] = Append(p, q[n + 1])[k]
      BY <2>1, <2>2
    <3> QED
      BY <3>1, <3>2, SeqEqual
  <2>4. p \in T
    BY <1>2, <2>1
  <2> QED
    BY <2>1, <2>2, <2>3, <2>4
<1>3. Nat \subseteq U
  <2> HIDE DEF U
  <2> QED
    BY <1>1, <1>2, NaturalInduction
<1> QED
  BY <1>3

-----------------------------------------------------------------------------
(* Those                                                                   *)

\* What Those says of the first k elements.
Sifted(q, G, f, n) ==
  f = [k \in 0..n |-> IF k = 0 THEN <<>>
                      ELSE IF q[k] \in G THEN Append(f[k - 1], q[k]) ELSE f[k - 1]]

LEMMA SiftedExists == \A q, G : \A n \in Nat : \E f : Sifted(q, G, f, n)
<1> SUFFICES ASSUME NEW q, NEW G PROVE \A n \in Nat : \E f : Sifted(q, G, f, n)
  OBVIOUS
<1> DEFINE T == {n \in Nat : \E f : Sifted(q, G, f, n)}
<1>1. 0 \in T
  <2> DEFINE f == [k \in 0..0 |-> <<>>]
  <2>1. Sifted(q, G, f, 0)
    BY DEF Sifted
  <2> QED
    BY <2>1
<1>2. ASSUME NEW n \in Nat, n \in T PROVE n + 1 \in T
  <2>1. PICK f : Sifted(q, G, f, n)
    BY <1>2
  <2> DEFINE g == [k \in 0..(n + 1) |-> IF k = n + 1
                      THEN IF q[n + 1] \in G THEN Append(f[n], q[n + 1]) ELSE f[n]
                      ELSE f[k]]
             h == [k \in 0..(n + 1) |-> IF k = 0 THEN <<>>
                      ELSE IF q[k] \in G THEN Append(g[k - 1], q[k]) ELSE g[k - 1]]
  <2>2. \A k \in 0..n : g[k] = f[k]
    OBVIOUS
  <2>3. \A k \in 0..n : f[k] = IF k = 0 THEN <<>>
                      ELSE IF q[k] \in G THEN Append(f[k - 1], q[k]) ELSE f[k - 1]
    BY <2>1 DEF Sifted
  <2>4. ASSUME NEW k \in 0..(n + 1) PROVE g[k] = h[k]
    <3>1. CASE k = 0
      BY <3>1, <2>2, <2>3
    <3>2. CASE k \in 1..n
      <4>1. k \in 0..n /\ k - 1 \in 0..n /\ k # 0
        BY <3>2
      <4>2. h[k] = IF q[k] \in G THEN Append(g[k - 1], q[k]) ELSE g[k - 1]
        BY <4>1
      <4> HIDE DEF g, h
      <4> QED
        BY <4>1, <4>2, <2>2, <2>3
    <3>3. CASE k = n + 1
      <4>1. n \in 0..n /\ k - 1 = n /\ k # 0
        BY <3>3
      <4>2. h[k] = IF q[k] \in G THEN Append(g[n], q[k]) ELSE g[n]
        BY <4>1
      <4>3. g[k] = IF q[k] \in G THEN Append(f[n], q[k]) ELSE f[n]
        BY <3>3
      <4> HIDE DEF g, h
      <4> QED
        BY <4>1, <4>2, <4>3, <2>2
    <3> QED
      BY <3>1, <3>2, <3>3
  <2>5. g = h
    BY <2>4
  <2>6. Sifted(q, G, g, n + 1)
    BY <2>5 DEF Sifted
  <2> QED
    BY <2>6
<1>3. Nat \subseteq T
  <2> HIDE DEF T
  <2> QED
    BY <1>1, <1>2, NaturalInduction
<1> QED
  BY <1>3

\* Two runs of the loop agree as far as both go.
LEMMA SiftedSame ==
  ASSUME NEW q, NEW G, NEW f, NEW n \in Nat, Sifted(q, G, f, n),
         NEW p, NEW g, NEW m \in Nat, Sifted(p, G, g, m), n <= m,
         \A k \in 1..n : p[k] = q[k]
  PROVE  f[n] = g[n]
<1> DEFINE T == {k \in Nat : k <= n => f[k] = g[k]}
<1>1. 0 \in T
  BY DEF Sifted
<1>2. ASSUME NEW k \in Nat, k \in T PROVE k + 1 \in T
  <2> SUFFICES ASSUME k + 1 <= n PROVE f[k + 1] = g[k + 1]
    OBVIOUS
  <2>1. k + 1 \in 0..n /\ k + 1 \in 0..m /\ k + 1 \in 1..n /\ k + 1 # 0 /\ (k + 1) - 1 = k
    OBVIOUS
  <2>2. f[k + 1] = IF q[k + 1] \in G THEN Append(f[k], q[k + 1]) ELSE f[k]
    BY <2>1 DEF Sifted
  <2>3. g[k + 1] = IF p[k + 1] \in G THEN Append(g[k], p[k + 1]) ELSE g[k]
    BY <2>1 DEF Sifted
  <2>4. f[k] = g[k]
    BY <1>2
  <2>5. p[k + 1] = q[k + 1]
    BY <2>1
  <2> QED
    BY <2>2, <2>3, <2>4, <2>5
<1>3. Nat \subseteq T
  <2> HIDE DEF T
  <2> QED
    BY <1>1, <1>2, NaturalInduction
<1> QED
  BY <1>3

LEMMA ThoseSifted ==
  ASSUME NEW q, NEW G, Len(q) \in Nat
  PROVE  \E f : Sifted(q, G, f, Len(q)) /\ Those(q, G) = f[Len(q)]
<1> DEFINE f == CHOOSE f : Sifted(q, G, f, Len(q))
<1>1. \E g : Sifted(q, G, g, Len(q))
  BY SiftedExists
<1>2. Sifted(q, G, f, Len(q))
  BY <1>1
<1>3. Those(q, G) = f[Len(q)]
  BY DEF Those, Sifted
<1> QED
  BY <1>2, <1>3

LEMMA ThoseEmpty == \A G : Those(<<>>, G) = <<>>
<1> SUFFICES ASSUME NEW G PROVE Those(<<>>, G) = <<>>
  OBVIOUS
<1>1. Len(<<>>) = 0
  OBVIOUS
<1>2. PICK f : Sifted(<<>>, G, f, 0) /\ Those(<<>>, G) = f[0]
  BY <1>1, ThoseSifted
<1> QED
  BY <1>2 DEF Sifted

LEMMA ThoseAppend ==
  ASSUME NEW S, NEW q \in Seq(S), NEW x \in S, NEW G
  PROVE  Those(Append(q, x), G) = IF x \in G THEN Append(Those(q, G), x) ELSE Those(q, G)
<1> DEFINE n == Len(q)
           p == Append(q, x)
<1>1. n \in Nat /\ Len(p) = n + 1 /\ p[n + 1] = x /\ \A k \in 1..n : p[k] = q[k]
  OBVIOUS
<1>2. PICK f : Sifted(q, G, f, n) /\ Those(q, G) = f[n]
  BY <1>1, ThoseSifted
<1>3. PICK g : Sifted(p, G, g, n + 1) /\ Those(p, G) = g[n + 1]
  <2> HIDE DEF p, n
  <2> QED
    BY <1>1, ThoseSifted
<1> HIDE DEF p, n
<1>4. f[n] = g[n]
  BY <1>1, <1>2, <1>3, SiftedSame
<1>5. g[n + 1] = IF p[n + 1] \in G THEN Append(g[n], p[n + 1]) ELSE g[n]
  <2>1. n + 1 \in 0..(n + 1) /\ n + 1 # 0 /\ (n + 1) - 1 = n
    BY <1>1
  <2> QED
    BY <1>3, <2>1 DEF Sifted
<1> QED
  BY <1>1, <1>2, <1>3, <1>4, <1>5 DEF p

\* Those are elements of the list that are in G.
LEMMA ThoseType ==
  ASSUME NEW S, NEW q \in Seq(S), NEW G
  PROVE  Those(q, G) \in Seq(S \cap G)
<1> DEFINE T == {p \in Seq(S) : Those(p, G) \in Seq(S \cap G)}
<1>1. <<>> \in T
  <2>1. <<>> \in Seq(S) /\ <<>> \in Seq(S \cap G)
    OBVIOUS
  <2>2. Those(<<>>, G) \in Seq(S \cap G)
    BY <2>1, ThoseEmpty
  <2> QED
    BY <2>1, <2>2
<1>2. ASSUME NEW p \in Seq(S), NEW x \in S, p \in T PROVE Append(p, x) \in T
  <2>0. Those(p, G) \in Seq(S \cap G)
    BY <1>2
  <2> HIDE DEF T
  <2>1. Those(Append(p, x), G) = IF x \in G THEN Append(Those(p, G), x) ELSE Those(p, G)
    BY ThoseAppend
  <2>2. Those(Append(p, x), G) \in Seq(S \cap G)
    <3> DEFINE t == Those(p, G)
    <3>1. x \in G => Append(t, x) \in Seq(S \cap G)
      <4> HIDE DEF t
      <4>1. t \in Seq(S \cap G)
        BY <2>0 DEF t
      <4> QED
        BY <4>1
    <3> QED
      BY <2>0, <2>1, <3>1
  <2>3. Append(p, x) \in Seq(S)
    OBVIOUS
  <2> QED
    BY <2>2, <2>3 DEF T
<1>3. Seq(S) \subseteq T
  <2> HIDE DEF T
  <2> QED
    BY <1>1, <1>2, ListInduction
<1> QED
  BY <1>3

\* Those of two lists in a row.
LEMMA ThoseConcat ==
  ASSUME NEW S, NEW p \in Seq(S), NEW q \in Seq(S), NEW G
  PROVE  Those(p \o q, G) = Those(p, G) \o Those(q, G)
<1> DEFINE T == {r \in Seq(S) : Those(p \o r, G) = Those(p, G) \o Those(r, G)}
           u == Those(p, G)
<1>0. u \in Seq(S \cap G)
  BY ThoseType
<1> HIDE DEF u
<1>1. <<>> \in T
  <2>1. p \o <<>> = p /\ u \o <<>> = u /\ <<>> \in Seq(S)
    BY <1>0
  <2>2. Those(p \o <<>>, G) = u \o Those(<<>>, G)
    BY <2>1, ThoseEmpty DEF u
  <2> QED
    BY <2>1, <2>2 DEF u
<1>2. ASSUME NEW r \in Seq(S), NEW x \in S, r \in T PROVE Append(r, x) \in T
  <2> DEFINE v == Those(r, G)
             t == p \o r
  <2>0. Those(t, G) = u \o v
    BY <1>2 DEF u
  <2>1. p \o Append(r, x) = Append(t, x) /\ t \in Seq(S) /\ Append(r, x) \in Seq(S)
    OBVIOUS
  <2>2. v \in Seq(S \cap G)
    BY ThoseType
  <2> HIDE DEF T, t
  <2>3. Those(Append(t, x), G) = IF x \in G THEN Append(Those(t, G), x) ELSE Those(t, G)
    BY <2>1, ThoseAppend
  <2>4. Those(Append(r, x), G) = IF x \in G THEN Append(v, x) ELSE v
    BY ThoseAppend
  <2> HIDE DEF v
  <2>5. x \in G => u \o Append(v, x) = Append(u \o v, x)
    BY <1>0, <2>2
  <2>6. Those(p \o Append(r, x), G) = u \o Those(Append(r, x), G)
    BY <2>0, <2>1, <2>3, <2>4, <2>5
  <2> QED
    BY <2>1, <2>6 DEF T, u
<1>3. Seq(S) \subseteq T
  <2> HIDE DEF T
  <2> QED
    BY <1>1, <1>2, ListInduction
<1> QED
  BY <1>3 DEF u

LEMMA ThoseSingle == \A x, G : Those(<<x>>, G) = IF x \in G THEN <<x>> ELSE <<>>
<1> SUFFICES ASSUME NEW x, NEW G PROVE Those(<<x>>, G) = IF x \in G THEN <<x>> ELSE <<>>
  OBVIOUS
<1>1. <<>> \in Seq({x}) /\ x \in {x} /\ Append(<<>>, x) = <<x>>
  OBVIOUS
<1> QED
  <2>1. Those(Append(<<>>, x), G) = IF x \in G THEN Append(Those(<<>>, G), x) ELSE Those(<<>>, G)
    BY <1>1, ThoseAppend
  <2>2. Append(<<>>, x) = <<x>>
    OBVIOUS
  <2> QED
    BY <2>1, <2>2, ThoseEmpty

-----------------------------------------------------------------------------
(* What is in a list, and in which order                                   *)

LEMMA MembersEmpty == ToSet(<<>>) = {}
BY DEF ToSet

LEMMA MembersAppend ==
  ASSUME NEW S, NEW q \in Seq(S), NEW x \in S
  PROVE  ToSet(Append(q, x)) = ToSet(q) \cup {x}
<1> DEFINE p == Append(q, x)
<1>1. Len(q) \in Nat /\ DOMAIN q = 1..Len(q) /\ DOMAIN p = 1..(Len(q) + 1)
      /\ p[Len(q) + 1] = x /\ \A k \in 1..Len(q) : p[k] = q[k]
  OBVIOUS
<1> HIDE DEF p
<1>2. ASSUME NEW y \in ToSet(p) PROVE y \in ToSet(q) \cup {x}
  <2>1. PICK k \in 1..(Len(q) + 1) : p[k] = y
    BY <1>1 DEF ToSet
  <2>2. k = Len(q) + 1 \/ k \in 1..Len(q)
    BY <1>1
  <2> QED
    BY <1>1, <2>1, <2>2 DEF ToSet
<1>3. ASSUME NEW y \in ToSet(q) \cup {x} PROVE y \in ToSet(p)
  <2>1. CASE y = x
    <3>1. Len(q) + 1 \in DOMAIN p
      BY <1>1
    <3> QED
      BY <1>1, <2>1, <3>1 DEF ToSet
  <2>2. CASE y \in ToSet(q)
    <3>1. PICK k \in 1..Len(q) : q[k] = y
      BY <1>1, <2>2 DEF ToSet
    <3>2. k \in DOMAIN p /\ p[k] = y
      BY <1>1, <3>1
    <3> QED
      BY <3>2 DEF ToSet
  <2> QED
    BY <2>1, <2>2
<1>4. ToSet(p) = ToSet(q) \cup {x}
  BY <1>2, <1>3
<1> QED
  BY <1>4 DEF p

LEMMA MembersConcat ==
  ASSUME NEW S, NEW p \in Seq(S), NEW q \in Seq(S)
  PROVE  ToSet(p \o q) = ToSet(p) \cup ToSet(q)
<1> DEFINE T == {r \in Seq(S) : ToSet(p \o r) = ToSet(p) \cup ToSet(r)}
<1>1. <<>> \in T
  <2>1. p \o <<>> = p
    OBVIOUS
  <2> QED
    BY <2>1, MembersEmpty
<1>2. ASSUME NEW r \in Seq(S), NEW x \in S, r \in T PROVE Append(r, x) \in T
  <2>0. ToSet(p \o r) = ToSet(p) \cup ToSet(r)
    BY <1>2
  <2> HIDE DEF T
  <2>1. p \o Append(r, x) = Append(p \o r, x) /\ p \o r \in Seq(S)
    OBVIOUS
  <2>2. ToSet(Append(p \o r, x)) = ToSet(p \o r) \cup {x}
    <3> DEFINE t == p \o r
    <3>1. t \in Seq(S)
      BY <2>1
    <3> HIDE DEF t
    <3>2. ToSet(Append(t, x)) = ToSet(t) \cup {x}
      BY <3>1, MembersAppend
    <3> QED
      BY <3>2 DEF t
  <2>3. ToSet(Append(r, x)) = ToSet(r) \cup {x}
    BY MembersAppend
  <2>9. ToSet(p \o Append(r, x)) = ToSet(p) \cup ToSet(Append(r, x))
    BY <2>0, <2>1, <2>2, <2>3
  <2> QED
    BY <2>9 DEF T
<1>3. Seq(S) \subseteq T
  <2> HIDE DEF T
  <2> QED
    BY <1>1, <1>2, ListInduction
<1> QED
  BY <1>3

LEMMA MembersSingle == \A x : ToSet(<<x>>) = {x}
BY DEF ToSet

\* The elements of q that are in G, no more and no less.
LEMMA MembersThose ==
  ASSUME NEW S, NEW q \in Seq(S), NEW G
  PROVE  ToSet(Those(q, G)) = ToSet(q) \cap G
<1> DEFINE T == {r \in Seq(S) : ToSet(Those(r, G)) = ToSet(r) \cap G}
<1>1. <<>> \in T
  BY ThoseEmpty, MembersEmpty
<1>2. ASSUME NEW r \in Seq(S), NEW x \in S, r \in T PROVE Append(r, x) \in T
  <2>0. ToSet(Those(r, G)) = ToSet(r) \cap G
    BY <1>2
  <2> HIDE DEF T
  <2>1. Those(r, G) \in Seq(S \cap G)
    BY ThoseType
  <2>2. Those(Append(r, x), G) = IF x \in G THEN Append(Those(r, G), x) ELSE Those(r, G)
    BY ThoseAppend
  <2>3. ToSet(Append(r, x)) = ToSet(r) \cup {x}
    BY MembersAppend
  <2>4. x \in G => ToSet(Append(Those(r, G), x)) = ToSet(Those(r, G)) \cup {x}
    BY <2>1, MembersAppend
  <2>9. ToSet(Those(Append(r, x), G)) = ToSet(Append(r, x)) \cap G
    BY <2>0, <2>2, <2>3, <2>4
  <2> QED
    BY <2>9 DEF T
<1>3. Seq(S) \subseteq T
  <2> HIDE DEF T
  <2> QED
    BY <1>1, <1>2, ListInduction
<1> QED
  BY <1>3

LEMMA OverMembers == \A q, a, b : Over(q, a, b) => a \in ToSet(q) /\ b \in ToSet(q)
BY DEF Over, ToSet

LEMMA OverEmpty == \A a, b : ~Over(<<>>, a, b)
BY DEF Over

LEMMA OverSingle == \A x, a, b : ~Over(<<x>>, a, b)
BY DEF Over

LEMMA OverAppend ==
  ASSUME NEW S, NEW q \in Seq(S), NEW x \in S, NEW a, NEW b
  PROVE  Over(Append(q, x), a, b) <=> Over(q, a, b) \/ (a \in ToSet(q) /\ b = x)
<1> DEFINE p == Append(q, x)
<1>1. Len(q) \in Nat /\ DOMAIN q = 1..Len(q) /\ DOMAIN p = 1..(Len(q) + 1)
      /\ p[Len(q) + 1] = x /\ \A k \in 1..Len(q) : p[k] = q[k]
  OBVIOUS
<1> HIDE DEF p
<1>2. ASSUME Over(p, a, b) PROVE Over(q, a, b) \/ (a \in ToSet(q) /\ b = x)
  <2>1. PICK i, j \in 1..(Len(q) + 1) : i < j /\ p[i] = a /\ p[j] = b
    BY <1>1, <1>2 DEF Over
  <2>2. i \in 1..Len(q) /\ q[i] = a
    BY <1>1, <2>1
  <2>3. CASE j = Len(q) + 1
    BY <1>1, <2>1, <2>2, <2>3 DEF ToSet
  <2>4. CASE j \in 1..Len(q)
    BY <1>1, <2>1, <2>2, <2>4 DEF Over
  <2> QED
    BY <1>1, <2>3, <2>4
<1>3. ASSUME Over(q, a, b) PROVE Over(p, a, b)
  <2>1. PICK i, j \in 1..Len(q) : i < j /\ q[i] = a /\ q[j] = b
    BY <1>1, <1>3 DEF Over
  <2>2. i \in DOMAIN p /\ j \in DOMAIN p /\ p[i] = a /\ p[j] = b
    BY <1>1, <2>1
  <2> QED
    BY <2>1, <2>2 DEF Over
<1>4. ASSUME a \in ToSet(q), b = x PROVE Over(p, a, b)
  <2>1. PICK i \in 1..Len(q) : q[i] = a
    BY <1>1, <1>4 DEF ToSet
  <2>2. i \in DOMAIN p /\ Len(q) + 1 \in DOMAIN p /\ i < Len(q) + 1 /\ p[i] = a
    BY <1>1, <2>1
  <2> QED
    BY <1>1, <1>4, <2>2 DEF Over
<1>5. Over(p, a, b) <=> Over(q, a, b) \/ (a \in ToSet(q) /\ b = x)
  BY <1>2, <1>3, <1>4
<1> QED
  BY <1>5 DEF p

LEMMA OverConcat ==
  ASSUME NEW S, NEW p \in Seq(S), NEW q \in Seq(S), NEW a, NEW b
  PROVE  Over(p \o q, a, b) <=>
           Over(p, a, b) \/ Over(q, a, b) \/ (a \in ToSet(p) /\ b \in ToSet(q))
<1> DEFINE T == {r \in Seq(S) : Over(p \o r, a, b) <=>
                    Over(p, a, b) \/ Over(r, a, b) \/ (a \in ToSet(p) /\ b \in ToSet(r))}
<1>1. <<>> \in T
  <2>1. p \o <<>> = p
    OBVIOUS
  <2> QED
    BY <2>1, MembersEmpty, OverEmpty
<1>2. ASSUME NEW r \in Seq(S), NEW x \in S, r \in T PROVE Append(r, x) \in T
  <2>0. Over(p \o r, a, b) <=> Over(p, a, b) \/ Over(r, a, b) \/ (a \in ToSet(p) /\ b \in ToSet(r))
    BY <1>2
  <2> HIDE DEF T
  <2>1. p \o Append(r, x) = Append(p \o r, x) /\ p \o r \in Seq(S)
    OBVIOUS
  <2>2. Over(Append(p \o r, x), a, b) <=> Over(p \o r, a, b) \/ (a \in ToSet(p \o r) /\ b = x)
    BY <2>1, OverAppend
  <2>3. Over(Append(r, x), a, b) <=> Over(r, a, b) \/ (a \in ToSet(r) /\ b = x)
    BY OverAppend
  <2>4. ToSet(p \o r) = ToSet(p) \cup ToSet(r)
    BY MembersConcat
  <2>5. ToSet(Append(r, x)) = ToSet(r) \cup {x}
    BY MembersAppend
  <2>9. Over(p \o Append(r, x), a, b) <=> Over(p, a, b) \/ Over(Append(r, x), a, b) \/ (a \in ToSet(p) /\ b \in ToSet(Append(r, x)))
    BY <2>0, <2>1, <2>2, <2>3, <2>4, <2>5
  <2> QED
    BY <2>9 DEF T
<1>3. Seq(S) \subseteq T
  <2> HIDE DEF T
  <2> QED
    BY <1>1, <1>2, ListInduction
<1> QED
  BY <1>3

\* Those keep their order.
LEMMA OverThose ==
  ASSUME NEW S, NEW q \in Seq(S), NEW G, NEW a, NEW b
  PROVE  Over(Those(q, G), a, b) <=> Over(q, a, b) /\ a \in G /\ b \in G
<1> DEFINE T == {r \in Seq(S) : Over(Those(r, G), a, b) <=> Over(r, a, b) /\ a \in G /\ b \in G}
<1>1. <<>> \in T
  BY ThoseEmpty, OverEmpty
<1>2. ASSUME NEW r \in Seq(S), NEW x \in S, r \in T PROVE Append(r, x) \in T
  <2>0. Over(Those(r, G), a, b) <=> Over(r, a, b) /\ a \in G /\ b \in G
    BY <1>2
  <2> HIDE DEF T
  <2>1. Those(r, G) \in Seq(S \cap G)
    BY ThoseType
  <2>2. Those(Append(r, x), G) = IF x \in G THEN Append(Those(r, G), x) ELSE Those(r, G)
    BY ThoseAppend
  <2>3. Over(Append(r, x), a, b) <=> Over(r, a, b) \/ (a \in ToSet(r) /\ b = x)
    BY OverAppend
  <2>4. x \in G => (Over(Append(Those(r, G), x), a, b) <=>
                       Over(Those(r, G), a, b) \/ (a \in ToSet(Those(r, G)) /\ b = x))
    BY <2>1, OverAppend
  <2>5. ToSet(Those(r, G)) = ToSet(r) \cap G
    BY MembersThose
  <2>9. Over(Those(Append(r, x), G), a, b) <=> Over(Append(r, x), a, b) /\ a \in G /\ b \in G
    BY <2>0, <2>2, <2>3, <2>4, <2>5
  <2> QED
    BY <2>9 DEF T
<1>3. Seq(S) \subseteq T
  <2> HIDE DEF T
  <2> QED
    BY <1>1, <1>2, ListInduction
<1> QED
  BY <1>3

\* Each element once: none is before itself.
LEMMA OnceOver ==
  ASSUME NEW S, NEW q \in Seq(S)
  PROVE  IsInjective(q) <=> \A a \in S : ~Over(q, a, a)
<1>1. DOMAIN q = 1..Len(q) /\ Len(q) \in Nat /\ \A i \in DOMAIN q : q[i] \in S
  OBVIOUS
<1>2. ASSUME IsInjective(q), NEW a \in S, Over(q, a, a) PROVE FALSE
  BY <1>1, <1>2 DEF IsInjective, Over
<1>3. ASSUME \A a \in S : ~Over(q, a, a) PROVE IsInjective(q)
  <2> SUFFICES ASSUME NEW i \in DOMAIN q, NEW j \in DOMAIN q, q[i] = q[j], i # j PROVE FALSE
    BY DEF IsInjective
  <2>1. i < j \/ j < i
    BY <1>1
  <2> QED
    BY <1>1, <1>3, <2>1 DEF Over
<1> QED
  BY <1>2, <1>3
=============================================================================
