--------------------------- MODULE StackingProofs ----------------------------
(* Proofs about Stacking, for any windows, transients and styles.             *)
(*                                                                            *)
(* Handlers are compositions of routines on the record wm. A lemma for each   *)
(* routine says what it leaves of the order of two windows, in fvwm's ring    *)
(* and on the screen, and that it keeps the invariant; the lemma of a handler *)
(* chains those of its routines.                                              *)
EXTENDS Stacking, ListsProofs, FiniteSetTheorems

\* The parts of the invariant, of any state record.
Orders(s) ==
  /\ IsInjective(s.ring) /\ IsInjective(s.xstack) /\ ToSet(s.ring) = Managed(s)

Flags(s) ==
  /\ s.ONTOP \subseteq STAYSONTOP \cap Managed(s)
  /\ s.ICONIFIED \subseteq Managed(s) \ s.mapped
  /\ s.VISIBLE \cup s.frame \cup s.mapped \subseteq Managed(s)
  /\ s.LastWindowRaised \in Managed(s) \cup {NoWindow, Freed}

\* The server tells of managed windows only, until fvwm forgets them.
Queue(s) == \A k \in DOMAIN s.queue : s.queue[k].win \in Managed(s)

Good(s) == s \in WM /\ Orders(s) /\ Flags(s) /\ Queue(s)

PlainOf(s) ==
  {w \in Managed(s) \ STAYSONTOP : TransientFor[w] = NoWindow /\ s.placed[w] # "client"}

RingRight(s) == \A w, t \in PlainOf(s) : Over(s.ring, w, t) => Over(s.xstack, w, t)

AboveRight(s) ==
  \A w \in s.ONTOP, t \in Managed(s) \ s.ONTOP :
    s.placed[w] = "raised" /\ s.placed[t] # "client" /\ TransientFor[t] # w => Over(s.xstack, w, t)

LastRight(s) ==
  s.LastWindowRaised \in Windows /\ s.placed[s.LastWindowRaised] # "client" =>
    \A t \in PlainOf(s) \ {s.LastWindowRaised} : Over(s.xstack, s.LastWindowRaised, t)

Right(s) == Good(s) /\ RingRight(s) /\ AboveRight(s) /\ LastRight(s)

IInv == Right(wm) /\ ncommands \in 0..MaxCommands

\* A list of the windows RaiseWindow may have to restack, each once.
ListOf(s, list) ==
  /\ list \in Seq(Windows) /\ IsInjective(list)
  /\ ToSet(list) = {w \in Managed(s) : w \in STAYSONTOP \/ TransientFor[w] # NoWindow}

\* n differs from s in the order of windows alone.
OnlyOrder(s, n) ==
  /\ Managed(n) = Managed(s) /\ n.ONTOP = s.ONTOP /\ n.ICONIFIED = s.ICONIFIED
  /\ n.VISIBLE = s.VISIBLE /\ n.frame = s.frame /\ n.mapped = s.mapped
  /\ n.overlap = s.overlap /\ n.queue = s.queue

-----------------------------------------------------------------------------
(* Fields                                                                  *)

LEMMA WMFields ==
  ASSUME NEW s \in WM
  PROVE  /\ s.ring \in Seq(Windows) /\ s.xstack \in Seq(Windows)
         /\ s.ONTOP \subseteq Windows /\ s.ICONIFIED \subseteq Windows /\ s.VISIBLE \subseteq Windows
         /\ s.LastWindowRaised \in Windows \cup {NoWindow, Freed}
         /\ s.frame \subseteq Windows /\ s.mapped \subseteq Windows /\ s.overlap \subseteq Pairs
         /\ s.queue \in Seq(Events)
         /\ s.placed \in [Windows -> {"raised", "lowered", "iconified", "client"}]
BY DEF WM

Single(t) == <<t>>

\* The fields LowerWindow leaves behind.
LoweredFields(s, t, why, n) ==
  /\ n \in WM
  /\ n.xstack = Outside(s.xstack, {t}) \o Single(t) /\ n.ring = Outside(s.ring, {t}) \o Single(t)
  /\ n.LastWindowRaised = NoWindow /\ n.placed = [s.placed EXCEPT ![t] = why]
  /\ n.ONTOP = s.ONTOP /\ n.ICONIFIED = s.ICONIFIED /\ n.VISIBLE = s.VISIBLE
  /\ n.frame = s.frame /\ n.mapped = s.mapped /\ n.overlap = s.overlap /\ n.queue = s.queue

LEMMA LowerFields ==
  ASSUME NEW s \in WM, NEW t \in Windows, NEW why \in {"lowered", "iconified"}
  PROVE  LoweredFields(s, t, why, LowerWindow(s, t, why))
<1> DEFINE x == Outside(s.xstack, {t}) \o Single(t)
           r == Outside(s.ring, {t}) \o Single(t)
<1>0. Single(t) \in Seq(Windows)
  BY DEF Single
<1>1. x \in Seq(Windows) /\ r \in Seq(Windows)
  <2>1. Outside(s.xstack, {t}) \in Seq(Windows \cap (Windows \ {t}))
    BY WMFields, ThoseType DEF Outside
  <2>2. Outside(s.ring, {t}) \in Seq(Windows \cap (Windows \ {t}))
    BY WMFields, ThoseType DEF Outside
  <2> HIDE DEF Outside
  <2> QED
    BY <1>0, <2>1, <2>2
<1> HIDE DEF x, r
<1> DEFINE s1 == [s EXCEPT !.xstack = x, !.ring = r, !.LastWindowRaised = NoWindow]
           p == [s.placed EXCEPT ![t] = why]
           n == LowerWindow(s, t, why)
<1>2. /\ s1 \in WM /\ s1.xstack = x /\ s1.ring = r /\ s1.LastWindowRaised = NoWindow
      /\ s1.placed = s.placed
      /\ s1.ONTOP = s.ONTOP /\ s1.ICONIFIED = s.ICONIFIED /\ s1.VISIBLE = s.VISIBLE
      /\ s1.frame = s.frame /\ s1.mapped = s.mapped /\ s1.overlap = s.overlap /\ s1.queue = s.queue
  BY <1>1 DEF WM
<1>3. p \in [Windows -> {"raised", "lowered", "iconified", "client"}]
  BY WMFields
<1>4. n = [s1 EXCEPT !.placed = p]
  BY DEF LowerWindow, Single, x, r
<1> HIDE DEF s1, p, n
<1>5. /\ n \in WM /\ n.placed = p
      /\ n.xstack = s1.xstack /\ n.ring = s1.ring /\ n.LastWindowRaised = s1.LastWindowRaised
      /\ n.ONTOP = s1.ONTOP /\ n.ICONIFIED = s1.ICONIFIED /\ n.VISIBLE = s1.VISIBLE
      /\ n.frame = s1.frame /\ n.mapped = s1.mapped /\ n.overlap = s1.overlap /\ n.queue = s1.queue
  BY <1>2, <1>3, <1>4 DEF WM
<1> QED
  BY <1>2, <1>5 DEF x, r, p, n, LoweredFields

-----------------------------------------------------------------------------
(* Orders                                                                  *)

\* Some windows are taken out of an order.
LEMMA OutsideFacts ==
  ASSUME NEW q \in Seq(Windows), NEW S
  PROVE  /\ Outside(q, S) \in Seq(Windows)
         /\ ToSet(Outside(q, S)) = ToSet(q) \ S
         /\ IsInjective(q) => IsInjective(Outside(q, S))
         /\ \A a, b : Over(Outside(q, S), a, b) <=> Over(q, a, b) /\ a \notin S /\ b \notin S
<1> DEFINE G == Windows \ S
           p == Those(q, G)
<1>1. p \in Seq(Windows \cap G)
  BY ThoseType
<1>2. p \in Seq(Windows)
  BY <1>1
<1>3. ToSet(p) = ToSet(q) \cap G
  BY MembersThose
<1>4. ToSet(q) \subseteq Windows
  BY DEF ToSet
<1>5. \A a, b : Over(p, a, b) <=> Over(q, a, b) /\ a \in G /\ b \in G
  BY OverThose
<1>6. \A a, b : Over(q, a, b) => a \in Windows /\ b \in Windows
  BY <1>4, OverMembers
<1> HIDE DEF p
<1>7. \A a, b : Over(p, a, b) <=> Over(q, a, b) /\ a \notin S /\ b \notin S
  BY <1>5, <1>6
<1>8. ASSUME IsInjective(q) PROVE IsInjective(p)
  <2>1. \A a \in Windows : ~Over(q, a, a)
    BY <1>8, OnceOver
  <2> QED
    BY <1>2, <1>7, <2>1, OnceOver
<1> QED
  BY <1>2, <1>3, <1>4, <1>7, <1>8 DEF p, Outside

\* Some windows are put on top of an order.
LEMMA TopFacts ==
  ASSUME NEW q \in Seq(Windows), NEW lot \in Seq(Windows), NEW p, p = lot \o Outside(q, ToSet(lot))
  PROVE  /\ p \in Seq(Windows)
         /\ ToSet(p) = ToSet(q) \cup ToSet(lot)
         /\ IsInjective(q) /\ IsInjective(lot) => IsInjective(p)
         /\ \A a, b : Over(p, a, b) <=>
              \/ Over(lot, a, b)
              \/ Over(q, a, b) /\ a \notin ToSet(lot) /\ b \notin ToSet(lot)
              \/ a \in ToSet(lot) /\ b \in ToSet(q) \ ToSet(lot)
<1> DEFINE r == Outside(q, ToSet(lot))
<1>1. /\ r \in Seq(Windows) /\ ToSet(r) = ToSet(q) \ ToSet(lot)
      /\ \A a, b : Over(r, a, b) <=> Over(q, a, b) /\ a \notin ToSet(lot) /\ b \notin ToSet(lot)
  BY OutsideFacts
<1> HIDE DEF r
<1>2. p = lot \o r
  BY DEF r
<1>3. p \in Seq(Windows)
  BY <1>1, <1>2
<1>4. ToSet(p) = ToSet(lot) \cup ToSet(r)
  BY <1>1, <1>2, MembersConcat
<1>5. \A a, b : Over(p, a, b) <=>
         Over(lot, a, b) \/ Over(r, a, b) \/ (a \in ToSet(lot) /\ b \in ToSet(r))
  BY <1>1, <1>2, OverConcat
<1>6. ASSUME IsInjective(q), IsInjective(lot) PROVE IsInjective(p)
  <2>1. \A a \in Windows : ~Over(q, a, a) /\ ~Over(lot, a, a)
    BY <1>6, OnceOver
  <2>2. \A a \in Windows : ~Over(p, a, a)
    BY <1>1, <1>5, <2>1
  <2> QED
    BY <1>3, <2>2, OnceOver
<1> QED
  BY <1>1, <1>3, <1>4, <1>5, <1>6

\* A window is put at the bottom of an order.
AtBottom(q, t, p) ==
  /\ p \in Seq(Windows)
  /\ ToSet(p) = ToSet(q) \cup {t}
  /\ IsInjective(q) => IsInjective(p)
  /\ \A a, b : Over(p, a, b) <=>
       \/ Over(q, a, b) /\ a # t /\ b # t
       \/ a \in ToSet(q) \ {t} /\ b = t

LEMMA BottomFacts ==
  ASSUME NEW q \in Seq(Windows), NEW t \in Windows
  PROVE  AtBottom(q, t, Outside(q, {t}) \o Single(t))
<1> DEFINE r == Outside(q, {t})
           l == Single(t)
           p == r \o l
<1>1. /\ r \in Seq(Windows) /\ ToSet(r) = ToSet(q) \ {t}
      /\ \A a, b : Over(r, a, b) <=> Over(q, a, b) /\ a \notin {t} /\ b \notin {t}
  BY OutsideFacts
<1>2. l \in Seq(Windows) /\ ToSet(l) = {t} /\ \A a, b : ~Over(l, a, b)
  BY MembersSingle, OverSingle DEF Single
<1> HIDE DEF r, l
<1>0. p = r \o l
  OBVIOUS
<1> HIDE DEF p
<1>3. p \in Seq(Windows)
  BY <1>0, <1>1, <1>2, ConcatProperties, Zenon
<1>4. ToSet(p) = ToSet(r) \cup {t}
  <2>1. ToSet(r \o l) = ToSet(r) \cup ToSet(l)
    BY <1>1, <1>2, MembersConcat
  <2> QED
    BY <1>0, <1>2, <2>1, Zenon
<1>5. \A a, b : Over(p, a, b) <=> Over(r, a, b) \/ (a \in ToSet(r) /\ b \in {t})
  <2> TAKE a, b
  <2>1. Over(r \o l, a, b) <=> Over(r, a, b) \/ Over(l, a, b) \/ (a \in ToSet(r) /\ b \in ToSet(l))
    BY <1>1, <1>2, OverConcat, Zenon
  <2> QED
    BY <1>0, <1>2, <2>1, Zenon
<1>6. ASSUME IsInjective(q) PROVE IsInjective(p)
  <2>1. \A a \in Windows : ~Over(q, a, a)
    BY <1>6, OnceOver
  <2>2. \A a \in Windows : ~Over(p, a, a)
    BY <1>1, <1>5, <2>1
  <2> QED
    BY <1>3, <2>2, OnceOver
<1> QED
  BY <1>1, <1>3, <1>4, <1>5, <1>6 DEF AtBottom, p, r, l

LEMMA SomeOnce ==
  ASSUME NEW list \in Seq(Windows), IsInjective(list), NEW S
  PROVE  /\ Those(list, S) \in Seq(Windows) /\ ToSet(Those(list, S)) = ToSet(list) \cap S
         /\ \A a : ~Over(Those(list, S), a, a)
<1>1. Those(list, S) \in Seq(Windows \cap S)
  BY ThoseType
<1>2. \A a \in Windows : ~Over(list, a, a)
  BY OnceOver
<1>3. \A a : Over(list, a, a) => a \in Windows
  BY OverMembers DEF ToSet
<1> QED
  BY <1>1, <1>2, <1>3, MembersThose, OverThose

-----------------------------------------------------------------------------
(* RaiseWindow                                                             *)

\* RaiseWindow restacks the windows that stay on top, then the transients of t, then t.
LEMMA LotFacts ==
  ASSUME NEW s, Good(s), NEW t \in Managed(s), NEW list, ListOf(s, list), NEW lot, lot = Lot(s, t, list)
  PROVE  /\ lot \in Seq(Windows) /\ IsInjective(lot)
         /\ ToSet(lot) = s.ONTOP \cup Transients(s, t) \cup {t}
         /\ \A a \in s.ONTOP, b \in ToSet(lot) \ s.ONTOP : Over(lot, a, b)
<1> DEFINE p == Those(list, s.ONTOP)
           q == Those(list, Transients(s, t) \ s.ONTOP)
           r == IF t \in s.ONTOP THEN <<>> ELSE <<t>>
<1>0. /\ t \in Windows /\ Managed(s) \subseteq Windows /\ s.ONTOP \subseteq STAYSONTOP \cap Managed(s)
  BY WMFields DEF Good, Flags, Managed, ToSet
<1>1. s.ONTOP \subseteq ToSet(list) /\ Transients(s, t) \subseteq ToSet(list) /\ t \notin Transients(s, t)
  BY <1>0, StackingAssumption DEF ListOf, Transients
<1>2. p \in Seq(Windows) /\ ToSet(p) = s.ONTOP /\ \A a : ~Over(p, a, a)
  <2>1. p \in Seq(Windows) /\ ToSet(p) = ToSet(list) \cap s.ONTOP /\ \A a : ~Over(p, a, a)
    BY SomeOnce DEF ListOf
  <2> QED
    BY <1>1, <2>1
<1>3. q \in Seq(Windows) /\ ToSet(q) = Transients(s, t) \ s.ONTOP /\ \A a : ~Over(q, a, a)
  <2>1. /\ q \in Seq(Windows) /\ ToSet(q) = ToSet(list) \cap (Transients(s, t) \ s.ONTOP)
        /\ \A a : ~Over(q, a, a)
    BY SomeOnce DEF ListOf
  <2> QED
    BY <1>1, <2>1
<1>4. r \in Seq(Windows) /\ ToSet(r) = {t} \ s.ONTOP /\ \A a : ~Over(r, a, a)
  BY <1>0, MembersEmpty, MembersSingle, OverEmpty, OverSingle
<1>5. lot = (p \o q) \o r
  BY DEF Lot
<1> HIDE DEF p, q, r
<1> DEFINE u == p \o q
<1>6. /\ u \in Seq(Windows) /\ ToSet(u) = ToSet(p) \cup ToSet(q)
      /\ \A a, b : Over(u, a, b) <=> Over(p, a, b) \/ Over(q, a, b) \/ (a \in ToSet(p) /\ b \in ToSet(q))
  BY <1>2, <1>3, MembersConcat, OverConcat
<1> HIDE DEF u
<1>7. lot = u \o r
  BY <1>5 DEF u
<1>8. /\ lot \in Seq(Windows) /\ ToSet(lot) = ToSet(u) \cup ToSet(r)
      /\ \A a, b : Over(lot, a, b) <=> Over(u, a, b) \/ Over(r, a, b) \/ (a \in ToSet(u) /\ b \in ToSet(r))
  BY <1>4, <1>6, <1>7, MembersConcat, OverConcat
<1>9. ToSet(lot) = s.ONTOP \cup Transients(s, t) \cup {t}
  BY <1>2, <1>3, <1>4, <1>6, <1>8
<1>10. \A a \in s.ONTOP, b \in ToSet(lot) \ s.ONTOP : Over(lot, a, b)
  BY <1>2, <1>3, <1>4, <1>6, <1>8
<1>11. \A a : ~Over(lot, a, a)
  <2>1. \A a : ~Over(u, a, a)
    BY <1>2, <1>3, <1>6
  <2>2. \A a : a \in ToSet(u) => a \notin ToSet(r)
    BY <1>1, <1>2, <1>3, <1>4, <1>6
  <2> QED
    BY <1>4, <1>8, <2>1, <2>2
<1> QED
  BY <1>8, <1>9, <1>10, <1>11, OnceOver

\* The fields RaiseWindow leaves behind.
RaisedFields(s, t, list, n) ==
  /\ n \in WM
  /\ n.xstack = Lot(s, t, list) \o Outside(s.xstack, ToSet(Lot(s, t, list)))
  /\ n.ring = Single(t) \o Outside(s.ring, {t})
  /\ n.LastWindowRaised = IF t \in s.ONTOP THEN s.LastWindowRaised ELSE t
  /\ \A w \in Windows : n.placed[w] = IF w \in ToSet(Lot(s, t, list)) THEN "raised" ELSE s.placed[w]
  /\ n.ONTOP = s.ONTOP /\ n.ICONIFIED = s.ICONIFIED /\ n.VISIBLE = s.VISIBLE
  /\ n.frame = s.frame /\ n.mapped = s.mapped /\ n.overlap = s.overlap /\ n.queue = s.queue

LEMMA RaiseFields ==
  ASSUME NEW s, Good(s), NEW t \in Managed(s), NEW list, ListOf(s, list)
  PROVE  RaisedFields(s, t, list, RaiseWindow(s, t, list))
<1> DEFINE lot == Lot(s, t, list)
           x == lot \o Outside(s.xstack, ToSet(lot))
           top == Single(t)
           r == top \o Outside(s.ring, {t})
           p == [w \in Windows |-> IF w \in ToSet(lot) THEN "raised" ELSE s.placed[w]]
           l == IF t \in s.ONTOP THEN s.LastWindowRaised ELSE t
           n == RaiseWindow(s, t, list)
<1>1. s \in WM /\ t \in Windows
  BY WMFields DEF Good, Managed, ToSet
<1>2. top \in Seq(Windows) /\ ToSet(top) = {t}
  BY <1>1, MembersSingle DEF Single
<1>3. x \in Seq(Windows)
  <2>1. lot \in Seq(Windows) /\ s.xstack \in Seq(Windows)
    BY <1>1, WMFields, LotFacts
  <2>2. Outside(s.xstack, ToSet(lot)) \in Seq(Windows)
    BY <2>1, OutsideFacts
  <2> QED
    BY <2>1, <2>2
<1>4. r \in Seq(Windows)
  <2>1. s.ring \in Seq(Windows)
    BY <1>1, WMFields
  <2>2. Outside(s.ring, {t}) \in Seq(Windows)
    BY <2>1, OutsideFacts
  <2> HIDE DEF top
  <2> QED
    BY <1>2, <2>2
<1>5. p \in [Windows -> {"raised", "lowered", "iconified", "client"}] /\ l \in Windows \cup {NoWindow, Freed}
  BY <1>1, WMFields
<1>6. n = [s EXCEPT !.xstack = x, !.ring = r, !.LastWindowRaised = l, !.placed = p]
  BY DEF RaiseWindow, Single
<1> HIDE DEF x, r, p, l, n
<1>7. /\ n \in WM /\ n.xstack = x /\ n.ring = r /\ n.LastWindowRaised = l /\ n.placed = p
      /\ n.ONTOP = s.ONTOP /\ n.ICONIFIED = s.ICONIFIED /\ n.VISIBLE = s.VISIBLE
      /\ n.frame = s.frame /\ n.mapped = s.mapped /\ n.overlap = s.overlap /\ n.queue = s.queue
  BY <1>1, <1>3, <1>4, <1>5, <1>6 DEF WM
<1> QED
  BY <1>7 DEF x, r, p, l, n, RaisedFields

\* The windows RaiseWindow restacks.
Raised(s, t) == s.ONTOP \cup Transients(s, t) \cup {t}

\* What RaiseWindow does to the order of two windows.
LEMMA RaiseOrders ==
  ASSUME NEW s, Good(s), NEW t \in Managed(s), NEW list, ListOf(s, list),
         NEW n, n = RaiseWindow(s, t, list)
  PROVE  /\ n \in WM /\ Orders(n) /\ OnlyOrder(s, n)
         /\ n.LastWindowRaised = IF t \in s.ONTOP THEN s.LastWindowRaised ELSE t
         /\ \A w \in Windows : n.placed[w] = IF w \in Raised(s, t) THEN "raised" ELSE s.placed[w]
         /\ \A a, b : Over(n.ring, a, b) <=>
              (Over(s.ring, a, b) /\ a # t /\ b # t) \/ (a = t /\ b \in Managed(s) \ {t})
         /\ \A a \in s.ONTOP, b \in Managed(s) \ s.ONTOP : Over(n.xstack, a, b)
         /\ \A a \in Raised(s, t), b \in Managed(s) \ Raised(s, t) : Over(n.xstack, a, b)
         /\ \A a, b : /\ Over(s.xstack, a, b) /\ a \notin Raised(s, t) /\ b \notin Raised(s, t)
                     => Over(n.xstack, a, b)
<1> DEFINE lot == Lot(s, t, list)
           top == Single(t)
<1>0. /\ s \in WM /\ s.ring \in Seq(Windows) /\ s.xstack \in Seq(Windows) /\ t \in Windows
      /\ ToSet(s.ring) = Managed(s) /\ ToSet(s.xstack) = Managed(s)
      /\ IsInjective(s.ring) /\ IsInjective(s.xstack)
  <2>1. s \in WM /\ ToSet(s.ring) = Managed(s) /\ IsInjective(s.ring) /\ IsInjective(s.xstack)
    BY DEF Good, Orders
  <2>2. s.ring \in Seq(Windows) /\ s.xstack \in Seq(Windows)
    BY <2>1, WMFields
  <2>3. ToSet(s.xstack) = Managed(s)
    BY DEF Managed
  <2>4. t \in Windows
    BY <2>2, <2>3 DEF ToSet
  <2> QED
    BY <2>1, <2>2, <2>3, <2>4
<1>1. /\ lot \in Seq(Windows) /\ IsInjective(lot) /\ ToSet(lot) = Raised(s, t)
      /\ \A a \in s.ONTOP, b \in ToSet(lot) \ s.ONTOP : Over(lot, a, b)
  BY LotFacts DEF Raised
<1>2. /\ n \in WM
      /\ n.xstack = lot \o Outside(s.xstack, ToSet(lot)) /\ n.ring = top \o Outside(s.ring, {t})
      /\ n.LastWindowRaised = IF t \in s.ONTOP THEN s.LastWindowRaised ELSE t
      /\ \A w \in Windows : n.placed[w] = IF w \in ToSet(lot) THEN "raised" ELSE s.placed[w]
      /\ n.ONTOP = s.ONTOP /\ n.ICONIFIED = s.ICONIFIED /\ n.VISIBLE = s.VISIBLE
      /\ n.frame = s.frame /\ n.mapped = s.mapped /\ n.overlap = s.overlap /\ n.queue = s.queue
  <2>1. RaisedFields(s, t, list, n)
    BY RaiseFields
  <2> QED
    BY <2>1 DEF RaisedFields
<1>3. top \in Seq(Windows) /\ ToSet(top) = {t} /\ IsInjective(top) /\ \A a, b : ~Over(top, a, b)
  BY <1>0, MembersSingle, OverSingle DEF IsInjective, Single
<1>4. Raised(s, t) \subseteq Managed(s)
  BY DEF Raised, Good, Flags, Transients
<1> HIDE DEF lot, top
<1>5. /\ ToSet(n.xstack) = ToSet(s.xstack) \cup ToSet(lot) /\ IsInjective(n.xstack)
      /\ \A a, b : Over(n.xstack, a, b) <=>
           \/ Over(lot, a, b)
           \/ Over(s.xstack, a, b) /\ a \notin ToSet(lot) /\ b \notin ToSet(lot)
           \/ a \in ToSet(lot) /\ b \in ToSet(s.xstack) \ ToSet(lot)
  <2>1. n.xstack = lot \o Outside(s.xstack, ToSet(lot))
    BY <1>2
  <2> QED
    BY <1>0, <1>1, <2>1, TopFacts, Zenon
<1>6. /\ ToSet(n.ring) = ToSet(s.ring) \cup {t} /\ IsInjective(n.ring)
      /\ \A a, b : Over(n.ring, a, b) <=>
           \/ Over(s.ring, a, b) /\ a \notin {t} /\ b \notin {t}
           \/ a \in {t} /\ b \in ToSet(s.ring) \ {t}
  <2>1. n.ring = top \o Outside(s.ring, ToSet(top))
    BY <1>2, <1>3
  <2> QED
    <3>1. /\ ToSet(n.ring) = ToSet(s.ring) \cup ToSet(top) /\ IsInjective(n.ring)
          /\ \A a, b : Over(n.ring, a, b) <=>
               \/ Over(top, a, b)
               \/ Over(s.ring, a, b) /\ a \notin ToSet(top) /\ b \notin ToSet(top)
               \/ a \in ToSet(top) /\ b \in ToSet(s.ring) \ ToSet(top)
      BY <1>0, <1>3, <2>1, TopFacts, Zenon
    <3> QED
      BY <1>3, <3>1
<1>7. Managed(n) = Managed(s)
  BY <1>0, <1>1, <1>4, <1>5 DEF Managed
<1>8. Orders(n)
  BY <1>0, <1>5, <1>6, <1>7 DEF Orders
<1>9. OnlyOrder(s, n)
  BY <1>2, <1>7 DEF OnlyOrder
<1>10. \A w \in Windows : n.placed[w] = IF w \in Raised(s, t) THEN "raised" ELSE s.placed[w]
  BY <1>1, <1>2
<1>11. \A a, b : Over(n.ring, a, b) <=>
              (Over(s.ring, a, b) /\ a # t /\ b # t) \/ (a = t /\ b \in Managed(s) \ {t})
  BY <1>0, <1>6
<1>12. \A a \in s.ONTOP, b \in Managed(s) \ s.ONTOP : Over(n.xstack, a, b)
  <2>1. s.ONTOP \subseteq ToSet(lot)
    BY <1>1 DEF Raised
  <2> QED
    BY <1>0, <1>1, <1>5, <2>1
<1>13. \A a \in Raised(s, t), b \in Managed(s) \ Raised(s, t) : Over(n.xstack, a, b)
  BY <1>0, <1>1, <1>5
<1>14. \A a, b : /\ Over(s.xstack, a, b) /\ a \notin Raised(s, t) /\ b \notin Raised(s, t)
                => Over(n.xstack, a, b)
  BY <1>1, <1>5
<1> QED
  BY <1>2, <1>8, <1>9, <1>10, <1>11, <1>12, <1>13, <1>14

\* The parts of Good that are not about order stay when only the order changes.
LEMMA OnlyOrderGood ==
  ASSUME NEW s, Good(s), NEW n \in WM, Orders(n), OnlyOrder(s, n),
         n.LastWindowRaised \in Managed(s) \cup {NoWindow, Freed}
  PROVE  Good(n)
BY DEF Good, Flags, Queue, OnlyOrder

\* A list of one state is one of the next.
LEMMA SameList ==
  ASSUME NEW s, NEW n, Managed(n) = Managed(s), NEW list, ListOf(s, list)
  PROVE  ListOf(n, list)
BY DEF ListOf

LEMMA RaiseGood ==
  ASSUME NEW s, Good(s), NEW t \in Managed(s), NEW list, ListOf(s, list),
         NEW n, n = RaiseWindow(s, t, list)
  PROVE  Good(n) /\ OnlyOrder(s, n)
<1>1. n \in WM /\ Orders(n) /\ OnlyOrder(s, n)
      /\ n.LastWindowRaised = IF t \in s.ONTOP THEN s.LastWindowRaised ELSE t
  BY RaiseOrders
<1>2. n.LastWindowRaised \in Managed(s) \cup {NoWindow, Freed}
  BY <1>1 DEF Good, Flags
<1> QED
  BY <1>1, <1>2, OnlyOrderGood

\* Plain windows are in Windows, none is on top, and of the windows that are raised
\* with t only t can be one.
LEMMA PlainFacts ==
  ASSUME NEW s, Good(s), NEW t \in Managed(s), NEW w \in Managed(s) \ STAYSONTOP, TransientFor[w] = NoWindow
  PROVE  w \in Windows /\ (w \in Raised(s, t) => w = t)
<1>1. t \in Windows /\ w \in Windows
  BY WMFields DEF Good, Managed, ToSet
<1> QED
  BY <1>1, StackingAssumption DEF Raised, Transients, Good, Flags

LEMMA RaiseRing ==
  ASSUME NEW s, Good(s), NEW t \in Managed(s), NEW list, ListOf(s, list),
         NEW n, n = RaiseWindow(s, t, list), RingRight(s)
  PROVE  RingRight(n)
<1> USE RaiseOrders DEF OnlyOrder
<1> SUFFICES ASSUME NEW a \in PlainOf(n), NEW b \in PlainOf(n), Over(n.ring, a, b)
             PROVE  Over(n.xstack, a, b)
  BY DEF RingRight
<1>1. /\ a \in Managed(s) \ STAYSONTOP /\ TransientFor[a] = NoWindow /\ n.placed[a] # "client"
      /\ b \in Managed(s) \ STAYSONTOP /\ TransientFor[b] = NoWindow /\ n.placed[b] # "client"
  BY DEF PlainOf
<1>2. /\ a \in Windows /\ (a \in Raised(s, t) => a = t)
      /\ b \in Windows /\ (b \in Raised(s, t) => b = t)
  BY <1>1, PlainFacts
<1>3. CASE a = t /\ b \in Managed(s) \ {t}
  <2>1. a \in Raised(s, t) /\ b \notin Raised(s, t)
    BY <1>2, <1>3 DEF Raised
  <2> QED
    BY <1>1, <2>1
<1>4. CASE Over(s.ring, a, b) /\ a # t /\ b # t
  <2>1. a \notin Raised(s, t) /\ b \notin Raised(s, t)
    BY <1>2, <1>4
  <2>2. n.placed[a] = s.placed[a] /\ n.placed[b] = s.placed[b]
    BY <1>2, <2>1
  <2>3. a \in PlainOf(s) /\ b \in PlainOf(s)
    BY <1>1, <2>2 DEF PlainOf
  <2>4. Over(s.xstack, a, b)
    BY <1>4, <2>3 DEF RingRight
  <2> QED
    BY <2>1, <2>4
<1> QED
  BY <1>3, <1>4

\* RaiseWindow puts the windows that stay on top above the others, whatever was before.
LEMMA RaiseAbove ==
  ASSUME NEW s, Good(s), NEW t \in Managed(s), NEW list, ListOf(s, list),
         NEW n, n = RaiseWindow(s, t, list)
  PROVE  AboveRight(n)
<1>1. /\ n.ONTOP = s.ONTOP /\ Managed(n) = Managed(s)
      /\ \A a \in s.ONTOP, b \in Managed(s) \ s.ONTOP : Over(n.xstack, a, b)
  BY RaiseOrders DEF OnlyOrder
<1> QED
  BY <1>1 DEF AboveRight

\* The pointer may have been right before, or be one to t itself, or become one.
LEMMA RaiseLast ==
  ASSUME NEW s, Good(s), NEW t \in Managed(s), NEW list, ListOf(s, list),
         NEW n, n = RaiseWindow(s, t, list),
         LastRight(s) \/ s.LastWindowRaised = t \/ t \notin s.ONTOP
  PROVE  LastRight(n)
<1> USE RaiseOrders DEF OnlyOrder
<1> DEFINE l == n.LastWindowRaised
<1> SUFFICES ASSUME l \in Windows, n.placed[l] # "client", NEW a \in PlainOf(n), a # l
             PROVE  Over(n.xstack, l, a)
  BY DEF LastRight
<1>1. a \in Managed(s) \ STAYSONTOP /\ TransientFor[a] = NoWindow /\ n.placed[a] # "client"
  BY DEF PlainOf
<1>2. a \in Windows /\ (a \in Raised(s, t) => a = t)
  BY <1>1, PlainFacts
<1>3. l = IF t \in s.ONTOP THEN s.LastWindowRaised ELSE t
  OBVIOUS
<1>4. a \notin Raised(s, t)
  <2>1. t \in s.ONTOP => a # t
    BY <1>1 DEF Good, Flags
  <2> QED
    BY <1>2, <1>3, <2>1
<1>5. CASE l \in Raised(s, t)
  BY <1>1, <1>4, <1>5
<1>6. CASE l \notin Raised(s, t)
  <2>1. l # t /\ l = s.LastWindowRaised
    BY <1>3, <1>6 DEF Raised
  <2>2. n.placed[l] = s.placed[l] /\ n.placed[a] = s.placed[a]
    BY <1>2, <1>4, <1>6
  <2>3. a \in PlainOf(s)
    BY <1>1, <2>2 DEF PlainOf
  <2>4. Over(s.xstack, l, a)
    BY <2>1, <2>2, <2>3 DEF LastRight
  <2> QED
    BY <1>4, <1>6, <2>4
<1> QED
  BY <1>5, <1>6

LEMMA RaiseRight ==
  ASSUME NEW s, Right(s), NEW t \in Managed(s), NEW list, ListOf(s, list),
         NEW n, n = RaiseWindow(s, t, list)
  PROVE  Right(n) /\ OnlyOrder(s, n)
<1>1. Good(s) /\ RingRight(s) /\ LastRight(s)
  BY DEF Right
<1>2. Good(n) /\ OnlyOrder(s, n)
  BY <1>1, RaiseGood
<1>3. RingRight(n)
  BY <1>1, RaiseRing
<1>4. AboveRight(n)
  BY <1>1, RaiseAbove
<1>5. LastRight(n)
  BY <1>1, RaiseLast
<1> QED
  BY <1>2, <1>3, <1>4, <1>5 DEF Right

\* A window that is styled after it was raised is above all but its transients.
LEMMA StyledRight ==
  ASSUME NEW s, Right(s), NEW t \in Managed(s), NEW list, ListOf(s, list),
         NEW n, n = Styled(RaiseWindow(s, t, list), t)
  PROVE  Right(n) /\ Managed(n) = Managed(s)
<1> DEFINE r == RaiseWindow(s, t, list)
<1>1. Right(r) /\ Managed(r) = Managed(s) /\ r.ONTOP = s.ONTOP
  BY RaiseRight DEF OnlyOrder
<1>2. \A a \in Raised(s, t), b \in Managed(s) \ Raised(s, t) : Over(r.xstack, a, b)
  BY RaiseOrders DEF Right
<1>3. n = IF t \in STAYSONTOP THEN [r EXCEPT !.ONTOP = @ \cup {t}] ELSE r
  BY DEF Styled
<1> HIDE DEF r
<1>4. CASE t \notin STAYSONTOP
  BY <1>1, <1>3, <1>4
<1>5. CASE t \in STAYSONTOP
  <2>1. r \in WM
    BY <1>1 DEF Right, Good
  <2>2. t \in Windows
    BY <1>5, StackingAssumption
  <2>3. /\ n \in WM /\ n.ONTOP = r.ONTOP \cup {t}
        /\ n.ring = r.ring /\ n.xstack = r.xstack /\ n.ICONIFIED = r.ICONIFIED /\ n.VISIBLE = r.VISIBLE
        /\ n.LastWindowRaised = r.LastWindowRaised /\ n.frame = r.frame /\ n.mapped = r.mapped
        /\ n.queue = r.queue /\ n.placed = r.placed
    BY <1>3, <1>5, <2>1, <2>2 DEF WM
  <2>4. Managed(n) = Managed(r) /\ PlainOf(n) = PlainOf(r)
    BY <2>3 DEF Managed, PlainOf
  <2>5. Good(n)
    BY <1>1, <1>5, <2>3, <2>4 DEF Right, Good, Orders, Flags, Queue
  <2>6. RingRight(n) /\ LastRight(n)
    BY <1>1, <2>3, <2>4 DEF Right, RingRight, LastRight
  <2>7. AboveRight(n)
    <3> SUFFICES ASSUME NEW a \in n.ONTOP, NEW b \in Managed(n) \ n.ONTOP,
                        n.placed[a] = "raised", n.placed[b] # "client", TransientFor[b] # a
                 PROVE  Over(n.xstack, a, b)
      BY DEF AboveRight
    <3>1. CASE a = t
      BY <1>1, <1>2, <2>3, <2>4, <3>1 DEF Raised, Transients
    <3>2. CASE a # t
      BY <1>1, <2>3, <2>4, <3>2 DEF Right, AboveRight
    <3> QED
      BY <3>1, <3>2
  <2> QED
    BY <1>1, <2>4, <2>5, <2>6, <2>7 DEF Right
<1> QED
  BY <1>4, <1>5

-----------------------------------------------------------------------------
(* LowerWindow                                                             *)

\* The orders LowerWindow leaves behind.
Lowered(s, t, why, n) ==
  /\ n \in WM /\ Orders(n) /\ OnlyOrder(s, n)
  /\ n.LastWindowRaised = NoWindow
  /\ \A w \in Windows : n.placed[w] = IF w = t THEN why ELSE s.placed[w]
  /\ \A a, b : Over(n.ring, a, b) <=>
       (Over(s.ring, a, b) /\ a # t /\ b # t) \/ (a \in Managed(s) \ {t} /\ b = t)
  /\ \A a, b : Over(n.xstack, a, b) <=>
       (Over(s.xstack, a, b) /\ a # t /\ b # t) \/ (a \in Managed(s) \ {t} /\ b = t)

LEMMA LowerOrders ==
  ASSUME NEW s, Good(s), NEW t \in Managed(s), NEW why \in {"lowered", "iconified"}
  PROVE  Lowered(s, t, why, LowerWindow(s, t, why))
<1> DEFINE n == LowerWindow(s, t, why)
<1>1. s \in WM /\ ToSet(s.ring) = Managed(s) /\ IsInjective(s.ring) /\ IsInjective(s.xstack)
  BY DEF Good, Orders
<1>2. s.ring \in Seq(Windows) /\ s.xstack \in Seq(Windows) /\ ToSet(s.xstack) = Managed(s)
  BY <1>1, WMFields DEF Managed
<1>3. t \in Windows
  BY <1>2 DEF ToSet
<1>4. LoweredFields(s, t, why, n)
  BY <1>1, <1>3, LowerFields
<1> HIDE DEF n
<1>5. /\ n \in WM /\ n.LastWindowRaised = NoWindow /\ n.placed = [s.placed EXCEPT ![t] = why]
      /\ n.ONTOP = s.ONTOP /\ n.ICONIFIED = s.ICONIFIED /\ n.VISIBLE = s.VISIBLE
      /\ n.frame = s.frame /\ n.mapped = s.mapped /\ n.overlap = s.overlap /\ n.queue = s.queue
      /\ n.xstack = Outside(s.xstack, {t}) \o Single(t) /\ n.ring = Outside(s.ring, {t}) \o Single(t)
  BY <1>4 DEF LoweredFields
<1>6. /\ ToSet(n.xstack) = Managed(s) \cup {t} /\ IsInjective(n.xstack)
      /\ \A a, b : Over(n.xstack, a, b) <=>
           (Over(s.xstack, a, b) /\ a # t /\ b # t) \/ (a \in Managed(s) \ {t} /\ b = t)
  <2>0. n.xstack = Outside(s.xstack, {t}) \o Single(t)
    BY <1>5
  <2>1. AtBottom(s.xstack, t, n.xstack)
    BY <1>2, <1>3, <2>0, BottomFacts
  <2> QED
    BY <1>1, <1>2, <2>1 DEF AtBottom
<1>7. /\ ToSet(n.ring) = Managed(s) \cup {t} /\ IsInjective(n.ring)
      /\ \A a, b : Over(n.ring, a, b) <=>
           (Over(s.ring, a, b) /\ a # t /\ b # t) \/ (a \in Managed(s) \ {t} /\ b = t)
  <2>0. n.ring = Outside(s.ring, {t}) \o Single(t)
    BY <1>5
  <2>1. AtBottom(s.ring, t, n.ring)
    BY <1>2, <1>3, <2>0, BottomFacts
  <2> QED
    BY <1>1, <1>2, <2>1 DEF AtBottom
<1>8. Managed(n) = Managed(s)
  BY <1>6 DEF Managed
<1>9. Orders(n)
  BY <1>6, <1>7, <1>8 DEF Orders
<1>11. OnlyOrder(s, n)
  BY <1>5, <1>8 DEF OnlyOrder
<1>10. \A w \in Windows : n.placed[w] = IF w = t THEN why ELSE s.placed[w]
  BY <1>1, <1>5, WMFields
<1> QED
  BY <1>5, <1>6, <1>7, <1>9, <1>10, <1>11 DEF Lowered, n

LEMMA LowerRight ==
  ASSUME NEW s, Right(s), NEW t \in Managed(s), NEW why \in {"lowered", "iconified"},
         NEW n, n = LowerWindow(s, t, why)
  PROVE  Right(n) /\ OnlyOrder(s, n)
<1>0. Lowered(s, t, why, n)
  BY LowerOrders DEF Right
<1>1. /\ n \in WM /\ Orders(n) /\ OnlyOrder(s, n)
      /\ n.LastWindowRaised = NoWindow
      /\ \A a, b : Over(n.ring, a, b) <=>
           (Over(s.ring, a, b) /\ a # t /\ b # t) \/ (a \in Managed(s) \ {t} /\ b = t)
      /\ \A a, b : Over(n.xstack, a, b) <=>
           (Over(s.xstack, a, b) /\ a # t /\ b # t) \/ (a \in Managed(s) \ {t} /\ b = t)
  BY <1>0 DEF Lowered
<1>2. Good(n)
  BY <1>1, OnlyOrderGood DEF Right
<1>3. \A w \in Windows : n.placed[w] = IF w = t THEN why ELSE s.placed[w]
  BY <1>0 DEF Lowered
<1>4. Managed(s) \subseteq Windows /\ Managed(n) = Managed(s) /\ n.ONTOP = s.ONTOP
  <2>1. Managed(s) \subseteq Windows
    BY WMFields DEF Right, Good, Managed, ToSet
  <2> QED
    BY <1>1, <2>1 DEF OnlyOrder
<1>5. RingRight(n)
  <2> SUFFICES ASSUME NEW a \in PlainOf(n), NEW b \in PlainOf(n), Over(n.ring, a, b)
               PROVE  Over(n.xstack, a, b)
    BY DEF RingRight
  <2>1. CASE a # t /\ b # t
    <3>1. a \in PlainOf(s) /\ b \in PlainOf(s)
      BY <1>3, <1>4, <2>1 DEF PlainOf
    <3> QED
      BY <1>1, <2>1, <3>1 DEF Right, RingRight
  <2> QED
    BY <1>1, <2>1
<1>6. AboveRight(n)
  <2> SUFFICES ASSUME NEW a \in n.ONTOP, NEW b \in Managed(n) \ n.ONTOP,
                      n.placed[a] = "raised", n.placed[b] # "client", TransientFor[b] # a
               PROVE  Over(n.xstack, a, b)
    BY DEF AboveRight
  <2>1. a \in Windows /\ a \in Managed(s) /\ b \in Windows
    BY <1>2, <1>4 DEF Good, Flags
  <2>2. a # t /\ s.placed[a] = "raised"
    BY <1>3, <2>1
  <2>3. CASE b = t
    BY <1>1, <2>1, <2>2, <2>3
  <2>4. CASE b # t
    <3>1. Over(s.xstack, a, b)
      BY <1>3, <1>4, <2>1, <2>2, <2>4 DEF Right, AboveRight
    <3> QED
      BY <1>1, <2>2, <2>4, <3>1
  <2> QED
    BY <2>3, <2>4
<1>7. LastRight(n)
  BY <1>1, StackingAssumption DEF LastRight
<1> QED
  BY <1>1, <1>2, <1>5, <1>6, <1>7 DEF Right

\* A window that loses its flag after it was lowered is below all that keep theirs.
LEMMA UnstyledRight ==
  ASSUME NEW s, Right(s), NEW t \in Managed(s), NEW n, n = Unstyled(LowerWindow(s, t, "lowered"), t)
  PROVE  Right(n)
<1> DEFINE r == LowerWindow(s, t, "lowered")
<1>1. Right(r) /\ Managed(r) = Managed(s)
  BY LowerRight DEF OnlyOrder
<1>2. \A a \in Managed(s) \ {t} : Over(r.xstack, a, t)
  <2>1. Lowered(s, t, "lowered", r)
    BY LowerOrders DEF Right
  <2> QED
    BY <2>1 DEF Lowered
<1>3. n = [r EXCEPT !.ONTOP = @ \ {t}]
  BY DEF Unstyled
<1> HIDE DEF r
<1>4. r \in WM
  BY <1>1 DEF Right, Good
<1>5. /\ n \in WM /\ n.ONTOP = r.ONTOP \ {t}
      /\ n.ring = r.ring /\ n.xstack = r.xstack /\ n.ICONIFIED = r.ICONIFIED /\ n.VISIBLE = r.VISIBLE
      /\ n.LastWindowRaised = r.LastWindowRaised /\ n.frame = r.frame /\ n.mapped = r.mapped
      /\ n.queue = r.queue /\ n.placed = r.placed
  BY <1>3, <1>4 DEF WM
<1>6. Managed(n) = Managed(r) /\ PlainOf(n) = PlainOf(r)
  BY <1>5 DEF Managed, PlainOf
<1>7. Good(n)
  BY <1>1, <1>5, <1>6 DEF Right, Good, Orders, Flags, Queue
<1>8. RingRight(n) /\ LastRight(n)
  BY <1>1, <1>5, <1>6 DEF Right, RingRight, LastRight
<1>9. AboveRight(n)
  <2> SUFFICES ASSUME NEW a \in n.ONTOP, NEW b \in Managed(n) \ n.ONTOP,
                      n.placed[a] = "raised", n.placed[b] # "client", TransientFor[b] # a
               PROVE  Over(n.xstack, a, b)
    BY DEF AboveRight
  <2>1. CASE b = t
    BY <1>1, <1>2, <1>5, <1>6, <1>7, <2>1 DEF Good, Flags
  <2>2. CASE b # t
    BY <1>1, <1>5, <1>6, <2>2 DEF Right, AboveRight
  <2> QED
    BY <2>1, <2>2
<1> QED
  BY <1>7, <1>8, <1>9 DEF Right

-----------------------------------------------------------------------------
(* KeepOnTop                                                               *)

\* What KeepOnTop says of the first n windows of the focus list.
KeptUp(s, list, f, n) == f = [k \in 0..n |-> IF k = 0 THEN s ELSE Kept(f[k - 1], list, k)]

LEMMA KeptExists == \A s, list : \A n \in Nat : \E f : KeptUp(s, list, f, n)
<1> SUFFICES ASSUME NEW s, NEW list PROVE \A n \in Nat : \E f : KeptUp(s, list, f, n)
  OBVIOUS
<1> DEFINE T == {n \in Nat : \E f : KeptUp(s, list, f, n)}
<1>1. 0 \in T
  <2> DEFINE f == [k \in 0..0 |-> s]
  <2>1. KeptUp(s, list, f, 0)
    BY DEF KeptUp
  <2> QED
    BY <2>1
<1>2. ASSUME NEW n \in Nat, n \in T PROVE n + 1 \in T
  <2>1. PICK f : KeptUp(s, list, f, n)
    BY <1>2
  <2> DEFINE g == [k \in 0..(n + 1) |-> IF k = n + 1 THEN Kept(f[n], list, n + 1) ELSE f[k]]
             h == [k \in 0..(n + 1) |-> IF k = 0 THEN s ELSE Kept(g[k - 1], list, k)]
  <2>2. \A k \in 0..n : g[k] = f[k]
    OBVIOUS
  <2>3. \A k \in 0..n : f[k] = IF k = 0 THEN s ELSE Kept(f[k - 1], list, k)
    BY <2>1 DEF KeptUp
  <2>4. ASSUME NEW k \in 0..(n + 1) PROVE g[k] = h[k]
    <3>1. CASE k = 0
      BY <3>1, <2>2, <2>3
    <3>2. CASE k \in 1..n
      <4>1. k \in 0..n /\ k - 1 \in 0..n /\ k # 0
        BY <3>2
      <4>2. h[k] = Kept(g[k - 1], list, k)
        BY <4>1
      <4> HIDE DEF g, h
      <4> QED
        BY <4>1, <4>2, <2>2, <2>3
    <3>3. CASE k = n + 1
      <4>1. n \in 0..n /\ k - 1 = n /\ k # 0
        BY <3>3
      <4>2. h[k] = Kept(g[n], list, n + 1)
        BY <3>3, <4>1
      <4>3. g[k] = Kept(f[n], list, n + 1)
        BY <3>3
      <4> HIDE DEF g, h
      <4> QED
        BY <4>1, <4>2, <4>3, <2>2
    <3> QED
      BY <3>1, <3>2, <3>3
  <2>5. g = h
    BY <2>4
  <2>6. KeptUp(s, list, g, n + 1)
    BY <2>5 DEF KeptUp
  <2> QED
    BY <2>6
<1>3. Nat \subseteq T
  <2> HIDE DEF T
  <2> QED
    BY <1>1, <1>2, NaturalInduction
<1> QED
  BY <1>3

\* The whole loop keeps the invariant: each of its steps is a RaiseWindow or nothing.
LEMMA KeepRight ==
  ASSUME NEW s, Right(s), NEW list, ListOf(s, list), NEW n, n = KeepOnTop(s, list)
  PROVE  Right(n) /\ OnlyOrder(s, n)
<1> DEFINE m == Len(list)
           f == CHOOSE f : KeptUp(s, list, f, m)
<1>0. m \in Nat
  BY DEF ListOf
<1>1. \E g : KeptUp(s, list, g, m)
  BY <1>0, KeptExists
<1>2. KeptUp(s, list, f, m)
  BY <1>1
<1>3. n = f[m]
  BY DEF KeepOnTop, KeptUp
<1> HIDE DEF f
<1> DEFINE T == {k \in Nat : k <= m => Right(f[k]) /\ OnlyOrder(s, f[k])}
<1>4. 0 \in T
  BY <1>0, <1>2 DEF KeptUp, OnlyOrder
<1>5. ASSUME NEW k \in Nat, k \in T PROVE k + 1 \in T
  <2> SUFFICES ASSUME k + 1 <= m PROVE Right(f[k + 1]) /\ OnlyOrder(s, f[k + 1])
    OBVIOUS
  <2> DEFINE r == f[k]
             t == list[k + 1]
  <2>1. k + 1 \in 0..m /\ k + 1 \in 1..m /\ k + 1 # 0 /\ (k + 1) - 1 = k /\ k <= m
    BY <1>0
  <2>2. f[k + 1] = Kept(r, list, k + 1)
    BY <1>2, <2>1 DEF KeptUp
  <2>3. Right(r) /\ OnlyOrder(s, r)
    BY <1>5, <2>1
  <2>4. ListOf(r, list)
    BY <2>3, SameList DEF OnlyOrder
  <2>5. f[k + 1] = IF t \in r.ONTOP \ r.VISIBLE THEN RaiseWindow(r, t, list) ELSE r
    BY <2>2 DEF Kept
  <2> HIDE DEF r, t
  <2>6. CASE t \in r.ONTOP \ r.VISIBLE
    <3>1. t \in Managed(r)
      BY <2>3, <2>6 DEF Right, Good, Flags
    <3>2. Right(f[k + 1]) /\ OnlyOrder(r, f[k + 1])
      BY <2>3, <2>4, <2>5, <2>6, <3>1, RaiseRight
    <3> QED
      BY <2>3, <3>2 DEF OnlyOrder
  <2>7. CASE ~(t \in r.ONTOP \ r.VISIBLE)
    BY <2>3, <2>5, <2>7
  <2> QED
    BY <2>6, <2>7
<1>6. Nat \subseteq T
  <2> HIDE DEF T
  <2> QED
    BY <1>4, <1>5, NaturalInduction
<1>7. m \in T
  BY <1>0, <1>6
<1> QED
  BY <1>3, <1>7

-----------------------------------------------------------------------------
(* Routines that leave the order alone                                     *)

\* The invariant stays when order, flags ONTOP and history do.
LEMMA SameOrderRight ==
  ASSUME NEW s, Right(s), NEW n \in WM, n.ring = s.ring, n.xstack = s.xstack, n.ONTOP = s.ONTOP,
         n.LastWindowRaised = s.LastWindowRaised, n.placed = s.placed,
         n.ICONIFIED \subseteq Managed(s) \ n.mapped,
         n.VISIBLE \cup n.frame \cup n.mapped \subseteq Managed(s), Queue(n)
  PROVE  Right(n) /\ Managed(n) = Managed(s)
<1>1. Managed(n) = Managed(s) /\ PlainOf(n) = PlainOf(s)
  BY DEF Managed, PlainOf
<1>2. Good(n)
  BY <1>1 DEF Right, Good, Orders, Flags
<1>3. RingRight(n) /\ AboveRight(n) /\ LastRight(n)
  BY <1>1 DEF Right, RingRight, AboveRight, LastRight
<1> QED
  BY <1>1, <1>2, <1>3 DEF Right

LEMMA ShownRight ==
  ASSUME NEW s, Right(s), NEW G \in SUBSET Managed(s), NEW n, n = Shown(s, G)
  PROVE  Right(n) /\ Managed(n) = Managed(s)
<1>1. s \in WM /\ Managed(s) \subseteq Windows
  BY WMFields DEF Right, Good, Managed, ToSet
<1>2. /\ n \in WM /\ n.ring = s.ring /\ n.xstack = s.xstack /\ n.ONTOP = s.ONTOP
      /\ n.LastWindowRaised = s.LastWindowRaised /\ n.placed = s.placed /\ n.queue = s.queue
      /\ n.ICONIFIED = s.ICONIFIED \ G /\ n.VISIBLE = s.VISIBLE
      /\ n.frame = s.frame \cup G /\ n.mapped = s.mapped \cup G
  BY <1>1 DEF Shown, WM
<1>3. Queue(n)
  BY <1>2 DEF Right, Good, Queue, Managed
<1> QED
  BY <1>2, <1>3, SameOrderRight DEF Right, Good, Flags

LEMMA HiddenRight ==
  ASSUME NEW s, Right(s), NEW G \in SUBSET Managed(s), NEW n, n = Hidden(s, G)
  PROVE  Right(n) /\ Managed(n) = Managed(s)
<1>1. s \in WM /\ Managed(s) \subseteq Windows
  BY WMFields DEF Right, Good, Managed, ToSet
<1>2. /\ n \in WM /\ n.ring = s.ring /\ n.xstack = s.xstack /\ n.ONTOP = s.ONTOP
      /\ n.LastWindowRaised = s.LastWindowRaised /\ n.placed = s.placed /\ n.queue = s.queue
      /\ n.ICONIFIED = s.ICONIFIED \cup G /\ n.VISIBLE = s.VISIBLE
      /\ n.frame = s.frame \ G /\ n.mapped = s.mapped \ G
  BY <1>1 DEF Hidden, WM
<1>3. Queue(n)
  BY <1>2 DEF Right, Good, Queue, Managed
<1> QED
  BY <1>2, <1>3, SameOrderRight DEF Right, Good, Flags

-----------------------------------------------------------------------------
(* What the server tells                                                   *)

LEMMA SomeOrder == SetToSeq(Windows) \in Seq(Windows)
<1> DEFINE N == Cardinality(Windows)
<1>1. N \in Nat /\ ExistsBijection(1..N, Windows)
  BY FS_CardinalityType, StackingAssumption
<1>2. \E f \in [1..N -> Windows] : IsInjective(f)
  BY <1>1 DEF ExistsBijection, Bijection, Injection
<1>3. SetToSeq(Windows) \in [1..N -> Windows]
  BY <1>2 DEF SetToSeq
<1> QED
  BY <1>1, <1>3

\* The events of managed windows.
EventsOf(s) == {e \in Events : e.win \in Managed(s)}

\* A list of events for windows that are managed.
LEMMA EventList ==
  ASSUME NEW s, NEW list \in Seq(Windows \cap Managed(s)), NEW type \in {"MapNotify", "VisibilityNotify"},
         NEW bits \in [DOMAIN list -> BOOLEAN],
         NEW e, e = [k \in DOMAIN list |-> [type |-> type, win |-> list[k], unobscured |-> bits[k]]]
  PROVE  e \in Seq(EventsOf(s))
<1>1. Len(list) \in Nat /\ DOMAIN list = 1..Len(list) /\ \A k \in 1..Len(list) : list[k] \in Windows \cap Managed(s)
  OBVIOUS
<1>2. \A k \in 1..Len(list) : [type |-> type, win |-> list[k], unobscured |-> bits[k]] \in EventsOf(s)
  BY <1>1 DEF EventsOf, Events
<1>3. e \in [1..Len(list) -> EventsOf(s)]
  BY <1>1, <1>2
<1> QED
  BY <1>1, <1>3

\* fvwm's events are of the windows it manages after the handler.
LEMMA ToldRight ==
  ASSUME NEW s, NEW n, Right(n), NEW u, u = Told(s, n)
  PROVE  Right(u)
<1> DEFINE some == SetToSeq(Windows)
           C == {w \in Windows :
                  Viewable(n, w) /\ (~Viewable(s, w) \/ Unobscured(n, w) # Unobscured(s, w))}
           maps == Those(some, n.mapped \ s.mapped)
           changes == Those(some, C)
           bm == [k \in DOMAIN maps |-> FALSE]
           bc == [k \in DOMAIN changes |-> Unobscured(n, changes[k])]
           em == [k \in DOMAIN maps |-> [type |-> "MapNotify", win |-> maps[k], unobscured |-> FALSE]]
           ec == [k \in DOMAIN changes |->
                   [type |-> "VisibilityNotify", win |-> changes[k], unobscured |-> Unobscured(n, changes[k])]]
           q == n.queue \o em \o ec
<1>1. some \in Seq(Windows)
  BY SomeOrder
<1>2. n.frame \cup n.mapped \subseteq Managed(n) /\ n \in WM /\ Managed(n) \subseteq Windows
  BY WMFields DEF Right, Good, Flags, Managed, ToSet
<1> HIDE DEF some
<1>3. maps \in Seq(Windows \cap Managed(n))
  <2>1. maps \in Seq(Windows \cap (n.mapped \ s.mapped))
    BY <1>1, ThoseType
  <2> HIDE DEF maps
  <2> QED
    BY <1>2, <2>1
<1>4. changes \in Seq(Windows \cap Managed(n))
  <2>1. changes \in Seq(Windows \cap C)
    BY <1>1, ThoseType
  <2>2. C \subseteq Managed(n)
    BY <1>2 DEF Viewable
  <2> HIDE DEF changes, C
  <2> QED
    BY <2>1, <2>2
<1>5. em \in Seq(EventsOf(n))
  <2>1. bm \in [DOMAIN maps -> BOOLEAN] /\ \A k \in DOMAIN maps : bm[k] = FALSE
    OBVIOUS
  <2>2. em = [k \in DOMAIN maps |-> [type |-> "MapNotify", win |-> maps[k], unobscured |-> bm[k]]]
    BY <2>1
  <2> HIDE DEF em, bm, maps
  <2> QED
    BY <1>3, <2>1, <2>2, EventList
<1>6. ec \in Seq(EventsOf(n))
  <2>1. bc \in [DOMAIN changes -> BOOLEAN] /\ \A k \in DOMAIN changes : bc[k] = Unobscured(n, changes[k])
    BY DEF Unobscured
  <2>2. ec = [k \in DOMAIN changes |-> [type |-> "VisibilityNotify", win |-> changes[k], unobscured |-> bc[k]]]
    BY <2>1
  <2> HIDE DEF ec, bc, changes
  <2> QED
    BY <1>4, <2>1, <2>2, EventList
<1>7. u = [n EXCEPT !.queue = q]
  BY DEF Told, some
<1> HIDE DEF em, ec
<1>8. n.queue \in Seq(EventsOf(n))
  <2>1. n.queue \in Seq(Events) /\ \A k \in DOMAIN n.queue : n.queue[k].win \in Managed(n)
    BY <1>2, WMFields DEF Right, Good, Queue
  <2>2. \A k \in DOMAIN n.queue : n.queue[k] \in EventsOf(n)
    BY <2>1 DEF EventsOf
  <2> QED
    BY <2>1, <2>2
<1>9. q \in Seq(EventsOf(n))
  BY <1>5, <1>6, <1>8
<1> HIDE DEF q
<1>10. q \in Seq(Events) /\ \A k \in DOMAIN q : q[k].win \in Managed(n)
  BY <1>9 DEF EventsOf
<1>11. /\ u \in WM /\ u.queue = q /\ u.ring = n.ring /\ u.xstack = n.xstack /\ u.ONTOP = n.ONTOP
       /\ u.LastWindowRaised = n.LastWindowRaised /\ u.placed = n.placed /\ u.ICONIFIED = n.ICONIFIED
       /\ u.VISIBLE = n.VISIBLE /\ u.frame = n.frame /\ u.mapped = n.mapped
  BY <1>2, <1>7, <1>10 DEF WM
<1>12. Queue(u)
  BY <1>10, <1>11 DEF Queue, Managed
<1> QED
  BY <1>11, <1>12, SameOrderRight DEF Right, Good, Flags

-----------------------------------------------------------------------------
(* What the handlers choose                                                *)

\* Every order of the windows KeepOnTop may raise lists each of them once.
LEMMA FocusListOf ==
  ASSUME NEW s, Good(s), NEW list \in FocusLists(s)
  PROVE  ListOf(s, list)
<1> DEFINE S == {w \in Managed(s) : w \in STAYSONTOP \/ TransientFor[w] # NoWindow}
           N == Cardinality(S)
<1>1. S \subseteq Windows
  BY WMFields DEF Good, Managed, ToSet
<1>2. IsFiniteSet(S)
  BY <1>1, StackingAssumption, FS_Subset
<1>3. N \in Nat
  BY <1>2, FS_CardinalityType
<1>4. list \in [1..N -> S] /\ \A i, j \in 1..N : i # j => list[i] # list[j]
  BY DEF FocusLists, SetToSeqs
<1> HIDE DEF S
<1>5. IsInjective(list)
  BY <1>4 DEF IsInjective
<1>6. list \in Injection(1..N, S)
  BY <1>4, <1>5 DEF Injection
<1>7. IsFiniteSet(1..N) /\ Cardinality(1..N) = N
  <2>1. 1 \in Int /\ N \in Int
    BY <1>3
  <2>2. Cardinality(1..N) = IF 1 > N THEN 0 ELSE N - 1 + 1
    BY <2>1, FS_Interval
  <2>3. IsFiniteSet(1..N)
    BY <2>1, FS_Interval
  <2> QED
    BY <1>3, <2>2, <2>3
<1>8. list \in Surjection(1..N, S)
  BY <1>2, <1>6, <1>7, FS_Injection
<1>9. ToSet(list) = S
  BY <1>4, <1>8 DEF Surjection, ToSet
<1>10. list \in Seq(Windows)
  BY <1>1, <1>3, <1>4
<1> QED
  BY <1>5, <1>9, <1>10 DEF ListOf, S

\* Wherever a window lies, two different windows overlap or not.
LEMMA LayoutPairs ==
  ASSUME NEW s \in WM, NEW w \in Windows, NEW overlap \in Layouts(s, w)
  PROVE  overlap \subseteq Pairs
<1>1. PICK T \in SUBSET (Managed(s) \ {w}) :
        overlap = {p \in s.overlap : w \notin p} \cup {{w, t} : t \in T}
  BY DEF Layouts
<1>2. Managed(s) \subseteq Windows /\ s.overlap \subseteq Pairs
  BY WMFields DEF Managed, ToSet
<1>3. ASSUME NEW t \in T PROVE {w, t} \in Pairs
  <2>1. t # w /\ t \in Windows
    BY <1>2
  <2>2. IsFiniteSet({w}) /\ Cardinality({w}) = 1
    BY FS_Singleton
  <2>3. Cardinality({w} \cup {t}) = 2
    <3>1. Cardinality({w} \cup {t}) = IF t \in {w} THEN Cardinality({w}) ELSE Cardinality({w}) + 1
      BY <2>2, FS_AddElement
    <3> QED
      BY <2>1, <2>2, <3>1
  <2>4. {w} \cup {t} = {w, t}
    OBVIOUS
  <2> QED
    BY <2>1, <2>3, <2>4 DEF Pairs
<1> QED
  BY <1>1, <1>2, <1>3

\* p is q with w somewhere in it.
Replaced(q, w, p) ==
  /\ p \in Seq(Windows)
  /\ ToSet(p) = ToSet(q) \cup {w}
  /\ IsInjective(q) => IsInjective(p)
  /\ \A a, b : a # w /\ b # w => (Over(p, a, b) <=> Over(q, a, b))

LEMMA InsertFacts ==
  ASSUME NEW q \in Seq(Windows), NEW w \in Windows, w \notin ToSet(q), NEW k \in 1..(Len(q) + 1)
  PROVE  Replaced(q, w, InsertAt(q, k, w))
<1> DEFINE u == SubSeq(q, 1, k - 1)
           v == SubSeq(q, k, Len(q))
           l == Single(w)
           ul == u \o l
           p == ul \o v
<1>1. u \in Seq(Windows) /\ v \in Seq(Windows) /\ q = u \o v
  <2>1. Len(q) \in Nat /\ 1 \in 1..(Len(q) + 1) /\ k - 1 \in (1 - 1)..Len(q) /\ Len(q) \in (k - 1)..Len(q)
        /\ (k - 1) + 1 = k
    OBVIOUS
  <2>2. SubSeq(q, 1, k - 1) \o SubSeq(q, (k - 1) + 1, Len(q)) = SubSeq(q, 1, Len(q))
    BY <2>1, ConcatAdjacentSubSeq
  <2>3. SubSeq(q, 1, Len(q)) = q
    BY SubSeqFull
  <2>4. \A i \in 1..Len(q) : q[i] \in Windows
    OBVIOUS
  <2>5. u \in Seq(Windows)
    BY <2>1, <2>4, SubSeqProperties
  <2>6. v \in Seq(Windows)
    BY <2>1, <2>4, SubSeqProperties
  <2> QED
    BY <2>1, <2>2, <2>3, <2>5, <2>6
<1>2. l \in Seq(Windows) /\ ToSet(l) = {w} /\ \A a, b : ~Over(l, a, b)
  BY MembersSingle, OverSingle DEF Single
<1>3. InsertAt(q, k, w) = p
  BY DEF InsertAt, Single
<1> HIDE DEF u, v, l
<1>4. /\ ToSet(q) = ToSet(u) \cup ToSet(v)
      /\ \A a, b : Over(q, a, b) <=> Over(u, a, b) \/ Over(v, a, b) \/ (a \in ToSet(u) /\ b \in ToSet(v))
  BY <1>1, MembersConcat, OverConcat
<1>5. /\ ul \in Seq(Windows) /\ ToSet(ul) = ToSet(u) \cup {w}
      /\ \A a, b : Over(ul, a, b) <=> Over(u, a, b) \/ (a \in ToSet(u) /\ b = w)
  BY <1>1, <1>2, MembersConcat, OverConcat
<1> HIDE DEF ul
<1>6. /\ p \in Seq(Windows) /\ ToSet(p) = ToSet(ul) \cup ToSet(v)
      /\ \A a, b : Over(p, a, b) <=> Over(ul, a, b) \/ Over(v, a, b) \/ (a \in ToSet(ul) /\ b \in ToSet(v))
  BY <1>1, <1>5, MembersConcat, OverConcat
<1> HIDE DEF p
<1>7. \A a, b : a # w /\ b # w => (Over(p, a, b) <=> Over(q, a, b))
  BY <1>4, <1>5, <1>6
<1>8. ASSUME IsInjective(q) PROVE IsInjective(p)
  <2>1. \A a \in Windows : ~Over(q, a, a)
    BY <1>8, OnceOver
  <2>2. ~Over(u, w, w) /\ ~Over(v, w, w) /\ w \notin ToSet(u) /\ w \notin ToSet(v)
    BY <1>4, OverMembers
  <2>3. ~Over(p, w, w)
    BY <1>5, <1>6, <2>2
  <2>4. \A a \in Windows : ~Over(p, a, a)
    BY <1>7, <2>1, <2>3
  <2> QED
    BY <1>6, <2>4, OnceOver
<1> QED
  BY <1>3, <1>4, <1>5, <1>6, <1>7, <1>8 DEF Replaced

LEMMA PlaceFacts ==
  ASSUME NEW q \in Seq(Windows), NEW w \in ToSet(q), NEW p \in Places(q, w)
  PROVE  /\ p \in Seq(Windows) /\ ToSet(p) = ToSet(q)
         /\ IsInjective(q) => IsInjective(p)
         /\ \A a, b : a # w /\ b # w => (Over(p, a, b) <=> Over(q, a, b))
<1> DEFINE r == Outside(q, {w})
<1>1. /\ r \in Seq(Windows) /\ ToSet(r) = ToSet(q) \ {w}
      /\ IsInjective(q) => IsInjective(r)
      /\ \A a, b : Over(r, a, b) <=> Over(q, a, b) /\ a \notin {w} /\ b \notin {w}
  BY OutsideFacts
<1>2. PICK k \in 1..(Len(r) + 1) : p = InsertAt(r, k, w)
  BY DEF Places
<1>3. w \in Windows
  BY DEF ToSet
<1> HIDE DEF r
<1>4. Replaced(r, w, p)
  BY <1>1, <1>2, <1>3, InsertFacts
<1> QED
  BY <1>1, <1>4 DEF Replaced

PutAt(s, w, q, overlap) == [s EXCEPT !.overlap = overlap, !.xstack = q, !.placed[w] = "client"]

\* A client puts its window anywhere.
LEMMA PlacedRight ==
  ASSUME NEW s, Right(s), NEW w \in Managed(s), NEW overlap \in SUBSET Pairs, NEW q \in Places(s.xstack, w),
         NEW n, n = PutAt(s, w, q, overlap)
  PROVE  Right(n) /\ Managed(n) = Managed(s)
<1>1. /\ s \in WM /\ s.xstack \in Seq(Windows) /\ ToSet(s.xstack) = Managed(s) /\ IsInjective(s.xstack)
      /\ Managed(s) \subseteq Windows
      /\ s.placed \in [Windows -> {"raised", "lowered", "iconified", "client"}]
  BY WMFields DEF Right, Good, Orders, Managed, ToSet
<1>2. /\ q \in Seq(Windows) /\ ToSet(q) = Managed(s) /\ IsInjective(q)
      /\ \A a, b : a # w /\ b # w => (Over(q, a, b) <=> Over(s.xstack, a, b))
  BY <1>1, PlaceFacts
<1> DEFINE p == [s.placed EXCEPT ![w] = "client"]
<1>3. /\ p \in [Windows -> {"raised", "lowered", "iconified", "client"}]
      /\ \A a \in Windows : p[a] = IF a = w THEN "client" ELSE s.placed[a]
  BY <1>1
<1>4. n = [s EXCEPT !.overlap = overlap, !.xstack = q, !.placed = p]
  BY DEF PutAt
<1> HIDE DEF p
<1>5. /\ n \in WM /\ n.overlap = overlap /\ n.xstack = q /\ n.placed = p
      /\ n.ring = s.ring /\ n.ONTOP = s.ONTOP /\ n.ICONIFIED = s.ICONIFIED /\ n.VISIBLE = s.VISIBLE
      /\ n.LastWindowRaised = s.LastWindowRaised /\ n.frame = s.frame /\ n.mapped = s.mapped
      /\ n.queue = s.queue
  BY <1>1, <1>2, <1>3, <1>4 DEF WM
<1>6. Managed(n) = Managed(s)
  BY <1>2, <1>5 DEF Managed
<1>7. Good(n)
  BY <1>2, <1>5, <1>6 DEF Right, Good, Orders, Flags, Queue
<1>8. \A a \in PlainOf(n) : a \in PlainOf(s) /\ a # w
  BY <1>1, <1>3, <1>5, <1>6 DEF PlainOf
<1>9. RingRight(n)
  BY <1>2, <1>5, <1>8 DEF Right, RingRight
<1>10. AboveRight(n)
  <2> SUFFICES ASSUME NEW a \in n.ONTOP, NEW b \in Managed(n) \ n.ONTOP,
                      n.placed[a] = "raised", n.placed[b] # "client", TransientFor[b] # a
               PROVE  Over(n.xstack, a, b)
    BY DEF AboveRight
  <2>1. a \in Windows /\ b \in Windows
    BY <1>1, <1>6, <1>7 DEF Good, Flags
  <2>2. a # w /\ b # w /\ s.placed[a] = "raised" /\ s.placed[b] # "client"
    BY <1>3, <1>5, <2>1
  <2> QED
    BY <1>2, <1>5, <1>6, <2>2 DEF Right, AboveRight
<1>11. LastRight(n)
  <2> SUFFICES ASSUME n.LastWindowRaised \in Windows, n.placed[n.LastWindowRaised] # "client",
                      NEW a \in PlainOf(n), a # n.LastWindowRaised
               PROVE  Over(n.xstack, n.LastWindowRaised, a)
    BY DEF LastRight
  <2>1. n.LastWindowRaised # w /\ s.placed[s.LastWindowRaised] # "client"
    BY <1>3, <1>5
  <2> QED
    BY <1>2, <1>5, <1>8, <2>1 DEF Right, LastRight
<1> QED
  BY <1>6, <1>7, <1>9, <1>10, <1>11 DEF Right

LEMMA GoodFacts ==
  ASSUME NEW s, Good(s)
  PROVE  /\ s \in WM /\ s.ring \in Seq(Windows) /\ s.xstack \in Seq(Windows)
         /\ ToSet(s.xstack) = Managed(s) /\ ToSet(s.ring) = Managed(s)
         /\ IsInjective(s.ring) /\ IsInjective(s.xstack) /\ Managed(s) \subseteq Windows
         /\ s.LastWindowRaised \in Managed(s) \cup {NoWindow, Freed}
         /\ s.placed \in [Windows -> {"raised", "lowered", "iconified", "client"}]
<1>1. /\ s \in WM /\ ToSet(s.ring) = Managed(s) /\ IsInjective(s.ring) /\ IsInjective(s.xstack)
      /\ s.LastWindowRaised \in Managed(s) \cup {NoWindow, Freed}
  BY DEF Good, Orders, Flags
<1>2. /\ s.ring \in Seq(Windows) /\ s.xstack \in Seq(Windows)
      /\ s.placed \in [Windows -> {"raised", "lowered", "iconified", "client"}]
  BY <1>1, WMFields
<1>3. ToSet(s.xstack) = Managed(s)
  BY DEF Managed
<1>4. Managed(s) \subseteq Windows
  BY <1>2, <1>3 DEF ToSet
<1> QED
  BY <1>1, <1>2, <1>3, <1>4

-----------------------------------------------------------------------------
(* AddWindow and Destroy                                                   *)

\* A new window, not raised yet, may lie above windows that stay on top; the
\* pointer to the last window raised may be one to the new window.
LEMMA AddedGood ==
  ASSUME NEW s, Right(s), NEW w \in Windows \ Managed(s), NEW r \in AddressedAs(s, w),
         NEW n, n = Added(r, w)
  PROVE  /\ Good(n) /\ RingRight(n) /\ Managed(n) = Managed(s) \cup {w}
         /\ LastRight(n) \/ n.LastWindowRaised = w \/ w \notin n.ONTOP
<1>1. /\ s \in WM /\ s.ring \in Seq(Windows) /\ s.xstack \in Seq(Windows)
      /\ ToSet(s.xstack) = Managed(s) /\ ToSet(s.ring) = Managed(s)
      /\ IsInjective(s.ring) /\ IsInjective(s.xstack) /\ Managed(s) \subseteq Windows
      /\ s.LastWindowRaised \in Managed(s) \cup {NoWindow, Freed}
  BY GoodFacts DEF Right
<1> DEFINE top == Single(w)
           ring == top \o s.ring
           stack == top \o s.xstack
           last == r.LastWindowRaised
           on == IF w \in STAYSONTOP THEN s.ONTOP \cup {w} ELSE s.ONTOP
<1>2. last \in {s.LastWindowRaised, w}
  BY <1>1 DEF AddressedAs, WM
<1>3. n = [s EXCEPT !.ring = ring, !.xstack = stack, !.LastWindowRaised = last, !.ONTOP = on]
  <2>1. CASE r = s
    BY <1>1, <2>1 DEF Added, Single, WM
  <2>2. CASE r = [s EXCEPT !.LastWindowRaised = w]
    BY <1>1, <2>2 DEF Added, Single, WM
  <2> QED
    BY <2>1, <2>2 DEF AddressedAs
<1>4. top \in Seq(Windows) /\ ToSet(top) = {w} /\ \A a, b : ~Over(top, a, b)
  BY MembersSingle, OverSingle DEF Single
<1> HIDE DEF top
<1>5. /\ ring \in Seq(Windows) /\ ToSet(ring) = Managed(s) \cup {w}
      /\ \A a, b : Over(ring, a, b) <=> Over(s.ring, a, b) \/ (a = w /\ b \in Managed(s))
  BY <1>1, <1>4, MembersConcat, OverConcat
<1>6. /\ stack \in Seq(Windows) /\ ToSet(stack) = Managed(s) \cup {w}
      /\ \A a, b : Over(stack, a, b) <=> Over(s.xstack, a, b) \/ (a = w /\ b \in Managed(s))
  BY <1>1, <1>4, MembersConcat, OverConcat
<1>7. last \in Windows \cup {NoWindow, Freed} /\ on \subseteq Windows
  BY <1>1, <1>2, WMFields
<1> HIDE DEF ring, stack, last, on
<1>8. /\ n \in WM /\ n.ring = ring /\ n.xstack = stack /\ n.LastWindowRaised = last /\ n.ONTOP = on
      /\ n.ICONIFIED = s.ICONIFIED /\ n.VISIBLE = s.VISIBLE /\ n.frame = s.frame
      /\ n.mapped = s.mapped /\ n.queue = s.queue /\ n.placed = s.placed
  BY <1>1, <1>3, <1>5, <1>6, <1>7 DEF WM
<1>9. Managed(n) = Managed(s) \cup {w}
  BY <1>6, <1>8 DEF Managed
<1>10. \A a \in Windows : ~Over(s.ring, a, a) /\ ~Over(s.xstack, a, a)
  BY <1>1, OnceOver
<1>11. ~Over(s.ring, w, w) /\ ~Over(s.xstack, w, w)
  BY <1>1, OverMembers
<1>12. Orders(n)
  <2>1. \A a \in Windows : ~Over(ring, a, a) /\ ~Over(stack, a, a)
    BY <1>5, <1>6, <1>10
  <2>2. IsInjective(ring) /\ IsInjective(stack)
    BY <1>5, <1>6, <2>1, OnceOver
  <2> QED
    BY <1>5, <1>8, <1>9, <2>2 DEF Orders
<1>13. Flags(n)
  <2>1. on \subseteq STAYSONTOP \cap Managed(n)
    BY <1>9 DEF on, Right, Good, Flags
  <2> QED
    BY <1>1, <1>2, <1>8, <1>9, <2>1 DEF Right, Good, Flags
<1>14. Queue(n)
  BY <1>8, <1>9 DEF Right, Good, Queue
<1>15. \A a \in PlainOf(n) : a = w \/ a \in PlainOf(s)
  BY <1>8, <1>9 DEF PlainOf
<1>16. RingRight(n)
  <2> SUFFICES ASSUME NEW a \in PlainOf(n), NEW b \in PlainOf(n), Over(ring, a, b)
               PROVE  Over(stack, a, b)
    BY <1>8 DEF RingRight
  <2>1. CASE a = w /\ b \in Managed(s)
    BY <1>6, <2>1
  <2>2. CASE Over(s.ring, a, b)
    <3>1. a \in Managed(s) /\ b \in Managed(s)
      BY <1>1, <2>2, OverMembers
    <3>2. a \in PlainOf(s) /\ b \in PlainOf(s)
      BY <1>15, <3>1
    <3> QED
      BY <1>6, <2>2, <3>2 DEF Right, RingRight
  <2> QED
    BY <1>5, <2>1, <2>2
<1>17. LastRight(n) \/ last = w \/ w \notin on
  <2> SUFFICES ASSUME last # w, w \in on PROVE LastRight(n)
    OBVIOUS
  <2>1. w \in STAYSONTOP
    BY DEF on, Right, Good, Flags
  <2>2. \A a \in PlainOf(n) : a \in PlainOf(s)
    BY <1>15, <2>1 DEF PlainOf
  <2>3. last = s.LastWindowRaised
    BY <1>2
  <2> QED
    BY <1>6, <1>8, <2>2, <2>3 DEF Right, LastRight
<1> QED
  BY <1>8, <1>9, <1>12, <1>13, <1>14, <1>16, <1>17 DEF Good

\* AddWindow raises the new window, which mends both.
LEMMA AddedRight ==
  ASSUME NEW s, Right(s), NEW w \in Windows \ Managed(s), NEW r \in AddressedAs(s, w),
         NEW list, ListOf(Added(r, w), list), NEW n, n = RaiseWindow(Added(r, w), w, list)
  PROVE  Right(n) /\ Managed(n) = Managed(s) \cup {w}
<1> DEFINE a == Added(r, w)
<1>1. /\ Good(a) /\ RingRight(a) /\ Managed(a) = Managed(s) \cup {w}
      /\ LastRight(a) \/ a.LastWindowRaised = w \/ w \notin a.ONTOP
  BY AddedGood
<1> HIDE DEF a
<1>2. ListOf(a, list) /\ n = RaiseWindow(a, w, list) /\ w \in Managed(a)
  BY <1>1 DEF a
<1>3. Good(n) /\ OnlyOrder(a, n)
  BY <1>1, <1>2, RaiseGood
<1>4. RingRight(n)
  BY <1>1, <1>2, RaiseRing
<1>5. AboveRight(n)
  BY <1>1, <1>2, RaiseAbove
<1>6. LastRight(n)
  BY <1>1, <1>2, RaiseLast
<1> QED
  BY <1>1, <1>3, <1>4, <1>5, <1>6 DEF Right, OnlyOrder

\* fvwm forgets a window it has no more events of.
LEMMA DestroyedRight ==
  ASSUME NEW s, Right(s), NEW w \in Managed(s), \A k \in DOMAIN s.queue : s.queue[k].win # w,
         NEW n, n = Destroyed(s, w)
  PROVE  Right(n)
<1>1. /\ s \in WM /\ s.ring \in Seq(Windows) /\ s.xstack \in Seq(Windows)
      /\ ToSet(s.xstack) = Managed(s) /\ ToSet(s.ring) = Managed(s)
      /\ IsInjective(s.ring) /\ IsInjective(s.xstack) /\ Managed(s) \subseteq Windows
      /\ s.LastWindowRaised \in Managed(s) \cup {NoWindow, Freed}
      /\ s.placed \in [Windows -> {"raised", "lowered", "iconified", "client"}]
  BY GoodFacts DEF Right
<1> DEFINE ring == Outside(s.ring, {w})
           stack == Outside(s.xstack, {w})
           last == IF s.LastWindowRaised = w THEN Freed ELSE s.LastWindowRaised
           p == [s.placed EXCEPT ![w] = "raised"]
           over == {x \in s.overlap : w \notin x}
<1>2. /\ ring \in Seq(Windows) /\ ToSet(ring) = Managed(s) \ {w} /\ IsInjective(ring)
      /\ \A a, b : Over(ring, a, b) <=> Over(s.ring, a, b) /\ a \notin {w} /\ b \notin {w}
  BY <1>1, OutsideFacts
<1>3. /\ stack \in Seq(Windows) /\ ToSet(stack) = Managed(s) \ {w} /\ IsInjective(stack)
      /\ \A a, b : Over(stack, a, b) <=> Over(s.xstack, a, b) /\ a \notin {w} /\ b \notin {w}
  BY <1>1, OutsideFacts
<1>4. /\ p \in [Windows -> {"raised", "lowered", "iconified", "client"}]
      /\ \A a \in Windows \ {w} : p[a] = s.placed[a]
  BY <1>1
<1>5. last \in Windows \cup {NoWindow, Freed} /\ last # w /\ (last \in Windows => last = s.LastWindowRaised)
  BY <1>1, StackingAssumption
<1>6. over \subseteq Pairs
  BY <1>1, WMFields
<1> DEFINE on == s.ONTOP \ {w}
           icons == s.ICONIFIED \ {w}
           seen == s.VISIBLE \ {w}
           frames == s.frame \ {w}
           maps == s.mapped \ {w}
<1>7. /\ on \subseteq Windows /\ icons \subseteq Windows /\ seen \subseteq Windows
      /\ frames \subseteq Windows /\ maps \subseteq Windows
  BY <1>1, WMFields
<1>8. n = [s EXCEPT !.ring = ring, !.xstack = stack, !.ONTOP = on, !.ICONIFIED = icons, !.VISIBLE = seen,
                    !.frame = frames, !.mapped = maps, !.overlap = over, !.LastWindowRaised = last,
                    !.placed = p]
  BY DEF Destroyed
<1> HIDE DEF ring, stack, last, p, over, on, icons, seen, frames, maps
<1> DEFINE s1 == [s EXCEPT !.ring = ring, !.xstack = stack, !.ONTOP = on, !.ICONIFIED = icons]
           s2 == [s1 EXCEPT !.VISIBLE = seen, !.frame = frames, !.mapped = maps]
<1>9. n = [s2 EXCEPT !.overlap = over, !.LastWindowRaised = last, !.placed = p]
  BY <1>8
<1>10. /\ s1 \in WM /\ s1.ring = ring /\ s1.xstack = stack /\ s1.ONTOP = on /\ s1.ICONIFIED = icons
      /\ s1.queue = s.queue
  BY <1>1, <1>2, <1>3, <1>7 DEF WM
<1> HIDE DEF s1
<1>11. /\ s2 \in WM /\ s2.ring = ring /\ s2.xstack = stack /\ s2.ONTOP = on /\ s2.ICONIFIED = icons
      /\ s2.VISIBLE = seen /\ s2.frame = frames /\ s2.mapped = maps /\ s2.queue = s.queue
  BY <1>10, <1>7 DEF WM
<1> HIDE DEF s2
<1>12. /\ n \in WM /\ n.ring = ring /\ n.xstack = stack /\ n.LastWindowRaised = last /\ n.placed = p
      /\ n.ONTOP = on /\ n.ICONIFIED = icons /\ n.VISIBLE = seen
      /\ n.frame = frames /\ n.mapped = maps /\ n.queue = s.queue
  BY <1>9, <1>11, <1>4, <1>5, <1>6 DEF WM
<1>13. /\ n \in WM /\ n.ring = ring /\ n.xstack = stack /\ n.LastWindowRaised = last /\ n.placed = p
      /\ n.ONTOP = s.ONTOP \ {w} /\ n.ICONIFIED = s.ICONIFIED \ {w} /\ n.VISIBLE = s.VISIBLE \ {w}
      /\ n.frame = s.frame \ {w} /\ n.mapped = s.mapped \ {w} /\ n.queue = s.queue
  BY <1>12 DEF on, icons, seen, frames, maps
<1>14. Managed(n) = Managed(s) \ {w}
  BY <1>3, <1>13 DEF Managed
<1>15. Orders(n)
  BY <1>2, <1>3, <1>13, <1>14 DEF Orders
<1>16. Flags(n)
  <2>1. last \in Managed(n) \cup {NoWindow, Freed}
    BY <1>1, <1>5, <1>14 DEF last
  <2> QED
    BY <1>13, <1>14, <2>1 DEF Right, Good, Flags
<1>17. Queue(n)
  BY <1>13, <1>14 DEF Right, Good, Queue
<1>18. \A a \in PlainOf(n) : a \in PlainOf(s) /\ a # w
  BY <1>1, <1>4, <1>13, <1>14 DEF PlainOf
<1>19. RingRight(n)
  BY <1>2, <1>3, <1>13, <1>18 DEF Right, RingRight
<1>20. AboveRight(n)
  <2> SUFFICES ASSUME NEW a \in n.ONTOP, NEW b \in Managed(n) \ n.ONTOP,
                      n.placed[a] = "raised", n.placed[b] # "client", TransientFor[b] # a
               PROVE  Over(n.xstack, a, b)
    BY DEF AboveRight
  <2>1. a \in Windows \ {w} /\ b \in Windows \ {w} /\ a \in s.ONTOP /\ b \in Managed(s) \ s.ONTOP
    BY <1>1, <1>13, <1>14, <1>16 DEF Flags
  <2> QED
    BY <1>3, <1>4, <1>13, <2>1 DEF Right, AboveRight
<1>21. LastRight(n)
  <2> SUFFICES ASSUME last \in Windows, n.placed[last] # "client", NEW a \in PlainOf(n), a # last
               PROVE  Over(n.xstack, last, a)
    BY <1>13 DEF LastRight
  <2>1. last = s.LastWindowRaised /\ last # w /\ s.placed[last] # "client"
    BY <1>4, <1>5, <1>13
  <2> QED
    BY <1>3, <1>13, <1>18, <2>1 DEF Right, LastRight
<1> QED
  BY <1>13, <1>15, <1>16, <1>17, <1>19, <1>20, <1>21 DEF Right, Good

-----------------------------------------------------------------------------
(* Handlers and commands                                                   *)

\* Two windows overlap or no longer do.
LEMMA MovedRight ==
  ASSUME NEW s, Right(s), NEW overlap \in SUBSET Pairs, NEW n, n = [s EXCEPT !.overlap = overlap]
  PROVE  Right(n) /\ Managed(n) = Managed(s)
<1>1. s \in WM
  BY DEF Right, Good
<1>2. /\ n \in WM /\ n.ring = s.ring /\ n.xstack = s.xstack /\ n.ONTOP = s.ONTOP
      /\ n.LastWindowRaised = s.LastWindowRaised /\ n.placed = s.placed /\ n.queue = s.queue
      /\ n.ICONIFIED = s.ICONIFIED /\ n.VISIBLE = s.VISIBLE
      /\ n.frame = s.frame /\ n.mapped = s.mapped
  BY <1>1 DEF WM
<1>3. Queue(n)
  BY <1>2 DEF Right, Good, Queue, Managed
<1> QED
  BY <1>2, <1>3, SameOrderRight DEF Right, Good, Flags

LEMMA DeiconifiedRight ==
  ASSUME NEW s, Right(s), NEW w \in Managed(s), NEW list, ListOf(s, list),
         NEW n, n = Deiconified(s, w, list)
  PROVE  Right(n)
<1> DEFINE r == RaiseWindow(s, w, list)
           u == Shown(r, Group(s, w))
<1>1. Right(r) /\ Managed(r) = Managed(s)
  BY RaiseRight DEF OnlyOrder
<1>2. Group(s, w) \in SUBSET Managed(r)
  BY <1>1 DEF Group, Transients
<1>3. n = KeepOnTop(u, list)
  BY DEF Deiconified
<1> HIDE DEF r
<1>4. Right(u) /\ Managed(u) = Managed(r)
  BY <1>1, <1>2, ShownRight
<1> HIDE DEF u
<1>5. ListOf(u, list)
  BY <1>1, <1>4, SameList
<1> QED
  BY <1>3, <1>4, <1>5, KeepRight

\* A handler that ends with KeepOnTop.
LEMMA KeptRight ==
  ASSUME NEW s, Right(s), NEW list, ListOf(s, list), NEW n, Right(n), Managed(n) = Managed(s)
  PROVE  Right(KeepOnTop(n, list))
BY SameList, KeepRight

LEMMA MapNewRight ==
  ASSUME NEW w \in Windows, Right(wm), MapNew(w)
  PROVE  Right(wm')
<1>1. PICK overlap \in Layouts(wm, w), s \in AddressedAs(wm, w), list \in FocusLists(Added(wm, w)) :
        wm' = Told(wm, KeepOnTop([Shown(KeepOnTop(RaiseWindow(Added(s, w), w, list), list), {w})
                                     EXCEPT !.overlap = overlap], list))
  BY DEF MapNew, Handled
<1>2. w \in Windows \ Managed(wm)
  BY DEF MapNew
<1>3. Good(Added(wm, w)) /\ Managed(Added(wm, w)) = Managed(wm) \cup {w}
  <2>1. wm \in AddressedAs(wm, w)
    BY DEF AddressedAs
  <2> QED
    BY <1>2, <2>1, AddedGood
<1>4. Managed(Added(s, w)) = Managed(wm) \cup {w}
  BY <1>2, AddedGood
<1>5. ListOf(Added(s, w), list)
  BY <1>3, <1>4, FocusListOf, SameList
<1> DEFINE r == RaiseWindow(Added(s, w), w, list)
           k == KeepOnTop(r, list)
           u == Shown(k, {w})
           v == [u EXCEPT !.overlap = overlap]
           e == KeepOnTop(v, list)
<1>6. Right(r) /\ Managed(r) = Managed(wm) \cup {w}
  BY <1>2, <1>5, AddedRight
<1>7. ListOf(r, list)
  BY <1>4, <1>5, <1>6, SameList
<1> HIDE DEF r
<1>8. Right(k) /\ Managed(k) = Managed(r)
  BY <1>6, <1>7, KeepRight DEF OnlyOrder
<1> HIDE DEF k
<1>9. Right(u) /\ Managed(u) = Managed(r)
  <2>1. {w} \in SUBSET Managed(k)
    BY <1>6, <1>8
  <2> QED
    BY <1>8, <2>1, ShownRight
<1> HIDE DEF u
<1>10. Right(v) /\ Managed(v) = Managed(r)
  <2>1. overlap \in SUBSET Pairs
    BY LayoutPairs DEF Right, Good
  <2> QED
    BY <1>9, <2>1, MovedRight
<1> HIDE DEF v
<1>11. Right(e)
  BY <1>6, <1>7, <1>10, KeptRight
<1>12. wm' = Told(wm, e)
  BY <1>1 DEF e, v, u, k, r
<1> HIDE DEF e
<1> QED
  BY <1>11, <1>12, ToldRight

LEMMA MapAgainRight ==
  ASSUME NEW w \in Windows, Right(wm), MapAgain(w)
  PROVE  Right(wm')
<1>1. PICK list \in FocusLists(wm) :
        IF w \in wm.ICONIFIED THEN wm' = Told(wm, Deiconified(wm, w, list))
        ELSE wm' = Told(wm, KeepOnTop([wm EXCEPT !.mapped = @ \cup {w}, !.frame = @ \cup {w}], list))
  BY DEF MapAgain, Handled
<1>2. ListOf(wm, list) /\ w \in Managed(wm)
  BY FocusListOf DEF MapAgain, Right
<1>3. CASE w \in wm.ICONIFIED
  BY <1>1, <1>2, <1>3, DeiconifiedRight, ToldRight
<1>4. CASE w \notin wm.ICONIFIED
  <2> DEFINE n == [wm EXCEPT !.mapped = @ \cup {w}, !.frame = @ \cup {w}]
  <2>1. wm \in WM
    BY DEF Right, Good
  <2>2. /\ n \in WM /\ n.ring = wm.ring /\ n.xstack = wm.xstack /\ n.ONTOP = wm.ONTOP
        /\ n.LastWindowRaised = wm.LastWindowRaised /\ n.placed = wm.placed /\ n.queue = wm.queue
        /\ n.ICONIFIED = wm.ICONIFIED /\ n.VISIBLE = wm.VISIBLE
        /\ n.frame = wm.frame \cup {w} /\ n.mapped = wm.mapped \cup {w}
    <3>1. wm.frame \cup {w} \subseteq Windows /\ wm.mapped \cup {w} \subseteq Windows
      BY <2>1, WMFields
    <3> QED
      BY <2>1, <3>1 DEF WM
  <2>3. wm' = Told(wm, KeepOnTop(n, list))
    BY <1>1, <1>4
  <2> HIDE DEF n
  <2>4. Queue(n)
    BY <2>2 DEF Right, Good, Queue, Managed
  <2>5. Right(n) /\ Managed(n) = Managed(wm)
    BY <1>2, <1>4, <2>2, <2>4, SameOrderRight DEF Right, Good, Flags
  <2> QED
    BY <1>2, <2>3, <2>5, KeptRight, ToldRight
<1> QED
  BY <1>3, <1>4

LEMMA DestroyRight ==
  ASSUME NEW w \in Windows, Right(wm), Destroy(w)
  PROVE  Right(wm')
BY DestroyedRight, ToldRight DEF Destroy, Handled

LEMMA HandleConfigureRequestRight ==
  ASSUME NEW w \in Windows, Right(wm), HandleConfigureRequest(w)
  PROVE  Right(wm')
<1>1. PICK list \in FocusLists(wm), overlap \in IF w \in Movers THEN Layouts(wm, w) ELSE {wm.overlap} :
       \/ wm' = Told(wm, KeepOnTop([wm EXCEPT !.overlap = overlap], list))
       \/ \E q \in Places(wm.xstack, w) :
            wm' = Told(wm, KeepOnTop([wm EXCEPT !.overlap = overlap, !.xstack = q,
                                                !.placed[w] = "client"], list))
  BY DEF HandleConfigureRequest, Handled
<1>2. ListOf(wm, list) /\ w \in Managed(wm)
  BY FocusListOf DEF HandleConfigureRequest, Right
<1>3. overlap \in SUBSET Pairs
  <2>1. wm \in WM
    BY DEF Right, Good
  <2>2. CASE w \in Movers
    BY <1>1, <2>1, <2>2, LayoutPairs
  <2>3. CASE w \notin Movers
    BY <1>1, <2>1, <2>3, WMFields
  <2> QED
    BY <2>2, <2>3
<1>4. CASE wm' = Told(wm, KeepOnTop([wm EXCEPT !.overlap = overlap], list))
  <2> DEFINE n == [wm EXCEPT !.overlap = overlap]
  <2>1. Right(n) /\ Managed(n) = Managed(wm)
    BY <1>3, MovedRight
  <2> HIDE DEF n
  <2>2. Right(KeepOnTop(n, list))
    BY <1>2, <2>1, KeptRight
  <2> QED
    BY <1>4, <2>2, ToldRight DEF n
<1>5. ASSUME NEW q \in Places(wm.xstack, w),
             wm' = Told(wm, KeepOnTop([wm EXCEPT !.overlap = overlap, !.xstack = q,
                                                 !.placed[w] = "client"], list))
      PROVE  Right(wm')
  <2> DEFINE n == PutAt(wm, w, q, overlap)
  <2>0. wm' = Told(wm, KeepOnTop(n, list))
    BY <1>5 DEF PutAt
  <2>1. Right(n) /\ Managed(n) = Managed(wm)
    BY <1>2, <1>3, PlacedRight
  <2> HIDE DEF n
  <2>2. Right(KeepOnTop(n, list))
    BY <1>2, <2>1, KeptRight
  <2> QED
    BY <2>0, <2>2, ToldRight
<1> QED
  BY <1>1, <1>4, <1>5

LEMMA RaiseAndStyle ==
  ASSUME NEW w \in Managed(wm), Right(wm), NEW list \in FocusLists(wm),
         wm' = Told(wm, KeepOnTop(Styled(RaiseWindow(wm, w, list), w), list))
  PROVE  Right(wm')
<1>1. ListOf(wm, list)
  BY FocusListOf DEF Right
<1> DEFINE n == Styled(RaiseWindow(wm, w, list), w)
<1>2. Right(n) /\ Managed(n) = Managed(wm)
  BY <1>1, StyledRight
<1> HIDE DEF n
<1>3. Right(KeepOnTop(n, list))
  BY <1>1, <1>2, KeptRight
<1> QED
  BY <1>3, ToldRight DEF n

LEMMA LowerAndUnstyle ==
  ASSUME NEW w \in Managed(wm), Right(wm), wm' = Told(wm, Unstyled(LowerWindow(wm, w, "lowered"), w))
  PROVE  Right(wm')
BY UnstyledRight, ToldRight

LEMMA FocusRight ==
  ASSUME NEW w \in Windows, Right(wm), Focus(w)
  PROVE  Right(wm')
<1>1. PICK list \in FocusLists(wm) : wm' = Told(wm, KeepOnTop(RaiseWindow(wm, w, list), list))
  BY DEF Focus, Handled
<1>2. ListOf(wm, list) /\ w \in Managed(wm)
  BY FocusListOf DEF Focus, Right
<1> DEFINE n == RaiseWindow(wm, w, list)
<1>3. Right(n) /\ Managed(n) = Managed(wm)
  BY <1>2, RaiseRight DEF OnlyOrder
<1> HIDE DEF n
<1>4. Right(KeepOnTop(n, list))
  BY <1>2, <1>3, KeptRight
<1> QED
  BY <1>1, <1>4, ToldRight DEF n

LEMMA iconify_functionRight ==
  ASSUME NEW w \in Windows, Right(wm), iconify_function(w)
  PROVE  Right(wm')
<1>1. PICK list \in FocusLists(wm) :
        IF w \in wm.ICONIFIED THEN wm' = Told(wm, Deiconified(wm, w, list))
        ELSE wm' = Told(wm, KeepOnTop(LowerWindow(Hidden(wm, Group(wm, w)), w, "iconified"), list))
  BY DEF iconify_function, Handled
<1>2. ListOf(wm, list) /\ w \in Managed(wm)
  BY FocusListOf DEF iconify_function, Right
<1>3. CASE w \in wm.ICONIFIED
  BY <1>1, <1>2, <1>3, DeiconifiedRight, ToldRight
<1>4. CASE w \notin wm.ICONIFIED
  <2> DEFINE h == Hidden(wm, Group(wm, w))
             n == LowerWindow(h, w, "iconified")
  <2>1. Group(wm, w) \in SUBSET Managed(wm)
    BY <1>2 DEF Group, Transients
  <2>2. Right(h) /\ Managed(h) = Managed(wm)
    BY <2>1, HiddenRight
  <2> HIDE DEF h
  <2>3. Right(n) /\ Managed(n) = Managed(wm)
    BY <1>2, <2>2, LowerRight DEF OnlyOrder
  <2> HIDE DEF n
  <2>4. Right(KeepOnTop(n, list))
    BY <1>2, <2>3, KeptRight
  <2> QED
    BY <1>1, <1>4, <2>4, ToldRight DEF n, h
<1> QED
  BY <1>3, <1>4

LEMMA HandlePropertyNotifyRight ==
  ASSUME NEW w \in Windows, Right(wm), HandlePropertyNotify(w)
  PROVE  Right(wm')
<1>1. w \in Managed(wm)
  BY DEF HandlePropertyNotify, Right, Good, Flags
<1>2. wm' = Told(wm, LowerWindow(wm, w, "iconified"))
  BY DEF HandlePropertyNotify, Handled
<1> QED
  BY <1>1, <1>2, LowerRight, ToldRight

LEMMA move_windowRight ==
  ASSUME NEW w \in Windows, Right(wm), move_window(w)
  PROVE  Right(wm')
<1>1. PICK overlap \in Layouts(wm, w) : wm' = Told(wm, [wm EXCEPT !.overlap = overlap])
  BY DEF move_window, Handled
<1>2. overlap \in SUBSET Pairs
  BY LayoutPairs DEF Right, Good
<1> QED
  BY <1>1, <1>2, MovedRight, ToldRight

\* What is left of the events when the first has been read.
LEMMA DequeuedRight ==
  ASSUME NEW s, Right(s), s.queue # <<>>, NEW n, n = Dequeued(s)
  PROVE  Right(n) /\ Managed(n) = Managed(s) /\ Head(s.queue).win \in Managed(s)
<1>1. s \in WM /\ s.queue \in Seq(Events) /\ \A k \in DOMAIN s.queue : s.queue[k].win \in Managed(s)
  BY WMFields DEF Right, Good, Queue
<1> DEFINE q == Tail(s.queue)
<1>2. /\ q \in Seq(Events) /\ Len(q) = Len(s.queue) - 1 /\ DOMAIN q = 1..Len(q)
      /\ \A k \in 1..Len(q) : q[k] = s.queue[k + 1]
      /\ DOMAIN s.queue = 1..Len(s.queue) /\ Len(s.queue) \in Nat \ {0} /\ Head(s.queue) = s.queue[1]
  BY <1>1
<1> HIDE DEF q
<1>3. \A k \in DOMAIN q : q[k].win \in Managed(s)
  BY <1>1, <1>2
<1>4. /\ n \in WM /\ n.ring = s.ring /\ n.xstack = s.xstack /\ n.ONTOP = s.ONTOP
      /\ n.LastWindowRaised = s.LastWindowRaised /\ n.placed = s.placed /\ n.queue = q
      /\ n.ICONIFIED = s.ICONIFIED /\ n.VISIBLE = s.VISIBLE
      /\ n.frame = s.frame /\ n.mapped = s.mapped
  BY <1>1, <1>2 DEF WM, Dequeued, q
<1>5. Queue(n)
  BY <1>3, <1>4 DEF Queue, Managed
<1>6. Right(n) /\ Managed(n) = Managed(s)
  BY <1>4, <1>5, SameOrderRight DEF Right, Good, Flags
<1> QED
  BY <1>1, <1>2, <1>6

\* Only VISIBLE changes.
LEMMA SeenRight ==
  ASSUME NEW s, Right(s), NEW V \in SUBSET Managed(s), NEW n, n = [s EXCEPT !.VISIBLE = V]
  PROVE  Right(n)
<1>1. s \in WM /\ V \subseteq Windows
  BY WMFields DEF Right, Good, Managed, ToSet
<1>2. /\ n \in WM /\ n.ring = s.ring /\ n.xstack = s.xstack /\ n.ONTOP = s.ONTOP
      /\ n.LastWindowRaised = s.LastWindowRaised /\ n.placed = s.placed /\ n.queue = s.queue
      /\ n.ICONIFIED = s.ICONIFIED /\ n.VISIBLE = V
      /\ n.frame = s.frame /\ n.mapped = s.mapped
  BY <1>1 DEF WM
<1>3. Queue(n)
  BY <1>2 DEF Right, Good, Queue, Managed
<1> QED
  BY <1>2, <1>3, SameOrderRight DEF Right, Good, Flags

LEMMA HandleVisibilityNotifyRight ==
  ASSUME Right(wm), HandleVisibilityNotify
  PROVE  Right(wm')
<1> DEFINE w == Head(wm.queue).win
           d == Dequeued(wm)
           V == IF Head(wm.queue).unobscured THEN d.VISIBLE \cup {w} ELSE d.VISIBLE \ {w}
<1>1. wm.queue # <<>> /\ wm' = [d EXCEPT !.VISIBLE = V]
  BY DEF HandleVisibilityNotify
<1>2. Right(d) /\ Managed(d) = Managed(wm) /\ w \in Managed(wm)
  BY <1>1, DequeuedRight
<1> HIDE DEF d
<1>3. V \in SUBSET Managed(d)
  BY <1>2 DEF Right, Good, Flags
<1> HIDE DEF V
<1> QED
  BY <1>1, <1>2, <1>3, SeenRight

LEMMA IconVisibilityRight ==
  ASSUME NEW w \in Windows, Right(wm), IconVisibility(w)
  PROVE  Right(wm')
<1>1. PICK V \in {wm.VISIBLE \cup {w}, wm.VISIBLE \ {w}} : wm' = [wm EXCEPT !.VISIBLE = V]
  BY DEF IconVisibility
<1>2. V \in SUBSET Managed(wm)
  BY <1>1 DEF IconVisibility, Right, Good, Flags
<1> QED
  BY <1>1, <1>2, SeenRight

LEMMA HandleMapNotifyRight ==
  ASSUME Right(wm), HandleMapNotify
  PROVE  Right(wm')
<1> DEFINE w == Head(wm.queue).win
           d == Dequeued(wm)
           n == [d EXCEPT !.frame = @ \cup {w}, !.ICONIFIED = @ \ {w}]
<1>1. PICK list \in FocusLists(wm) : wm' = Told(wm, KeepOnTop(n, list))
  BY DEF HandleMapNotify, Handled
<1>2. ListOf(wm, list)
  BY FocusListOf DEF Right
<1>3. Right(d) /\ Managed(d) = Managed(wm) /\ w \in Managed(wm)
  BY DequeuedRight DEF HandleMapNotify
<1> HIDE DEF d, w
<1>4. d \in WM /\ Managed(d) \subseteq Windows
  BY <1>3, GoodFacts DEF Right
<1>5. /\ n \in WM /\ n.ring = d.ring /\ n.xstack = d.xstack /\ n.ONTOP = d.ONTOP
      /\ n.LastWindowRaised = d.LastWindowRaised /\ n.placed = d.placed /\ n.queue = d.queue
      /\ n.ICONIFIED = d.ICONIFIED \ {w} /\ n.VISIBLE = d.VISIBLE
      /\ n.frame = d.frame \cup {w} /\ n.mapped = d.mapped
  <2>1. d.frame \cup {w} \subseteq Windows /\ d.ICONIFIED \ {w} \subseteq Windows
    BY <1>3, <1>4, WMFields
  <2> QED
    BY <1>4, <2>1 DEF WM
<1> HIDE DEF n
<1>6. Queue(n)
  BY <1>3, <1>5 DEF Right, Good, Queue, Managed
<1>7. Right(n) /\ Managed(n) = Managed(d)
  BY <1>3, <1>5, <1>6, SameOrderRight DEF Right, Good, Flags
<1>8. Right(KeepOnTop(n, list))
  BY <1>2, <1>3, <1>7, KeptRight
<1> QED
  BY <1>1, <1>8, ToldRight

-----------------------------------------------------------------------------
(* The specification                                                       *)

LEMMA InitRight ==
  ASSUME Init
  PROVE  IInv
<1>1. /\ wm.ring = <<>> /\ wm.xstack = <<>> /\ wm.ONTOP = {} /\ wm.ICONIFIED = {} /\ wm.VISIBLE = {}
      /\ wm.LastWindowRaised = NoWindow /\ wm.frame = {} /\ wm.mapped = {} /\ wm.overlap = {}
      /\ wm.queue = <<>> /\ wm.placed = [w \in Windows |-> "raised"]
  BY DEF Init
<1>2. wm \in WM
  <2>1. [w \in Windows |-> "raised"] \in [Windows -> {"raised", "lowered", "iconified", "client"}]
    OBVIOUS
  <2>2. <<>> \in Seq(Windows) /\ <<>> \in Seq(Events)
    OBVIOUS
  <2> QED
    BY <2>1, <2>2 DEF Init, WM
<1>3. Managed(wm) = {}
  BY <1>1, MembersEmpty DEF Managed
<1>4. Good(wm)
  <2>1. Orders(wm)
    <3>1. IsInjective(<<>>)
      BY DEF IsInjective
    <3> QED
      BY <1>1, <1>3, <3>1, MembersEmpty DEF Orders
  <2>2. Flags(wm)
    BY <1>1, <1>3 DEF Flags
  <2>3. Queue(wm)
    BY <1>1 DEF Queue
  <2> QED
    BY <1>2, <2>1, <2>2, <2>3 DEF Good
<1>5. RingRight(wm) /\ AboveRight(wm) /\ LastRight(wm)
  BY <1>1, <1>3, StackingAssumption DEF RingRight, AboveRight, LastRight, PlainOf
<1>6. ncommands \in 0..MaxCommands
  BY StackingAssumption DEF Init
<1> QED
  BY <1>4, <1>5, <1>6 DEF IInv, Right

LEMMA CommandCounts ==
  ASSUME ncommands \in 0..MaxCommands, Command
  PROVE  ncommands' \in 0..MaxCommands
BY StackingAssumption DEF Command

LEMMA NextRight ==
  ASSUME IInv, [Next]_vars
  PROVE  IInv'
<1> USE DEF IInv
<1> SUFFICES Right(wm') /\ ncommands' \in 0..MaxCommands
  OBVIOUS
<1>1. ASSUME NEW w \in Windows, HandleMapRequest(w) PROVE Right(wm') /\ ncommands' \in 0..MaxCommands
  BY <1>1, MapNewRight, MapAgainRight, CommandCounts DEF HandleMapRequest
<1>2. ASSUME NEW w \in Windows, Destroy(w) PROVE Right(wm') /\ ncommands' \in 0..MaxCommands
  BY <1>2, DestroyRight, CommandCounts DEF Destroy
<1>3. ASSUME NEW w \in Windows, HandleConfigureRequest(w)
      PROVE  Right(wm') /\ ncommands' \in 0..MaxCommands
  BY <1>3, HandleConfigureRequestRight, CommandCounts DEF HandleConfigureRequest
<1>4. ASSUME NEW w \in Windows, raise_function(w) PROVE Right(wm') /\ ncommands' \in 0..MaxCommands
  BY <1>4, RaiseAndStyle, CommandCounts DEF raise_function, Handled
<1>5. ASSUME NEW w \in Windows, lower_function(w) PROVE Right(wm') /\ ncommands' \in 0..MaxCommands
  BY <1>5, LowerAndUnstyle, CommandCounts DEF lower_function, Handled
<1>6. ASSUME NEW w \in Windows, raiselower_func(w) PROVE Right(wm') /\ ncommands' \in 0..MaxCommands
  <2>1. ncommands' \in 0..MaxCommands
    BY <1>6, CommandCounts DEF raiselower_func
  <2>2. w \in Managed(wm)
    BY <1>6 DEF raiselower_func
  <2>3. CASE w = wm.LastWindowRaised \/ w \in wm.VISIBLE
    BY <1>6, <2>1, <2>2, <2>3, LowerAndUnstyle DEF raiselower_func, Handled
  <2>4. CASE ~(w = wm.LastWindowRaised \/ w \in wm.VISIBLE)
    BY <1>6, <2>1, <2>2, <2>4, RaiseAndStyle DEF raiselower_func, Handled
  <2> QED
    BY <2>3, <2>4
<1>7. ASSUME NEW w \in Windows, Focus(w) PROVE Right(wm') /\ ncommands' \in 0..MaxCommands
  BY <1>7, FocusRight, CommandCounts DEF Focus
<1>8. ASSUME NEW w \in Windows, iconify_function(w) PROVE Right(wm') /\ ncommands' \in 0..MaxCommands
  BY <1>8, iconify_functionRight, CommandCounts DEF iconify_function
<1>9. ASSUME NEW w \in Windows, HandlePropertyNotify(w)
      PROVE  Right(wm') /\ ncommands' \in 0..MaxCommands
  BY <1>9, HandlePropertyNotifyRight, CommandCounts DEF HandlePropertyNotify
<1>10. ASSUME NEW w \in Windows, move_window(w) PROVE Right(wm') /\ ncommands' \in 0..MaxCommands
  BY <1>10, move_windowRight, CommandCounts DEF move_window
<1>11. ASSUME NEW w \in Windows, IconVisibility(w) PROVE Right(wm') /\ ncommands' \in 0..MaxCommands
  BY <1>11, IconVisibilityRight, CommandCounts DEF IconVisibility
<1>12. CASE HandleVisibilityNotify
  BY <1>12, HandleVisibilityNotifyRight DEF HandleVisibilityNotify
<1>13. CASE HandleMapNotify
  BY <1>13, HandleMapNotifyRight DEF HandleMapNotify
<1>14. CASE UNCHANGED vars
  BY <1>14 DEF vars
<1> QED
  BY <1>1, <1>2, <1>3, <1>4, <1>5, <1>6, <1>7, <1>8, <1>9, <1>10, <1>11, <1>12, <1>13, <1>14 DEF Next

LEMMA Invariance == Spec => []IInv
<1>1. Init => IInv
  BY InitRight
<1>2. IInv /\ [Next]_vars => IInv'
  BY NextRight
<1> QED
  BY <1>1, <1>2, PTL DEF Spec

\* Whatever windows come, go, are raised, lowered, iconified or moved, ring and
\* stack are two orders of the windows fvwm manages, each once, and flags and
\* pointer are of these windows (misc.c, builtins.c, events.c, add_window.c).
THEOREM StackingTypeOK == Spec => []TypeOK
<1>1. IInv => TypeOK
  BY DEF IInv, Right, Good, Orders, Flags, TypeOK
<1> QED
  BY <1>1, Invariance, PTL

\* fvwm's ring tells the order of any two plain windows on the screen, for any
\* windows, transients and windows that stay on top (misc.c, 623-706).
THEOREM StackingRingTold == Spec => []RingTold
<1>1. IInv => RingTold
  BY DEF IInv, Right, RingRight, RingTold, PlainOf, Plain
<1> QED
  BY <1>1, Invariance, PTL

\* A window that stays on top is above all that do not, unless a client or
\* Iconify put one of them elsewhere, however late fvwm learns what is
\* visible (misc.c, 559-571, 654-670).
THEOREM StackingOnTopAbove == Spec => []OnTopAbove
<1>1. IInv => OnTopAbove
  BY DEF IInv, Right, AboveRight, OnTopAbove
<1> QED
  BY <1>1, Invariance, PTL

\* No plain window is above the one RaiseLower takes for the topmost, even if
\* its address is that of a window freed before (builtins.c, 904).
THEOREM StackingLastOnTop == Spec => []LastOnTop
<1>1. IInv => LastOnTop
  BY DEF IInv, Right, LastRight, LastOnTop, PlainOf, Plain
<1> QED
  BY <1>1, Invariance, PTL
=============================================================================
