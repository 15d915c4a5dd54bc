---------------------------- MODULE ViewportProofs ----------------------------
(* Viewport keeps its types, turns a page as one movement (it implements        *)
(* VirtualDesktop), keeps the pan frames where paging leads somewhere, and Focus *)
(* shows the middle of the window.                                              *)
EXTENDS Viewport, FiniteSetTheorems, TLAPS

(* What MoveViewport's two cursors have behind them: the windows above t are    *)
(* moved or do not come into view, those below t1 are moved or do. Where both   *)
(* have been, a window is moved.                                                *)
Chased ==
  /\ ~scan.on => ViewportMoved = {}
  /\ scan.on /\ scan.delta = Zero => ViewportMoved = {} /\ scan.t = N + 1 /\ scan.t1 = 0
  /\ scan.on /\ scan.delta # Zero =>
       /\ scan.t >= 1
       /\ \A i \in 1 .. N : i < scan.t => ring[i] \in ViewportMoved \/ ~ComesIntoView(ring[i])
       /\ \A i \in 1 .. N : i > scan.t1 => ring[i] \in ViewportMoved \/ ComesIntoView(ring[i])

Saved == resizing = NoWindow => flags = {}

Inv == TypeOK /\ Chased /\ Saved

-----------------------------------------------------------------------------
(* Points, the ring, the call of MoveViewport *)

LEMMA SizeOfRing == N \in Nat
  BY FS_CardinalityType, ViewportAssumption DEF N, ViewportAssumption

LEMMA PointSums ==
  ASSUME NEW p \in Point, NEW q \in Point
  PROVE  Plus(p, q) \in Point /\ Minus(p, q) \in Point /\ Plus(p, Zero) = p /\ Zero \in Point
  BY SMT DEF Point, Plus, Minus, Zero

LEMMA DesktopSize == \A d \in DeskSizes : Desktop(d) \in [Axis -> Nat]
<1> SUFFICES ASSUME NEW d \in DeskSizes, NEW a \in Axis
             PROVE  d[a] * Screen[a] - Screen[a] \in Nat
  BY SMT DEF Desktop
<1>1. d[a] \in Nat \ {0} /\ Screen[a] \in Nat \ {0}
  BY ViewportAssumption, SMT DEF ViewportAssumption
<1>2. \A m, n \in Nat \ {0} : m * n - n = (m - 1) * n /\ (m - 1) * n \in Nat
  BY SMT
<1> QED BY <1>1, <1>2

LEMMA RingRaised ==
  ASSUME ring \in Ring, NEW w \in Windows, RaiseWindow(w)
  PROVE  ring' \in Ring
<1>1. PICK k \in 1 .. N : /\ ring[k] = w
                          /\ ring' = [i \in 1 .. N |-> IF i = 1 THEN w ELSE IF i <= k THEN ring[i - 1] ELSE ring[i]]
  BY DEF RaiseWindow
<1>2. N \in Nat
  BY SizeOfRing
<1>3. ring' \in [1 .. N -> Windows]
  BY <1>1, <1>2, SMT DEF Ring
<1>4. ASSUME NEW v \in Windows PROVE \E i \in 1 .. N : ring'[i] = v
  <2>1. PICK j \in 1 .. N : ring[j] = v
    BY DEF Ring
  <2>2. CASE j < k
    <3>1. j + 1 \in 1 .. N /\ ring'[j + 1] = v
      BY <1>1, <1>2, <2>1, <2>2, SMT
    <3> QED BY <3>1
  <2>3. CASE j = k
    <3>1. 1 \in 1 .. N /\ ring'[1] = v
      BY <1>1, <1>2, <2>1, <2>3, SMT
    <3> QED BY <3>1
  <2>4. CASE j > k
    <3>1. ring'[j] = v
      BY <1>1, <1>2, <2>1, <2>4, SMT
    <3> QED BY <3>1
  <2> QED BY <1>2, <2>2, <2>3, <2>4, SMT
<1> QED BY <1>3, <1>4 DEF Ring

LEMMA RingLowered ==
  ASSUME ring \in Ring, NEW w \in Windows, LowerWindow(w)
  PROVE  ring' \in Ring
<1>1. PICK k \in 1 .. N : /\ ring[k] = w
                          /\ ring' = [i \in 1 .. N |-> IF i = N THEN w ELSE IF i < k THEN ring[i] ELSE ring[i + 1]]
  BY DEF LowerWindow
<1>2. N \in Nat
  BY SizeOfRing
<1>3. ring' \in [1 .. N -> Windows]
  BY <1>1, <1>2, SMT DEF Ring
<1>4. ASSUME NEW v \in Windows PROVE \E i \in 1 .. N : ring'[i] = v
  <2>1. PICK j \in 1 .. N : ring[j] = v
    BY DEF Ring
  <2>2. CASE j < k
    <3>1. ring'[j] = v
      BY <1>1, <1>2, <2>1, <2>2, SMT
    <3> QED BY <3>1
  <2>3. CASE j = k
    <3>1. N \in 1 .. N /\ ring'[N] = v
      BY <1>1, <1>2, <2>1, <2>3, SMT
    <3> QED BY <3>1
  <2>4. CASE j > k
    <3>1. j - 1 \in 1 .. N /\ ring'[j - 1] = v
      BY <1>1, <1>2, <2>1, <2>4, SMT
    <3> QED BY <3>1
  <2> QED BY <1>2, <2>2, <2>3, <2>4, SMT
<1> QED BY <1>3, <1>4 DEF Ring

LEMMA Called ==
  ASSUME TypeOK, NEW to \in Point, MoveViewport(to)
  PROVE  /\ V' \in [Axis -> Nat]
         /\ scan' \in [on : BOOLEAN, t : 0 .. N + 1, t1 : 0 .. N, delta : Point]
         /\ scan'.on /\ scan'.delta = Minus(V, V')
         /\ scan'.delta = Zero => scan'.t = N + 1 /\ scan'.t1 = 0
         /\ scan'.delta # Zero => scan'.t = 1 /\ scan'.t1 = N
<1>1. N \in Nat
  BY SizeOfRing
<1>2. Clamped(to) \in [Axis -> Nat]
  BY SMT DEF Clamped, TypeOK, Point
<1>3. Minus(V, Clamped(to)) \in Point
  BY <1>2, SMT DEF TypeOK, Point, Minus
<1> QED BY <1>1, <1>2, <1>3, SMT DEF MoveViewport

-----------------------------------------------------------------------------
(* Type correctness and the inductive invariant *)

LEMMA InitInv == Init => Inv
<1> SUFFICES ASSUME Init PROVE Inv
  OBVIOUS
<1> USE ViewportAssumption DEF ViewportAssumption
<1>1. N \in Nat
  BY SizeOfRing
<1>2. V \in [Axis -> Nat] /\ EdgeScroll \in [Axis -> Nat]
  BY SMT DEF Init, Zero
<1>3. VMax \in [Axis -> Nat]
  BY DesktopSize DEF Init
<1>4. pan \in SUBSET Side
  BY DEF Init, checkPanFrames
<1>5. frame \in [Windows -> Point] /\ size \in [Windows -> [Axis -> Nat \ {0}]]
  BY SMT DEF Init
<1>6. scan \in [on : BOOLEAN, t : 0 .. N + 1, t1 : 0 .. N, delta : Point]
  BY <1>1, SMT DEF Init, NoScan, Zero, Point
<1>7. focus \in [window : Windows \cup {NoWindow}, stage : {"none", "called", "paging", "done"}]
      /\ (focus.stage # "none" => focus.window \in Windows)
  BY SMT DEF Init, NoFocus
<1>8. TypeOK
  BY <1>2, <1>3, <1>4, <1>5, <1>6, <1>7, SMT DEF TypeOK, Init
<1>9. Chased /\ Saved
  BY DEF Init, Chased, Saved, NoScan
<1> QED BY <1>8, <1>9 DEF Inv

(* A step of MoveViewport's loop. *)
LEMMA CarryOK ==
  ASSUME TypeOK, NEW w \in Windows, Carry(w)
  PROVE  /\ ViewportMoved' \in SUBSET Windows /\ frame' \in [Windows -> Point]
         /\ w \in ViewportMoved'
         /\ \A v \in Windows : v # w => frame'[v] = frame[v] /\ (v \in ViewportMoved' <=> v \in ViewportMoved)
         /\ frame'[w] = IF Stays(w) THEN frame[w] ELSE Plus(frame[w], scan.delta)
<1>1. frame[w] \in Point /\ scan.delta \in Point
  BY SMT DEF TypeOK
<1>2. Plus(frame[w], scan.delta) \in Point
  BY <1>1, PointSums
<1> QED BY <1>2, SMT DEF Carry, TypeOK

(* What a page turned by a command leaves of the types. *)
LEMMA CallTypes ==
  ASSUME TypeOK, NEW to \in Point, MoveViewport(to), focus' = NoFocus, commands' \in 0 .. MaxCommands,
         UNCHANGED <<frame, ring, setting, edges, size, style, ViewportMoved>>
  PROVE  TypeOK'
<1>1. V' \in [Axis -> Nat] /\ scan' \in [on : BOOLEAN, t : 0 .. N + 1, t1 : 0 .. N, delta : Point]
  BY Called
<1> QED BY <1>1, SMT DEF TypeOK, setting, edges, style, NoFocus

LEMMA Pointed ==
  ASSUME TypeOK, NEW e \in [Axis -> Int]
  PROVE  Plus(V, e) \in Point /\ Minus(V, e) \in Point
  BY SMT DEF TypeOK, Point, Plus, Minus

LEMMA PagesArePoints == Pages \subseteq Point
<1>1. \A d \in DeskSizes : (0 .. d["x"]) \cup (0 .. d["y"]) \subseteq Int
  <2> TAKE d \in DeskSizes
  <2>1. d["x"] \in Int /\ d["y"] \in Int
    BY ViewportAssumption, SMT DEF ViewportAssumption, Axis
  <2>2. 0 .. d["x"] \subseteq Int /\ 0 .. d["y"] \subseteq Int
    BY <2>1, SMT
  <2> QED BY <2>2, Zenon
<1>2. PageNumbers \subseteq Int
  BY <1>1, Zenon DEF PageNumbers
<1>3. ASSUME NEW k \in [Axis -> PageNumbers] PROVE [a \in Axis |-> k[a] * Screen[a]] \in Point
  <2>1. \A a \in Axis : k[a] \in Int /\ Screen[a] \in Int
    <3>1. \A a \in Axis : k[a] \in PageNumbers
      OBVIOUS
    <3>2. \A a \in Axis : Screen[a] \in Int
      BY ViewportAssumption, SMT DEF ViewportAssumption
    <3> QED BY <1>2, <3>1, <3>2, Zenon
  <2>2. \A a \in Axis : k[a] * Screen[a] \in Int
    BY <2>1, SMT
  <2> QED BY <2>2, Zenon DEF Point
<1> QED BY <1>3, Zenon DEF Pages

LEMMA OnScreenPoint == \A p \in Point : OnScreen(p) \in Point
  BY ViewportAssumption, SMT DEF ViewportAssumption, OnScreen, Point

LEMMA PanTypes == \A old, v, m, s, w : old \subseteq Side => checkPanFrames(old, v, m, s, w) \subseteq Side
  BY SMT DEF checkPanFrames

LEMMA PageOfPoint ==
  ASSUME TypeOK, NEW w \in Windows
  PROVE  PageOf(Centre(w)) \in Point
<1>1. Centre(w) \in Point
  BY SMT DEF TypeOK, Centre, Point
<1>2. ASSUME NEW n \in Int, NEW d \in Nat \ {0} PROVE Quotient(n, d) * d \in Int
  BY <1>2, SMT DEF Quotient
<1>3. \A a \in Axis : Centre(w)[a] + V[a] \in Int /\ Screen[a] \in Nat \ {0}
  BY <1>1, ViewportAssumption, SMT DEF TypeOK, Point, ViewportAssumption
<1>4. \A a \in Axis : Quotient(Centre(w)[a] + V[a], Screen[a]) * Screen[a] \in Int
  BY <1>2, <1>3
<1> QED BY <1>4 DEF PageOf, Point

LEMMA ScanTypes ==
  ASSUME TypeOK, ChaseDown \/ ChaseUp \/ ScanEnds
  PROVE  TypeOK'
<1>1. N \in Nat
  BY SizeOfRing
<1>2. CASE ChaseDown
  <2>1. ring[scan.t] \in Windows
    BY <1>1, <1>2, SMT DEF ChaseDown, TypeOK, Ring
  <2>2. ViewportMoved' \in SUBSET Windows /\ frame' \in [Windows -> Point]
    BY <1>2, <2>1, CarryOK DEF ChaseDown, Stay, TypeOK
  <2>3. scan' \in [on : BOOLEAN, t : 0 .. N + 1, t1 : 0 .. N, delta : Point]
    BY <1>1, <1>2, SMT DEF ChaseDown, TypeOK
  <2> QED BY <1>2, <2>2, <2>3, SMT DEF ChaseDown, TypeOK, setting, edges, style
<1>3. CASE ChaseUp
  <2>1. ring[scan.t1] \in Windows
    BY <1>1, <1>3, SMT DEF ChaseUp, TypeOK, Ring
  <2>2. ViewportMoved' \in SUBSET Windows /\ frame' \in [Windows -> Point]
    BY <1>3, <2>1, CarryOK DEF ChaseUp, Stay, TypeOK
  <2>3. scan' \in [on : BOOLEAN, t : 0 .. N + 1, t1 : 0 .. N, delta : Point]
    BY <1>1, <1>3, SMT DEF ChaseUp, TypeOK
  <2> QED BY <1>3, <2>2, <2>3, SMT DEF ChaseUp, TypeOK, setting, edges, style
<1>4. CASE ScanEnds
  <2>1. pan' \in SUBSET Side
    BY <1>4, PanTypes DEF ScanEnds, TypeOK
  <2>2. ViewportMoved' \in SUBSET Windows
    BY <1>4 DEF ScanEnds, Stay, TypeOK
  <2>3. frame' \in [Windows -> Point]
    BY <1>4, OnScreenPoint, SMT DEF ScanEnds, Stay, TypeOK
  <2>4. scan' \in [on : BOOLEAN, t : 0 .. N + 1, t1 : 0 .. N, delta : Point]
    BY <1>1, <1>4, SMT DEF ScanEnds, NoScan, Point, Zero
  <2> QED BY <1>4, <2>1, <2>2, <2>3, <2>4, SMT DEF ScanEnds, TypeOK, setting, style
<1> QED BY <1>2, <1>3, <1>4

LEMMA FocusTypes ==
  ASSUME TypeOK, FocusOn \/ FocusEnds
  PROVE  TypeOK'
<1>1. CASE FocusOn
  <2>1. focus.window \in Windows
    BY <1>1, SMT DEF FocusOn, TypeOK
  <2>2. \E p \in Point : MoveViewport(p)
    BY <1>1, <2>1, PagesArePoints, PageOfPoint DEF FocusOn
  <2>3. V' \in [Axis -> Nat] /\ scan' \in [on : BOOLEAN, t : 0 .. N + 1, t1 : 0 .. N, delta : Point]
    BY <2>2, Called
  <2>4. focus' \in [window : Windows \cup {NoWindow}, stage : {"none", "called", "paging", "done"}]
        /\ focus'.window \in Windows
    BY <1>1, <2>1, SMT DEF FocusOn, TypeOK
  <2> QED BY <1>1, <2>3, <2>4, SMT DEF FocusOn, TypeOK, setting, edges, style
<1>2. CASE FocusEnds
  <2>1. focus.window \in Windows
    BY <1>2, SMT DEF FocusEnds, TypeOK
  <2>2. ring' \in Ring
    BY <1>2, <2>1, RingRaised DEF FocusEnds, TypeOK
  <2>3. frame' \in [Windows -> Point]
    BY <1>2, <2>1, SMT DEF FocusEnds, TypeOK, Zero, Point
  <2>4. focus' \in [window : Windows \cup {NoWindow}, stage : {"none", "called", "paging", "done"}]
        /\ focus'.window \in Windows
    BY <1>2, <2>1, SMT DEF FocusEnds, TypeOK
  <2> QED BY <1>2, <2>2, <2>3, <2>4, SMT DEF FocusEnds, TypeOK, setting, edges, style
<1> QED BY <1>1, <1>2

(* Every command that turns a page calls MoveViewport with a point, and changes *)
(* nothing else.                                                                *)
Turns ==
  /\ ~scan.on
  /\ \E p \in Point : MoveViewport(p)
  /\ UNCHANGED <<frame, ring, setting, edges, size, style, ViewportMoved>>

LEMMA PagingTurns ==
  ASSUME TypeOK, ~scan.on, NEW ev \in Edge, NEW e \in Edge, Paging(ev, e)
  PROVE  Turns
<1> DEFINE raw == [a \in Axis |-> IF VMax[a] = 0 THEN 0 ELSE e[a] * EdgeScroll[a]]
           delta == [a \in Axis |->
                       IF a \notin wrap THEN raw[a]
                       ELSE IF V[a] + raw[a] < 0 THEN VMax[a]
                       ELSE IF V[a] + raw[a] > VMax[a] THEN - VMax[a] ELSE raw[a]]
<1>1. \A a \in Axis : e[a] * EdgeScroll[a] \in Int
  <2> SUFFICES ASSUME NEW a \in Axis PROVE e[a] * EdgeScroll[a] \in Int
    OBVIOUS
  <2>1. e[a] \in {-1, 0, 1} /\ EdgeScroll[a] \in Nat
    BY SMT DEF Edge, TypeOK
  <2> QED BY <2>1, SMT
<1>2. raw \in [Axis -> Int]
  BY <1>1, SMT
<1>3. delta \in [Axis -> Int]
  BY <1>2, SMT DEF TypeOK
<1>4. Plus(V, delta) \in Point
  BY <1>3, Pointed
<1>5. MoveViewport(Plus(V, delta)) /\ UNCHANGED <<frame, ring, setting, edges, size, style, ViewportMoved>>
  BY DEF Paging
<1> QED BY <1>4, <1>5 DEF Turns

LEMMA ScrollTurns ==
  ASSUME TypeOK, Scroll
  PROVE  Turns
<1> DEFINE Turned(far, p, a) ==
             LET b == Other(a)
                 on == p[b] + Screen[b]
                 back == p[b] - Screen[b]
             IN IF a \in far /\ p[a] > VMax[a]
                THEN [c \in Axis |-> IF c = a \/ on > VMax[b] THEN 0 ELSE on]
                ELSE IF a \in far /\ p[a] < 0
                THEN [c \in Axis |-> IF c = a THEN VMax[a] ELSE IF back < 0 THEN VMax[b] ELSE back]
                ELSE p
<1>1. ASSUME NEW far \in SUBSET Axis, NEW p \in Point, NEW a \in Axis
      PROVE  Turned(far, p, a) \in Point
  <2>1. Other(a) \in Axis
    BY DEF Other, Axis
  <2> QED BY <2>1, ViewportAssumption, SMT DEF ViewportAssumption, TypeOK, Point
<1>2. PICK j \in Jumps, far \in SUBSET Axis :
        MoveViewport(Turned(far, Turned(far, Plus(V, j), "x"), "y"))
  BY DEF Scroll
<1>3. Plus(V, j) \in Point
  BY Pointed, ViewportAssumption DEF ViewportAssumption, Point
<1>4. Turned(far, Turned(far, Plus(V, j), "x"), "y") \in Point
  <2>1. "x" \in Axis /\ "y" \in Axis
    BY DEF Axis
  <2> HIDE DEF Turned
  <2>2. Turned(far, Plus(V, j), "x") \in Point
    BY <1>1, <1>3, <2>1
  <2> QED BY <1>1, <2>1, <2>2
<1> HIDE DEF Turned
<1>5. \E p \in Point : MoveViewport(p)
  BY <1>2, <1>4
<1> QED BY <1>5 DEF Scroll, Turns, Command, Free

LEMMA CommandsTurn ==
  ASSUME TypeOK, EnterPanFrame \/ PageWhileResizing \/ Scroll \/ goto_page_func \/ movecursor
  PROVE  Turns /\ focus' = NoFocus /\ commands' \in 0 .. MaxCommands
<1>1. focus' = NoFocus /\ commands' = commands + 1 /\ commands < MaxCommands /\ ~scan.on
  BY DEF EnterPanFrame, PageWhileResizing, Scroll, goto_page_func, movecursor, Command, Free
<1>2. commands' \in 0 .. MaxCommands
  BY <1>1, ViewportAssumption, SMT DEF TypeOK, ViewportAssumption
<1>3. CASE EnterPanFrame
  BY <1>1, <1>2, <1>3, PagingTurns DEF EnterPanFrame
<1>4. CASE PageWhileResizing
  BY <1>1, <1>2, <1>4, PagingTurns DEF PageWhileResizing
<1>5. CASE Scroll
  BY <1>1, <1>2, <1>5, ScrollTurns
<1>6. CASE goto_page_func
  BY <1>1, <1>2, <1>6, PagesArePoints DEF goto_page_func, Turns
<1>7. CASE movecursor
  <2>1. PICK e \in Edge : MoveViewport(Clamped([a \in Axis |-> V[a] + e[a] * EdgeScroll[a]]))
    BY <1>7 DEF movecursor
  <2>2. \A a \in Axis : V[a] + e[a] * EdgeScroll[a] \in Int
    <3> SUFFICES ASSUME NEW a \in Axis PROVE V[a] + e[a] * EdgeScroll[a] \in Int
      OBVIOUS
    <3>1. e[a] \in {-1, 0, 1} /\ EdgeScroll[a] \in Nat /\ V[a] \in Nat
      BY SMT DEF Edge, TypeOK
    <3> QED BY <3>1, SMT
  <2>3. Clamped([a \in Axis |-> V[a] + e[a] * EdgeScroll[a]]) \in Point
    BY <2>2, SMT DEF Clamped, TypeOK, Point
  <2>4. \E p \in Point : MoveViewport(p)
    BY <2>1, <2>3
  <2> QED BY <1>1, <1>2, <1>7, <2>4 DEF movecursor, Turns
<1> QED BY <1>3, <1>4, <1>5, <1>6, <1>7

LEMMA TurnTypes ==
  ASSUME TypeOK, EnterPanFrame \/ PageWhileResizing \/ Scroll \/ goto_page_func \/ movecursor
  PROVE  TypeOK'
  BY CommandsTurn, CallTypes DEF Turns

LEMMA Counted ==
  ASSUME TypeOK, Free, commands' = commands + 1
  PROVE  commands' \in 0 .. MaxCommands
  BY ViewportAssumption, SMT DEF Free, TypeOK, ViewportAssumption

LEMMA FocusedType ==
  /\ NoFocus \in [window : Windows \cup {NoWindow}, stage : {"none", "called", "paging", "done"}]
  /\ NoFocus.stage = "none"
  /\ \A w \in Windows :
       /\ [window |-> w, stage |-> "called"]
            \in [window : Windows \cup {NoWindow}, stage : {"none", "called", "paging", "done"}]
       /\ [window |-> w, stage |-> "called"].window = w
  BY SMT DEF NoFocus

LEMMA WindowTypes ==
  ASSUME TypeOK, NEW w \in Windows,
         focus_func(w) \/ DeIconify(w) \/ Iconify(w) \/ stick_function(w) \/ move_window(w) \/ resize_window(w)
  PROVE  TypeOK'
<1>1. CASE focus_func(w)
  <2>1. commands' \in 0 .. MaxCommands
    BY <1>1, Counted DEF focus_func
  <2> QED BY <1>1, <2>1, FocusedType, SMT DEF focus_func, TypeOK, where, setting, edges, style
<1>2. CASE DeIconify(w)
  <2>1. commands' \in 0 .. MaxCommands
    BY <1>2, Counted DEF DeIconify
  <2>2. ring' \in Ring
    BY <1>2, RingRaised DEF DeIconify, TypeOK
  <2>3. /\ focus' \in [window : Windows \cup {NoWindow}, stage : {"none", "called", "paging", "done"}]
        /\ focus'.stage # "none" => focus'.window \in Windows
    BY <1>2, FocusedType, SMT DEF DeIconify
  <2> QED BY <1>2, <2>1, <2>2, <2>3, SMT DEF DeIconify, TypeOK, setting, edges
<1>3. CASE Iconify(w)
  <2>1. commands' \in 0 .. MaxCommands
    BY <1>3, Counted DEF Iconify, Command
  <2>2. ring' \in Ring
    BY <1>3, RingLowered DEF Iconify, TypeOK
  <2>3. frame' \in [Windows -> Point]
    <3>1. OnScreen(frame[w]) \in Point
      BY OnScreenPoint, SMT DEF TypeOK
    <3> QED BY <1>3, <3>1, SMT DEF Iconify, TypeOK
  <2> QED BY <1>3, <2>1, <2>2, <2>3, FocusedType, SMT DEF Iconify, Command, TypeOK, setting, edges
<1>4. CASE stick_function(w)
  <2>1. commands' \in 0 .. MaxCommands
    BY <1>4, Counted DEF stick_function, Command
  <2>2. STICKY' \in SUBSET Windows
    BY <1>4 DEF stick_function, TypeOK
  <2> QED BY <1>4, <2>1, <2>2, FocusedType, SMT DEF stick_function, Command, TypeOK, where, setting, edges
<1>5. CASE move_window(w)
  <2>1. commands' \in 0 .. MaxCommands
    BY <1>5, Counted DEF move_window, Command
  <2>2. ICON_MOVED' \in SUBSET Windows
    BY <1>5 DEF move_window, TypeOK
  <2>3. frame' \in [Windows -> Point]
    BY <1>5, ViewportAssumption, SMT DEF move_window, TypeOK, ViewportAssumption
  <2> QED BY <1>5, <2>1, <2>2, <2>3, FocusedType, SMT DEF move_window, Command, TypeOK, setting, edges
<1>6. CASE resize_window(w)
  <2>1. commands' \in 0 .. MaxCommands
    BY <1>6, Counted DEF resize_window, Command
  <2> QED BY <1>6, <2>1, FocusedType, SMT DEF resize_window, Command, TypeOK, where, style
<1> QED BY <1>1, <1>2, <1>3, <1>4, <1>5, <1>6

LEMMA SettingTypes ==
  ASSUME TypeOK, ResizeEnds \/ SetDeskSize \/ SetEdgeScroll
  PROVE  TypeOK'
<1>1. CASE ResizeEnds
  <2>1. resizing \in Windows
    BY <1>1, SMT DEF ResizeEnds, TypeOK
  <2>2. frame' \in [Windows -> Point] /\ size' \in [Windows -> [Axis -> Nat \ {0}]]
    <3>1. CASE UNCHANGED <<frame, size>>
      BY <3>1 DEF TypeOK
    <3>2. ASSUME NEW p \in Places, NEW s \in Shapes,
                 frame' = [frame EXCEPT ![resizing] = p], size' = [size EXCEPT ![resizing] = s]
          PROVE  frame' \in [Windows -> Point] /\ size' \in [Windows -> [Axis -> Nat \ {0}]]
      <4>1. p \in Point /\ s \in [Axis -> Nat \ {0}]
        BY ViewportAssumption DEF ViewportAssumption
      <4>2. frame \in [Windows -> Point] /\ size \in [Windows -> [Axis -> Nat \ {0}]]
        BY DEF TypeOK
      <4> QED BY <2>1, <3>2, <4>1, <4>2, SMT
    <3> QED BY <1>1, <3>1, <3>2 DEF ResizeEnds
  <2> QED BY <1>1, <2>2, SMT DEF ResizeEnds, TypeOK, style
<1>2. CASE SetDeskSize
  <2>1. commands' \in 0 .. MaxCommands
    BY <1>2, Counted DEF SetDeskSize, Command
  <2>2. VMax' \in [Axis -> Nat]
    BY <1>2, DesktopSize DEF SetDeskSize
  <2>3. pan' \in SUBSET Side
    BY <1>2, PanTypes DEF SetDeskSize, TypeOK
  <2> QED BY <1>2, <2>1, <2>2, <2>3, FocusedType, SMT DEF SetDeskSize, Command, TypeOK, where, style
<1>3. CASE SetEdgeScroll
  <2>1. commands' \in 0 .. MaxCommands
    BY <1>3, Counted DEF SetEdgeScroll, Command
  <2>2. EdgeScroll' \in [Axis -> Nat] /\ wrap' \in SUBSET Axis
    BY <1>3, ViewportAssumption, SMT DEF SetEdgeScroll, ViewportAssumption
  <2>3. pan' \in SUBSET Side
    BY <1>3, PanTypes DEF SetEdgeScroll, TypeOK
  <2> QED BY <1>3, <2>1, <2>2, <2>3, FocusedType, SMT DEF SetEdgeScroll, Command, TypeOK, where, style
<1> QED BY <1>1, <1>2, <1>3

LEMMA StepTypes == TypeOK /\ [Next]_vars => TypeOK'
<1> SUFFICES ASSUME TypeOK, [Next]_vars PROVE TypeOK'
  OBVIOUS
<1>1. CASE UNCHANGED vars
  BY <1>1, SMT DEF vars, where, setting, edges, style, TypeOK
<1>2. CASE Next
  BY <1>2, ScanTypes, FocusTypes, TurnTypes, WindowTypes, SettingTypes DEF Next
<1> QED BY <1>1, <1>2

(* The two cursors. A window that one of them carries is in ViewportMoved from  *)
(* then on; any other is where it was.                                          *)
LEMMA SameView ==
  ASSUME NEW v, frame'[v] = frame[v], size' = size, scan'.delta = scan.delta
  PROVE  ComesIntoView(v)' <=> ComesIntoView(v)
  BY DEF ComesIntoView

LEMMA ChaseInv ==
  ASSUME TypeOK, Chased, ChaseDown \/ ChaseUp
  PROVE  Chased'
<1>1. N \in Nat
  BY SizeOfRing
<1>2. scan.on /\ scan'.on /\ scan'.delta = scan.delta /\ size' = size /\ ring' = ring
      /\ scan.t \in 0 .. N + 1 /\ scan.t1 \in 0 .. N /\ scan \in [on : BOOLEAN, t : 0 .. N + 1, t1 : 0 .. N, delta : Point]
  BY SMT DEF ChaseDown, ChaseUp, edges, TypeOK
<1>3. CASE scan.delta = Zero
  <2>1. scan.t = N + 1 /\ scan.t1 = 0
    BY <1>2, <1>3 DEF Chased
  <2>2. ChaseUp
    BY <1>1, <2>1, SMT DEF ChaseDown
  <2>3. FALSE
    BY <1>1, <1>2, <2>1, <2>2, SMT DEF ChaseUp
  <2> QED BY <2>3
<1>4. CASE scan.delta # Zero
  <2>1. /\ scan.t >= 1
        /\ \A i \in 1 .. N : i < scan.t => ring[i] \in ViewportMoved \/ ~ComesIntoView(ring[i])
        /\ \A i \in 1 .. N : i > scan.t1 => ring[i] \in ViewportMoved \/ ComesIntoView(ring[i])
    BY <1>2, <1>4 DEF Chased
  <2>2. \A i \in 1 .. N : ring[i] \in Windows
    BY DEF TypeOK, Ring
  <2>3. ASSUME NEW i \in 1 .. N
        PROVE  \/ ring[i] \in ViewportMoved'
               \/ /\ ring[i] \notin ViewportMoved
                  /\ ComesIntoView(ring[i])' <=> ComesIntoView(ring[i])
    <3>1. ASSUME Stay PROVE frame' = frame /\ ViewportMoved' = ViewportMoved
      BY <3>1 DEF Stay
    <3>2. ASSUME NEW w \in Windows, Carry(w)
          PROVE  \/ ring[i] \in ViewportMoved'
                 \/ frame'[ring[i]] = frame[ring[i]] /\ (ring[i] \in ViewportMoved' <=> ring[i] \in ViewportMoved)
      BY <2>2, <3>2, CarryOK
    <3>3. Stay \/ \E w \in Windows : Carry(w)
      <4>1. CASE ChaseDown
        <5>1. scan.t \in 1 .. N
          BY <1>1, <1>2, <2>1, <4>1, SMT DEF ChaseDown
        <5> QED BY <2>2, <4>1, <5>1 DEF ChaseDown
      <4>2. CASE ChaseUp
        <5>1. scan.t1 \in 1 .. N
          BY <1>1, <1>2, <4>2, SMT DEF ChaseUp
        <5> QED BY <2>2, <4>2, <5>1 DEF ChaseUp
      <4> QED BY <4>1, <4>2
    <3>4. \/ ring[i] \in ViewportMoved'
          \/ frame'[ring[i]] = frame[ring[i]] /\ (ring[i] \in ViewportMoved' <=> ring[i] \in ViewportMoved)
      BY <3>1, <3>2, <3>3
    <3>5. frame'[ring[i]] = frame[ring[i]] => (ComesIntoView(ring[i])' <=> ComesIntoView(ring[i]))
      BY <1>2 DEF ComesIntoView
    <3> QED BY <3>4, <3>5
  <2>4. CASE ChaseDown
    <3>1. scan.t \in 1 .. N /\ scan'.t = scan.t + 1 /\ scan'.t1 = scan.t1
      BY <1>1, <1>2, <2>1, <2>4, SMT DEF ChaseDown
    <3>2. ring[scan.t] \in ViewportMoved' \/ ~ComesIntoView(ring[scan.t])
      BY <2>4, <3>1, <2>2, CarryOK DEF ChaseDown, Stay
    <3>3. \A i \in 1 .. N : i < scan'.t => i < scan.t \/ i = scan.t
      BY <1>1, <3>1, SMT
    <3> QED BY <1>2, <1>4, <2>1, <2>3, <3>1, <3>2, <3>3, SMT DEF Chased
  <2>5. CASE ChaseUp
    <3>1. scan.t1 \in 1 .. N /\ scan'.t1 = scan.t1 - 1 /\ scan'.t = scan.t
      BY <1>1, <1>2, <2>5, SMT DEF ChaseUp
    <3>2. ring[scan.t1] \in ViewportMoved' \/ ComesIntoView(ring[scan.t1])
      BY <2>5, <3>1, <2>2, CarryOK DEF ChaseUp, Stay
    <3>3. \A i \in 1 .. N : i > scan'.t1 => i > scan.t1 \/ i = scan.t1
      BY <1>1, <3>1, SMT
    <3> QED BY <1>2, <1>4, <2>1, <2>3, <3>1, <3>2, <3>3, SMT DEF Chased
  <2> QED BY <2>4, <2>5
<1> QED BY <1>3, <1>4

(* The windows' commands: none of them turns a page, and each moves, sticks or  *)
(* iconifies only its own window.                                               *)
Handles(w) ==
  /\ ~scan.on /\ UNCHANGED <<V, scan, ViewportMoved>>
  /\ \A v \in Windows \ {w} :
       /\ frame'[v] = frame[v]
       /\ v \in STICKY' <=> v \in STICKY
       /\ v \in ICONIFIED' <=> v \in ICONIFIED

LEMMA WindowHandles ==
  ASSUME TypeOK, NEW w \in Windows,
         focus_func(w) \/ DeIconify(w) \/ Iconify(w) \/ stick_function(w) \/ move_window(w) \/ resize_window(w)
  PROVE  Handles(w)
<1>1. CASE focus_func(w)
  BY <1>1 DEF focus_func, Free, Handles, where, style
<1>2. CASE DeIconify(w)
  BY <1>2 DEF DeIconify, Free, Handles
<1>3. CASE Iconify(w)
  BY <1>3, SMT DEF Iconify, Command, Free, Handles, TypeOK
<1>4. CASE stick_function(w)
  BY <1>4 DEF stick_function, Command, Free, Handles, where
<1>5. CASE move_window(w)
  BY <1>5, SMT DEF move_window, Command, Free, Handles, TypeOK
<1>6. CASE resize_window(w)
  BY <1>6 DEF resize_window, Command, Free, Handles, where, style
<1> QED BY <1>1, <1>2, <1>3, <1>4, <1>5, <1>6

LEMMA OthersHandle ==
  ASSUME TypeOK, FocusEnds \/ ResizeEnds \/ SetDeskSize \/ SetEdgeScroll
  PROVE  (\E w \in Windows : Handles(w))
         \/ (~scan.on /\ UNCHANGED <<V, scan, ViewportMoved, frame, STICKY, ICONIFIED>>)
<1>1. CASE FocusEnds
  <2>1. focus.window \in Windows
    BY <1>1, SMT DEF FocusEnds, TypeOK
  <2>2. Handles(focus.window)
    BY <1>1, <2>1, SMT DEF FocusEnds, Handles, TypeOK, style
  <2> QED BY <2>1, <2>2
<1>2. CASE ResizeEnds
  <2>1. resizing \in Windows
    BY <1>2, SMT DEF ResizeEnds, TypeOK
  <2>2. Handles(resizing)
    BY <1>2, <2>1, SMT DEF ResizeEnds, Handles, TypeOK, style
  <2> QED BY <2>1, <2>2
<1>3. CASE SetDeskSize \/ SetEdgeScroll
  BY <1>3 DEF SetDeskSize, SetEdgeScroll, Command, Free, where, style
<1> QED BY <1>1, <1>2, <1>3

LEMMA FocusTurns ==
  ASSUME TypeOK, FocusOn
  PROVE  Turns
<1>1. focus.window \in Windows
  BY SMT DEF FocusOn, TypeOK
<1>2. \E p \in Point : MoveViewport(p)
  BY <1>1, PagesArePoints, PageOfPoint DEF FocusOn
<1> QED BY <1>2 DEF FocusOn, Turns

(* Next in the terms of the promise: a step of the scan, a page turned, a       *)
(* window handled, or nothing that concerns the windows.                        *)
LEMMA StepKinds ==
  ASSUME TypeOK, [Next]_vars
  PROVE  \/ ChaseDown \/ ChaseUp \/ ScanEnds
         \/ Turns
         \/ \E w \in Windows : Handles(w)
         \/ UNCHANGED <<V, scan, ViewportMoved, frame, STICKY, ICONIFIED>>
            /\ (~scan.on \/ UNCHANGED vars)
  BY CommandsTurn, FocusTurns, WindowHandles, OthersHandle DEF Next, vars, where, style

LEMMA ChasedStep ==
  ASSUME TypeOK, Chased, [Next]_vars
  PROVE  Chased'
<1>1. CASE ChaseDown \/ ChaseUp
  BY <1>1, ChaseInv
<1>2. CASE ScanEnds
  <2>1. scan' = NoScan /\ ViewportMoved' = {}
    BY <1>2 DEF ScanEnds, Chased, Stay
  <2> QED BY <2>1 DEF Chased, NoScan
<1>3. CASE Turns
  <2>1. ViewportMoved' = {}
    BY <1>3 DEF Turns, Chased
  <2>2. N \in Nat
    BY SizeOfRing
  <2>3. /\ scan'.on
        /\ scan'.delta = Zero => scan'.t = N + 1 /\ scan'.t1 = 0
        /\ scan'.delta # Zero => scan'.t = 1 /\ scan'.t1 = N
    BY <1>3, Called DEF Turns
  <2>4. \A i \in 1 .. N : ~(i < 1) /\ ~(i > N)
    BY <2>2, SMT
  <2> QED BY <2>1, <2>3, <2>4, SMT DEF Chased
<1>4. ASSUME ~scan.on, UNCHANGED <<scan, ViewportMoved>> PROVE Chased'
  BY <1>4 DEF Chased
<1>5. CASE UNCHANGED vars
  BY <1>5 DEF Chased, vars, where, ComesIntoView
<1> QED BY <1>1, <1>2, <1>3, <1>4, <1>5, StepKinds DEF Handles

LEMMA SavedStep ==
  ASSUME TypeOK, Saved, [Next]_vars
  PROVE  Saved'
<1>1. CASE UNCHANGED <<resizing, flags>>
  BY <1>1 DEF Saved
<1>2. CASE ResizeEnds
  BY <1>2 DEF ResizeEnds, Saved
<1>3. ASSUME NEW w \in Windows, resize_window(w) PROVE Saved'
  BY <1>3, ViewportAssumption DEF resize_window, Saved, ViewportAssumption
<1> QED BY <1>1, <1>2, <1>3, CommandsTurn DEF Next, vars, edges, Turns, ChaseDown, ChaseUp, ScanEnds, FocusOn,
           FocusEnds, focus_func, DeIconify, Iconify, stick_function, move_window, SetDeskSize, SetEdgeScroll

LEMMA InvStep == Inv /\ [Next]_vars => Inv'
  BY StepTypes, ChasedStep, SavedStep DEF Inv

(* The inductive invariant of the viewport holds in every state it reaches: *)
(* what the theorems below are read off from.                               *)
THEOREM Invariance == Spec => []Inv
  BY InitInv, InvStep, PTL DEF Spec

(* The state of the viewport keeps its types, in particular the ring holds every *)
(* window and the viewport's corner is never negative.                           *)
THEOREM ViewportTypeOK == Spec => []TypeOK
<1>1. Inv => TypeOK
  BY DEF Inv
<1> QED BY <1>1, Invariance, PTL

-----------------------------------------------------------------------------
(* A page is turned as one movement *)

Seen == [w \in Windows |-> Placed(w)]
Held == <<V, Seen, Stuck, scan.on>>

LEMMA PlacedPoint ==
  /\ TypeOK => Seen \in [Windows -> Point]
  /\ TypeOK' => Seen' \in [Windows -> Point]
<1>1. ASSUME TypeOK PROVE Seen \in [Windows -> Point]
  <2>1. \A w \in Windows : frame[w] \in Point /\ scan.delta \in Point
    BY <1>1, SMT DEF TypeOK
  <2> QED BY <2>1, PointSums DEF Seen, Placed
<1>2. ASSUME TypeOK' PROVE Seen' \in [Windows -> Point]
  <2>1. \A w \in Windows : frame'[w] \in Point /\ scan'.delta \in Point
    BY <1>2, SMT DEF TypeOK
  <2> QED BY <2>1, PointSums DEF Seen, Placed
<1> QED BY <1>1, <1>2

(* A chase changes nothing of it: what a cursor carries goes where it was to go. *)
LEMMA ChaseStutters ==
  ASSUME TypeOK, ChaseDown \/ ChaseUp
  PROVE  UNCHANGED Held
<1>1. scan.on /\ scan'.on /\ scan'.delta = scan.delta /\ UNCHANGED <<V, STICKY, ICONIFIED>>
  BY SMT DEF ChaseDown, ChaseUp, TypeOK, style
<1>2. Stuck' = Stuck /\ scan'.on = scan.on
  <2>1. scan'.on = scan.on
    BY SMT DEF ChaseDown, ChaseUp, TypeOK
  <2> QED BY <1>1, <2>1 DEF Stuck, Stays
<1>3. Stay \/ \E w \in Windows : w \notin ViewportMoved /\ Carry(w)
  <2>1. N \in Nat /\ scan.t \in 0 .. N + 1 /\ scan.t1 \in 0 .. N
    BY SizeOfRing, SMT DEF TypeOK
  <2>2. CASE ChaseDown
    <3>1. CASE scan.t = 0
      BY <2>1, <2>2, <3>1, SMT DEF ChaseDown
    <3>2. CASE scan.t # 0
      <4>1. ring[scan.t] \in Windows
        BY <2>1, <2>2, <3>2, SMT DEF ChaseDown, TypeOK, Ring
      <4> QED BY <2>2, <4>1 DEF ChaseDown
    <3> QED BY <3>1, <3>2
  <2>3. CASE ChaseUp
    <3>1. ring[scan.t1] \in Windows
      BY <2>1, <2>3, SMT DEF ChaseUp, TypeOK, Ring
    <3> QED BY <2>3, <3>1 DEF ChaseUp
  <2> QED BY <2>2, <2>3
<1>4. CASE Stay
  BY <1>1, <1>2, <1>4 DEF Held, Seen, Placed, Stay
<1>5. ASSUME NEW w \in Windows, w \notin ViewportMoved, Carry(w) PROVE UNCHANGED Held
  <2>1. /\ w \in ViewportMoved'
        /\ \A v \in Windows : v # w => frame'[v] = frame[v] /\ (v \in ViewportMoved' <=> v \in ViewportMoved)
        /\ frame'[w] = IF Stays(w) THEN frame[w] ELSE Plus(frame[w], scan.delta)
    BY <1>5, CarryOK
  <2>2. w \in Stuck <=> Stays(w)
    BY DEF Stuck
  <2>3. \A v \in Windows : Placed(v)' = Placed(v)
    BY <1>1, <1>2, <1>5, <2>1, <2>2 DEF Placed
  <2>4. Seen' = Seen
    BY <2>3 DEF Seen
  <2> QED BY <1>1, <1>2, <2>4 DEF Held
<1> QED BY <1>3, <1>4, <1>5

LEMMA TurnIsTurn ==
  ASSUME Inv, Turns
  PROVE  Promise!Turn
<1>1. TypeOK /\ ViewportMoved = {} /\ ~scan.on
  BY DEF Inv, Chased, Turns
<1>2. V' \in [Axis -> Nat] /\ scan'.on /\ scan'.delta = Minus(V, V')
      /\ scan' \in [on : BOOLEAN, t : 0 .. N + 1, t1 : 0 .. N, delta : Point]
  BY <1>1, Called DEF Turns
<1>3. V' \in Point
  BY <1>2, SMT DEF Point
<1>4. frame' = frame /\ ViewportMoved' = {} /\ Stuck' = Stuck
  BY <1>1 DEF Turns, style, Stuck, Stays
<1>5. \A w \in Windows : Placed(w) = frame[w]
  BY <1>1 DEF Placed
<1>6. \A w \in Windows : Placed(w)' = IF w \in Stuck THEN frame[w] ELSE Plus(frame[w], Minus(V, V'))
  BY <1>2, <1>4 DEF Placed
<1>7. [w \in Windows |-> Placed(w)]' =
        [w \in Windows |-> IF w \in Stuck THEN [v \in Windows |-> Placed(v)][w]
                           ELSE Plus([v \in Windows |-> Placed(v)][w], Minus(V, V'))]
  BY <1>5, <1>6
<1>8. scan'.on = TRUE
  BY <1>2, SMT
<1> QED BY <1>1, <1>3, <1>4, <1>7, <1>8
        DEF Promise!Turn, Promise!Point, Promise!Axis, Promise!Plus, Promise!Minus, Point, Axis, Plus, Minus

LEMMA EndIsSettle ==
  ASSUME Inv, Inv', ScanEnds
  PROVE  Promise!Settle
<1>1. TypeOK /\ TypeOK' /\ scan.on /\ scan.t = N + 1 /\ scan.t1 = 0 /\ scan' = NoScan
  BY DEF Inv, ScanEnds
<1>2. UNCHANGED V /\ Stuck' = Stuck
  BY DEF ScanEnds, style, Stuck, Stays
<1>3. ASSUME NEW w \in Windows \ Stuck PROVE Placed(w) = frame[w]
  <2>1. CASE scan.delta = Zero
    <3>1. frame[w] \in Point
      BY <1>1, SMT DEF TypeOK
    <3> QED BY <2>1, <3>1, PointSums DEF Placed
  <2>2. CASE scan.delta # Zero
    <3>1. PICK i \in 1 .. N : ring[i] = w
      BY <1>1 DEF TypeOK, Ring
    <3>2. i < scan.t /\ i > scan.t1
      BY <1>1, SizeOfRing, SMT
    <3>3. w \in ViewportMoved
      BY <1>1, <2>2, <3>1, <3>2 DEF Inv, Chased
    <3> QED BY <3>3 DEF Placed
  <2> QED BY <2>1, <2>2
<1>4. ASSUME NEW w \in Windows \ Stuck PROVE frame'[w] = frame[w]
  BY <1>4 DEF ScanEnds, Stay, Stuck, Stays, Sticky
<1>5. \A w \in Windows : Placed(w)' = frame'[w]
  BY <1>1 DEF Placed, NoScan
<1>6. Seen' \in [Windows -> Point]
  <2>1. TypeOK'
    BY <1>1
  <2> QED BY <2>1, PlacedPoint
<1>7. \A w \in Windows \ Stuck : Seen'[w] = Seen[w]
  BY <1>3, <1>4, <1>5 DEF Seen
<1>8. scan.on /\ scan'.on = FALSE
  BY <1>1 DEF NoScan
<1> QED BY <1>2, <1>6, <1>7, <1>8, SMT
        DEF Promise!Settle, Promise!Point, Promise!Axis, Point, Axis, Seen

LEMMA HandlesIsHandle ==
  ASSUME Inv, Inv', NEW w \in Windows, Handles(w)
  PROVE  Promise!Handle(w)
<1>1. ~scan.on /\ scan' = scan /\ V' = V
  BY DEF Handles
<1>2. \A v \in Windows : Placed(v) = frame[v] /\ Placed(v)' = frame'[v]
  BY <1>1 DEF Placed
<1>3. Seen' \in [Windows -> Point]
  <2>1. TypeOK'
    BY DEF Inv
  <2> QED BY <2>1, PlacedPoint
<1>4. Stuck' \in SUBSET Windows
  BY DEF Stuck
<1>5. \A v \in Windows \ {w} : Seen'[v] = Seen[v] /\ (v \in Stuck' <=> v \in Stuck)
  BY <1>2 DEF Seen, Handles, Stuck, Stays
<1> QED BY <1>1, <1>3, <1>4, <1>5
        DEF Promise!Handle, Promise!Point, Promise!Axis, Point, Axis, Seen

LEMMA StepRefines == Inv /\ Inv' /\ [Next]_vars => [Promise!Next]_(Promise!desktop)
<1> SUFFICES ASSUME Inv, Inv', [Next]_vars PROVE Promise!Next \/ UNCHANGED Held
  BY DEF Promise!desktop, Held, Seen
<1>1. TypeOK
  BY DEF Inv
<1>2. CASE ChaseDown \/ ChaseUp
  BY <1>1, <1>2, ChaseStutters
<1>3. CASE ScanEnds
  BY <1>3, EndIsSettle DEF Promise!Next
<1>4. CASE Turns
  BY <1>4, TurnIsTurn DEF Promise!Next
<1>5. ASSUME NEW w \in Windows, Handles(w) PROVE Promise!Next
  BY <1>5, HandlesIsHandle DEF Promise!Next
<1>6. CASE UNCHANGED <<V, scan, ViewportMoved, frame, STICKY, ICONIFIED>>
  BY <1>6 DEF Held, Seen, Placed, Stuck, Stays
<1> QED BY <1>1, <1>2, <1>3, <1>4, <1>5, <1>6, StepKinds

LEMMA InitRefines == Init => Promise!Init
<1> SUFFICES ASSUME Init PROVE Promise!Init
  OBVIOUS
<1>1. TypeOK
  BY InitInv DEF Inv
<1>2. V \in Point
  BY <1>1, SMT DEF TypeOK, Point
<1>3. Seen \in [Windows -> Point] /\ Stuck \in SUBSET Windows
  BY <1>1, PlacedPoint DEF Stuck
<1>4. scan.on = FALSE
  BY DEF Init, NoScan
<1> QED BY <1>2, <1>3, <1>4 DEF Promise!Init, Promise!Point, Promise!Axis, Point, Axis, Seen

(* MoveViewport implements the promise of VirtualDesktop: for any windows, any  *)
(* stacking order and any page, every window that is not stuck moves once and   *)
(* by the same distance, whichever cursor comes to it first.                    *)
THEOREM PagesTurnAsOne == Spec => DesktopSpec
<1>1. Spec => Promise!Init
  BY InitRefines DEF Spec
<1>2. Spec => [][Promise!Next]_(Promise!desktop)
  BY Invariance, StepRefines, PTL DEF Spec
<1> QED BY <1>1, <1>2, PTL DEF DesktopSpec, Promise!Spec

-----------------------------------------------------------------------------
(* The pan frames *)

LEMMA FramesChecked ==
  ASSUME NEW old, NEW v \in [Axis -> Nat], NEW m \in [Axis -> Nat], NEW s, NEW w,
         NEW side \in Side, s[side[1]] # 0, v[side[1]] <= m[side[1]]
  PROVE  /\ side \in checkPanFrames(old, v, m, s, w) => Beyond(side, v, m) \/ side[1] \in w
         /\ Beyond(side, v, m) => side \in checkPanFrames(old, v, m, s, w)
<1>1. side[1] \in Axis /\ side[2] \in {-1, 1}
  BY SMT DEF Side
<1>2. side \in checkPanFrames(old, v, m, s, w) <=>
        IF side \in old THEN ~ (AtBorder(side, v, m) /\ side[1] \notin w) ELSE Beyond(side, v, m)
  BY <1>1 DEF checkPanFrames
<1>3. Beyond(side, v, m) <=> ~AtBorder(side, v, m)
  BY <1>1, SMT DEF Beyond, AtBorder
<1> QED BY <1>2, <1>3

(* Whatever was mapped before, the frames are right once they have been checked *)
(* against the viewport as it is.                                               *)
LEMMA FramesRight ==
  /\ TypeOK /\ pan = checkPanFrames({}, V, VMax, EdgeScroll, wrap) => PanFrames
  /\ TypeOK' /\ pan' = checkPanFrames(pan, V', VMax', EdgeScroll', wrap') => PanFrames'
<1>1. ASSUME TypeOK, pan = checkPanFrames({}, V, VMax, EdgeScroll, wrap) PROVE PanFrames
  <2>1. V \in [Axis -> Nat] /\ VMax \in [Axis -> Nat]
    BY <1>1 DEF TypeOK
  <2> QED BY <1>1, <2>1, FramesChecked DEF PanFrames, Leads
<1>2. ASSUME TypeOK', pan' = checkPanFrames(pan, V', VMax', EdgeScroll', wrap') PROVE PanFrames'
  <2>1. V' \in [Axis -> Nat] /\ VMax' \in [Axis -> Nat]
    BY <1>2 DEF TypeOK
  <2>2. \A side \in Side :
          EdgeScroll'[side[1]] # 0 /\ V'[side[1]] <= VMax'[side[1]] =>
            /\ side \in pan' => Beyond(side, V', VMax') \/ side[1] \in wrap'
            /\ Beyond(side, V', VMax') => side \in pan'
    BY <1>2, <2>1, FramesChecked
  <2> QED BY <2>2 DEF PanFrames, Leads, Beyond
<1> QED BY <1>1, <1>2

LEMMA PanFramesStep ==
  ASSUME Inv, Inv', PanFrames, [Next]_vars
  PROVE  PanFrames'
<1>1. TypeOK /\ TypeOK' /\ Saved
  BY DEF Inv
<1>2. CASE Turns \/ ChaseDown \/ ChaseUp
  <2>1. scan'.on
    BY <1>1, <1>2, Called, SMT DEF Turns, ChaseDown, ChaseUp, TypeOK
  <2> QED BY <2>1 DEF PanFrames
<1>3. CASE ScanEnds
  BY <1>1, <1>3, FramesRight DEF ScanEnds, setting
<1>4. CASE SetDeskSize \/ SetEdgeScroll
  BY <1>1, <1>4, FramesRight DEF SetDeskSize, SetEdgeScroll, where
<1>5. ASSUME UNCHANGED <<V, VMax, EdgeScroll, pan, scan>>, wrap' \cup flags' = wrap \cup flags
      PROVE  PanFrames'
  BY <1>5 DEF PanFrames, Leads, Beyond
<1>6. ASSUME NEW w \in Windows, resize_window(w) PROVE PanFrames'
  <2>1. flags = {}
    BY <1>1, <1>6 DEF resize_window, Command, Saved
  <2> QED BY <1>5, <1>6, <2>1 DEF resize_window, where
<1>7. CASE ResizeEnds
  BY <1>5, <1>7 DEF ResizeEnds
<1>8. CASE \/ UNCHANGED vars \/ FocusEnds
           \/ \E w \in Windows : \/ focus_func(w) \/ DeIconify(w) \/ Iconify(w)
                                 \/ stick_function(w) \/ move_window(w)
  BY <1>5, <1>8 DEF vars, where, setting, edges, FocusEnds, focus_func, DeIconify, Iconify, stick_function, move_window
<1> QED BY <1>1, <1>2, <1>3, <1>4, <1>6, <1>7, <1>8, CommandsTurn, FocusTurns DEF Next

(* On an axis that scrolls, with the viewport on the desktop, the mapped pan     *)
(* frames have a page behind them or wrap, and every edge with a page has one.   *)
THEOREM PanFramesLead == Spec => []PanFrames
<1>1. Init => PanFrames
  BY InitInv, FramesRight DEF Inv, Init
<1>2. Inv /\ Inv' /\ PanFrames /\ [Next]_vars => PanFrames'
  BY PanFramesStep
<1> QED BY <1>1, <1>2, Invariance, PTL DEF Spec

-----------------------------------------------------------------------------
(* The page Focus turns to *)

(* The middle of w, on the screen, once the page being turned is down; if it was *)
(* on the desktop, the page shows it.                                            *)
Middle(w, a) == Placed(w)[a] + size[w][a] \div 2
Showing(w) ==
  \A a \in Axis :
    size[w][a] <= Screen[a] /\ Middle(w, a) + V[a] \in 0 .. VMax[a] + Screen[a] - 1
      => Middle(w, a) \in 0 .. Screen[a] - 1

(* From FocusOn's call of MoveViewport to the next command: no resize goes on that *)
(* could end meanwhile, and what FocusOn turned to shows the window.               *)
Aimed ==
  /\ resizing # NoWindow => focus.stage = "none"
  /\ focus.stage = "done" => ~scan.on
  /\ focus.stage \in {"paging", "done"} /\ focus.window \notin Stuck \cup ICONIFIED => Showing(focus.window)

(* A place on the desktop is on the page C's division finds for it, and on the  *)
(* last page where that page is cut off at the desktop's end.                   *)
LEMMA PageShows ==
  ASSUME NEW n \in Nat, NEW s \in Nat \ {0}, NEW m \in Nat, n <= m + s - 1,
         NEW v, v = IF Quotient(n, s) * s < 0 THEN 0 ELSE IF Quotient(n, s) * s > m THEN m ELSE Quotient(n, s) * s
  PROVE  n - v \in 0 .. s - 1
<1>1. n \div s \in Nat /\ s * (n \div s) <= n /\ n < s * (n \div s) + s
  BY SMTT(30)
<1>2. Quotient(n, s) * s = s * (n \div s) /\ s * (n \div s) \in Nat
  BY <1>1, SMT DEF Quotient
<1> QED BY <1>1, <1>2, SMT

LEMMA Sizes ==
  ASSUME TypeOK, NEW w \in Windows, NEW a \in Axis
  PROVE  /\ frame[w][a] \in Int /\ V[a] \in Nat /\ VMax[a] \in Nat /\ scan.delta[a] \in Int
         /\ Screen[a] \in Nat \ {0} /\ size[w][a] \in Nat \ {0} /\ size[w][a] \div 2 \in Nat
         /\ size[w][a] <= Screen[a] => size[w][a] \div 2 < Screen[a]
<1>1. /\ frame[w][a] \in Int /\ V[a] \in Nat /\ VMax[a] \in Nat /\ scan.delta[a] \in Int
      /\ size[w][a] \in Nat \ {0}
  BY SMT DEF TypeOK, Point
<1>2. Screen[a] \in Nat \ {0}
  BY ViewportAssumption, SMT DEF ViewportAssumption
<1> QED BY <1>1, <1>2, SMT

(* Where nothing that Showing reads changes, it stays. *)
LEMMA ShowingStays ==
  ASSUME NEW w, Showing(w), Placed(w)' = Placed(w), UNCHANGED <<V, VMax, size>>
  PROVE  Showing(w)'
  BY DEF Showing, Middle

(* FocusOn turns to the page that the middle is on. *)
LEMMA FocusOnShows ==
  ASSUME Inv, Inv', FocusOn, focus.window \notin Stuck \cup ICONIFIED
  PROVE  Showing(focus.window)'
<1> DEFINE w == focus.window
<1>1. TypeOK /\ TypeOK' /\ ~scan.on /\ ViewportMoved = {}
  BY DEF Inv, Chased, FocusOn
<1>2. w \in Windows /\ w \notin Stuck /\ w \notin ICONIFIED
  BY <1>1, SMT DEF FocusOn, TypeOK
<1>3. MoveViewport(PageOf(Centre(w))) /\ UNCHANGED <<frame, VMax, size, ViewportMoved>> /\ focus'.window = w
  BY <1>1, <1>2, SMT DEF FocusOn, setting, TypeOK
<1>4. Stuck' = Stuck
  BY DEF FocusOn, style, Stuck, Stays
<1>5. scan'.on /\ scan'.delta = Minus(V, V') /\ V' = Clamped(PageOf(Centre(w)))
  BY <1>3, SMT DEF MoveViewport
<1>6. Placed(w)' = Plus(frame[w], Minus(V, V'))
  BY <1>1, <1>2, <1>3, <1>4, <1>5 DEF Placed
<1> SUFFICES ASSUME NEW a \in Axis, size[w][a] <= Screen[a], Middle(w, a)' + V'[a] \in 0 .. VMax[a] + Screen[a] - 1
             PROVE  Middle(w, a)' \in 0 .. Screen[a] - 1
  BY <1>3 DEF Showing
<1> DEFINE n == frame[w][a] + size[w][a] \div 2 + V[a]
<1>7. /\ frame[w][a] \in Int /\ V[a] \in Nat /\ VMax[a] \in Nat /\ Screen[a] \in Nat \ {0}
      /\ size[w][a] \div 2 \in Nat /\ V'[a] \in Nat
  <2>1. V'[a] \in Nat
    BY <1>1 DEF TypeOK
  <2> QED BY <1>1, <1>2, <2>1, Sizes
<1>8. Middle(w, a)' = n - V'[a]
  <2>1. Placed(w)'[a] = frame[w][a] + (V[a] - V'[a])
    BY <1>6 DEF Plus, Minus
  <2> QED BY <1>3, <1>7, <2>1 DEF Middle
<1>9. n \in Nat /\ n <= VMax[a] + Screen[a] - 1
  BY <1>7, <1>8, SMT
<1>10. V'[a] = IF Quotient(n, Screen[a]) * Screen[a] < 0 THEN 0
               ELSE IF Quotient(n, Screen[a]) * Screen[a] > VMax[a] THEN VMax[a]
               ELSE Quotient(n, Screen[a]) * Screen[a]
  BY <1>5 DEF Clamped, PageOf, Centre
<1> HIDE DEF n
<1> QED BY <1>7, <1>8, <1>9, <1>10, PageShows

(* A window that FocusOn brings back to the corner is shown there. *)
LEMMA FocusEndsShows ==
  ASSUME Inv, Inv', Aimed, FocusEnds, focus.window \notin Stuck \cup ICONIFIED
  PROVE  Showing(focus.window)'
<1> DEFINE w == focus.window
<1>1. TypeOK /\ ~scan.on /\ scan' = scan
  BY DEF Inv, FocusEnds
<1>2. w \in Windows /\ focus'.window = w /\ UNCHANGED <<V, VMax, size>>
  BY <1>1, SMT DEF FocusEnds, TypeOK, setting
<1>3. Placed(w) = frame[w] /\ Placed(w)' = frame'[w]
  BY <1>1, <1>2 DEF Placed
<1>4. CASE ~Hidden(w)
  <2>1. frame' = frame
    BY <1>4 DEF FocusEnds
  <2>2. Showing(w)
    BY DEF Aimed, FocusEnds
  <2>3. Showing(w)'
    BY <1>2, <1>3, <2>1, <2>2, ShowingStays
  <2> QED BY <1>2, <2>3 DEF Showing, Middle, Placed
<1>5. CASE Hidden(w)
  <2>1. frame'[w] = Zero
    BY <1>1, <1>2, <1>5 DEF FocusEnds, TypeOK
  <2> SUFFICES ASSUME NEW a \in Axis, size[w][a] <= Screen[a]
               PROVE  Middle(w, a)' \in 0 .. Screen[a] - 1
    BY <1>2 DEF Showing
  <2>2. Middle(w, a)' = 0 + size[w][a] \div 2
    BY <1>2, <1>3, <2>1 DEF Middle, Zero
  <2>3. size[w][a] \div 2 \in Nat /\ size[w][a] \div 2 < Screen[a] /\ Screen[a] \in Nat
    BY <1>1, <1>2, Sizes
  <2> QED BY <2>2, <2>3, SMT
<1> QED BY <1>4, <1>5

(* The scan, its end included, takes the window where it was to go. *)
LEMMA ScanKeepsShowing ==
  ASSUME Inv, Inv', ChaseDown \/ ChaseUp \/ ScanEnds,
         NEW w \in Windows, w \notin Stuck \cup ICONIFIED, Showing(w)
  PROVE  Showing(w)' /\ Stuck' = Stuck
<1>1. TypeOK /\ UNCHANGED <<V, VMax, size, STICKY, ICONIFIED>>
  BY DEF Inv, ChaseDown, ChaseUp, ScanEnds, setting, style
<1>2. Stuck' = Stuck
  BY <1>1 DEF Stuck, Stays
<1>3. Seen'[w] = Seen[w]
  <2>1. CASE ChaseDown \/ ChaseUp
    BY <1>1, <2>1, ChaseStutters DEF Held
  <2>2. CASE ScanEnds
    <3>1. Promise!Settle
      BY <2>2, EndIsSettle
    <3> QED BY <3>1 DEF Promise!Settle, Seen
  <2> QED BY <2>1, <2>2
<1>4. Placed(w)' = Placed(w)
  BY <1>3 DEF Seen
<1> QED BY <1>1, <1>2, <1>4, ShowingStays

LEMMA AimedStep ==
  ASSUME Inv, Inv', Aimed, [Next]_vars
  PROVE  Aimed'
<1>1. TypeOK /\ TypeOK'
  BY DEF Inv
<1>2. CASE ChaseDown \/ ChaseUp \/ ScanEnds
  <2>1. UNCHANGED <<resizing, focus, ICONIFIED>> /\ scan.on
    BY <1>2 DEF ChaseDown, ChaseUp, ScanEnds, edges, style
  <2>2. focus.stage # "done"
    BY <2>1 DEF Aimed
  <2>3. ASSUME focus'.stage \in {"paging", "done"}, focus'.window \notin Stuck' \cup ICONIFIED'
        PROVE  Showing(focus.window)'
    <3>1. focus.window \in Windows
      BY <1>1, <2>1, <2>3, SMT DEF TypeOK
    <3>2. Stuck' = Stuck
      BY <1>2 DEF ChaseDown, ChaseUp, ScanEnds, style, Stuck, Stays
    <3>3. Showing(focus.window)
      BY <2>1, <2>3, <3>2 DEF Aimed
    <3>4. \A w : w = focus.window => Showing(w)'
      BY <1>2, <2>1, <2>3, <3>1, <3>2, <3>3, ScanKeepsShowing
    <3> QED BY <2>1, <3>4 DEF Showing, Middle, Placed
  <2> QED BY <2>1, <2>2, <2>3 DEF Aimed
<1>3. CASE FocusOn
  <2>1. focus'.stage = "paging" /\ focus'.window = focus.window /\ focus.stage = "called"
        /\ UNCHANGED <<resizing, STICKY, ICONIFIED>>
    BY <1>1, <1>3, SMT DEF FocusOn, edges, style, TypeOK
  <2>2. resizing = NoWindow /\ Stuck' = Stuck
    BY <2>1 DEF Aimed, Stuck, Stays
  <2> QED BY <1>3, <2>1, <2>2, FocusOnShows DEF Aimed
<1>4. CASE FocusEnds
  <2>1. focus'.stage = "done" /\ focus'.window = focus.window /\ focus.stage = "paging" /\ ~scan.on
        /\ UNCHANGED <<resizing, scan, STICKY, ICONIFIED>>
    BY <1>1, <1>4, SMT DEF FocusEnds, edges, style, TypeOK
  <2>2. resizing = NoWindow /\ Stuck' = Stuck
    BY <2>1 DEF Aimed, Stuck, Stays
  <2> QED BY <1>4, <2>1, <2>2, FocusEndsShows DEF Aimed
<1>5. ASSUME focus'.stage = "none" PROVE Aimed'
  BY <1>5 DEF Aimed
<1>6. ASSUME NEW w \in Windows, focus'.stage = "called", resizing' = NoWindow PROVE Aimed'
  BY <1>6 DEF Aimed
<1>7. CASE EnterPanFrame \/ PageWhileResizing \/ Scroll \/ goto_page_func \/ movecursor \/ SetDeskSize \/ SetEdgeScroll
  <2>1. focus' = NoFocus
    BY <1>7 DEF EnterPanFrame, PageWhileResizing, Scroll, goto_page_func, movecursor, SetDeskSize, SetEdgeScroll, Command
  <2> QED BY <1>5, <2>1 DEF NoFocus
<1>8. ASSUME NEW w \in Windows, Iconify(w) \/ stick_function(w) \/ move_window(w) \/ resize_window(w) PROVE Aimed'
  <2>1. focus' = NoFocus
    BY <1>8 DEF Iconify, stick_function, move_window, resize_window, Command
  <2> QED BY <1>5, <2>1 DEF NoFocus
<1>9. ASSUME NEW w \in Windows, focus_func(w) \/ DeIconify(w) PROVE Aimed'
  <2>1. (focus' = [window |-> w, stage |-> "called"] \/ focus' = NoFocus) /\ resizing' = NoWindow
    BY <1>9 DEF focus_func, DeIconify, edges
  <2>2. focus'.stage = "called" \/ focus'.stage = "none"
    BY <2>1 DEF NoFocus
  <2> QED BY <1>5, <1>6, <2>1, <2>2
<1>10. CASE ResizeEnds
  <2>1. focus'.stage = "none"
    BY <1>10 DEF ResizeEnds, Aimed
  <2> QED BY <1>5, <2>1
<1>11. CASE UNCHANGED vars
  BY <1>11 DEF vars, where, setting, edges, style, Aimed, Showing, Middle, Placed, Stuck, Stays
<1> QED BY <1>2, <1>3, <1>4, <1>7, <1>8, <1>9, <1>10, <1>11 DEF Next

(* After Focus the middle of the window is on the screen, for any screen, desktop, *)
(* place and size: whichever page FocusOn finds for it, wherever MoveViewport stops *)
(* at the desktop's borders, and although its test for a window off the screen adds *)
(* the height to x.                                                                *)
THEOREM FocusShowsTheMiddle == Spec => []CentreShown
<1>1. Init => Aimed
  BY DEF Init, Aimed, NoFocus
<1>2. Inv /\ Aimed => CentreShown
  <2> SUFFICES ASSUME Inv, Aimed, focus.stage = "done", focus.window \notin Stuck \cup ICONIFIED,
                      \A a \in Axis : /\ size[focus.window][a] <= Screen[a]
                                      /\ Centre(focus.window)[a] + V[a] \in 0 .. VMax[a] + Screen[a] - 1,
                      NEW a \in Axis
               PROVE  Centre(focus.window)[a] \in 0 .. Screen[a] - 1
    BY DEF CentreShown
  <2>1. Placed(focus.window) = frame[focus.window]
    BY DEF Aimed, Placed
  <2>2. Middle(focus.window, a) = Centre(focus.window)[a]
    BY <2>1 DEF Middle, Centre
  <2> QED BY <2>2 DEF Aimed, Showing
<1>3. Inv /\ Inv' /\ Aimed /\ [Next]_vars => Aimed'
  BY AimedStep
<1> QED BY <1>1, <1>2, <1>3, Invariance, PTL DEF Spec
=============================================================================
