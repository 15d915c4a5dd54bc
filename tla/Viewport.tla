------------------------------ MODULE Viewport ------------------------------
(* The screen as a viewport on a larger desktop (virtual.c), and the builtins   *)
(* that move it: paging at the pan frames, Scroll, GotoPage, CursorMove, Focus. *)
(* frame_x, frame_y are screen coordinates, so that turning a page moves every  *)
(* window: MoveViewport chases the stacking chain from both ends at once, one   *)
(* action of this module for each window it looks at.                           *)
(* Icons' positions are left out: the page an icon is on is any page. The ring  *)
(* is the order of the scan; transients and ONTOP windows do not change what    *)
(* happens here. Commands are bounded by MaxCommands.                           *)
EXTENDS Integers, FiniteSets

CONSTANTS
  Windows,      \* the windows of every desk: MoveViewport does not ask which
  StickyIcon,   \* those with that style
  ClickToFocus, \* those with that style
  NoWindow,
  Screen,       \* MyDisplayWidth, MyDisplayHeight
  Places,       \* where the user puts a window
  Shapes,       \* its width and height
  DeskSizes,    \* the arguments of DesktopSize
  Scrolls,      \* the arguments of EdgeScroll, in pixels
  Jumps,        \* the arguments of Scroll, in pixels
  MaxCommands

VARIABLES
  V, VMax,      \* Scr.Vx, Vy and VxMax, VyMax
  EdgeScroll,   \* Scr.EdgeScrollX, Y
  wrap,         \* the axes with EdgeWrap
  pan,          \* the pan frames that are mapped
  frame, size,  \* frame_x, frame_y and frame_width, frame_height
  ring,         \* stack_next of FvwmRoot and so on: position to window
  STICKY, ICONIFIED, ICON_MOVED, ViewportMoved,
  scan,         \* MoveViewport's loop
  focus,        \* FocusOn, a caller of MoveViewport
  resizing,     \* the window being resized
  flags,        \* what resize_window saved: the axes that wrap again when it ends
  commands      \* how many commands there have been

where == <<V, frame, ring>>
style == <<STICKY, ICONIFIED, ICON_MOVED>>
setting == <<VMax, EdgeScroll, wrap>>
edges == <<pan, resizing, flags>>
vars == <<where, setting, edges, size, style, ViewportMoved, scan, focus, commands>>

Axis == {"x", "y"}
Point == [Axis -> Int]
Plus(p, q) == [a \in Axis |-> p[a] + q[a]]
Minus(p, q) == [a \in Axis |-> p[a] - q[a]]
Zero == [a \in Axis |-> 0]
Other(a) == IF a = "x" THEN "y" ELSE "x"

N == Cardinality(Windows)
Ring == {r \in [1 .. N -> Windows] : \A w \in Windows : \E i \in 1 .. N : r[i] = w}
Side == Axis \X {-1, 1}     \* <<"x", -1>> is PanFrameLeft
Edge == [Axis -> {-1, 0, 1}] \* where the pointer is: at which borders of the screen
Desktop(d) == [a \in Axis |-> d[a] * Screen[a] - Screen[a]]

ASSUME ViewportAssumption ==
  /\ IsFiniteSet(Windows)
  /\ NoWindow \notin Windows
  /\ Screen \in [Axis -> Nat \ {0}]
  /\ Places \subseteq Point
  /\ Shapes \subseteq [Axis -> Nat \ {0}]
  /\ DeskSizes \subseteq [Axis -> Nat \ {0}]
  /\ Scrolls \subseteq [Axis -> Nat]
  /\ Jumps \subseteq Point
  /\ MaxCommands \in Nat

NoScan == [on |-> FALSE, t |-> 0, t1 |-> 0, delta |-> Zero]
NoFocus == [window |-> NoWindow, stage |-> "none"]

-----------------------------------------------------------------------------
(* The pan frames *)

AtBorder(side, v, m) == v[side[1]] = IF side[2] = -1 THEN 0 ELSE m[side[1]]
Beyond(side, v, m) == IF side[2] = -1 THEN v[side[1]] > 0 ELSE v[side[1]] < m[side[1]]

\* The pan frames that are mapped after checkPanFrames, when those of old were.
checkPanFrames(old, v, m, s, w) ==
  LET left == {side \in old : s[side[1]] # 0}
  IN IF \A a \in Axis : s[a] = 0 THEN left
     ELSE {side \in Side :
             IF side \in left THEN ~ (AtBorder(side, v, m) /\ side[1] \notin w)
             ELSE Beyond(side, v, m)}

(* The windows *)

Sticky(w) == w \in STICKY \/ w \in StickyIcon
Stays(w) == (w \in ICONIFIED /\ w \in StickyIcon) \/ w \in STICKY

\* AutoPlace puts the window of a sticky icon on the page it is seen on.
OnScreen(p) == [a \in Axis |-> p[a] % Screen[a]]

RaiseWindow(w) ==
  \E k \in 1 .. N :
    /\ ring[k] = w
    /\ ring' = [i \in 1 .. N |-> IF i = 1 THEN w ELSE IF i <= k THEN ring[i - 1] ELSE ring[i]]

LowerWindow(w) ==
  \E k \in 1 .. N :
    /\ ring[k] = w
    /\ ring' = [i \in 1 .. N |-> IF i = N THEN w ELSE IF i < k THEN ring[i] ELSE ring[i + 1]]

-----------------------------------------------------------------------------
(* MoveViewport *)

\* Mutant: no left and no upper border
ClampedAbove(p) == [a \in Axis |-> IF p[a] > VMax[a] THEN VMax[a] ELSE p[a]]

Clamped(p) == [a \in Axis |-> IF p[a] < 0 THEN 0
                              ELSE IF p[a] > VMax[a] THEN VMax[a] ELSE p[a]]

\* The call. Where nothing moves the loop is not entered.
MoveViewport(to) ==
  LET new == Clamped(to)
      delta == Minus(V, new)
      still == delta = Zero
  IN /\ V' = new
     /\ scan' = [on |-> TRUE, delta |-> delta,
                 t  |-> IF still THEN N + 1 ELSE 1,
                 t1 |-> IF still THEN 0 ELSE N]

ComesIntoView(w) ==
  \A a \in Axis : /\ frame[w][a] + size[w][a] >= - scan.delta[a]
                  /\ frame[w][a] <= Screen[a] - scan.delta[a]

Carry(w) ==
  /\ ViewportMoved' = ViewportMoved \cup {w}
  /\ frame' = IF Stays(w) THEN frame ELSE [frame EXCEPT ![w] = Plus(@, scan.delta)]

Stay == UNCHANGED <<ViewportMoved, frame>>

\* A round of the loop is a step of t, down the stack, then one of t1, up.
ChaseDown ==
  /\ scan.on /\ scan.t <= N /\ scan.t + scan.t1 = N + 1
  /\ LET w == ring[scan.t]
     IN IF ComesIntoView(w) /\ w \notin ViewportMoved THEN Carry(w) ELSE Stay
  /\ scan' = [scan EXCEPT !.t = @ + 1]
  /\ UNCHANGED <<V, ring, setting, edges, size, style, focus, commands>>

\* Mutant: the second cursor does not ask whether the window has been moved
ChaseUpAgain ==
  /\ scan.on /\ scan.t1 >= 1 /\ scan.t + scan.t1 = N + 2
  /\ IF ~ ComesIntoView(ring[scan.t1]) THEN Carry(ring[scan.t1]) ELSE Stay
  /\ scan' = [scan EXCEPT !.t1 = @ - 1]
  /\ UNCHANGED <<V, ring, setting, edges, size, style, focus, commands>>

ChaseUp ==
  /\ scan.on /\ scan.t1 >= 1 /\ scan.t + scan.t1 = N + 2
  /\ LET w == ring[scan.t1]
     IN IF ~ ComesIntoView(w) /\ w \notin ViewportMoved THEN Carry(w) ELSE Stay
  /\ scan' = [scan EXCEPT !.t1 = @ - 1]
  /\ UNCHANGED <<V, ring, setting, edges, size, style, focus, commands>>

ScanEnds ==
  /\ scan.on /\ scan.t = N + 1 /\ scan.t1 = 0
  /\ scan' = NoScan
  /\ pan' = checkPanFrames(pan, V, VMax, EdgeScroll, wrap)
  /\ IF scan.delta = Zero THEN Stay
     ELSE /\ ViewportMoved' = {}
          /\ frame' = [w \in Windows |->
                         IF Sticky(w) /\ w \in ICONIFIED \ ICON_MOVED
                         THEN OnScreen(frame[w]) ELSE frame[w]]
  /\ UNCHANGED <<V, ring, setting, resizing, flags, size, style, focus, commands>>

-----------------------------------------------------------------------------
(* FocusOn and WarpOn, which differ in where the pointer and the focus go *)

\* C's division, towards zero.
Quotient(n, d) == IF n >= 0 THEN n \div d ELSE - ((- n) \div d)

Centre(w) == [a \in Axis |-> frame[w][a] + size[w][a] \div 2]
\* Mutant: screen coordinates for the desktop's
PageOfScreen(p) == [a \in Axis |-> Quotient(p[a], Screen[a]) * Screen[a]]
PageOf(p) == [a \in Axis |-> Quotient(p[a] + V[a], Screen[a]) * Screen[a]]

\* The pages of the largest desktop and the ones right beyond it.  One before the first is the
\* first, by MoveViewport.
PageNumbers == UNION {(0 .. d["x"]) \cup (0 .. d["y"]) : d \in DeskSizes}
Pages == {[a \in Axis |-> k[a] * Screen[a]] : k \in [Axis -> PageNumbers]}

FocusOn ==
  /\ ~scan.on /\ focus.stage = "called"
  /\ focus' = [focus EXCEPT !.stage = "paging"]
  /\ IF focus.window \in ICONIFIED THEN \E p \in Pages : MoveViewport(p)
     ELSE MoveViewport(PageOf(Centre(focus.window)))
  /\ UNCHANGED <<frame, ring, setting, edges, size, style, ViewportMoved, commands>>

\* The code's test adds the height to x and the width to y.
Hidden(w) == \E a \in Axis : \/ frame[w][a] + size[w][Other(a)] < 0
                             \/ frame[w][a] > Screen[a]

FocusEnds ==
  /\ ~scan.on /\ focus.stage = "paging"
  /\ focus' = [focus EXCEPT !.stage = "done"]
  /\ RaiseWindow(focus.window)
  /\ frame' = IF Hidden(focus.window) THEN [frame EXCEPT ![focus.window] = Zero] ELSE frame
  /\ UNCHANGED <<V, setting, edges, size, style, ViewportMoved, scan, commands>>

-----------------------------------------------------------------------------
(* Commands, and the pointer at the edge *)

Free == ~scan.on /\ focus.stage \in {"none", "done"} /\ commands < MaxCommands
Command == Free /\ resizing = NoWindow /\ commands' = commands + 1 /\ focus' = NoFocus

\* HandlePaging: the event was at the borders ev, the pointer is now at e.
Paging(ev, e) ==
  LET raw == [a \in Axis |-> IF VMax[a] = 0 THEN 0 ELSE e[a] * EdgeScroll[a]]
      delta == [a \in Axis |->
                  IF a \notin wrap THEN raw[a]
                  ELSE IF V[a] + raw[a] < 0 THEN VMax[a]
                  ELSE IF V[a] + raw[a] > VMax[a] THEN - VMax[a] ELSE raw[a]]
  IN /\ \E a \in Axis : EdgeScroll[a] # 0
     /\ \E a \in Axis : VMax[a] # 0 /\ ev[a] # 0
     /\ delta # Zero
     /\ MoveViewport(Plus(V, delta))
     /\ UNCHANGED <<frame, ring, setting, edges, size, style, ViewportMoved>>

\* The pointer enters a pan frame, or moves at the edge during a resize.
EnterPanFrame ==
  /\ Command
  /\ \E side \in pan, ev, e \in Edge : ev[side[1]] = side[2] /\ Paging(ev, e)

PageWhileResizing ==
  /\ Free /\ resizing # NoWindow
  /\ commands' = commands + 1 /\ focus' = NoFocus
  /\ \E ev, e \in Edge : Paging(ev, e)

\* Scroll: along the axes of far (100000 and more) it goes on with the next row.
Scroll ==
  /\ Command
  /\ \E j \in Jumps, far \in SUBSET Axis :
       LET Turned(p, a) ==
             LET b == Other(a)
                 on == p[b] + Screen[b]
                 back == p[b] - Screen[b]
             IN IF a \in far /\ p[a] > VMax[a]
                THEN [c \in Axis |-> IF c = a \/ on > VMax[b] THEN 0 ELSE on]
                ELSE IF a \in far /\ p[a] < 0
                THEN [c \in Axis |-> IF c = a THEN VMax[a] ELSE IF back < 0 THEN VMax[b] ELSE back]
                ELSE p
       IN MoveViewport(Turned(Turned(Plus(V, j), "x"), "y"))
  /\ UNCHANGED <<frame, ring, setting, edges, size, style, ViewportMoved>>

\* GotoPage
goto_page_func ==
  /\ Command
  /\ \E p \in Pages : MoveViewport(p)
  /\ UNCHANGED <<frame, ring, setting, edges, size, style, ViewportMoved>>

\* CursorMove with the pointer at the borders e
movecursor ==
  /\ Command
  /\ \E e \in Edge :
       LET to == Clamped([a \in Axis |-> V[a] + e[a] * EdgeScroll[a]])
       IN to # V /\ MoveViewport(to)
  /\ UNCHANGED <<frame, ring, setting, edges, size, style, ViewportMoved>>

\* Focus and WarpToWindow on w
focus_func(w) ==
  /\ Free /\ resizing = NoWindow
  /\ commands' = commands + 1
  /\ focus' = [window |-> w, stage |-> "called"]
  /\ UNCHANGED <<where, setting, edges, size, style, ViewportMoved, scan>>

DeIconify(w) ==
  /\ Free /\ resizing = NoWindow /\ w \in ICONIFIED
  /\ commands' = commands + 1
  /\ ICONIFIED' = ICONIFIED \ {w}
  /\ RaiseWindow(w)
  /\ focus' = IF w \in ClickToFocus THEN [window |-> w, stage |-> "called"] ELSE NoFocus
  /\ UNCHANGED <<V, frame, setting, edges, size, STICKY, ICON_MOVED, ViewportMoved, scan>>

Iconify(w) ==
  /\ Command /\ w \notin ICONIFIED
  /\ ICONIFIED' = ICONIFIED \cup {w}
  /\ frame' = IF Sticky(w) THEN [frame EXCEPT ![w] = OnScreen(@)] ELSE frame
  /\ LowerWindow(w)
  /\ UNCHANGED <<V, setting, edges, size, STICKY, ICON_MOVED, ViewportMoved, scan>>

stick_function(w) ==
  /\ Command
  /\ STICKY' = IF w \in STICKY THEN STICKY \ {w} ELSE STICKY \cup {w}
  /\ UNCHANGED <<where, setting, edges, size, ICONIFIED, ICON_MOVED, ViewportMoved, scan>>

\* Moving an icon moves no frame.
move_window(w) ==
  /\ Command
  /\ IF w \in ICONIFIED
     THEN ICON_MOVED' = ICON_MOVED \cup {w} /\ UNCHANGED frame
     ELSE UNCHANGED ICON_MOVED /\ \E p \in Places : frame' = [frame EXCEPT ![w] = p]
  /\ UNCHANGED <<V, ring, setting, edges, size, STICKY, ICONIFIED, ViewportMoved, scan>>

\* A resize by hand turns wrapping off for as long as it lasts.
resize_window(w) ==
  /\ Command /\ w \notin ICONIFIED
  /\ resizing' = w
  /\ flags' = wrap
  /\ wrap' = {}
  /\ UNCHANGED <<where, VMax, EdgeScroll, pan, size, style, ViewportMoved, scan>>

ResizeEnds ==
  /\ ~scan.on /\ resizing # NoWindow
  /\ \/ UNCHANGED <<frame, size>>
     \/ \E p \in Places, s \in Shapes : /\ frame' = [frame EXCEPT ![resizing] = p]
                                        /\ size' = [size EXCEPT ![resizing] = s]
  /\ wrap' = wrap \cup flags
  /\ flags' = {}
  /\ resizing' = NoWindow
  /\ UNCHANGED <<V, ring, VMax, EdgeScroll, pan, style, ViewportMoved, scan, focus, commands>>

\* Mutant: the pan frames are left to the next page
SetDeskSizeOnly ==
  /\ Command
  /\ \E d \in DeskSizes : VMax' = Desktop(d)
  /\ UNCHANGED <<where, EdgeScroll, wrap, edges, size, style, ViewportMoved, scan>>

\* DesktopSize: the viewport stays where it is, even outside.
SetDeskSize ==
  /\ Command
  /\ \E d \in DeskSizes : VMax' = Desktop(d)
  /\ pan' = checkPanFrames(pan, V, VMax', EdgeScroll, wrap)
  /\ UNCHANGED <<where, EdgeScroll, wrap, resizing, flags, size, style, ViewportMoved, scan>>

\* EdgeScroll: the axes given in thousands wrap.
SetEdgeScroll ==
  /\ Command
  /\ \E s \in Scrolls, thousands \in SUBSET Axis :
       /\ \A a \in thousands : s[a] # 0
       /\ EdgeScroll' = s
       /\ wrap' = thousands
  /\ pan' = checkPanFrames(pan, V, VMax, EdgeScroll', wrap')
  /\ UNCHANGED <<where, VMax, resizing, flags, size, style, ViewportMoved, scan>>

-----------------------------------------------------------------------------
\* After the start: the pan frames have been made and checked once.
Init ==
  /\ V = Zero
  /\ VMax \in {Desktop(d) : d \in DeskSizes}
  /\ EdgeScroll \in Scrolls
  /\ wrap = {}
  /\ pan = checkPanFrames({}, V, VMax, EdgeScroll, wrap)
  /\ frame \in [Windows -> Places]
  /\ size \in [Windows -> Shapes]
  /\ ring \in Ring
  /\ STICKY = {} /\ ICONIFIED = {} /\ ICON_MOVED = {} /\ ViewportMoved = {}
  /\ scan = NoScan
  /\ focus = NoFocus
  /\ resizing = NoWindow /\ flags = {}
  /\ commands = 0

Next ==
  \/ ChaseDown \/ ChaseUp \/ ScanEnds
  \/ FocusOn \/ FocusEnds
  \/ EnterPanFrame \/ PageWhileResizing
  \/ Scroll \/ goto_page_func \/ movecursor
  \/ \E w \in Windows : \/ focus_func(w)
                        \/ DeIconify(w)
                        \/ Iconify(w)
                        \/ stick_function(w)
                        \/ move_window(w)
                        \/ resize_window(w)
  \/ ResizeEnds
  \/ SetDeskSize \/ SetEdgeScroll

Spec == Init /\ [][Next]_vars
-----------------------------------------------------------------------------
(* Properties *)

\* Types. The viewport's corner is on the desktop's positive side, the ring holds
\* every window once, and every counter is in its range.
TypeOK ==
  /\ V \in [Axis -> Nat] /\ VMax \in [Axis -> Nat] /\ EdgeScroll \in [Axis -> Nat]
  /\ wrap \in SUBSET Axis /\ flags \in SUBSET Axis
  /\ pan \in SUBSET Side
  /\ frame \in [Windows -> Point]
  /\ size \in [Windows -> [Axis -> Nat \ {0}]]
  /\ ring \in Ring
  /\ STICKY \in SUBSET Windows /\ ICONIFIED \in SUBSET Windows
  /\ ICON_MOVED \in SUBSET Windows /\ ViewportMoved \in SUBSET Windows
  /\ scan \in [on : BOOLEAN, t : 0 .. N + 1, t1 : 0 .. N, delta : Point]
  /\ focus \in [window : Windows \cup {NoWindow}, stage : {"none", "called", "paging", "done"}]
  /\ (focus.stage # "none") => focus.window \in Windows
  /\ resizing \in Windows \cup {NoWindow}
  /\ commands \in 0 .. MaxCommands

Stuck == {w \in Windows : Stays(w)}

\* Where a window is once the page has been turned. While it is being turned, those
\* that MoveViewport has not come to yet are where it will put them.
Placed(w) == IF scan.on /\ w \notin ViewportMoved \cup Stuck
             THEN Plus(frame[w], scan.delta) ELSE frame[w]

Promise == INSTANCE VirtualDesktop
  WITH port <- V, at <- [w \in Windows |-> Placed(w)], stuck <- Stuck, turning <- scan.on

\* A page is turned as one movement (virtual.c:305-451): whatever the order of the
\* stacking ring, and however windows move in and out of view under its two cursors,
\* every window is moved exactly once, sticky ones and sticky icons not at all, and
\* nothing moves a window but that and the commands on the window itself.
DesktopSpec == Promise!Spec

Leads(side) == Beyond(side, V, VMax) \/ side[1] \in wrap \cup flags

\* The pan frames are where paging leads somewhere (virtual.c:162-224): whatever has
\* been done to the desktop's size, the scrolling and the viewport, on an axis that
\* scrolls a mapped frame has a page behind it or wraps, and where there is a page
\* there is a mapped frame. Not for a viewport that DesktopSize left outside.
PanFrames ==
  ~scan.on =>
    \A side \in Side :
      EdgeScroll[side[1]] # 0 /\ V[side[1]] <= VMax[side[1]] =>
        /\ side \in pan => Leads(side)
        /\ Beyond(side, V, VMax) => side \in pan

\* Focus turns to the page that holds the window's middle (builtins.c:160-173): after it the
\* middle of a window that was on the desktop, not stuck, and not larger than the
\* screen, is on the screen.
CentreShown ==
  LET w == focus.window
      middle == Centre(w)
  IN ( /\ focus.stage = "done" /\ w \notin Stuck \cup ICONIFIED
       /\ \A a \in Axis : /\ size[w][a] <= Screen[a]
                          /\ middle[a] + V[a] \in 0 .. VMax[a] + Screen[a] - 1 )
     => \A a \in Axis : middle[a] \in 0 .. Screen[a] - 1
=============================================================================
