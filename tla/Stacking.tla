------------------------------ MODULE Stacking ------------------------------
(***************************************************************************)
(* The stacking order under fvwm95: RaiseWindow, LowerWindow, KeepOnTop    *)
(* (misc.c) and the handlers and commands that call them (events.c,        *)
(* builtins.c, icons.c).                                                   *)
(*                                                                         *)
(* The server has the true order of the frames.  fvwm has a ring of its    *)
(* own (stack_next), the pointer LastWindowRaised, the flags ONTOP, and    *)
(* the flags VISIBLE, which it learns from VisibilityNotify events and so  *)
(* later than it uses them.  Handlers are compositions of routines, each   *)
(* a map from the state record, wm, to the next.                           *)
(*                                                                         *)
(* Left out: desks, the focus (the order of the focus list is any order),  *)
(* icon windows but for what they tell of their visibility, pan frames,    *)
(* override-redirect windows.  The flag RAISED is never read.              *)
(***************************************************************************)
EXTENDS Naturals, Sequences, SequencesExt, FiniteSets, Lists

CONSTANTS
  Windows,      \* client windows
  NoWindow,     \* NULL
  Freed,        \* the address of a window that was freed
  TransientFor, \* TransientFor[w]: WM_TRANSIENT_FOR of w, or NoWindow
  STAYSONTOP,   \* windows with the style StaysOnTop
  Restackers,   \* windows whose client asks for places in the stack
  Movers,       \* windows that the user or their client moves
  MaxCommands   \* bound: what users and clients do and what icons tell, in all

ASSUME StackingAssumption ==
  /\ IsFiniteSet(Windows)
  /\ NoWindow \notin Windows /\ Freed \notin Windows \cup {NoWindow}
  /\ TransientFor \in [Windows -> Windows \cup {NoWindow}]
  /\ \A w \in Windows : TransientFor[w] # w
  /\ STAYSONTOP \subseteq Windows /\ Restackers \subseteq Windows /\ Movers \subseteq Windows
  /\ MaxCommands \in Nat

VARIABLES
  wm,       \* fvwm's state and the server's
  ncommands \* what users and clients did and icons told so far

vars == <<wm, ncommands>>

Pairs == {p \in SUBSET Windows : Cardinality(p) = 2}

Events == [type : {"MapNotify", "VisibilityNotify"}, win : Windows, unobscured : BOOLEAN]

WM == [
  \* fvwm: struct ScreenInfo and struct FvwmWindow
  ring : Seq(Windows),            \* FvwmRoot.stack_next, topmost first
  ONTOP : SUBSET Windows, ICONIFIED : SUBSET Windows, VISIBLE : SUBSET Windows,
  LastWindowRaised : Windows \cup {NoWindow, Freed},
  \* the server
  xstack : Seq(Windows),          \* frames, topmost first
  frame : SUBSET Windows, mapped : SUBSET Windows, \* mapped frames and client windows
  overlap : SUBSET Pairs,         \* windows that have a pixel of the screen in common
  queue : Seq(Events),
  \* history: who put the frame of a window where it is
  placed : [Windows -> {"raised", "lowered", "iconified", "client"}]]

Managed(s) == ToSet(s.xstack)

---------------------------------------------------------------------------
(* The server *)

Viewable(s, w) == w \in s.frame \cap s.mapped
Covers(s, t, w) == t \in s.frame /\ {t, w} \in s.overlap /\ Over(s.xstack, t, w)
Unobscured(s, w) == \A t \in Windows : ~Covers(s, t, w)

\* What the server tells of the way from s to n.  fvwm asks for
\* VisibilityNotify on client windows, not on frames.
Told(s, n) ==
  LET some == SetToSeq(Windows)
      maps == Those(some, n.mapped \ s.mapped)
      changes == Those(some, {w \in Windows :
        Viewable(n, w) /\ (~Viewable(s, w) \/ Unobscured(n, w) # Unobscured(s, w))})
      event(type, w, unobscured) == [type |-> type, win |-> w, unobscured |-> unobscured]
  IN [n EXCEPT !.queue =
        @ \o [k \in DOMAIN maps |-> event("MapNotify", maps[k], FALSE)]
          \o [k \in DOMAIN changes |->
                event("VisibilityNotify", changes[k], Unobscured(n, changes[k]))]]

---------------------------------------------------------------------------
(* misc.c *)

\* The focus list, in an order that is not modelled: the windows that are
\* taken from it, the others do not matter.
FocusLists(s) == SetToSeqs({w \in Managed(s) : w \in STAYSONTOP \/ TransientFor[w] # NoWindow})

Outside(q, S) == Those(q, Windows \ S)

Transients(s, t) == {w \in Managed(s) : TransientFor[w] = t}

\* For a mutant: the window itself first.
LotUnder(s, t, list) == <<t>> \o Those(list, (s.ONTOP \cup Transients(s, t)) \ {t})

\* The frames RaiseWindow restacks, topmost first.
Lot(s, t, list) ==
  Those(list, s.ONTOP) \o Those(list, Transients(s, t) \ s.ONTOP)
    \o IF t \in s.ONTOP THEN <<>> ELSE <<t>>

RaiseWindow(s, t, list) ==
  LET lot == Lot(s, t, list)
  IN [s EXCEPT !.xstack = lot \o Outside(@, ToSet(lot)),
               !.ring = <<t>> \o Outside(@, {t}),
               !.LastWindowRaised = IF t \in s.ONTOP THEN @ ELSE t,
               !.placed = [w \in Windows |-> IF w \in ToSet(lot) THEN "raised" ELSE @[w]]]

\* For mutants: the ring, or the pointer, is forgotten.
LowerWindowUnrung(s, t, why) ==
  [s EXCEPT !.xstack = Outside(@, {t}) \o <<t>>, !.LastWindowRaised = NoWindow, !.placed[t] = why]
LowerWindowStillLast(s, t, why) ==
  [s EXCEPT !.xstack = Outside(@, {t}) \o <<t>>, !.ring = Outside(@, {t}) \o <<t>>,
            !.placed[t] = why]

LowerWindow(s, t, why) ==
  [s EXCEPT !.xstack = Outside(@, {t}) \o <<t>>,
            !.ring = Outside(@, {t}) \o <<t>>,
            !.LastWindowRaised = NoWindow,
            !.placed[t] = why]

\* What the loop of KeepOnTop does with the k-th window of the focus list.
Kept(n, list, k) ==
  IF list[k] \in n.ONTOP \ n.VISIBLE THEN RaiseWindow(n, list[k], list) ELSE n

KeepOnTop(s, list) ==
  LET kept[k \in 0 .. Len(list)] == IF k = 0 THEN s ELSE Kept(kept[k - 1], list, k)
  IN kept[Len(list)]

\* AddWindow.  malloc() may give w the memory of a window freed before.
Added(s, w) ==
  [s EXCEPT !.ring = <<w>> \o @, !.xstack = <<w>> \o @,
            !.ONTOP = IF w \in STAYSONTOP THEN @ \cup {w} ELSE @]

AddressedAs(s, w) ==
  {s} \cup IF s.LastWindowRaised = Freed THEN {[s EXCEPT !.LastWindowRaised = w]} ELSE {}

\* For a mutant: only the focus list loses the window.
DestroyedInRing(s, w) ==
  LET rest(S) == S \ {w}
  IN [s EXCEPT !.xstack = Outside(@, {w}), !.ONTOP = rest(@), !.ICONIFIED = rest(@),
               !.VISIBLE = rest(@), !.frame = rest(@), !.mapped = rest(@),
               !.overlap = {p \in @ : w \notin p},
               !.LastWindowRaised = IF @ = w THEN Freed ELSE @, !.placed[w] = "raised"]

Destroyed(s, w) ==
  LET rest(S) == S \ {w}
  IN [s EXCEPT !.ring = Outside(@, {w}), !.xstack = Outside(@, {w}),
               !.ONTOP = rest(@), !.ICONIFIED = rest(@), !.VISIBLE = rest(@),
               !.frame = rest(@), !.mapped = rest(@),
               !.overlap = {p \in @ : w \notin p},
               !.LastWindowRaised = IF @ = w THEN Freed ELSE @,
               !.placed[w] = "raised"]

Group(s, w) == {w} \cup Transients(s, w)

\* The style is looked up once more.
Styled(s, w) == IF w \in STAYSONTOP THEN [s EXCEPT !.ONTOP = @ \cup {w}] ELSE s
Unstyled(s, w) == [s EXCEPT !.ONTOP = @ \ {w}]

Shown(s, G) == [s EXCEPT !.mapped = @ \cup G, !.frame = @ \cup G, !.ICONIFIED = @ \ G]
Hidden(s, G) == [s EXCEPT !.mapped = @ \ G, !.frame = @ \ G, !.ICONIFIED = @ \cup G]

Deiconified(s, w, list) == KeepOnTop(Shown(RaiseWindow(s, w, list), Group(s, w)), list)

---------------------------------------------------------------------------
(* Clients *)

Init ==
  /\ wm = [ring |-> <<>>, ONTOP |-> {}, ICONIFIED |-> {}, VISIBLE |-> {},
           LastWindowRaised |-> NoWindow, xstack |-> <<>>, frame |-> {}, mapped |-> {},
           overlap |-> {}, queue |-> <<>>, placed |-> [w \in Windows |-> "raised"]]
  /\ ncommands = 0

Handled(n) == wm' = Told(wm, n)

Command ==
  /\ ncommands < MaxCommands
  /\ ncommands' = ncommands + 1

\* How w may lie with the other windows.
Layouts(s, w) ==
  {{p \in s.overlap : w \notin p} \cup {{w, t} : t \in T} : T \in SUBSET (Managed(s) \ {w})}

\* A window that is mapped for the first time is placed, added and mapped.
MapNew(w) ==
  /\ w \notin Managed(wm)
  /\ \E overlap \in Layouts(wm, w), s \in AddressedAs(wm, w), list \in FocusLists(Added(wm, w)) :
       LET added == KeepOnTop(RaiseWindow(Added(s, w), w, list), list)
       IN Handled(KeepOnTop([Shown(added, {w}) EXCEPT !.overlap = overlap], list))

\* The client maps a window that fvwm manages.
MapAgain(w) ==
  /\ w \in Managed(wm) \ wm.mapped
  /\ \E list \in FocusLists(wm) :
       IF w \in wm.ICONIFIED THEN Handled(Deiconified(wm, w, list))
       ELSE Handled(KeepOnTop([wm EXCEPT !.mapped = @ \cup {w}, !.frame = @ \cup {w}], list))

HandleMapRequest(w) == Command /\ (MapNew(w) \/ MapAgain(w))

\* The client unmaps or destroys its window: fvwm handles what the server
\* told of the window before.
Destroy(w) ==
  /\ Command
  /\ w \in Managed(wm)
  /\ \A k \in DOMAIN wm.queue : wm.queue[k].win # w
  /\ Handled(Destroyed(wm, w))

\* Where a client may ask for its window to be: on top, at the bottom, or
\* directly above or below another.
Places(q, w) ==
  LET rest == Outside(q, {w})
  IN {InsertAt(rest, k, w) : k \in 1 .. Len(rest) + 1}

\* The client asks for another place on the screen, in the stack or both.
HandleConfigureRequest(w) ==
  /\ Command
  /\ w \in Managed(wm) \cap (Restackers \cup Movers)
  /\ \E list \in FocusLists(wm),
        overlap \in IF w \in Movers THEN Layouts(wm, w) ELSE {wm.overlap} :
       \/ Handled(KeepOnTop([wm EXCEPT !.overlap = overlap], list))
       \/ /\ w \in Restackers
          /\ \E q \in Places(wm.xstack, w) :
               Handled(KeepOnTop([wm EXCEPT !.overlap = overlap, !.xstack = q,
                                            !.placed[w] = "client"], list))

---------------------------------------------------------------------------
(* Commands *)

raise_function(w) ==
  /\ Command
  /\ w \in Managed(wm)
  /\ \E list \in FocusLists(wm) : Handled(KeepOnTop(Styled(RaiseWindow(wm, w, list), w), list))

lower_function(w) ==
  /\ Command
  /\ w \in Managed(wm)
  /\ Handled(Unstyled(LowerWindow(wm, w, "lowered"), w))

raiselower_func(w) ==
  /\ Command
  /\ w \in Managed(wm)
  /\ IF w = wm.LastWindowRaised \/ w \in wm.VISIBLE
     THEN Handled(Unstyled(LowerWindow(wm, w, "lowered"), w))
     ELSE \E list \in FocusLists(wm) :
            Handled(KeepOnTop(Styled(RaiseWindow(wm, w, list), w), list))

\* A click on a window that takes the focus, FocusOn and WarpOn raise a
\* window and leave its flag alone.
Focus(w) ==
  /\ Command
  /\ w \in Managed(wm)
  /\ \E list \in FocusLists(wm) : Handled(KeepOnTop(RaiseWindow(wm, w, list), list))

iconify_function(w) ==
  /\ Command
  /\ w \in Managed(wm)
  /\ \E list \in FocusLists(wm) :
       IF w \in wm.ICONIFIED THEN Handled(Deiconified(wm, w, list))
       ELSE Handled(KeepOnTop(LowerWindow(Hidden(wm, Group(wm, w)), w, "iconified"), list))

\* The icon changes: WM_HINTS of an iconified window.
HandlePropertyNotify(w) ==
  /\ Command
  /\ w \in wm.ICONIFIED
  /\ Handled(LowerWindow(wm, w, "iconified"))

move_window(w) ==
  /\ Command
  /\ w \in Managed(wm) \cap Movers
  /\ \E overlap \in Layouts(wm, w) : Handled([wm EXCEPT !.overlap = overlap])

---------------------------------------------------------------------------
(* Events *)

Dequeued(s) == [s EXCEPT !.queue = Tail(@)]

HandleVisibilityNotify ==
  /\ wm.queue # <<>> /\ Head(wm.queue).type = "VisibilityNotify"
  /\ LET w == Head(wm.queue).win
     IN wm' = [Dequeued(wm) EXCEPT !.VISIBLE = IF Head(wm.queue).unobscured THEN @ \cup {w} ELSE @ \ {w}]
  /\ UNCHANGED ncommands

\* The icon of a window has the window's context, too.
IconVisibility(w) ==
  /\ Command
  /\ w \in wm.ICONIFIED
  /\ \E V \in {wm.VISIBLE \cup {w}, wm.VISIBLE \ {w}} : wm' = [wm EXCEPT !.VISIBLE = V]

HandleMapNotify ==
  /\ wm.queue # <<>> /\ Head(wm.queue).type = "MapNotify"
  /\ LET w == Head(wm.queue).win
         n == [Dequeued(wm) EXCEPT !.frame = @ \cup {w}, !.ICONIFIED = @ \ {w}]
     IN \E list \in FocusLists(wm) : Handled(KeepOnTop(n, list))
  /\ UNCHANGED ncommands

Next ==
  \/ \E w \in Windows :
       \/ HandleMapRequest(w) \/ Destroy(w) \/ HandleConfigureRequest(w)
       \/ raise_function(w) \/ lower_function(w) \/ raiselower_func(w)
       \/ Focus(w) \/ iconify_function(w) \/ HandlePropertyNotify(w) \/ move_window(w)
       \/ IconVisibility(w)
  \/ HandleVisibilityNotify
  \/ HandleMapNotify

Spec == Init /\ [][Next]_vars

---------------------------------------------------------------------------
(* Properties *)

\* Every field has its type, and ring and stack are two orders of the same
\* windows, each once.
TypeOK ==
  /\ wm \in WM /\ ncommands \in 0 .. MaxCommands
  /\ IsInjective(wm.ring) /\ IsInjective(wm.xstack) /\ ToSet(wm.ring) = Managed(wm)
  /\ wm.ONTOP \subseteq STAYSONTOP \cap Managed(wm)
  /\ wm.ICONIFIED \subseteq Managed(wm) \ wm.mapped
  /\ wm.VISIBLE \cup wm.frame \cup wm.mapped \subseteq Managed(wm)
  /\ wm.LastWindowRaised \in Managed(wm) \cup {NoWindow, Freed}

\* Windows that only their own RaiseWindow and LowerWindow put in their place.
Plain == {w \in Managed(wm) \ STAYSONTOP : TransientFor[w] = NoWindow /\ wm.placed[w] # "client"}

\* The ring tells the order of the plain windows, whatever was raised with
\* them, for them or between them: RaiseWindow restacks many frames and moves
\* one window in the ring (misc.c, 623-706).
RingTold == \A w, t \in Plain : Over(wm.ring, w, t) => Over(wm.xstack, w, t)

\* A window that stays on top is above every window that does not, unless
\* its client or an Iconify put one of them elsewhere; its own transients may
\* be above it.  VISIBLE may be out of date, and RaiseWindow is called for
\* any window (misc.c, 559-571, 654-670).
OnTopAbove ==
  \A w \in wm.ONTOP, t \in Managed(wm) \ wm.ONTOP :
    wm.placed[w] = "raised" /\ wm.placed[t] # "client" /\ TransientFor[t] # w => Over(wm.xstack, w, t)

\* RaiseLower lowers the window it takes for the topmost: no plain window is
\* above LastWindowRaised (builtins.c, 904), even if the pointer is one to a
\* window that was freed and allocated again.
LastOnTop ==
  LET w == wm.LastWindowRaised
  IN w \in Windows /\ wm.placed[w] # "client" => \A t \in Plain \ {w} : Over(wm.xstack, w, t)
=============================================================================
