------------------------------ MODULE Windows -------------------------------
(***************************************************************************)
(* The life of client windows under fvwm95: AddWindow to Destroy, icons,   *)
(* desks and the input focus (events.c, icons.c, virtual.c, focus.c,       *)
(* misc.c, parts of builtins.c, add_window.c and placement.c of fvwm/).    *)
(*                                                                         *)
(* fvwm handles one X event at a time; the events were queued by the       *)
(* server earlier, and clients, users and the server itself go on while    *)
(* they wait.  Handlers are compositions of routines that each change part *)
(* of fvwm's state and of the server's, so both live in one record, wm,    *)
(* and a routine maps a record to the next.  A flag is the set of windows  *)
(* that have it set.                                                       *)
(*                                                                         *)
(* Left out: geometry and the viewport, decorations, colormaps, windows    *)
(* that stay on top (KeepOnTop raises nothing else), icon images (every    *)
(* icon has an icon window), interactive placement, packets to modules.    *)
(***************************************************************************)
EXTENDS Integers, Sequences, SequencesExt

CONSTANTS
  Windows,      \* client windows
  NoWindow,     \* NULL, NoFocusWin, the root window of a pointer event
  Root,         \* server focus nobody asked for: it reverted to the root
  Desks,        \* desk numbers; 0 is the first one
  TransientFor, \* TransientFor[w]: WM_TRANSIENT_FOR of w, or NoWindow
  StartDesk,    \* StartDesk[w]: desk asked for with a style or option, or -1
  ClickToFocus, SloppyFocus, \* windows with these styles
  StickyStyle, StickyIcon,
  StartIconic,  \* windows that ask for IconicState
  ShowOnMap,    \* windows whose style keeps the desk when they are mapped
  NoInput,      \* windows whose WM_HINTS refuse input, without Lenience
  Commands,     \* what modules may ask for
  UserCommands, \* what the user may ask for with a key or a button
  Screens,      \* number of screens of the display
  Grabbers,     \* whether another client may hold the pointer
  MaxRequests,  \* bound: what clients do, in all
  MaxInputs,    \* bound: user input and module commands, in all
  MaxQueue      \* bound: clients and user wait while so many events do

Pointer == Windows \cup {NoWindow}

ClientEvents == {"MapRequest", "ClientMessage", "UnmapNotify", "SyntheticUnmap", "DestroyNotify"}
WindowCommands == {"Iconify", "WindowsDesk", "Stick", "Focus", "Raise", "Lower", "Destroy"}
CommandTypes == WindowCommands \cup {"Desk", "Move"}
InputEvents == {"ButtonPress", "EnterNotify", "LeaveNotify", "MotionNotify"}
EventTypes == ClientEvents \cup CommandTypes \cup InputEvents \cup {"MapNotify", "FocusIn"}

EventRecord == {e \in [type : EventTypes, win : Pointer, desk : Desks] :
                  e.type \in ClientEvents => e.win \in Windows}
Event(type, w) == [type |-> type, win |-> w, desk |-> 0]

ASSUME WindowsAssumption ==
  /\ NoWindow \notin Windows /\ Root \notin Pointer
  /\ 0 \in Desks /\ Desks \subseteq Nat
  /\ TransientFor \in [Windows -> Pointer] /\ \A w \in Windows : TransientFor[w] # w
  /\ StartDesk \in [Windows -> Desks \cup {-1}]
  /\ ClickToFocus \subseteq Windows /\ SloppyFocus \subseteq Windows
  /\ ClickToFocus \cap SloppyFocus = {}
  /\ StickyStyle \subseteq Windows /\ StickyIcon \subseteq Windows
  /\ StartIconic \subseteq Windows /\ ShowOnMap \subseteq Windows /\ NoInput \subseteq Windows
  /\ Commands \subseteq {e \in EventRecord : e.type \in CommandTypes}
  /\ UserCommands \subseteq {e \in EventRecord : e.type \in CommandTypes}
  /\ Screens \in Nat \ {0} /\ Grabbers \in BOOLEAN
  /\ MaxRequests \in Nat /\ MaxInputs \in Nat /\ MaxQueue \in Nat

VARIABLES
  wm,        \* fvwm's state and the server's
  wish,      \* wish[w]: what w last asked for: "nothing", "shown", "iconic" or "withdrawn"
  nrequests, \* what clients did so far
  ninputs    \* user input and module commands so far

vars == <<wm, wish, nrequests, ninputs>>

States == {"Withdrawn", "Normal", "Iconic"}

WM == [
  \* fvwm: struct ScreenInfo and struct FvwmWindow
  list : Seq(Windows),            \* FvwmRoot.next: the focus list
  ring : Seq(Windows),            \* FvwmRoot.stack_next: the stacking order
  MAPPED : SUBSET Windows, MAP_PENDING : SUBSET Windows,
  ICONIFIED : SUBSET Windows, ICON_UNMAPPED : SUBSET Windows, STICKY : SUBSET Windows,
  Desk : [Windows -> Desks], FocusDesk : [Windows -> Desks \cup {-1}],
  CurrentDesk : Desks,
  Focus : Pointer, PreviousFocus : Pointer, FocusOnNextTimeStamp : Pointer,
  Ungrabbed : Pointer, Hilite : Pointer,
  \* the server
  mapped : SUBSET Windows, gone : SUBSET Windows,  \* client windows
  frame : SUBSET Windows, icon : SUBSET Windows,   \* mapped frames and icons
  state : [Windows -> States],                     \* WM_STATE properties
  grab : SUBSET Windows,          \* button grabs
  xfocus : Pointer \cup {Root},                    \* the input focus
  away : BOOLEAN,                                  \* the pointer is on another screen
  held : BOOLEAN,                                  \* another client holds the pointer
  queue : Seq(EventRecord)]

---------------------------------------------------------------------------
(* Lists *)

Managed(s) == ToSet(s.list)
Position(q, w) == CHOOSE k \in DOMAIN q : q[k] = w
Without(q, w) == IF w \in ToSet(q) THEN RemoveAt(q, Position(q, w)) ELSE q

\* The window after w on the focus list.
NextOf(s, w) == LET k == Position(s.list, w) + 1
                IN IF k \in DOMAIN s.list THEN s.list[k] ELSE NoWindow

\* The windows of G on q, in the order of q.
Those(q, G) ==
  LET K == {k \in DOMAIN q : q[k] \in G}
      places == CHOOSE r \in UNION {[1..n -> K] : n \in 0..Len(q)} :
                  /\ \A k \in K : \E i \in DOMAIN r : r[i] = k
                  /\ \A i, j \in DOMAIN r : i < j => r[i] < r[j]
  IN [i \in DOMAIN places |-> q[places[i]]]

\* w and its transients.
Group(s, w) == {t \in Managed(s) : t = w \/ TransientFor[t] = w}

---------------------------------------------------------------------------
(* The server *)

\* The icon window stands for an iconified window.
Viewable(s, w) == IF w \in s.ICONIFIED THEN w \in s.icon ELSE w \in s.mapped \cap s.frame

HideFrames(s, G) == [s EXCEPT !.frame = @ \ G,
                              !.xfocus = IF @ \in G \cap s.frame THEN Root ELSE @]
HideIcons(s, G) == [s EXCEPT !.icon = @ \ G,
                             !.xfocus = IF @ \in G \cap s.icon THEN Root ELSE @]

\* Mapping client windows of G, in the order of the list.
MapClients(s, G) ==
  LET new == Those(s.list, G \ (s.mapped \cup s.gone))
  IN [s EXCEPT !.mapped = @ \cup ToSet(new),
               !.queue = @ \o [k \in DOMAIN new |-> Event("MapNotify", new[k])]]

\* The server refuses windows that are not viewable.  HandleFocusIn takes all
\* FocusIn events from the queue at once and uses the last: one stands for all.
XSetInputFocus(s, t) ==
  LET old == {k \in DOMAIN s.queue : s.queue[k].type = "FocusIn"}
      event == Event("FocusIn", t)
  IN IF t = s.xfocus \/ (t # NoWindow /\ ~Viewable(s, t)) THEN s
     ELSE [s EXCEPT !.xfocus = t,
                    !.queue = IF old = {} THEN Append(@, event)
                              ELSE [k \in DOMAIN @ |-> IF k \in old THEN event ELSE @[k]]]

---------------------------------------------------------------------------
(* Focus (focus.c, misc.c) *)

FocusList(s, t, FocusByMouse) ==
  IF FocusByMouse /\ t # NoWindow /\ t # s.Focus
  THEN [s EXCEPT !.list = <<t>> \o Without(@, t)]
  ELSE s

\* Mutant: on another screen the grabs stay away.
SetFocusAwayForgets(s) ==
  IF s.Ungrabbed \in ClickToFocus
  THEN XSetInputFocus([s EXCEPT !.Focus = NoWindow, !.Ungrabbed = NoWindow], NoWindow)
  ELSE s

\* On another screen only the button grabs are put back.
SetFocusAway(s) ==
  IF s.Ungrabbed \in ClickToFocus
  THEN XSetInputFocus([s EXCEPT !.grab = @ \cup {s.Ungrabbed},
                                !.Focus = NoWindow, !.Ungrabbed = NoWindow], NoWindow)
  ELSE s

\* Mutant: the window that loses the focus does not get its grabs back.
RegrabForgotten(s, Fw) ==
  IF s.Ungrabbed \in ClickToFocus /\ s.Ungrabbed # Fw
  THEN [s EXCEPT !.Ungrabbed = NoWindow]
  ELSE s

\* The window that loses the focus gets its button grab back, for LockMask it
\* does not.
Regrab(s, Fw) ==
  IF s.Ungrabbed \in ClickToFocus /\ s.Ungrabbed # Fw
  THEN [s EXCEPT !.grab = @ \cup {s.Ungrabbed}, !.Ungrabbed = NoWindow]
  ELSE s

Ungrab(s, Fw) ==
  IF Fw \in ClickToFocus
  THEN [s EXCEPT !.grab = @ \ {Fw}, !.Ungrabbed = Fw]
  ELSE s

GiveFocus(s, Fw) ==
  IF Fw \notin NoInput
  THEN [XSetInputFocus(s, Fw) EXCEPT !.Focus = Fw]
  ELSE IF s.Focus # NoWindow /\ s.Desk[s.Focus] = s.CurrentDesk
  THEN s
  ELSE [XSetInputFocus(s, NoWindow) EXCEPT !.Focus = NoWindow]

SetFocus(s, t, FocusByMouse) ==
  LET s1 == FocusList(s, t, FocusByMouse)
      Fw == IF t # NoWindow /\ s1.Desk[t] # s1.CurrentDesk THEN NoWindow ELSE t
  IN IF s1.away THEN SetFocusAway(s1) ELSE GiveFocus(Ungrab(Regrab(s1, Fw), Fw), Fw)

\* Grabbing confines the pointer to this screen.  GrabEm gives up when another
\* client keeps the pointer; the focus is gone then and PreviousFocus stays set.
Confined(s) ==
  IF s.held \/ ~s.away THEN s
  ELSE [s EXCEPT !.away = FALSE, !.queue = Append(@, Event("EnterNotify", NoWindow))]

GrabEm(s) ==
  Confined(SetFocus([s EXCEPT !.PreviousFocus = IF @ = NoWindow THEN s.Focus ELSE @],
                    NoWindow, FALSE))

UngrabEm(s) ==
  IF s.PreviousFocus = NoWindow THEN s
  ELSE [SetFocus(s, s.PreviousFocus, FALSE) EXCEPT !.PreviousFocus = NoWindow]

\* Mutant: the pointer does not move.
HandleHardFocusStill(s, t) ==
  UngrabEm(GrabEm([s EXCEPT !.FocusOnNextTimeStamp = t, !.Focus = NoWindow]))

\* The pointer is warped to and fro while fvwm holds it: a new time stamp.
HandleHardFocus(s, t) ==
  LET grabbed == GrabEm([s EXCEPT !.FocusOnNextTimeStamp = t, !.Focus = NoWindow])
  IN UngrabEm(IF s.held THEN grabbed
              ELSE [grabbed EXCEPT !.queue = Append(@, Event("MotionNotify", NoWindow))])

\* Events that carry a time.
StashEventTime(s) ==
  IF s.FocusOnNextTimeStamp = NoWindow THEN s
  ELSE [SetFocus(s, s.FocusOnNextTimeStamp, TRUE) EXCEPT !.FocusOnNextTimeStamp = NoWindow]
---------------------------------------------------------------------------
(* Stacking order (misc.c) *)

RaiseWindow(s, w) == [s EXCEPT !.ring = <<w>> \o Without(@, w)]
LowerWindow(s, w) == [s EXCEPT !.ring = Append(Without(@, w), w)]

---------------------------------------------------------------------------
(* Desks (virtual.c, misc.c) *)

\* Windows that stay where they are when the desk changes.
Stays(s, w) == \/ w \in s.ICONIFIED \cap StickyIcon
               \/ w \in s.STICKY
               \/ w \in s.ICON_UNMAPPED

UnmapIt(s, G) ==
  HideFrames(HideIcons(s, G \cap s.ICONIFIED),
             (G \ s.ICONIFIED) \cap (s.MAPPED \cup s.MAP_PENDING))

\* Mutant: icons are left out.
MapItFrames(s, G) ==
  LET shown == (G \ s.ICONIFIED) \cap s.MAPPED
  IN [s EXCEPT !.frame = @ \cup shown, !.MAP_PENDING = @ \cup shown]

MapIt(s, G) ==
  LET shown == (G \ s.ICONIFIED) \cap s.MAPPED
  IN [s EXCEPT !.icon = @ \cup (G \cap s.ICONIFIED), !.frame = @ \cup shown,
               !.MAP_PENDING = @ \cup shown]

\* Of the windows that had the focus on the new desk, the lowest one.
FocusWin(s, shown) ==
  LET F == {w \in shown : s.FocusDesk[w] = s.CurrentDesk}
      lowest == {w \in F : \A v \in F : Position(s.ring, v) <= Position(s.ring, w)}
  IN IF lowest = {} THEN NoWindow ELSE CHOOSE w \in lowest : TRUE

\* The two passes over the ring meet different windows: one can follow the other.
changeDesks(s, desk) ==
  LET old == s.CurrentDesk
      stay == {w \in Managed(s) : Stays(s, w)}
      shown == {w \in Managed(s) \ stay : s.Desk[w] = desk}
      hidden == {w \in Managed(s) \ stay : s.Desk[w] = old}
      s1 == [s EXCEPT
               !.CurrentDesk = desk,
               !.Desk = [w \in Windows |-> IF w \in stay THEN desk ELSE @[w]],
               !.FocusDesk = [w \in Windows |->
                                IF w \in hidden THEN (IF w = s.Focus THEN old ELSE -1)
                                ELSE IF w \in stay /\ w = s.Focus THEN old ELSE @[w]]]
      t == FocusWin(s1, shown)
      s2 == UnmapIt(MapIt(s1, shown), hidden)
  IN IF desk = old THEN s
     ELSE SetFocus(s2, IF t \in ClickToFocus THEN t ELSE NoWindow, TRUE)

changeWindowsDesk(s, w, desk) ==
  IF s.Desk[w] = desk \/ Stays(s, w) THEN s
  ELSE LET moved == [s EXCEPT !.Desk[w] = desk]
       IN IF s.Desk[w] = s.CurrentDesk THEN UnmapIt(moved, {w})
          ELSE IF desk = s.CurrentDesk THEN MapIt(moved, {w})
          ELSE moved

FocusOn(s, w, RaiseWarp) ==
  LET raised == UngrabEm(RaiseWindow(changeDesks(s, s.Desk[w]), w))
  IN SetFocus(IF RaiseWarp THEN raised ELSE s, w, TRUE)

---------------------------------------------------------------------------
(* Icons (icons.c) *)

DeIconify(s, w) ==
  LET G == Group(s, w)
      here == {t \in G : s.Desk[t] = s.CurrentDesk}
      s1 == MapClients(RaiseWindow(s, w), G)
      s2 == HideIcons([s1 EXCEPT
               !.MAPPED = @ \cup G, !.frame = @ \cup here, !.MAP_PENDING = @ \cup here,
               !.state = [t \in Windows |-> IF t \in G THEN "Normal" ELSE @[t]],
               !.ICON_UNMAPPED = @ \ G,
               !.Hilite = IF @ \in G THEN NoWindow ELSE @], G)
      s3 == [s2 EXCEPT !.ICONIFIED = @ \ G]
  IN IF w \in ClickToFocus THEN FocusOn(s3, w, TRUE) ELSE s3

FocusNext(s, w) ==
  SetFocus(s, IF w \in ClickToFocus THEN NextOf(s, w) ELSE NoWindow, TRUE)

\* Mutant: only the window itself is told that it is iconic.
IconifyTellsOne(s, w) ==
  LET G == Group(s, w)
      s1 == IF w = s.Hilite /\ w \in ClickToFocus /\ NextOf(s, w) # NoWindow
            THEN SetFocus(s, NextOf(s, w), TRUE) ELSE s
      s2 == HideIcons(HideFrames(s1, G), G)
      s3 == [s2 EXCEPT
               !.MAPPED = @ \ G, !.mapped = @ \ G, !.state[w] = "Iconic",
               !.Hilite = IF @ \in G THEN NoWindow ELSE @,
               !.ICONIFIED = @ \cup G,
               !.ICON_UNMAPPED = (@ \cup G) \ {w},
               !.icon = IF s2.Desk[w] = s2.CurrentDesk THEN @ \cup {w} ELSE @]
  IN LowerWindow(s3, w)

\* UnmapNotify events are switched off while the windows are unmapped.
Iconify(s, w) ==
  LET G == Group(s, w)
      s1 == IF w = s.Hilite /\ w \in ClickToFocus /\ NextOf(s, w) # NoWindow
            THEN SetFocus(s, NextOf(s, w), TRUE) ELSE s
      s2 == HideIcons(HideFrames(s1, G), G)
      s3 == [s2 EXCEPT
               !.MAPPED = @ \ G, !.mapped = @ \ G,
               !.state = [t \in Windows |-> IF t \in G THEN "Iconic" ELSE @[t]],
               !.Hilite = IF @ \in G THEN NoWindow ELSE @,
               !.ICONIFIED = @ \cup G,
               !.ICON_UNMAPPED = (@ \cup G) \ {w},
               !.icon = IF s2.Desk[w] = s2.CurrentDesk THEN @ \cup {w} ELSE @]
      s4 == LowerWindow(s3, w)
  IN IF w = s4.Focus /\ w \in ClickToFocus \cup SloppyFocus
     THEN FocusNext([s4 EXCEPT !.PreviousFocus = IF @ = w THEN NoWindow ELSE @], w)
     ELSE s4

---------------------------------------------------------------------------
(* Windows come and go (add_window.c, placement.c, misc.c) *)

\* Mutant: the desk is used without looking whether one was asked for.
PlaceWindowUnasked(s, w) == IF w \in StickyStyle THEN s.CurrentDesk ELSE StartDesk[w]

PlaceWindow(s, w) ==
  IF w \in StickyStyle THEN s.CurrentDesk
  ELSE IF StartDesk[w] # -1 THEN StartDesk[w]
  ELSE IF TransientFor[w] \in Managed(s) THEN s.Desk[TransientFor[w]]
  ELSE s.CurrentDesk

AddWindow(s, w) ==
  LET desk == PlaceWindow(s, w)
      s1 == IF w \in ShowOnMap THEN s ELSE changeDesks(s, desk)
      own(S) == {w} \cap S
  IN RaiseWindow([s1 EXCEPT
       !.list = <<w>> \o @, !.ring = <<w>> \o @,
       !.Desk[w] = desk, !.FocusDesk[w] = 0,
       !.STICKY = @ \cup own(StickyStyle),
       !.grab = @ \cup own(ClickToFocus)], w)

\* Whoever had the focus, it goes to the next window or nowhere.
PassFocus(s, w) ==
  IF w # s.Focus THEN s
  ELSE IF w \in ClickToFocus /\ NextOf(s, w) # NoWindow THEN HandleHardFocus(s, NextOf(s, w))
  ELSE SetFocus(s, NoWindow, TRUE)

\* What remains of w when its FvwmWindow is freed.
Freed(s, w) ==
  [HideIcons(s, {w}) EXCEPT
     !.list = Without(@, w), !.ring = Without(@, w),
     !.MAPPED = @ \ {w}, !.MAP_PENDING = @ \ {w}, !.ICONIFIED = @ \ {w},
     !.ICON_UNMAPPED = @ \ {w}, !.STICKY = @ \ {w},
     !.grab = @ \ {w}]

Forget(p, w) == IF p = w THEN NoWindow ELSE p

\* Mutant: FocusOnNextTimeStamp is not looked at.
DestroyKeepsTimeStamp(s, w) ==
  LET s1 == [HideFrames(s, {w}) EXCEPT !.Hilite = Forget(@, w), !.PreviousFocus = Forget(@, w)]
      s2 == PassFocus(s1, w)
  IN Freed([s2 EXCEPT !.Ungrabbed = Forget(@, w)], w)
Destroy(s, w) ==
  LET s1 == [HideFrames(s, {w}) EXCEPT !.Hilite = Forget(@, w), !.PreviousFocus = Forget(@, w)]
      s2 == PassFocus(s1, w)
  IN Freed([s2 EXCEPT !.FocusOnNextTimeStamp = Forget(@, w), !.Ungrabbed = Forget(@, w)], w)

\* The server destroys a client window: on its own account or for XKillClient.
Killed(s, w) ==
  LET told(type) == IF w \in Managed(s) THEN <<Event(type, w)>> ELSE <<>>
  IN [s EXCEPT !.gone = @ \cup {w}, !.mapped = @ \ {w},
               !.xfocus = IF @ = w /\ w \in s.mapped THEN Root ELSE @,
               !.queue = @ \o (IF w \in s.mapped THEN told("UnmapNotify") ELSE <<>>)
                           \o told("DestroyNotify")]

---------------------------------------------------------------------------
(* Builtins (builtins.c, functions.c) *)

Stick(s, w) ==
  [s EXCEPT !.STICKY = IF w \in @ THEN @ \ {w} ELSE @ \cup {w}]

\* Moves, menus and the like hold the pointer for a while.
Move(s) == IF s.held THEN GrabEm(s) ELSE UngrabEm(GrabEm(s))

\* A command about a window that is gone asks the user for one: nothing here.
ExecuteFunction(s, e) ==
  CASE e.type = "Desk" -> changeDesks(s, e.desk)
    [] e.type = "Move" -> Move(s)
    [] e.type \in WindowCommands /\ e.win \notin Managed(s) -> s
    [] e.type \in WindowCommands /\ e.win \in Managed(s) ->
       CASE e.type = "Iconify" -> IF e.win \in s.ICONIFIED THEN DeIconify(s, e.win)
                                  ELSE Iconify(s, e.win)
         [] e.type = "WindowsDesk" -> changeWindowsDesk(s, e.win, e.desk)
         [] e.type = "Stick" -> Stick(s, e.win)
         [] e.type = "Focus" -> FocusOn(s, e.win, TRUE)
         [] e.type = "Raise" -> RaiseWindow(s, e.win)
         [] e.type = "Lower" -> LowerWindow(s, e.win)
         [] e.type = "Destroy" -> IF e.win \in s.gone THEN Destroy(s, e.win) ELSE Killed(s, e.win)

---------------------------------------------------------------------------
(* Event handlers (events.c) *)

\* The pointers to windows that outlive a handler, but for Scr.LastWindowRaised, which is Stacking's.
Pointers == {wm.Focus, wm.PreviousFocus, wm.FocusOnNextTimeStamp, wm.Ungrabbed, wm.Hilite}
Intact == Pointers \subseteq Managed(wm) \cup {NoWindow}

\* What fvwm does with a pointer to memory it freed is undefined: it takes no step.
Arrives(type) == Intact /\ wm.queue # <<>> /\ Head(wm.queue).type = type
Taken == [wm EXCEPT !.queue = Tail(@)]
Win == Head(wm.queue).win
Same == UNCHANGED <<wish, nrequests, ninputs>>

HandleMapRequest ==
  /\ Arrives("MapRequest")
  /\ LET s == IF Win \in Managed(Taken) \cup Taken.gone THEN Taken ELSE AddWindow(Taken, Win)
         shown == [MapClients(s, {Win}) EXCEPT !.state[Win] = "Normal"]
         framed == [shown EXCEPT !.frame = @ \cup {Win}, !.MAP_PENDING = @ \cup {Win}]
     IN wm' = IF Win \notin Managed(s) THEN s
              ELSE IF Win \in s.ICONIFIED THEN DeIconify(s, Win)
              ELSE IF Win \in StartIconic THEN Iconify(s, Win)
              ELSE IF s.Desk[Win] # s.CurrentDesk THEN shown
              ELSE IF Win \in ClickToFocus /\ s.Focus \in ClickToFocus \cup {NoWindow}
              THEN SetFocus(framed, Win, TRUE)
              ELSE framed
  /\ Same

HandleMapNotify ==
  /\ Arrives("MapNotify")
  /\ LET s == HideIcons(Taken, {Win})
         framed == IF s.Desk[Win] = s.CurrentDesk THEN [s EXCEPT !.frame = @ \cup {Win}] ELSE s
         focused == IF Win \in ClickToFocus /\ s.Focus \in ClickToFocus
                    THEN SetFocus(framed, Win, TRUE) ELSE framed
     IN wm' = IF Win \notin Managed(Taken) THEN Taken
              ELSE [focused EXCEPT !.MAPPED = @ \cup {Win}, !.MAP_PENDING = @ \ {Win},
                                   !.ICONIFIED = @ \ {Win}, !.ICON_UNMAPPED = @ \ {Win}]
  /\ Same

\* A window that is neither mapped nor an icon is not withdrawn; one that the
\* server no longer knows waits for its DestroyNotify.
HandleUnmapNotify ==
  /\ Arrives("UnmapNotify")
  /\ LET s == PassFocus([Taken EXCEPT !.Hilite = Forget(@, Win),
                                      !.PreviousFocus = Forget(@, Win)], Win)
     IN wm' = IF Win \notin Managed(Taken) THEN Taken
              ELSE IF Win \notin s.MAPPED \cup s.ICONIFIED \/ Win \in s.gone THEN s
              ELSE Destroy([s EXCEPT !.state[Win] = "Withdrawn"], Win)
  /\ Same

\* The event field of a synthetic UnmapNotify is the root, not the window.
HandleSyntheticUnmap ==
  /\ Arrives("SyntheticUnmap")
  /\ wm' = Taken
  /\ Same

HandleDestroyNotify ==
  /\ Arrives("DestroyNotify")
  /\ wm' = IF Win \in Managed(Taken) THEN Destroy(Taken, Win) ELSE Taken
  /\ Same

HandleClientMessage ==
  /\ Arrives("ClientMessage")
  /\ wm' = IF Win \in Managed(Taken) \ Taken.ICONIFIED
           THEN ExecuteFunction(Taken, Event("Iconify", Win)) ELSE Taken
  /\ Same

HandleFocusIn ==
  /\ Arrives("FocusIn")
  /\ wm' = IF Win \in Managed(Taken) \cup {NoWindow} THEN [Taken EXCEPT !.Hilite = Win] ELSE Taken
  /\ Same

HandleKeyPress ==
  /\ \E type \in CommandTypes : Arrives(type)
  /\ wm' = ExecuteFunction(StashEventTime(Taken), Head(wm.queue))
  /\ Same

HandleButtonPress ==
  /\ Arrives("ButtonPress")
  /\ LET s == StashEventTime(Taken)
     IN wm' = IF Win \in Managed(s) \cap ClickToFocus /\ Win # s.Ungrabbed
              THEN RaiseWindow(SetFocus(s, Win, TRUE), Win)
              ELSE s
  /\ Same

HandleEnterNotify ==
  /\ Arrives("EnterNotify")
  /\ LET s == StashEventTime(Taken)
     IN wm' = IF Win = NoWindow
              THEN IF s.Focus \in Windows \ (ClickToFocus \cup SloppyFocus)
                   THEN SetFocus(s, NoWindow, TRUE) ELSE s
              ELSE IF Win \in Managed(s) \ ClickToFocus THEN SetFocus(s, Win, TRUE)
              ELSE s
  /\ Same

HandleLeaveNotify ==
  /\ Arrives("LeaveNotify")
  /\ LET s == StashEventTime(Taken)
         left == IF s.Focus # NoWindow THEN SetFocus(s, NoWindow, TRUE) ELSE s
     IN wm' = [left EXCEPT !.Hilite = NoWindow]
  /\ Same

\* No handler: only the time counts.
MotionNotify ==
  /\ Arrives("MotionNotify")
  /\ wm' = StashEventTime(Taken)
  /\ Same

\* Modules are served when no event is left.
ModuleCommand ==
  /\ Intact /\ wm.queue = <<>> /\ ninputs < MaxInputs
  /\ \E c \in Commands :
       /\ c.type \in WindowCommands => c.win \in Managed(wm)
       /\ wm' = ExecuteFunction(wm, c)
  /\ ninputs' = ninputs + 1
  /\ UNCHANGED <<wish, nrequests>>

---------------------------------------------------------------------------
(* Clients, the user and the pointer *)

Request(w, request, events) ==
  /\ nrequests < MaxRequests /\ Len(wm.queue) < MaxQueue
  /\ nrequests' = nrequests + 1
  /\ wish' = [wish EXCEPT ![w] = request]
  /\ wm' = [wm EXCEPT !.queue = @ \o events]
  /\ UNCHANGED ninputs

\* XMapWindow, redirected to fvwm.
ClientMaps(w) ==
  /\ w \notin wm.mapped \cup wm.gone
  /\ Request(w, "shown", <<Event("MapRequest", w)>>)

\* XIconifyWindow
ClientIconifies(w) ==
  /\ w \notin wm.gone /\ wish[w] = "shown"
  /\ Request(w, "iconic", <<Event("ClientMessage", w)>>)

\* XWithdrawWindow: the window is unmapped, fvwm hears of it if it selected for
\* it, and a synthetic event follows in any case.
ClientWithdraws(w) ==
  /\ w \notin wm.gone /\ wish[w] \in {"shown", "iconic"}
  /\ nrequests < MaxRequests /\ Len(wm.queue) < MaxQueue
  /\ nrequests' = nrequests + 1
  /\ wish' = [wish EXCEPT ![w] = "withdrawn"]
  /\ wm' = [wm EXCEPT !.mapped = @ \ {w},
                      !.xfocus = IF @ = w /\ w \in wm.mapped THEN Root ELSE @,
                      !.queue = @ \o (IF w \in wm.mapped \cap Managed(wm)
                                      THEN <<Event("UnmapNotify", w)>> ELSE <<>>)
                                  \o <<Event("SyntheticUnmap", w)>>]
  /\ UNCHANGED ninputs

ClientDies(w) ==
  /\ w \notin wm.gone
  /\ nrequests < MaxRequests /\ Len(wm.queue) < MaxQueue
  /\ nrequests' = nrequests + 1
  /\ wm' = Killed(wm, w)
  /\ UNCHANGED <<wish, ninputs>>

Input(event) ==
  /\ ninputs < MaxInputs /\ Len(wm.queue) < MaxQueue
  /\ ninputs' = ninputs + 1
  /\ wm' = [wm EXCEPT !.queue = Append(@, event)]
  /\ UNCHANGED <<wish, nrequests>>

Seen(w) == w = NoWindow \/ (w \in Managed(wm) /\ Viewable(wm, w))

UserCommand == \E c \in UserCommands : Seen(c.win) /\ ~wm.away /\ Input(c)
UserClicks(w) == w # NoWindow /\ Seen(w) /\ ~wm.away /\ Input(Event("ButtonPress", w))
PointerEnters(w) == Seen(w) /\ ~wm.away /\ Input(Event("EnterNotify", w))

PointerLeaves ==
  /\ Screens > 1 /\ ~wm.away
  /\ ninputs < MaxInputs /\ ninputs' = ninputs + 1
  /\ wm' = [wm EXCEPT !.away = TRUE, !.queue = Append(@, Event("LeaveNotify", NoWindow))]
  /\ UNCHANGED <<wish, nrequests>>

PointerReturns ==
  /\ wm.away
  /\ wm' = [wm EXCEPT !.away = FALSE, !.queue = Append(@, Event("EnterNotify", NoWindow))]
  /\ Same

\* Another client grabs the pointer, or lets it go.
PointerHeld ==
  /\ Grabbers
  /\ ninputs < MaxInputs /\ ninputs' = ninputs + 1
  /\ wm' = [wm EXCEPT !.held = ~@]
  /\ UNCHANGED <<wish, nrequests>>

---------------------------------------------------------------------------

Init ==
  /\ wm = [list |-> <<>>, ring |-> <<>>,
           MAPPED |-> {}, MAP_PENDING |-> {}, ICONIFIED |-> {}, ICON_UNMAPPED |-> {},
           STICKY |-> {}, Desk |-> [w \in Windows |-> 0], FocusDesk |-> [w \in Windows |-> 0],
           CurrentDesk |-> 0, Focus |-> NoWindow, PreviousFocus |-> NoWindow,
           FocusOnNextTimeStamp |-> NoWindow, Ungrabbed |-> NoWindow, Hilite |-> NoWindow,
           mapped |-> {}, gone |-> {}, frame |-> {}, icon |-> {},
           state |-> [w \in Windows |-> "Withdrawn"], grab |-> {},
           xfocus |-> NoWindow, away |-> FALSE, held |-> FALSE, queue |-> <<>>]
  /\ wish = [w \in Windows |-> "nothing"]
  /\ nrequests = 0 /\ ninputs = 0

Fvwm == \/ HandleMapRequest \/ HandleMapNotify \/ HandleUnmapNotify \/ HandleSyntheticUnmap
        \/ HandleDestroyNotify \/ HandleClientMessage \/ HandleFocusIn \/ HandleKeyPress
        \/ HandleButtonPress \/ HandleEnterNotify \/ HandleLeaveNotify \/ MotionNotify

Client(w) == ClientMaps(w) \/ ClientIconifies(w) \/ ClientWithdraws(w) \/ ClientDies(w)

User == \/ UserCommand \/ PointerLeaves \/ PointerReturns \/ PointerHeld
        \/ \E w \in Pointer : UserClicks(w) \/ PointerEnters(w)

Next == Fvwm \/ ModuleCommand \/ User \/ \E w \in Windows : Client(w)

Spec == Init /\ [][Next]_vars

---------------------------------------------------------------------------
(* Properties *)

\* The values the variables take.
TypeOK ==
  /\ wm \in WM
  /\ wish \in [Windows -> {"nothing", "shown", "iconic", "withdrawn"}]
  /\ nrequests \in Nat /\ ninputs \in Nat

\* The focus list and the stacking ring hold the same windows, each once, however
\* focus changes, raising and destruction relink them (SetFocus, RaiseWindow,
\* LowerWindow, AddWindow, Destroy).
ListsAgree ==
  /\ ToSet(wm.list) = ToSet(wm.ring)
  /\ IsInjective(wm.list) /\ IsInjective(wm.ring)

\* The two lists agree, and Scr.Focus, Scr.PreviousFocus, Scr.Ungrabbed, Scr.Hilite and the window
\* that waits for a new time stamp are each NULL or still on them: Destroy clears these five, in an
\* order in which none is set again by the focus changes it makes on the way.  (A sixth,
\* Scr.LastWindowRaised, it leaves behind: see Stacking.)
NoDangling == ListsAgree /\ Intact

\* A click on any click-to-focus window reaches fvwm, but for the one that SetFocus
\* released last: grabs are never lost nor left behind.
ClickGrabs == wm.grab = (ClickToFocus \cap Managed(wm)) \ {wm.Ungrabbed}

\* Nothing of a window shows on a desk it is not on, and never both its frame and
\* its icon, whatever events were waiting when the desk changed.
ShownOnce ==
  /\ \A w \in wm.frame \cup wm.icon : w \in Managed(wm) /\ wm.Desk[w] = wm.CurrentDesk
  /\ wm.frame \cap wm.icon = {}

\* Nothing shows that should not, and when all events are handled, a window on the current
\* desk does: its frame if its client is mapped, its icon if it is iconified but for another
\* window's sake.
Quiet == wm.queue = <<>>
Visible ==
  /\ ShownOnce
  /\ Quiet => \A w \in Managed(wm) : wm.Desk[w] = wm.CurrentDesk =>
               /\ w \in wm.mapped => w \in wm.frame
               /\ w \in wm.ICONIFIED \ wm.ICON_UNMAPPED => w \in wm.icon

\* Visible as far as it holds for any commands and styles. Stick only sets a flag: a window stuck on
\* a desk that is not shown is hidden on the desk that is, and so is the icon of a StickyIcon window
\* that was iconified on such a desk. Other sticky windows follow the current desk.
Stuck == {c.win : c \in {e \in Commands \cup UserCommands : e.type = "Stick"}}
VisibleUnstuck ==
  /\ ShownOnce
  /\ Quiet => \A w \in Managed(wm) \ Stuck :
       /\ w \in wm.STICKY => wm.Desk[w] = wm.CurrentDesk
       /\ wm.Desk[w] = wm.CurrentDesk =>
            /\ w \in wm.mapped => w \in wm.frame
            /\ w \in wm.ICONIFIED \ (wm.ICON_UNMAPPED \cup StickyIcon) => w \in wm.icon

\* When all events are handled, WM_STATE tells the clients of managed windows the
\* truth: Normal is mapped, Iconic is not.
StateTold ==
  Quiet => \A w \in Managed(wm) \ wm.gone :
             wm.state[w] = IF w \in wm.mapped THEN "Normal" ELSE "Iconic"

\* "Do something to guarantee a new time stamp!" (misc.c): while the focus waits for
\* a time stamp, an event that carries one is on its way.
NewTimeStamp ==
  wm.FocusOnNextTimeStamp # NoWindow =>
    \E k \in DOMAIN wm.queue : wm.queue[k].type \in InputEvents \cup CommandTypes

\* With two screens and clients that grab the pointer, where GrabEm fails and focus is taken
\* away but never given back, lists, grabs, what shows and WM_STATE are still right.
StillRight == ListsAgree /\ ClickGrabs /\ VisibleUnstuck /\ StateTold
=============================================================================
