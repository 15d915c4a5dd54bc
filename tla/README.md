# fvwm95 and its Explorer in TLA+

A model of two programs of the repository: the window manager in `src/fvwm95/` (fvwm95, a descendant
of fvwm 2.0.43), with its module interface and the life of the windows it manages; and the file
manager in `src/explorer/` (a Nautilus 2.x), with the machinery under its windows that keeps what it
knows of files up to date. Everything below refers to the C sources by path and line; `PROJECT.json`
maps every definition to the lines it translates.

## 1. The system

The repository holds a window manager (`src/fvwm95/`), a file manager (`src/explorer/`), a widget
library (`src/xclass/`) with some fifty programs built on it (`src/all-applications/`) and themes
(`src/gtk-themes/`). State that outlives a call, processes and threads that talk to each other, and
order that matters are found in the first two; the project is about them.

### fvwm95

fvwm is one thread. `HandleEvents` (events.c) calls `My_XNextEvent` for ever: it takes an X event
if one is queued, and otherwise sleeps in `select()` on the X connection and on the pipes of its
modules (separate processes). X events go to a table of handlers. Handlers and modules' commands run
builtins (`ExecuteFunction`); some builtins (`Wait`, complex functions, menus, moves) run an event
loop of their own *inside* the handler.

| component | files (`src/fvwm95/`) | state | operations | talks to |
|---|---|---|---|---|
| module pipes | fvwm/module.c, fvwm/events.c | `readPipes`, `writePipes`, `pipeOn`, `PipeMask`, `pipeName`, `pipeQueue` | executeModule, HandleModuleInput, Broadcast/SendPacket, FlushQueue, KillModule, Send_WindowList, Set_Mask | modules by pipe; all handlers broadcast through it |
| module library | libs/ | position in the packet stream | ReadFvwmPacket, SendInfo/SendText | fvwm by pipe |
| life of windows | fvwm/add_window.c, misc.c, events.c | `FvwmRoot.next`, `stack_next`, flags `MAPPED`, `MAP_PENDING`, WM_STATE | MapRequest, MapNotify, UnmapNotify, DestroyNotify, AddWindow, Destroy | X server, focus, desks, icons |
| icons | fvwm/icons.c | `ICONIFIED`, `ICON_UNMAPPED`, icon windows | Iconify, DeIconify | life, focus, stacking |
| desks | fvwm/virtual.c | `CurrentDesk`, `Desk`, `FocusDesk`, `STICKY` | changeDesks, changeWindowsDesk | MapIt/UnmapIt, focus |
| input focus | fvwm/focus.c, misc.c, events.c | `Scr.Focus`, `PreviousFocus`, `Hilite`, `Ungrabbed`, `FocusOnNextTimeStamp`, button grabs | SetFocus, GrabEm/UngrabEm, HandleHardFocus, FocusIn, Enter, Leave, clicks | X server, focus list |
| stacking | fvwm/misc.c, events.c | `stack_next`/`stack_prev`, `LastWindowRaised` | RaiseWindow, LowerWindow, KeepOnTop, ConfigureRequest | X server |
| viewport | fvwm/virtual.c | `Vx`, `Vy`, pan frames | MoveViewport, HandlePaging, checkPanFrames, SetDeskSize | windows' positions, pointer |
| complex functions, menus | fvwm/complex.c, menus.c, functions.c | one activation each | ComplexFunction, DeferExecution, do_menu | builtins, GrabEm |
| move, resize, placement | fvwm/move.c, resize.c, placement.c | none that outlives a call | moveLoop, resize_window, PlaceWindow | geometry |
| styles, configuration, bindings | fvwm/style.c, read.c, bindings.c | lists read at start | parsing, look-up | AddWindow, key and button handlers |
| decorations, colormaps | fvwm/borders.c, decorations.c, colormaps.c | drawing state | output only | X server |
| modules (22) | modules/ | copies of fvwm's state | their own event loops | fvwm by pipe |
| xclass, applications, themes, tools | xclass/ and others | their own | X clients of fvwm | X server |

### The Explorer

Everything in libnautilus-private runs on the main thread, but for file operations and the making
of thumbnails, which have threads of their own, and for I/O, whose answers come back as callbacks. A
`NautilusDirectory` serves the files in it: clients (windows, trees, property pages) set monitors or ask
for a callback "when ready", and every change of what is wanted or known calls
`nautilus_directory_async_state_changed`, whose service loop starts and stops jobs. At most ten jobs
run in the program; directories that find no slot wait to be woken.

| component | files (`src/explorer/`) | state | operations | talks to |
|---|---|---|---|---|
| directory jobs | libnautilus-private/nautilus-directory-async.c, nautilus-file-queue.c | `async_job_count`, `waiting_directories`, three work queues, `*_in_progress`, `call_when_ready_list`, `monitor_list` | the service loop, a start, stop, cancel and callback for each attribute, the load of a directory | main loop, GIO, other directories' service loops |
| files and directories | nautilus-directory.c, nautilus-file.c | the up-to-date flags of each attribute, `details->directory`, `loading_directory` | notify_files_added, _changed, _removed, _moved, invalidation, force_reload | directory jobs, thumbnails |
| file change queue | nautilus-file-changes-queue.c, nautilus-monitor.c | the queue under its mutex, the idle function's id | queueing, consume_changes | threads of file operations, monitors, directories |
| file operations | nautilus-file-operations.c | a thread and a progress window each | copy, move, trash, delete, link | change queue |
| thumbnails | nautilus-thumbnails.c | `thumbnails_to_make`, `currently_thumbnailing`, `thumbnail_thread_is_running` | create, prioritize, remove, the thread | files, the user's thumbnail store |
| views and windows | src/, nautilus-icon-container.c and others | selection, layout | clients of the above | directories |
| metadata, search, MIME, autorun | nautilus-metafile.c, nautilus-search-directory.c and others | metafiles, hits, volumes | services | directories |

### What is hard

* **Interleaving.** Clients, the server, the user, modules and fvwm go on independently; a handler sees an
  event from the past and a server in the present (a `MapNotify` handled after an `Iconify`, a
  `MapRequest` of a window already withdrawn). Threads of the Explorer add to a queue while it is emptied,
  and ask for work while the worker decides to end.
* **Re-entrance.** `Wait` runs an event loop inside the scan of another: the `fd_set` of the outer
  `select()` is older than the table of slots it is used with. The service loop of one directory enters
  that of another, and its own.
* **Failure.** Modules die, hang, stop in the middle of a command, leave pipes full; `fork()` and
  `XGrabPointer()` fail; windows are destroyed while they have the focus or are to get it.
* **Order and partial writes.** Packets are written in pieces through a non-blocking pipe. Changes of
  files are collected in eight lists and told list by list.
* **Late answers.** A job is cancelled, or its attribute invalidated, or its file moved, with the answer
  under way; what one job tells is invalidated while another tells it too.
* **Limits.** Ten slots for all directories; whoever ends a job must wake who waits.
* **Pointers.** Six globals of fvwm point to windows that any handler may free; the thumbnail thread works
  on a request without the mutex.

### What makes each component correct

| component | properties |
|---|---|
| module pipes | nothing for a module that has not spoken, nothing left for the next module of a slot (`QuietSlots`); packets in order, none twice, and only a hang-up loses any, and only a tail (`StreamSpec`); what is queued is read (`PendingRead`); dead modules are noticed (`DeadModuleReclaimed`); fvwm never blocks on a module (`NeverJammed`, refuted) |
| life of windows | lists agree and none of five pointers dangles (`NoDangling`); WM_STATE tells the truth (`StateTold`) |
| icons, desks | what should show does, on its desk and once, and nothing else does (`Visible`, and `VisibleUnstuck` where windows may be stuck) |
| input focus | button grabs on every click-to-focus window but the focused one (`ClickGrabs`); a pending focus gets its time stamp (`NewTimeStamp`); all this on two screens and under foreign grabs too (`StillRight`) |
| stacking | fvwm's ring tells the order of plain windows (`RingTold`); windows that stay on top are above the others (`OnTopAbove`); what RaiseLower takes for the topmost is (`LastOnTop`) |
| viewport | a page turns as one movement (`DesktopSpec`); pan frames are where paging leads somewhere (`PanFrames`); Focus shows the window (`CentreShown`) |
| directory jobs | slots are given back exactly once and no assertion fails (`JobsCounted`); no queue is left behind (`QueueServed`); what somebody wants is under way (`NeedyUnderway`, `ListServed`), what nobody wants is not (`OnlyWanted`); service loops end (`ServiceEnds`) |
| files and directories | the answer of a job that was outdated meanwhile is not taken (`FreshAnswers`), nor that of a load for the folder's count (`CountsFresh`, refuted); callbacks are called (`CallbacksCalled`) |
| file change queue, file operations | files' changes are told in the order they came (`OrderKept`), none lost or twice, and somebody comes for them (`NothingLost`), and tells them (`AllSent`) |
| thumbnails | one thread (`OneThread`), there when there is work (`SomebodyMakes`), on a request nobody frees (`InHand`); a renewed request is made again (`NewestMade`); who waits is told (`NoticeComes`); a file left alone gets its thumbnail, but for three races (`ThumbnailComes`); what has changed is read again (`InfoReread`, refuted) |

## 2. Plan

| order | module | extends / uses | state |
|---|---|---|---|
| 1 | `PacketStream` (abstract), `ModulePipes`, `ModulePipesProofs` | `ModulePipes` implements `PacketStream` | done and proved, but for liveness |
| 2 | `Windows`, `WindowsProofs` | | done and proved |
| 3 | `VirtualDesktop` (abstract), `Viewport`, `ViewportProofs` | `Viewport` implements `VirtualDesktop` | done; its invariants and the refinement proved |
| 4 | `Lists`, `ListsProofs`, `Stacking`, `StackingProofs` | `ModulePipes`, `Stacking` and `DirectoryJobs` use `Lists` | done and proved |
| 5 | `DirectoryJobs`, `DirectoryJobsProofs` | | done and proved, for clients that move nothing and but for liveness |
| 6 | `FileChanges`, `FileChangesProofs` | | done and proved |
| 7 | `Thumbnails`, `ThumbnailsProofs` | | done and proved |
| 8 | complex functions and menus (complex.c, menus.c, functions.c): the window pointer kept across `Wait`, motions and double clicks | | open |
| 9 | Maximize and moves by hand over page turns (`orig_x`, builtins.c) | `Viewport` | open |
| 10 | what a module knows: FvwmPager's copy of fvwm's state from the packets alone | `PacketStream` | open |
| 11 | metafiles, and the copies, moves and removals that `FileChanges` schedules for them | `FileChanges` | open |

The most important behaviour comes first: the module interface is the one place where fvwm talks to
processes it does not trust, the life of windows is what it is for, and the directory jobs are what
every window of the Explorer lives on. Every module is written for
proofs as well: constants with a named assumption, one action per handler, and recursive functions where the
code loops over a list, never a RECURSIVE operator.

## 3. The modules and the code

**`Lists`** is what two other modules say of lists: `Those`, what a loop leaves that skips some of the
elements, and `Over`, the order of two of them.

**`PacketStream`** is what a module is promised: packets in order, none twice, none skipped, and only
a hang-up may lose the tail of what is pending.

**`ModulePipes`** (fvwm/module.c, `My_XNextEvent` in events.c, `Wait`). A slot is a record of the
arrays `readPipes`, `writePipes`, `pipeOn`, `PipeMask`, `pipeName`, `pipeQueue`. `frames` is the stack
of activations of `My_XNextEvent`: a `Wait` pushes a new one, and the scan below it keeps the result
of its old `select()`. One action reads a window id, a command or an end of file from one slot;
another flushes one chunk. `restart` stands for a complex function that kills a module by name and
starts another. A chunk is what one `write()` passes on at once (PIPE_BUF); long packets have two.
Descriptors are named by their slot. Commands from keys and menus exclude `Set_Mask`, which would
index `PipeMask[-1]` (a hazard on the list).

**`Windows`** (add_window.c, events.c, icons.c, virtual.c, focus.c, misc.c, parts of builtins.c). The
record `wm` holds fvwm's state and the server's; a routine of the code is an operator from a record
to the next, a handler composes them as the code does and is one action (most run under
`XGrabServer`). Events queue first in, first out; module commands are served only when the queue is
empty, as `My_XNextEvent` does. Commands of the user go through the queue and are aimed at windows
that can be seen. `wish` remembers what each client asked for last. UnmapNotify events that Iconify
and UnmapIt suppress are not queued; reparenting makes none. FocusIn events are taken all at once,
as `HandleFocusIn` does. A focus that reverted to root or parent is the value `Root`. `away` is a
pointer on another screen, `held` one that another client has grabbed (GrabEm then fails). What a
dangling pointer does is undefined, so behaviours end there. The two passes of `changeDesks` over
the ring do not touch the same windows and are modelled one after the other. Every icon has an icon
window.

**`VirtualDesktop`** is a port on a larger desktop: a page is turned in one step that moves every
window not stuck to the glass; anything else moves one window that somebody handles.

**`Viewport`** (virtual.c, parts of builtins.c, icons.c, move.c, resize.c). `MoveViewport` is a call and
a loop: one action for each window that the cursor `t` (down the ring) or `t1` (up) looks at, in turns.
`ChaseDown` moves windows that come into view, `ChaseUp` the others, `ViewportMoved` is the flag that
stops the second from moving what the first has moved; `ScanEnds` places sticky icons and checks the pan
frames. `FocusOn` pages, then raises; raise_it_func is focus_func, DeIconify, focus_func in a row, and
WarpOn differs in the pointer only. A resize turns wrapping off and pages in its own loop. Windows of
all desks move, since MoveViewport does not ask. Positions of icons are left out: the page of an icon is
any page. EdgeResistance either lets a page turn or does nothing.

**`Stacking`** (misc.c, events.c, builtins.c, icons.c). `xstack` is the server's order of frames, `ring`
fvwm's. Visibility follows from `xstack`, from what is mapped and from `overlap`, the pairs of windows
that share a pixel, which moves change; a handler ends by queueing a VisibilityNotify for every
client window whose visibility changed. `VISIBLE` changes when that event is handled. The order of the
focus list is any order at each handler. `LastWindowRaised` may be left at a freed window, and the next
window may get its address. `placed` is history: who put the frame of a window where it is. The flag
`RAISED` is only read by code that is commented out.

**`DirectoryJobs`** (nautilus-directory-async.c, with what nautilus-directory.c, nautilus-file.c and
nautilus-file-queue.c call of it). Everything is on one thread, but a service loop may call another in the
middle: by waking a directory, by ending a load, by invalidating the counts of a parent. The calls still
to be made are therefore a stack, `todo`, of routines or rests of routines (`Frames`); clients, answers
and idle functions act when it is empty, as the main loop would. `ops` is what is in progress: the
`*_in_progress` and `*_state` fields, one of a kind per directory; an operation knows whether it has been
cancelled (`live`) and, as history, whether what it tells was invalidated since (`fresh`): a load of the
list tells the folder's count. Each attribute
has its own rule of start, stop and cancel, which `Stop`, `CancelJobs` and `Answer` tell apart: a
count that is cancelled stays in progress until its callback, the others are freed at once, and extension
info is not cancelled by an invalidation at all. Five kinds stand for all ten: link info, top left text, thumbnails and mounts are
fetched like a deep count. A list is read in batches (`DirectoryReads`), each of which tells the info of files
that are known and lets others in between; `DirectoryLoadDone` ends a load in the steps of the code: files,
the folder's count, notification, state changed, load cancelled.

**`FileChanges`** (nautilus-file-changes-queue.c, nautilus-monitor.c, the ends of jobs in
nautilus-file-operations.c). Changes are numbered as they arrive. consume_changes is one step for a change
taken under the mutex, one for each of the eight lists sent, one for the list it is added to; other threads
queue between any two. `FlushNeeded` is the flush condition written once, as the kinds that may
be collected with each list (`Companions`), instead of eight nested conjunctions.

**`Thumbnails`** (nautilus-thumbnails.c, nautilus_file_get_icon, update_info_internal, thumbnail_done). A
section under `thumbnails_mutex` is one step; so is each picture made, in between. The thread is at "lock"
when it is about to take the mutex, with a request in hand or none, at "make" or at "tell". The main
thread's call of nautilus_create_thumbnail is two steps, for it asks for the mutex after the icon is
drawn: `creating` is the info it has built. `modified` is the file's time on disk, `mtime` what
NautilusFile knows of it, `saved` and `failed` what the thumbnail store holds. A query for info reads the
file on an I/O thread (`QueryInfo`) and tells it later, on the main one (`InfoAnswered`); so does the job
that reads the thumbnail (`LoadThumbnail`, `ThumbnailRead`). Files change in between, and a change is told
once (`MonitorTells`, `untold`), which cancels nothing; notices and the end of a NautilusFile do
(`StopReading`). History is `owed`, what was asked for and not worked off; `overtaken`, who was asked for
again too late; and `overwritten`, whose last info is older than what was told of (section 6).

## 4. The runs

| run | instance | bounds | what it shows |
|---|---|---|---|
| `pipes` | 2 slots, 3 modules, two of one name | 3 X events, 2 commands of modules, 1 nested loop, 1 chunk per pipe | `QuietSlots`, and `StreamSpec`: ModulePipes implements PacketStream |
| `pipes_live` | 2 modules of different names, either of which the user starts while the other runs; no `Wait` | 3 X events, 2 commands | `PendingRead`, `DeadModuleReclaimed` under fairness |
| `pipes_jam` | as `pipes` | | `NeverJammed` refuted: a nested loop reads what the outer `select()` promised |
| `windows` | a window and its transient, both click to focus, 2 desks | 4 requests of clients, 3 inputs, clients wait while 3 events do | lists and pointers, grabs, what shows, WM_STATE, time stamps |
| `windows_rough` | two screens, a foreign grab, sloppy focus, sticky icons, StartIconic, StartsOnDesk | 3 requests, 3 inputs | `StillRight`: lists, grabs, what shows (`VisibleUnstuck`) and WM_STATE when things go wrong |
| `viewport` | 2 windows on a 4 by 4 screen; desktops of 1 by 1, 3 by 1, 2 by 2 | 3 commands | types, `PanFrames`, `CentreShown`, and `DesktopSpec`: Viewport implements VirtualDesktop |
| `stacking` | 2 plain windows, one of which restacks itself; a dialogue of the other that stays on top and moves | 6 commands, requests and icon events | `RingTold`, `OnTopAbove`, `LastOnTop` |
| `jobs` | a directory with a folder and a file, and the folder's own; 2 monitors, 2 callbacks, 2 slots | 4 requests and changes: changed, removed, invalidated, reloaded; lists in any batches | the safety of directory jobs |
| `jobs_live` | the same, the file inside the folder, files that change, move and go | 3 requests and changes | `ServiceEnds`, `CallbacksCalled` under fairness |
| `changes` | 2 file operations, the monitor, a drop | 3 changes of any of 9 kinds | `OrderKept`, `NothingLost`, and `AllSent` under fairness |
| `thumbnails` | 2 files, room for 2 threads | 1 freed NautilusFile of the first | `OneThread`, `SomebodyMakes`, `InHand`: the queue and its thread |
| `thumbnails_live` | 1 file | 2 changes | `NewestMade`, `NoticeComes`: requests renewed under the thread; `ThumbnailComes` under fairness |

Why the bounds are enough. The faults these properties are about need two actors and one event that
is late. Two slots are the least in which a slot is reused while another one is served; one nested
loop makes every snapshot that can be stale; a pipe of one chunk is full at once, and a packet of two
chunks is then written in part. Two windows make every relation of the code (main and transient,
focused and next, moved by the first cursor or by the second); three events in the queue are enough
for a handler to be two changes behind. Three commands on the viewport are a setting, a move and a page.
Three windows of the stack are the least with two plain ones and one above them. Two
directories, one of them a folder of the other, make every call from one service loop into another;
with two slots and two monitors a directory waits while jobs of both run. Three changes are the least
with one that overtakes and one that makes both be sent. Two requests on the thumbnail queue are one in hand
and one behind it, and room for a second thread is what `OneThread` denies; a file that changes twice is
modified under its request and again under what comes of that, and `NewestMade` and `NoticeComes` speak of
one file at a time (that a NautilusFile freed meanwhile does not disturb them is proved). Threads are
interchangeable, and the run of invariants alone says so (`SymThreads`). Each
property has a mutant of the code (PROJECT.json) that these bounds suffice to catch. Runs stop at their
bounds, so none checks deadlock; that no loop stops for ever is `pipes_live`, `NeverJammed` and `ServiceEnds`.

Fairness (`FairSpec` of ModulePipes). fvwm is one thread in an endless loop, so `select()` and what it
reports are weakly fair. A module reads its pipe, ends when it sees it closed and completes
a command it began: weakly fair per module. Nothing is assumed of X events, of users, of new
commands, or of the deaths of modules. X events come before modules in `My_XNextEvent`; that there are
finitely many of them stands for a server that is quiet now and then (a hazard on the list says what
happens otherwise).

Fairness of `DirectoryJobs`: the main thread goes on (`Service`), I/O answers, loads end, and the main loop
comes to its idle functions. Of `FileChanges`: the same, and jobs end. Both are weak: nothing but its own
step disables an answer or an idle function for long. Of `Thumbnails`: time passes, the thread goes on, and
so do the I/O threads that read info and thumbnails (weak); the monitor tells of each change once; the main loop comes to each of its sources (strong, for whenever an icon is drawn the main thread is
in nautilus_create_thumbnail for a step, and could be, as far as weak fairness goes, each time it matters).
Nothing is assumed of clients or of files.

## 5. What is proved

For all values of the constants that satisfy the named assumption of the module.

* `ListsProofs`: what `Those` returns for a list of any length (of which type, of which members, in which
  order, of a concatenation). The provers cannot instantiate the library's induction rules, which take an
  operator, so `NaturalInduction` and `ListInduction` say the same of sets and follow from the least element
  of a set of naturals. What remains true is that folds of the library are out of reach: the loops of
  `ModulePipes` and `Stacking` that the proofs go into are written as recursive functions.
* `ModulePipesProofs` (from `PipesAssumption`): `Spec => []TypeOK`, `Spec => []QuietSlots`, and
  `PipesStream`, ModulePipes implements PacketStream. For the first two the
  inductive invariant is their conjunction: that a slot which is off has an empty queue depends on
  `pipeOn` being 1 or -1 in every record, and the types of `frames` on the slots named there. The refinement
  needs more. What is pending for a module is read off the slot that has it, so `Sole` says that no module has
  two and `NoneNew` that a module in a slot has been started. `Fresh` says that a new one has been sent nothing.
  `Ordered` says that the numbers of the packets, those read, those in the pipe and those queued, rise
  through all three and are below the clock: a packet offered is new, and one cut off by a hang-up
  cannot come again. Each routine that touches the table of slots is then sorted by what it does to one module's
  stream (`Moved`: append what rises, drop the tail, start), and the steps of a nested loop by chaining them.
* `StackingProofs` (from `StackingAssumption`, which says also that there are finitely many windows): every
  invariant of its run, `TypeOK`, `RingTold`, `OnTopAbove` and `LastOnTop`. The invariant is their conjunction
  with what they say of queued events (`Queue`) and flags (`Flags`), and holds in every state a routine
  leaves, not only at the end of a handler. A lemma for each routine says what it does to the order of two
  windows: of RaiseWindow that the lot is above the rest, in the order of the focus list, and that of the
  plain windows only its target moves, in the ring as well. KeepOnTop is followed along the focus list
  (`KeptUp`), since each window it raises changes the order the next one finds. The insertion of a new window
  (`Added`) is the one routine that breaks the invariant, for the server puts it on top of windows that stay
  there; that RaiseWindow gives it back is `AddedRight`.
* `WindowsProofs` (from `WindowsAssumption`): `Spec => []TypeOK`, `[]ClickGrabs`, `[]ListsAgree`,
  `[]ShownOnce`, `[]VisibleUnstuck`, `[]StateTold` and so `[]StillRight` on any display; `[]Visible` if nobody sticks
  windows or icons (no "Stick" among the commands, `StickyIcon = {}`); `[]NoDangling` if there is one screen (`Screens = 1`) and `[]NewTimeStamp` if
  nobody else holds the pointer (`~Grabbers`). Handlers are compositions of routines on the record `wm`, and
  so is the proof: a lemma for each routine says what it keeps, and the lemma of a handler chains those of
  the routines it calls. A pointer is only safe to follow if all are valid, so most routines need `Core`
  (types, lists, grabs and valid pointers), and Destroy must be shown to give it back: `PassFocusKeeps` says
  that the focus leaves the dying window for one that is neither it nor remembered elsewhere, `FreedLeads`
  what then remains. With the pointer on another screen SetFocus leaves the focus where it is; that is
  the one place the argument fails, and why `Valid` is part of the invariant for one screen only. `ShownOnce` is
  not inductive: `Shown` adds that icons belong to iconified windows, frames to others, and that a frame
  that is mapped has `MAPPED` or `MAP_PENDING` set, without which UnmapIt would leave it there when the desk
  changes. HandleMapNotify breaks it for a moment, which is why the lemmas about the focus ask for `Core` only.
  `StateTold` speaks of a quiet fvwm; what holds before that is `Tells`: a mapped window has WM_STATE Normal,
  and fvwm knows of it (`MAPPED` or `ICONIFIED`) or its MapNotify is queued; an unmapped one has Iconic, or an
  UnmapNotify is queued that will count, since HandleUnmapNotify ignores one for a window it does not know. That a
  window withdrawn and mapped again is not forgotten rests on `MapsAnswered`: a MapRequest of a window that is
  mapped meanwhile has its MapNotify queued behind it. `Informs` says that a routine keeps all of this for
  whatever set of windows it held of; DeIconify, Iconify and MapClients bring it about for those they map or hide
  (`MapsInforms`, `UnmapsInforms`), and `TakenTold` says what remains when an event leaves the queue.
  What shows runs along in the same way. `Appears` says of one window what holds while events are
  queued: its frame is mapped if it is `MAPPED` and on the current desk, or a MapNotify will come; a mapped
  client is no icon; a window iconified for its own sake has its icon; a sticky window is on the current desk.
  `Sees` says so of a set of windows, with `Marked` (`ICON_UNMAPPED` belongs to iconified windows) and `Asked`
  (only windows of `Stuck` will be stuck), and `Reveals` that a routine keeps it for whatever set it held of. changeDesks
  is the hard one: it maps what is on the new desk and takes along what sticks, and shows nothing of the
  latter, so all that sticks must have been on the old desk. That is true of StickyStyle windows, which AddWindow
  places on the current desk, and not of windows that Stick was called for elsewhere, nor of icons of
  StickyIcon windows iconified elsewhere (section 6). `Visible` excepts transients whose main window hid them, since
  only the main window brings them back. Only Destroy, which hides a window it is about to forget, and
  HandleMapNotify, which makes true what its event told, do not keep it for all sets: their lemmas speak of
  the other windows (`DestroyLeads`), and of what they add (`MapNotifyWorks`).
  `ThoseOf` needs that any set of places of a list can be put in order; `EnumerateAll` takes a least length
  for which it could not.
* `ViewportProofs` (from `ViewportAssumption`): `Spec => []TypeOK`, `Spec => []PanFrames`,
  `Spec => []CentreShown`, and
  `PagesTurnAsOne`, Viewport implements VirtualDesktop. The invariant is `TypeOK /\ Chased /\ Saved`.
  Types alone do not say that a page moves every window: `Chased` says that what `t` has passed is
  moved or does not come into view, and what `t1` has passed is moved or does. Both have passed every
  window at the end, so every window is moved; a window just moved may come into view or leave it, which
  is why the flag appears in both halves. `Saved` says that wrapping is remembered only during a resize.
  `StepKinds` then sorts all actions into four kinds: those that start a page (Turn), end it (Settle),
  handle one window (Handle) or change nothing a reader of VirtualDesktop sees. `CentreShown` speaks of the end
  of FocusOn, and what decides it happens at its beginning: `PageShows` says that a place on the desktop is on
  the page C's division finds for it, or on the last page where the desktop ends within it; from there `Aimed`
  carries it to the end, with the window where MoveViewport will put it (`Placed`), which the refinement shows
  no step of the scan to change. The second half of FocusOn may put the window in the corner, where its middle
  is on a screen that is as large; and no resize goes on meanwhile, whose end would move the window.

* `FileChangesProofs` (from `ChangesAssumption`): every invariant of its run, `OrderKept`, `NothingLost`
  (with `SomebodyComes`, also on its own) and `TypeOK`, for any number of threads and changes, and
  `FilesInOrder`, that no two changes of files are told out of order. The invariant is `TypeOK /\ Progress /\
  Ordered /\ Coming`. `OrderKept` speaks of what is sent; whether a step keeps it depends on where every
  other change is. So `Ordered` says how each place stands to the others: the queue is sorted and behind
  all, the hand before the queue, the lists before the hand and each sorted, what shares the lists may
  (`Together`), and what is sent may come before all that. `Progress` ties the lists to the step of the
  main thread (the lists before the turn are empty), and `Coming` says who will call.
* `ThumbnailsProofs` (from `ThumbnailsAssumption`): every invariant of its runs, for any number of files and
  threads: `TypeOK`, `OneThread`, `SomebodyMakes`, `InHand`, `NewestMade`, `NoticeComes`. The invariant
  adds three parts. `Alone`: the idle function is there only while no thread is, and who is not running holds
  nothing, which is why setting the flag without the mutex does no harm. `Owed`: what history says is owed
  is the time on the queue, so that a request leaves it only when its own time was worked off. `Told`: a
  thread that has told of its file and not yet ended the request leaves the notice on its way; this is
  what breaks when the request is renewed just then, and why `overtaken` is excepted. The lemma
  `WithoutRemoves` says what deleting a link from the queue leaves.
* `DirectoryJobsProofs` (from `JobsAssumption`, and for clients that move nothing: `"Moved" \notin Changes`, since
  `JobsCounted` is false with moves, section 6): every invariant of the run `jobs`, `TypeOK`, `JobsCounted`, `ListServed`,
  `FreshAnswers`, `OnlyWanted`, `NeedyUnderway` and, where there is more than one slot, `QueueServed`. The
  properties speak of the main loop or of what is in progress; what happens in between is on the
  stack of calls, of which nothing is bounded. So the invariant says which stacks there are. `Lawful`: each
  call stands over those it may stand over: what remains of a service loop is all there, in order, no
  directory is in its loop twice, and its load is ended once. `Serving`: `in_async_service_loop` and
  `already_waking_up` are what the stack says they are. A set of lemmas says for each routine what its step puts on
  the stack (`More`), so that the rest of the proof looks at routines and directories and at no place of a list.
  `Listed` then says of each directory, at any depth of the stack, that its list is right or there is
  a call that will make it so; it holds through the nesting only because a load nobody wants any more is cancelled
  above the loop that found it so (`Held`), and this loop goes round once more. `Counted`, with `OpsPlaced` (what is
  fetched is fetched for a file of its directory), gives `JobsCounted`: the assertion of file_list_start_or_stop
  is the one that needs `Held`. `LoadingTold` says that LoadCancel, which looks the file up among the operations, finds
  the one that was marked, since no two directories have the same file: that, and that there are finitely many files,
  is what the proof adds to `JobsAssumption`; nautilus_directory_get_corresponding_file finds the file by the
  directory's location. For `QueueServed` there are two parts. `Attended`: a directory with files left on a queue has
  an operation that answers, waits for a slot, or has a call on the stack that goes through its queues; each
  way in which one of these ends puts up the next. `SlotsFilled`: while anybody waits, the slots are full or
  somebody will wake the waiting. Alone the load that ended in its idle callback leaves its slot without a call to
  async_job_wake_up: this one slot is what the invariant allows when the stack is empty, and the next
  operation to end wakes the waiting. With `MaxJobs` = 1 there is no next operation, TLC refutes
  `QueueServed`, and the theorem says `MaxJobs # 1`; MAX_ASYNC_JOBS is 10 (nautilus-directory-async.c:63).
  `OnlyWanted` and `NeedyUnderway` hold of the main loop because of what the stack promises. `OnlyAsked`: what is
  fetched is missing and wanted, or the service loop of its directory has yet to stop what is not
  (`StopOn`), or the end of the load of a folder in this directory, which calls that loop, is still to come
  (`LoadLeft`): the load's answer tells the folder's count long before. `AllSeenTo`: what is needed of a file is
  fetched, or the file has a turn in a queue that is not past this attribute (`HasTurn`), or a call will queue it
  again (`Redone`). Both rest on `StackStays`, that nothing but the next call ever leaves the stack, and on one
  lemma for each way in which a part of them ends (`LacksStays`, `WantedStays`, `StopStays`, `LoadLeftStays`;
  `LackAppears`, `WantAppears`, `TurnStays`, `FetchStays`, `RedoStays`). Of counts `AllSeenTo` says nothing: it is
  false of them (section 6).

Only model-checked: all liveness, since neither fairness nor ENABLED is within the prover's reach.
Every invariant and every refinement that a run checks is a theorem. No module declares a RECURSIVE operator.

## 6. What the code does otherwise than it says

Refuted by a run (`findings` in PROJECT.json): `pipes_jam`. `MCThumbnailsInfo.cfg` and `MCDirectoryJobsListing.cfg` are
kept for two more: TLC refutes `InfoReread` with the first (module MCThumbnails) and `CountsFresh` with the second
(MCDirectoryJobs). Met while modelling, and left out of the
properties where they are named (TLC then found the counterexample):

fvwm95:

* "void DeadPipe(int nonsense) * Called if the pipe is no longer open" (libs/ReadPacket.c:12): at an end of
  file inside a body, the loop of libs/ReadPacket.c:38 adds the 0 that read() returns for ever. A module that
  fvwm has hung up on then spins.
* A synthetic UnmapNotify, the way ICCCM has a client withdraw an iconic window, is thrown away
  (events.c:823), although the comment below (events.c:826-831) speaks of it; a `MapRequest` still queued then
  shows the window.
* focus.c:80 returns early when the pointer is on another screen and leaves `Scr.Focus` at a window that
  Destroy is about to free; events.c:884-885 relies on it. `NoDangling` is claimed for one screen only.
* Focus on a window partly outside the screen does not always bring it in: builtins.c:193-194 tests
  `frame_x + frame_height` and `frame_y + frame_width`; fvwm95.man:658-659 promises it. `CentreShown` claims the
  middle of a window only.
* When a window is obscured the branch of events.c:1279 is empty, while the comment (1272-1273) and misc.c:552
  speak of windows that stay on top: a client that moves over one, or restacks itself, covers it. `OnTopAbove`
  excepts windows whose clients did.
* `SetFocus` (focus.c:96) gives a window that loses the focus its button grab back, but not the one with
  LockMask that line 107 took away; with Caps Lock on, a click does not focus it any more.
* After `XMapWindow` and `XIconifyWindow` in a row the late MapNotify (events.c:801) clears `ICONIFIED`
  and maps the frame, and the client stays unmapped with `MAPPED` set.
* The ring is not the stacking order that the Changelog (11-20) says it is: RaiseWindow restacks transients and
  StaysOnTop windows and moves only its target in the ring (misc.c:693-700), and a client's
  ConfigureRequest (events.c:1173) is not seen by it. `RingTold` says for which windows it is right.
* checkPanFrames (virtual.c:194-224) maps no frame at the border of the desktop even if the axis wraps;
  it only keeps one that is mapped. With EdgeScroll 0 on one axis it first unmaps that axis' frames and
  then maps those with a page behind them.
* resize_window (resize.c:263) turns wrapping on again without checking the pan frames.
* `Set_Mask` from a key or menu writes `PipeMask[-1]` (module.c:755); a steady stream of X events starves all
  modules (events.c:1312); a maximized window restored after a page was turned goes to its old place on the
  screen (borders.c:734); `icon_w` is moved to `icon_x_loc` where its own coordinate is `icon_xl_loc` (virtual.c:373).
* "Sticky" windows "always stay put on the screen" (fvwm95.man:127-128). stick_function (builtins.c:733-736) only sets
  the flag: for a window on another desk, which a module may name, nothing is shown, and when the desk is
  changed to the window's own, changeDesks (virtual.c:501-519) takes it for one that shows already and maps
  nothing. It stays hidden until it is deiconified from an icon, or unstuck and its desk shown once more. A StickyIcon
  window that its client or a module iconifies on another desk has an icon that stays hidden in the same way.
  `VisibleUnstuck` excepts both.
* The hilite of a window whose focus the server took away and
  the `Scr.LastWindowRaised` that Destroy leaves behind are the code's choice; no property claims more.

The Explorer (files of libnautilus-private; docs/nautilus-io.txt is its documentation):

* "Your callback function will be called when and if the requested information is ready" (nautilus-io.txt:91-93).
  While the directory of a folder is loading, the folder's count is not wanted "now" (nautilus-directory-async.c:1615-1620),
  so the folder leaves the queues of its parent. When that load is cancelled, directory_load_cancel (999)
  calls the parent's service loop, but the folder is in no queue any more: its count is not fetched. `NeedyUnderway`
  and `CallbacksCalled` except counts.
* "The NautilusFile and NautilusDirectory objects follow the file rather than staying stuck to the path"
  (nautilus-io.txt:182-184). When a folder moves while its items are counted, directory_count_cancel (426-432)
  only cancels the GCancellable, and the service loop of the old directory fails the g_assert at 2425 at once;
  extension info, which is not cancelled at all (4371), does the same. `JobsCounted` is checked without moves.
* A file moved into a monitored directory is queued there, but that directory's service loop is not run; and its
  callbacks stay in the old directory's list. `QueueServed` is checked without moves, `CallbacksCalled` excepts them.
* nautilus_directory_notify_files_changed (nautilus-directory.c:1085-1120) invalidates without cancelling: an answer
  under way brings old info and marks it up to date (the comment at 1103 and nautilus-io.txt:157-160 say
  otherwise). `InfoReread` is refuted: a change is told once, so the file is not read again. `FreshAnswers` is
  claimed for the jobs that are cancelled, and `ThumbnailComes` excepts files whose last info is such an answer
  (`overwritten`).
* "Cancel possible in-progress loads of any of these attributes" (nautilus-file.c:6415). The count of a folder is also
  told by the load of its own list (nautilus-directory-async.c:924-929), and nothing that invalidates the count cancels
  that: when a file vanishes during the load (nautilus_directory_notify_files_removed), the count is invalidated,
  and the end of the load marks up to date a total that may still have the file in it. `CountsFresh` is refuted;
  `FreshAnswers` speaks of the jobs of the attribute itself.
* directory_load_done ends its job without waking who waits (nautilus-directory-async.c:1062); the comment at 393-395 is true only because
  another service loop comes soon. With a single slot it would not.
* Of a file found missing by query_info nothing more is fetched, and its callbacks wait for what else they asked.
  `mime_list_done` sets its flag the wrong way round (nautilus-directory-async.c:3113). request_is_satisfied does not look at extension
  info. nautilus_directory_notify_files_removed_by_uri calls notify_files_changed (nautilus-directory.c:1186).
* The comments of nautilus-file-changes-queue.c:373-377 and 436-438 are not literally true: `OrderKept` says what is.
  The queue is made by its first user without a lock (79). CONSUME_CHANGES_MAX_CHUNK is never looked at,
  since `consume_all` is TRUE in every call: a steady stream of changes of one kind is collected without end.
* Thumbnails: the notice is sent before the request leaves the queue (nautilus-thumbnails.c:998, 914). If the main thread hears
  it, finds no thumbnail and asks again for the same time in between, the thread takes the new request for
  the old one and drops it: `is_thumbnailing` stays set, the icon stays "loading" and the file never gets another
  thumbnail. `overtaken` holds these files, and `NoticeComes` and `ThumbnailComes` except them.
* thumbnail_done forgets the path of a thumbnail of another time (nautilus-directory-async.c:3783) and marks the thumbnail
  up to date. An info answer read before brings the path back (nautilus-file.c:1780), and a file that has a path
  asks for no thumbnail (nautilus-file.c:3403), while nobody reads the one it has: the icon stays without. `Revived`
  names these files, and `ThumbnailComes` excepts them.
* `thumbnail_thread_is_running` is set whether pthread_create succeeds or not (198-202); nothing is made from then on if
  not. A file renamed while its thumbnail is made is told of under its old name.
  nautilus_thumbnail_remove_all_from_queue is never called.

## 7. What is not modelled

fvwm95: decorations, colormaps, drawing, menus, the parsers of configuration and styles (their results are
constants), the 22 modules but for their use of the pipe. In the
modelled parts: start, restart and Recapture; colormap focus, WM_TAKE_FOCUS, `UnknownWinFocused`,
`DeIconifyDesk`; Enter events that a following Leave cancels; NotifyPointer FocusIn events; the wait of
a command for a button (`DeferExecution`); Maximize; events dispatched during a move by hand but for
paging; positions of icons; override-redirect windows; the bodies of packets. The three models of
windows are apart: `Windows` has no geometry and no windows that stay on top, `Viewport` no desks,
`Stacking` neither desks nor focus. They share the ring, and each of them changes it as the code does.

The Explorer: views and windows (`src/explorer/src/`), which are clients of the directory model and appear
as what they may ask, in any order; copying, conflicts and dialogues of file operations; metafiles, search
directories, MIME and autorun. In the modelled parts: what an attribute says, signals, names and hash
tables, reference counts, the kinds of attributes that are fetched like a deep count, errors that leave a
file as it is, which file a queued change is about, pictures and their sizes, renamed files' thumbnails.
The three modules are apart: `FileChanges` ends where directories are told, `DirectoryJobs` begins there
(`NotifyFileChanged`, `NotifyFileRemoved`, `NotifyFileMoved`). `Thumbnails` has of the jobs that read info and
thumbnails what they have read and when they answer; the queues and slots they wait for are
`DirectoryJobs`' matter. What info says there has no value, only whether it is up to date.

xclass, the applications and the themes: programs of their own, most of them drawing and dialogues over a
library that is no larger a state machine than its event loop; they are clients of fvwm like any other
and appear in `Windows` as what a client may do. They are the greater part of the repository's lines, as are
the Explorer's widgets, and no state in them outlives a dialogue in a way that two actors share.
