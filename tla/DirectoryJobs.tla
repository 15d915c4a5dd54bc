--------------------------- MODULE DirectoryJobs ----------------------------
(***************************************************************************)
(* How the Explorer fetches what windows want to know about files: the     *)
(* asynchronous jobs of NautilusDirectory (nautilus-directory-async.c of   *)
(* explorer/libnautilus-private, with the parts of nautilus-directory.c,   *)
(* nautilus-file.c and nautilus-file-queue.c that drive them).             *)
(*                                                                         *)
(* Everything runs on the main thread.  Clients set monitors and one-shot  *)
(* callbacks; each change calls nautilus_directory_async_state_changed for *)
(* a directory, whose service loop starts and stops jobs; answers come     *)
(* back from the main loop.  The service loop of one directory can enter   *)
(* that of another, so the calls still to be made are a stack, `todo': a   *)
(* client, an answer or an idle function acts only when it is empty.       *)
(*                                                                         *)
(* Left out: what the attributes say, signals and their handlers (they     *)
(* call nothing here), metadata, file objects coming and going (all are    *)
(* referenced), and the kinds of link, top left text, thumbnail and mount, *)
(* which are fetched like a deep count.                                    *)
(***************************************************************************)
EXTENDS Integers, Sequences, FiniteSets, Lists

CONSTANTS
  Dirs,         \* NautilusDirectory objects
  Files,        \* NautilusFile objects
  NoFile,       \* NULL
  AllFiles,     \* a request for a directory: file is NULL
  Folders,      \* files that are directories
  StartDir,     \* StartDir[f]: the directory f is in at first
  FileOf,       \* FileOf[d]: the file that stands for d, or NoFile when nobody knows one
  Monitors,     \* what clients may monitor
  Callbacks,    \* the callbacks clients may ask for, once each
  About,        \* About[x]: the file x is about, or AllFiles
  At,           \* At[x]: the directory when x is about all its files
  Request,      \* Request[x]: what x wants to know
  Changes,      \* what may happen to files: "Changed", "Removed", "Moved", "Invalidated", "Reload"
  MaxJobs,      \* MAX_ASYNC_JOBS
  MaxRequests   \* bound: what clients ask and files undergo, in all

\* Attributes; "list" is the file list of a directory.
Kinds == {"info", "count", "deep", "filesystem", "extension"}
\* NAUTILUS_FILE_ATTRIBUTE_FILESYSTEM_INFO is not one of "all attributes".
AllAttributes == Kinds \ {"filesystem"}

ASSUME JobsAssumption ==
  /\ IsFiniteSet(Files) /\ NoFile \notin Files /\ AllFiles \notin Files /\ Folders \subseteq Files
  /\ StartDir \in [Files -> Dirs]
  /\ FileOf \in [Dirs -> Files \cup {NoFile}] /\ \A d \in Dirs : FileOf[d] \in Folders \cup {NoFile}
  /\ \A d, e \in Dirs : FileOf[d] = FileOf[e] /\ FileOf[d] # NoFile => d = e
  /\ Monitors \cap Callbacks = {}
  /\ About \in [Monitors \cup Callbacks -> Files \cup {AllFiles}]
  /\ At \in [Monitors \cup Callbacks -> Dirs]
  /\ Request \in [Monitors \cup Callbacks -> SUBSET (Kinds \cup {"list"})]
  /\ \A x \in Monitors \cup Callbacks : "list" \in Request[x] => About[x] = AllFiles
  /\ MaxJobs \in Nat \ {0} /\ MaxRequests \in Nat

VARIABLES
  jobs,         \* async_job_count
  waiting,      \* waiting_directories
  waking,       \* already_waking_up
  ops,          \* what is in progress: *_in_progress, *_state and *_file of each directory
  high, low, extension, \* the work queues of each directory
  monitored, loaded, told, \* directories: file_list_monitored, directory_loaded, ..._sent_notification
  inLoop, again, \* directories: in_async_service_loop, state_changed
  idle,         \* directories with call_ready_idle_id
  monitors,     \* monitor_list of all directories
  calls, listed, \* call_when_ready_list: the state of each callback, and whose list it is in
  directory, gone, loading, \* files: details->directory, is_gone, loading_directory
  upToDate,     \* upToDate[f]: attributes of f that need not be fetched
  todo,         \* calls the main thread has yet to make, the next one first
  aborted,      \* a g_assert failed
  stale,        \* <<f, k>>: taken from an operation k that began before f was invalidated
  nrequests     \* what clients did so far

jobVars == <<jobs, waiting, ops>>
queues == <<high, low, extension>>
lists == <<monitored, loaded, told>>
clients == <<monitors, calls, listed>>
files == <<directory, gone, loading, upToDate, stale>>
vars == <<jobVars, waking, queues, lists, inLoop, again, idle, clients, files, todo, aborted, nrequests>>

Operations == [dir : Dirs, kind : Kinds \cup {"list"}, file : Files \cup {NoFile},
               live : BOOLEAN,   \* not cancelled
               fresh : BOOLEAN]  \* begun after what it tells of its file was last invalidated

Routines == {"state changed", "file list", "stop", "queues", "ready", "wake up", "waking",
             "load cancel", "load ended", "told", "cancelled", "invalidate",
             "detach", "attach", "reload", "unloaded", "reloaded"}
\* A call yet to be made: a routine, or the rest of one, and its arguments.
Frames == [do : Routines, dir : Dirs, file : Files \cup {NoFile}, set : SUBSET (Kinds \cup Monitors)]

Call(r, d) == [do |-> r, dir |-> d, file |-> NoFile, set |-> {}]
CallFor(r, d, f, s) == [do |-> r, dir |-> d, file |-> f, set |-> s]

-----------------------------------------------------------------------------
(* Queues, files and requests                                              *)

Queued(q, f) == \E i \in 1..Len(q) : q[i] = f
\* Mutant: a queue with work in it takes no more.
EnqueueAlone(q, f) == IF q = <<>> THEN <<f>> ELSE q

Enqueue(q, f) == IF Queued(q, f) THEN q ELSE Append(q, f)
Without(q, f) == Those(q, Files \ {f})
\* file_list has an order of its own.
Orders(S) == {s \in [1..Cardinality(S) -> S] : \A i, j \in DOMAIN s : s[i] = s[j] => i = j}

FileList(d) == {f \in Files : directory[f] = d /\ f \notin gone}
\* The file that stands for d, if a file object in its parent's list does.
Standing(d) == IF FileOf[d] \in gone THEN NoFile ELSE FileOf[d]

RemoveFromWorkQueue(d, f) ==
  /\ high' = [high EXCEPT ![d] = Without(@, f)]
  /\ low' = [low EXCEPT ![d] = Without(@, f)]
  /\ extension' = [extension EXCEPT ![d] = Without(@, f)]

AddToWorkQueue(d, f) ==
  /\ high' = [high EXCEPT ![d] = Enqueue(@, f)]
  /\ UNCHANGED <<low, extension>>

\* Mutant: only once the list is monitored.
AddAllMonitored(d) ==
  /\ \E s \in Orders(FileList(d)) :
        high' = [high EXCEPT ![d] = IF d \in monitored THEN @ \o Those(s, {f \in Files : ~Queued(high[d], f)}) ELSE @]
  /\ UNCHANGED <<low, extension>>

AddAllToWorkQueue(d) ==
  /\ \E s \in Orders(FileList(d)) :
        high' = [high EXCEPT ![d] = @ \o Those(s, {f \in Files : ~Queued(high[d], f)})]
  /\ UNCHANGED <<low, extension>>

Place(x) == IF About[x] = AllFiles THEN At[x] ELSE directory[About[x]]

\* lacks_*
Lacks(f, k) ==
  /\ k \notin upToDate[f]
  /\ k = "info" => f \notin gone
  /\ k = "count" => f \in Folders

\* should_get_directory_count_now
LacksNow(f, k) == Lacks(f, k) /\ (k = "count" => f \notin loading)

Includes(x, f) == About[x] = f \/ (About[x] = AllFiles /\ At[x] = directory[f])

\* The part of is_needy that looks at who is asking.
Wanted(f, k) ==
  \/ \E m \in monitors : k \in Request[m] /\ Includes(m, f)
  \/ \E c \in Callbacks : /\ calls[c] = "active" /\ listed[c] = directory[f]
                          /\ k \in Request[c] /\ Includes(c, f)

\* Mutant: nobody is asked who wants it.
IsNeedyAnyway(f, k) == LacksNow(f, k)

IsNeedy(f, k) == LacksNow(f, k) /\ Wanted(f, k)

\* Extension info is not looked at.
RequestIsSatisfied(d, c) ==
  /\ "list" \in Request[c] => d \in loaded /\ d \in told
  /\ \A k \in Request[c] \ {"list", "extension"} :
        \A f \in (IF About[c] = AllFiles THEN FileList(d) ELSE {About[c]}) : ~Lacks(f, k)

IsAnyoneMonitoringFileList(d) ==
  \/ \E m \in monitors : "list" \in Request[m] /\ Place(m) = d
  \/ \E c \in Callbacks : "list" \in Request[c] /\ calls[c] # "none" /\ listed[c] = d

-----------------------------------------------------------------------------
(* Jobs                                                                    *)

Operation(d, k, f) == [dir |-> d, kind |-> k, file |-> f, live |-> TRUE, fresh |-> TRUE]
InProgress(d, k) == \E o \in ops : o.dir = d /\ o.kind = k

Low == {"count", "deep", "filesystem"}
\* start_or_stop_io tries the attributes of a file in this order.
Turn == [info |-> 0, count |-> 1, deep |-> 2, filesystem |-> 3, extension |-> 4]

\* Mutant: one slot too many.
StartJobsOver(d, f, kinds) ==
  LET started == {k \in kinds : Cardinality({j \in kinds : Turn[j] < Turn[k]}) <= MaxJobs - jobs}
  IN /\ jobs' = jobs + Cardinality(started)
     /\ ops' = ops \cup {Operation(d, k, f) : k \in started}
     /\ waiting' = IF started = kinds THEN waiting ELSE waiting \cup {d}

\* Mutant: who finds no slot is not noted.
StartJobsUnwaiting(d, f, kinds) ==
  LET started == {k \in kinds : Cardinality({j \in kinds : Turn[j] < Turn[k]}) < MaxJobs - jobs}
  IN /\ jobs' = jobs + Cardinality(started)
     /\ ops' = ops \cup {Operation(d, k, f) : k \in started}
     /\ UNCHANGED waiting

\* async_job_start for each kind in turn, while there are slots.
StartJobs(d, f, kinds) ==
  LET started == {k \in kinds :
                    Cardinality({j \in kinds : Turn[j] < Turn[k]}) < MaxJobs - jobs}
  IN /\ jobs' = jobs + Cardinality(started)
     /\ ops' = ops \cup {Operation(d, k, f) : k \in started}
     /\ waiting' = IF started = kinds THEN waiting ELSE waiting \cup {d}

\* Mutant: a count's slot is given back when it is told to stop and when it stops.
CancelJobsTwice(S, outdated) ==
  /\ ops' = {[o EXCEPT !.live = @ /\ o \notin S, !.fresh = @ /\ o \notin outdated] :
                o \in {p \in ops : p \notin S \/ p.kind = "count"}}
  /\ jobs' = jobs - Cardinality(S)
  /\ UNCHANGED waiting

\* Operations S are cancelled: a directory count is told to stop and ends when its callback
\* sees that, the others end now.  What is left of operations outdated was asked for too early.
CancelJobs(S, outdated) ==
  LET ended == {o \in S : o.kind # "count"}
  IN /\ ops' = {[o EXCEPT !.live = @ /\ o \notin S, !.fresh = @ /\ o \notin outdated] : o \in ops \ ended}
     /\ jobs' = jobs - Cardinality(ended)
     /\ UNCHANGED waiting

Running(r) == ~aborted /\ todo # <<>> /\ Head(todo).do = r
This == Head(todo)
Rest == Tail(todo)
Then(calls_) == todo' = calls_ \o Rest
Return == todo' = Rest

StateChanged ==
  /\ Running("state changed")
  /\ LET d == This.dir IN
       IF d \in inLoop
       THEN again' = again \cup {d} /\ UNCHANGED inLoop /\ Return
       ELSE /\ inLoop' = inLoop \cup {d} /\ again' = again \ {d}
            /\ Then(<<Call("file list", d), Call("stop", d), Call("queues", d), Call("ready", d)>>)
  /\ UNCHANGED <<jobVars, waking, queues, lists, idle, clients, files, aborted, nrequests>>

FileListStartOrStop ==
  /\ Running("file list")
  /\ LET d == This.dir
         wanted == IsAnyoneMonitoringFileList(d)
         f == Standing(d)
     IN IF d \notin monitored /\ InProgress(d, "list")
        THEN aborted' = TRUE /\ UNCHANGED <<jobVars, monitored, loaded, loading, todo>>
        ELSE
        /\ monitored' = IF wanted THEN monitored \cup {d} ELSE monitored \ {d}
        /\ loaded' = IF wanted THEN loaded ELSE loaded \ {d}
        /\ IF ~wanted /\ d \in monitored THEN Then(<<Call("load cancel", d)>>) ELSE Return
        /\ IF wanted /\ d \notin loaded /\ ~InProgress(d, "list")
           THEN IF jobs < MaxJobs
                THEN /\ jobs' = jobs + 1
                     /\ ops' = ops \cup {Operation(d, "list", f)}
                     /\ loading' = loading \cup ({f} \cap Files)
                     /\ UNCHANGED waiting
                ELSE waiting' = waiting \cup {d} /\ UNCHANGED <<jobs, ops, loading>>
           ELSE UNCHANGED <<jobVars, loading>>
        /\ UNCHANGED aborted
  /\ UNCHANGED <<waking, queues, told, inLoop, again, idle, clients, directory, gone, upToDate, stale, nrequests>>

\* Mutant: the file is looked up again instead of kept.
LoadFileNow(d) == Standing(d)

\* load_directory_file: the file that stood for d when its load began
LoadFile(d) == (CHOOSE o \in ops : o.dir = d /\ o.kind = "list").file

\* directory_load_cancel, up to the call for the directory of the file that stands for d
LoadCancel ==
  /\ Running("load cancel")
  /\ LET d == This.dir IN
       IF ~InProgress(d, "list")
       THEN Return /\ UNCHANGED loading
       ELSE LET f == LoadFile(d)
                parent == {directory[g] : g \in {f} \cap Files} \ {d}
            IN /\ loading' = loading \ {f}
               /\ Then((IF parent = {} THEN <<>> ELSE <<Call("state changed", directory[f])>>)
                       \o <<Call("load ended", d)>>)
  /\ UNCHANGED <<jobVars, waking, queues, lists, inLoop, again, idle, clients,
                 directory, gone, upToDate, stale, aborted, nrequests>>

\* The rest of it, with the operation it found before that call.
LoadEnded ==
  /\ Running("load ended")
  /\ ops' = {o \in ops : ~(o.dir = This.dir /\ o.kind = "list")}
  /\ jobs' = jobs - 1
  /\ Return
  /\ UNCHANGED <<waiting, waking, queues, lists, inLoop, again, idle, clients, files, aborted, nrequests>>

\* The *_stop functions: a job for a file of another directory fails an assertion.
Stop ==
  /\ Running("stop")
  /\ LET mine == {o \in ops : o.dir = This.dir /\ o.kind # "list"} IN
       IF \E o \in mine : directory[o.file] # This.dir
       THEN aborted' = TRUE /\ UNCHANGED <<jobVars, todo>>
       ELSE /\ CancelJobs({o \in mine : ~IsNeedy(o.file, o.kind)}, {})
            /\ Return /\ UNCHANGED aborted
  /\ UNCHANGED <<waking, queues, lists, inLoop, again, idle, clients, files, nrequests>>

\* One turn of the loops of start_or_stop_io.
HighPriorityQueue ==
  /\ Running("queues") /\ high[This.dir] # <<>>
  /\ LET d == This.dir
         f == Head(high[d])
     IN IF InProgress(d, "info") \/ IsNeedy(f, "info")
        THEN /\ StartJobs(d, f, IF InProgress(d, "info") THEN {} ELSE {"info"})
             /\ Return /\ UNCHANGED queues
        ELSE /\ low' = [low EXCEPT ![d] = Enqueue(@, f)]
             /\ high' = [high EXCEPT ![d] = Tail(@)]
             /\ UNCHANGED <<extension, jobVars, todo>>
  /\ UNCHANGED <<waking, lists, inLoop, again, idle, clients, files, aborted, nrequests>>

LowPriorityQueue ==
  /\ Running("queues") /\ high[This.dir] = <<>> /\ low[This.dir] # <<>>
  /\ LET d == This.dir
         f == Head(low[d])
         busy == {k \in Low : InProgress(d, k)}
         wanted == {k \in Low \ busy : IsNeedy(f, k)}
         empty == IF f \in Folders THEN {} ELSE wanted \cap {"deep"}
     IN IF busy \cup wanted # {}
        THEN /\ StartJobs(d, f, wanted \ empty)
             /\ upToDate' = [upToDate EXCEPT ![f] = @ \cup empty]
             /\ again' = IF empty = {} THEN again ELSE again \cup {d}
             /\ Return /\ UNCHANGED queues
        ELSE /\ extension' = [extension EXCEPT ![d] = Enqueue(@, f)]
             /\ low' = [low EXCEPT ![d] = Tail(@)]
             /\ UNCHANGED <<high, jobVars, upToDate, again, todo>>
  /\ UNCHANGED <<waking, lists, inLoop, idle, clients, directory, gone, loading, stale, aborted, nrequests>>

\* An info provider may answer at once.
ExtensionQueue ==
  /\ Running("queues") /\ high[This.dir] = <<>> /\ low[This.dir] = <<>> /\ extension[This.dir] # <<>>
  /\ LET d == This.dir
         f == Head(extension[d])
     IN \/ /\ InProgress(d, "extension") \/ IsNeedy(f, "extension")
           /\ StartJobs(d, f, IF InProgress(d, "extension") THEN {} ELSE {"extension"})
           /\ Return /\ UNCHANGED <<queues, upToDate, again>>
        \/ /\ ~InProgress(d, "extension") /\ IsNeedy(f, "extension") /\ jobs < MaxJobs
           /\ upToDate' = [upToDate EXCEPT ![f] = @ \cup {"extension"}]
           /\ again' = again \cup {d}
           /\ Return /\ UNCHANGED <<queues, jobVars>>
        \/ /\ ~InProgress(d, "extension") /\ ~IsNeedy(f, "extension")
           /\ RemoveFromWorkQueue(d, f)
           /\ UNCHANGED <<jobVars, upToDate, again, todo>>
  /\ UNCHANGED <<waking, lists, inLoop, idle, clients, directory, gone, loading, stale, aborted, nrequests>>

QueuesEmpty ==
  /\ Running("queues") /\ high[This.dir] = <<>> /\ low[This.dir] = <<>> /\ extension[This.dir] = <<>>
  /\ Return
  /\ UNCHANGED <<jobVars, waking, queues, lists, inLoop, again, idle, clients, files, aborted, nrequests>>

\* Mutant: callbacks found ready are found again.
FoundAgain(d) == {c \in Callbacks : calls[c] \in {"active", "ready"} /\ listed[c] = d /\ RequestIsSatisfied(d, c)}

Found(d) == {c \in Callbacks : calls[c] = "active" /\ listed[c] = d /\ RequestIsSatisfied(d, c)}

\* call_ready_callbacks, and once more round the loop or out of it
CallReadyCallbacks ==
  /\ Running("ready")
  /\ LET d == This.dir
         found == Found(d)
     IN /\ calls' = [c \in Callbacks |-> IF c \in found THEN "ready" ELSE calls[c]]
        /\ idle' = IF found = {} THEN idle ELSE idle \cup {d}
        /\ again' = again \ {d}
        /\ IF found # {} \/ d \in again
           THEN /\ UNCHANGED inLoop
                /\ Then(<<Call("file list", d), Call("stop", d), Call("queues", d), Call("ready", d)>>)
           ELSE inLoop' = inLoop \ {d} /\ Then(<<Call("wake up", d)>>)
  /\ UNCHANGED <<jobVars, waking, queues, lists, monitors, listed, files, aborted, nrequests>>

\* async_job_wake_up
WakeUp ==
  /\ Running("wake up")
  /\ IF waking THEN Return /\ UNCHANGED waking
               ELSE waking' = TRUE /\ Then(<<Call("waking", This.dir)>>)
  /\ UNCHANGED <<jobVars, queues, lists, inLoop, again, idle, clients, files, aborted, nrequests>>

Waking ==
  /\ Running("waking")
  /\ \/ /\ jobs < MaxJobs
        /\ \E d \in waiting : /\ waiting' = waiting \ {d}
                              /\ todo' = <<Call("state changed", d)>> \o todo
        /\ UNCHANGED waking
     \/ /\ jobs >= MaxJobs \/ waiting = {}
        /\ waking' = FALSE /\ Return /\ UNCHANGED waiting
  /\ UNCHANGED <<jobs, ops, queues, lists, inLoop, again, idle, clients, files, aborted, nrequests>>

-----------------------------------------------------------------------------
(* What clients ask                                                        *)

MainLoop == todo = <<>> /\ ~aborted
Ask == MainLoop /\ nrequests < MaxRequests /\ nrequests' = nrequests + 1

\* nautilus_directory_monitor_add_internal
MonitorAdd(m) ==
  /\ Ask /\ m \notin monitors
  /\ monitors' = monitors \cup {m}
  /\ IF About[m] = AllFiles THEN AddAllToWorkQueue(At[m]) ELSE AddToWorkQueue(Place(m), About[m])
  /\ todo' = <<Call("state changed", Place(m))>>
  /\ UNCHANGED <<jobVars, waking, lists, inLoop, again, idle, calls, listed, files, aborted>>

MonitorRemove(m) ==
  /\ Ask /\ m \in monitors
  /\ monitors' = monitors \ {m}
  /\ todo' = <<Call("state changed", Place(m))>>
  /\ UNCHANGED <<jobVars, waking, queues, lists, inLoop, again, idle, calls, listed, files, aborted>>

CallWhenReady(c) ==
  /\ Ask /\ calls[c] = "none"
  /\ calls' = [calls EXCEPT ![c] = "active"]
  /\ listed' = [listed EXCEPT ![c] = Place(c)]
  /\ IF About[c] = AllFiles THEN AddAllToWorkQueue(At[c]) ELSE AddToWorkQueue(Place(c), About[c])
  /\ todo' = <<Call("state changed", Place(c))>>
  /\ UNCHANGED <<jobVars, waking, lists, inLoop, again, idle, monitors, files, aborted>>

\* It is looked for in the directory the file is in now.
CancelCallback(c) ==
  /\ Ask /\ calls[c] \in {"active", "ready"} /\ listed[c] = Place(c)
  /\ calls' = [calls EXCEPT ![c] = "cancelled"]
  /\ todo' = <<Call("state changed", listed[c])>>
  /\ UNCHANGED <<jobVars, waking, queues, lists, inLoop, again, idle, monitors, listed, files, aborted>>

\* call_ready_callbacks_at_idle
CallReadyCallbacksAtIdle(d) ==
  /\ MainLoop /\ d \in idle
  /\ idle' = idle \ {d}
  /\ calls' = [c \in Callbacks |-> IF calls[c] = "ready" /\ listed[c] = d THEN "called" ELSE calls[c]]
  /\ todo' = <<Call("state changed", d)>>
  /\ UNCHANGED <<jobVars, waking, queues, lists, inLoop, again, monitors, listed, files, aborted, nrequests>>

-----------------------------------------------------------------------------
(* Answers                                                                 *)

\* nautilus_file_mark_gone for files of d
MarkGone(d, S) ==
  /\ gone' = gone \cup S
  /\ high' = [high EXCEPT ![d] = Those(@, Files \ S)]
  /\ low' = [low EXCEPT ![d] = Those(@, Files \ S)]
  /\ extension' = [extension EXCEPT ![d] = Those(@, Files \ S)]

\* The callbacks of the fetches; that of a cancelled count drops what it read.
Answer(d, k) ==
  /\ MainLoop
  /\ \E o \in ops :
       /\ o.dir = d /\ o.kind = k /\ k # "list"
       /\ ops' = ops \ {o} /\ jobs' = jobs - 1
       /\ upToDate' = IF o.live THEN [upToDate EXCEPT ![o.file] = @ \cup {k}] ELSE upToDate
       /\ stale' = IF o.live /\ ~o.fresh THEN stale \cup {<<o.file, k>>} ELSE stale
       /\ \/ UNCHANGED <<gone, queues>>
          \/ k = "info" /\ "Removed" \in Changes /\ o.file \notin gone
             /\ MarkGone(directory[o.file], {o.file})
  /\ todo' = <<Call("state changed", d)>>
  /\ UNCHANGED <<waiting, waking, lists, inLoop, again, idle, clients, directory, loading, aborted, nrequests>>

\* dequeue_pending_idle_callback in the middle of a load: what has been read so far tells the
\* info of files that were added before.
DirectoryReads(d) ==
  /\ MainLoop /\ InProgress(d, "list")
  /\ \E read \in SUBSET {f \in FileList(d) : "info" \notin upToDate[f]} :
       /\ read # {}
       /\ upToDate' = [f \in Files |-> upToDate[f] \cup (IF f \in read THEN {"info"} ELSE {})]
  /\ todo' = <<Call("state changed", d)>>
  /\ UNCHANGED <<jobVars, waking, queues, lists, inLoop, again, idle, clients,
                 directory, gone, loading, stale, aborted, nrequests>>

AfterLoad(d) ==
  <<Call("state changed", d), Call("told", d), Call("state changed", d), Call("load cancel", d)>>

\* directory_load_done, with dequeue_pending_idle_callback which it calls: the list tells the
\* info of files that were added before, which files are missing, and the count of the folder,
\* up to date from now on even when it was invalidated since the load began.
DirectoryLoadDone(d) ==
  /\ MainLoop
  /\ loaded' = loaded \cup {d} /\ told' = told \ {d}
  /\ \E missing \in SUBSET FileList(d) :
       /\ missing = {} \/ "Removed" \in Changes
       /\ MarkGone(d, missing)
       /\ \E o \in ops, read \in SUBSET (FileList(d) \ missing) :
            /\ o.dir = d /\ o.kind = "list"
            /\ upToDate' = [f \in Files |-> upToDate[f] \cup (IF f \in read THEN {"info"} ELSE {})
                                                       \cup (IF f = o.file THEN {"count"} ELSE {})]
            /\ stale' = IF o.fresh THEN stale \ {<<o.file, "list">>} ELSE stale \cup {<<o.file, "list">>}
  /\ todo' = AfterLoad(d)
  /\ UNCHANGED <<jobVars, waking, monitored, inLoop, again, idle, clients, directory, loading, aborted, nrequests>>

Told ==
  /\ Running("told")
  /\ told' = told \cup {This.dir}
  /\ Return
  /\ UNCHANGED <<jobVars, waking, queues, monitored, loaded, inLoop, again, idle, clients, files, aborted, nrequests>>

-----------------------------------------------------------------------------
(* What happens to files                                                   *)

\* What tells kinds: a count is told by a job of its own, or by the load of the folder's list.
Tellers(kinds) == IF "count" \in kinds THEN kinds \cup {"list"} ELSE kinds

\* nautilus_file_invalidate_attributes_internal for files S
Invalidated(S, kinds) ==
  /\ upToDate' = [f \in Files |-> IF f \in S THEN upToDate[f] \ kinds ELSE upToDate[f]]
  /\ stale' = stale \ (S \X Tellers(kinds))

Fetches(S, kinds) == {o \in ops : o.file \in S /\ o.kind \in kinds}
Outdated(S, kinds) == Fetches(S, Tellers(kinds))

\* Mutant: deep counts are not cancelled.
CancelLoadingShallow(f, kinds, outdated) ==
  /\ RemoveFromWorkQueue(directory[f], f)
  /\ CancelJobs({o \in Fetches({f}, kinds \ {"deep", "extension"}) : o.dir = directory[f]}, outdated)

\* cancel_loading_file_attributes, up to its state change: extension info is not cancelled
CancelLoadingFileAttributes(f, kinds, outdated) ==
  /\ RemoveFromWorkQueue(directory[f], f)
  /\ CancelJobs({o \in Fetches({f}, kinds \ {"extension"}) : o.dir = directory[f]}, outdated)

\* nautilus_file_invalidate_attributes: cancelled, invalidated, queued again
InvalidateFile(f, kinds) ==
  /\ Ask /\ "Invalidated" \in Changes
  /\ CancelLoadingFileAttributes(f, kinds, Outdated({f}, kinds))
  /\ todo' = <<Call("state changed", directory[f]), CallFor("cancelled", directory[f], f, kinds)>>
  /\ UNCHANGED <<waking, lists, inLoop, again, idle, clients, files, aborted>>

\* The same for a file that may stand for a directory, called from elsewhere.
Invalidate ==
  /\ Running("invalidate")
  /\ LET f == This.file IN
       IF f = NoFile THEN Return /\ UNCHANGED <<queues, jobVars>>
       ELSE /\ CancelLoadingFileAttributes(f, This.set, Outdated({f}, This.set))
            /\ Then(<<Call("state changed", directory[f]), CallFor("cancelled", directory[f], f, This.set)>>)
  /\ UNCHANGED <<waking, lists, inLoop, again, idle, clients, files, aborted, nrequests>>

Cancelled ==
  /\ Running("cancelled")
  /\ LET f == This.file IN
       /\ Invalidated({f}, This.set)
       /\ AddToWorkQueue(directory[f], f)
       /\ Then(<<Call("state changed", directory[f])>>)
  /\ UNCHANGED <<jobVars, waking, lists, inLoop, again, idle, clients,
                 directory, gone, loading, aborted, nrequests>>

ParentCount(d) == CallFor("invalidate", d, Standing(d), {"count"})

\* nautilus_directory_notify_files_changed: nothing is cancelled
NotifyFileChanged(f) ==
  /\ Ask /\ "Changed" \in Changes /\ f \notin gone
  /\ Invalidated({f}, {"info", "extension"})
  /\ CancelJobs({}, Outdated({f}, {"info", "extension"}))
  /\ AddToWorkQueue(directory[f], f)
  /\ todo' = <<Call("state changed", directory[f])>>
  /\ UNCHANGED <<waking, lists, inLoop, again, idle, clients, directory, gone, loading, aborted>>

\* nautilus_directory_notify_files_removed: the file goes back on the queue
NotifyFileRemoved(f) ==
  /\ Ask /\ "Removed" \in Changes /\ f \notin gone
  /\ LET d == directory[f] IN
       /\ gone' = gone \cup {f}
       /\ high' = [high EXCEPT ![d] = Append(Without(@, f), f)]
       /\ low' = [low EXCEPT ![d] = Without(@, f)]
       /\ extension' = [extension EXCEPT ![d] = Without(@, f)]
       /\ todo' = <<Call("state changed", d), ParentCount(d)>>
  /\ UNCHANGED <<jobVars, waking, lists, inLoop, again, idle, clients,
                 directory, loading, upToDate, stale, aborted>>

\* nautilus_directory_notify_files_moved and nautilus_file_update_name_and_directory
NotifyFileMoved(f, to) ==
  /\ Ask /\ "Moved" \in Changes /\ f \notin gone /\ directory[f] # to /\ FileOf[to] # f
  /\ CancelLoadingFileAttributes(f, AllAttributes, {})
  /\ todo' = <<Call("state changed", directory[f]), CallFor("detach", to, f, {})>>
  /\ UNCHANGED <<waking, lists, inLoop, again, idle, clients, files, aborted>>

Detach ==
  /\ Running("detach")
  /\ LET f == This.file
         its == {m \in monitors : About[m] = f}
     IN /\ monitors' = monitors \ its
        /\ Then(<<Call("state changed", directory[f]), CallFor("attach", This.dir, f, its)>>)
  /\ UNCHANGED <<jobVars, waking, queues, lists, inLoop, again, idle, calls, listed, files, aborted, nrequests>>

Attach ==
  /\ Running("attach")
  /\ LET f == This.file
         old == directory[f]
         new == This.dir
     IN /\ directory' = [directory EXCEPT ![f] = new]
        /\ high' = [high EXCEPT ![old] = Without(@, f),
                                ![new] = IF new \in monitored \/ This.set # {} THEN Enqueue(@, f) ELSE @]
        /\ low' = [low EXCEPT ![old] = Without(@, f)]
        /\ extension' = [extension EXCEPT ![old] = Without(@, f)]
        /\ monitors' = monitors \cup This.set
        /\ \E parents \in {<<ParentCount(old), ParentCount(new)>>, <<ParentCount(new), ParentCount(old)>>} :
              Then((IF This.set = {} THEN <<>> ELSE <<Call("state changed", new)>>)
                   \o <<Call("state changed", old)>> \o parents)
  /\ UNCHANGED <<jobVars, waking, lists, inLoop, again, idle, calls, listed,
                 gone, loading, upToDate, stale, aborted, nrequests>>

\* nautilus_directory_force_reload_internal
ForceReload(d) ==
  /\ Ask /\ "Reload" \in Changes
  /\ CancelJobs({o \in ops : o.dir = d /\ o.kind \in AllAttributes}, Outdated(FileList(d), AllAttributes))
  /\ todo' = <<Call("state changed", d), Call("reload", d)>>
  /\ UNCHANGED <<waking, queues, lists, inLoop, again, idle, clients, files, aborted>>

Reload ==
  /\ Running("reload")
  /\ Invalidated(FileList(This.dir), AllAttributes)
  /\ Then(<<Call("load cancel", This.dir), Call("unloaded", This.dir)>>)
  /\ UNCHANGED <<jobVars, waking, queues, lists, inLoop, again, idle, clients,
                 directory, gone, loading, aborted, nrequests>>

Unloaded ==
  /\ Running("unloaded")
  /\ loaded' = loaded \ {This.dir}
  /\ Then(<<ParentCount(This.dir), Call("reloaded", This.dir)>>)
  /\ UNCHANGED <<jobVars, waking, queues, monitored, told, inLoop, again, idle, clients,
                 files, aborted, nrequests>>

Reloaded ==
  /\ Running("reloaded")
  /\ AddAllToWorkQueue(This.dir)
  /\ Then(<<Call("state changed", This.dir)>>)
  /\ UNCHANGED <<jobVars, waking, lists, inLoop, again, idle, clients, files, aborted, nrequests>>

-----------------------------------------------------------------------------
Init ==
  /\ jobs = 0 /\ waiting = {} /\ waking = FALSE /\ ops = {}
  /\ high = [d \in Dirs |-> <<>>] /\ low = high /\ extension = high
  /\ monitored = {} /\ loaded = {} /\ told = {} /\ inLoop = {} /\ again = {} /\ idle = {}
  /\ monitors = {}
  /\ calls = [c \in Callbacks |-> "none"]
  /\ listed = [c \in Callbacks |-> At[c]]
  /\ directory = StartDir /\ gone = {} /\ loading = {}
  /\ upToDate = [f \in Files |-> {}]
  /\ todo = <<>> /\ aborted = FALSE /\ stale = {} /\ nrequests = 0

\* The next call on the stack: the main thread goes on.
Service ==
  \/ StateChanged \/ FileListStartOrStop \/ LoadCancel \/ LoadEnded \/ Stop
  \/ HighPriorityQueue \/ LowPriorityQueue \/ ExtensionQueue \/ QueuesEmpty
  \/ CallReadyCallbacks \/ WakeUp \/ Waking \/ Told
  \/ Invalidate \/ Cancelled \/ Detach \/ Attach \/ Reload \/ Unloaded \/ Reloaded

Client ==
  \/ \E m \in Monitors : MonitorAdd(m) \/ MonitorRemove(m)
  \/ \E c \in Callbacks : CallWhenReady(c) \/ CancelCallback(c)

Change ==
  \/ \E f \in Files : \/ NotifyFileChanged(f) \/ NotifyFileRemoved(f)
                      \/ \E d \in Dirs : NotifyFileMoved(f, d)
                      \/ InvalidateFile(f, AllAttributes)
  \/ \E d \in Dirs : ForceReload(d)

Answered ==
  \/ \E d \in Dirs, k \in Kinds : Answer(d, k)
  \/ \E d \in Dirs : DirectoryReads(d) \/ DirectoryLoadDone(d)

Next ==
  \/ Service \/ Client \/ Change \/ Answered
  \/ \E d \in Dirs : CallReadyCallbacksAtIdle(d)

Spec == Init /\ [][Next]_vars

\* The main thread goes on, the I/O threads answer, and the main loop comes to each of its sources.
Fairness ==
  /\ WF_vars(Service)
  /\ \A d \in Dirs, k \in Kinds : WF_vars(Answer(d, k))
  /\ \A d \in Dirs : WF_vars(DirectoryLoadDone(d)) /\ WF_vars(CallReadyCallbacksAtIdle(d))

FairSpec == Spec /\ Fairness

-----------------------------------------------------------------------------
(* Properties                                                              *)

TypeOK ==
  /\ jobs \in 0..MaxJobs /\ waiting \subseteq Dirs /\ waking \in BOOLEAN /\ ops \subseteq Operations
  /\ high \in [Dirs -> Seq(Files)] /\ low \in [Dirs -> Seq(Files)] /\ extension \in [Dirs -> Seq(Files)]
  /\ monitored \subseteq Dirs /\ loaded \subseteq Dirs /\ told \subseteq Dirs
  /\ inLoop \subseteq Dirs /\ again \subseteq Dirs /\ idle \subseteq Dirs
  /\ monitors \subseteq Monitors
  /\ calls \in [Callbacks -> {"none", "active", "ready", "called", "cancelled"}]
  /\ listed \in [Callbacks -> Dirs]
  /\ directory \in [Files -> Dirs] /\ gone \subseteq Files /\ loading \subseteq Files
  /\ upToDate \in [Files -> SUBSET Kinds] /\ stale \subseteq (Files \cup {NoFile}) \X (Kinds \cup {"list"})
  /\ todo \in Seq(Frames) /\ aborted \in BOOLEAN /\ nrequests \in 0..MaxRequests

\* No job is started twice or ended twice, whoever starts, cancels or answers it: the
\* count is that of the operations in progress, one of a kind per directory, and no
\* assertion of the *_stop functions fails.  docs/nautilus-io.txt:182-184: "the NautilusFile
\* and NautilusDirectory objects follow the file rather than staying stuck to the path"; a
\* folder moved while its items are counted still breaks an assertion (see README).
JobsCounted ==
  /\ jobs = Cardinality(ops) /\ ~aborted
  /\ \A o, p \in ops : o.dir = p.dir /\ o.kind = p.kind => o = p

\* No queue is left behind: work left in a queue of a directory waits for a job of
\* the directory to end, or for a slot, which some job has.
QueueServed ==
  MainLoop =>
    /\ \A d \in Dirs :
         high[d] # <<>> \/ low[d] # <<>> \/ extension[d] # <<>> =>
           d \in waiting \/ \E o \in ops : o.dir = d /\ o.kind # "list"
    /\ waiting # {} => ops # {}

\* f has a turn in the work queues, or k is being fetched for it.
Underway(f, k) ==
  \/ \E q \in {high, low, extension} : Queued(q[directory[f]], f)
  \/ \E o \in ops : o.file = f /\ o.kind = k /\ o.live

\* What somebody wants of a file is on its way or has its turn, through every
\* invalidation, cancellation and reload (but for counts: the code
\* loses those of a folder whose own directory stops loading).
NeedyUnderway ==
  MainLoop => \A f \in Files \ gone, k \in Kinds \ {"count"} : IsNeedy(f, k) => Underway(f, k)

\* The list of a directory is loaded, or will be, as long as somebody wants it, and
\* a file is said to be loading exactly while its directory is.
ListServed ==
  MainLoop =>
    /\ \A d \in Dirs :
         /\ d \in monitored <=> IsAnyoneMonitoringFileList(d)
         /\ d \in monitored => d \in loaded \/ InProgress(d, "list") \/ d \in waiting
         /\ InProgress(d, "list") => d \in monitored
    /\ loading = {o.file : o \in {p \in ops : p.kind = "list"}} \ {NoFile}

\* Nothing is fetched that nobody wants any more, or that is known already.
OnlyWanted ==
  MainLoop => \A o \in ops : o.kind # "list" /\ o.live => Lacks(o.file, o.kind) /\ Wanted(o.file, o.kind)

\* A job that counts the items of a folder, or all in it, or asks about its file system, is not
\* listened to when its answer comes after the attribute was invalidated: it was cancelled, by
\* whatever way the invalidation took.  (Jobs for info and extension info are not, nor is the
\* load of the folder's own list, which tells its count: see CountsFresh.)
FreshAnswers == \A a \in stale : a[2] \notin {"count", "deep", "filesystem"}

\* What nautilus-file.c:6415 says of invalidated attributes, "Cancel possible in-progress loads of
\* any of these attributes", for a count the load of the folder's list will tell.  TLC refutes it (see
\* README).
CountsFresh == \A a \in stale : a[2] # "list"

\* The service loops, which call each other, come to an end.
ServiceEnds == todo # <<>> ~> todo = <<>>

\* A callback is called in the end, or cancelled, or its file has gone or moved away (when
\* it waits for a count, which may be lost: see NeedyUnderway).
CallbacksCalled ==
  \A c \in Callbacks :
    calls[c] \in {"active", "ready"} /\ "count" \notin Request[c]
      ~> calls[c] \in {"called", "cancelled"} \/ listed[c] # Place(c) \/ About[c] \in gone
=============================================================================
