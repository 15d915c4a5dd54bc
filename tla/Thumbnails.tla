----------------------------- MODULE Thumbnails -----------------------------
(***************************************************************************)
(* How the Explorer gets thumbnails of files: nautilus-thumbnails.c of     *)
(* explorer/libnautilus-private, with what nautilus-file.c and             *)
(* nautilus-directory-async.c know of them.                                *)
(*                                                                         *)
(* The main thread asks for a thumbnail when it draws an icon and has none *)
(* (nautilus_file_get_icon); a thread makes those asked for, one by one,   *)
(* and ends when there are none left.  A section under thumbnails_mutex is *)
(* one step.  What the thread did is told to the main loop by idle and     *)
(* timeout functions, `notices`.                                           *)
(*                                                                         *)
(* A file is its URI; the NautilusFile for it may be freed and made again. *)
(* Modification times are counted from 1; 0 is "none".  Left out: the      *)
(* pictures, sizes and preferences, files that cannot be read, renaming    *)
(* (see README), and the queues and slots of the jobs that fetch info and  *)
(* thumbnails, which are DirectoryJobs' matter: here only what a job has   *)
(* read and when it answers.                                               *)
(***************************************************************************)
EXTENDS Integers, Sequences, FiniteSets

CONSTANTS
  Files,      \* URIs
  NoFile,     \* NULL
  Threads,    \* thumbnail threads
  MaxChanges, \* bound: how often each file is modified
  MaxForgets  \* bound: how often each NautilusFile is freed

ASSUME ThumbnailsAssumption ==
  NoFile \notin Files /\ MaxChanges \in [Files -> Nat] /\ MaxForgets \in [Files -> Nat]

VARIABLES
  \* on disk
  modified,   \* modified[f]: the file's modification time
  recent,     \* files modified less than THUMBNAIL_CREATION_DELAY_SECS ago
  saved,      \* saved[f]: the time recorded in the thumbnail in the user's store, or 0
  failed,     \* failed[f]: the same of a failed thumbnail
  untold,     \* untold[f]: changes of f the file monitor has yet to tell of
  \* of the NautilusFile
  mtime,      \* details->mtime
  infoUpToDate, thumbnailUpToDate, \* file_info_is_up_to_date, thumbnail_is_up_to_date
  path,       \* files whose thumbnail_path is set
  failing,    \* files with thumbnailing_failed
  thumbnail,  \* thumbnail[f]: thumbnail_mtime when it has a thumbnail, or 0
  answer,     \* answer[f]: what the query of get_info_in_progress has read, or NoAnswer
  loading,    \* files with a thumbnail_state
  loaded,     \* loaded[f]: the time in the thumbnail it has read, or 0
  thumbnailing, \* files with is_thumbnailing
  redraw,     \* files with a change signal the views have yet to draw
  \* of nautilus-thumbnails.c
  creating,   \* the info nautilus_create_thumbnail has built, or NoInfo
  toMake,     \* thumbnails_to_make
  original,   \* original_file_mtime of each of them
  current,    \* currently_thumbnailing
  running,    \* thumbnail_thread_is_running
  starter,    \* thumbnail_thread_starter_id is set
  at,         \* where each thread is: "none", "lock", "make" or "tell"
  info, originalMtime, \* its variables info and current_orig_mtime
  notices,    \* notices[f]: pending calls of thumbnail_thread_notify_file_changed
  \* history
  owed,       \* owed[f]: the time of the newest request for f, or 0 once it is worked off
  overtaken,  \* files asked for between the last notice and the end of their request
  overwritten, \* files whose last info was read before a change that was told before it came
  forgotten   \* forgotten[f]: how often its NautilusFile was freed

disk == <<modified, recent, saved, failed, untold>>
file == <<mtime, infoUpToDate, thumbnailUpToDate, path, failing, thumbnail, answer, loading, loaded>>
flags == <<thumbnailing, redraw>>
requests == <<toMake, original, current>>
thread == <<running, starter>>
locals == <<at, info, originalMtime>>
history == <<owed, overtaken, overwritten, forgotten>>
vars == <<disk, file, flags, creating, requests, thread, locals, notices, history>>

Requests == [file : Files, mtime : Nat]
NoInfo == [file |-> NoFile, mtime |-> 0]

\* What a query finds of f: its time, and whether it has a thumbnail or a failed one
Answers == [mtime : Nat, path : BOOLEAN, failing : BOOLEAN]
NoAnswer == [mtime |-> 0, path |-> FALSE, failing |-> FALSE]
OnDisk(f) == [mtime |-> modified[f], path |-> saved[f] # 0, failing |-> failed[f] # 0]

MainLoop == creating = NoInfo

Queued(f) == \E i \in 1..Len(toMake) : toMake[i] = f

\* g_queue_delete_link of the link the hash table has for f
Place(q, f) == CHOOSE i \in 1..Len(q) : q[i] = f
Without(q, f) == SubSeq(q, 1, Place(q, f) - 1) \o SubSeq(q, Place(q, f) + 1, Len(q))

-----------------------------------------------------------------------------
(* What the main thread knows of a file                                    *)

\* Somebody writes to the file; the monitor will tell of it once.
FileChanges(f) ==
  /\ modified[f] <= MaxChanges[f]
  /\ modified' = [modified EXCEPT ![f] = @ + 1]
  /\ recent' = recent \cup {f}
  /\ untold' = [untold EXCEPT ![f] = @ + 1]
  /\ UNCHANGED <<saved, failed, file, flags, creating, requests, thread, locals, notices, history>>

\* nautilus_directory_notify_files_changed, from the idle function of the monitor: the info of the
\* file is to be read again, and a query under way goes on.
MonitorTells(f) ==
  /\ MainLoop /\ untold[f] > 0
  /\ untold' = [untold EXCEPT ![f] = @ - 1]
  /\ infoUpToDate' = infoUpToDate \ {f}
  /\ redraw' = redraw \cup {f}
  /\ UNCHANGED <<modified, recent, saved, failed, mtime, thumbnailUpToDate, path, failing, thumbnail,
                 answer, loading, loaded, thumbnailing, creating, requests, thread, locals, notices,
                 history>>

TimePasses(f) ==
  /\ f \in recent
  /\ recent' = recent \ {f}
  /\ UNCHANGED <<modified, saved, failed, untold, file, flags, creating, requests, thread, locals,
                 notices, history>>

\* file_info_start comes as soon as the info is not up to date; g_file_query_info_async then reads
\* the file on a thread of its own, whatever the main thread is at.
QueryInfo(f) ==
  /\ f \notin infoUpToDate /\ answer[f] = NoAnswer
  /\ answer' = [answer EXCEPT ![f] = OnDisk(f)]
  /\ UNCHANGED <<disk, mtime, infoUpToDate, thumbnailUpToDate, path, failing, thumbnail, loading,
                 loaded, flags, creating, requests, thread, locals, notices, history>>

\* update_info_internal, as far as thumbnails go
UpdateInfo(f, a) ==
  /\ infoUpToDate' = infoUpToDate \cup {f}
  /\ mtime' = [mtime EXCEPT ![f] = a.mtime]
  /\ thumbnailUpToDate' =
       IF (thumbnail[f] = 0 /\ mtime[f] # a.mtime) \/ thumbnail[f] \notin {0, a.mtime}
       THEN thumbnailUpToDate \ {f} ELSE thumbnailUpToDate
  /\ path' = IF a.path THEN path \cup {f} ELSE path \ {f}
  /\ failing' = IF a.failing THEN failing \cup {f} ELSE failing \ {f}

\* The time of the last change the monitor has told of
LastTold(f) == modified[f] - untold[f]

\* query_info_callback: what was read is up to date from now on, also when a change was told since.
InfoAnswered(f) ==
  /\ MainLoop /\ answer[f] # NoAnswer
  /\ UpdateInfo(f, answer[f])
  /\ answer' = [answer EXCEPT ![f] = NoAnswer]
  /\ redraw' = redraw \cup {f}
  /\ overwritten' = IF answer[f].mtime < LastTold(f) THEN overwritten \cup {f} ELSE overwritten \ {f}
  /\ UNCHANGED <<disk, thumbnail, loading, loaded, thumbnailing, creating, requests, thread, locals,
                 notices, owed, overtaken, forgotten>>

\* thumbnail_start, after the info for the file waits for that in the other queue
StartThumbnail(f) ==
  /\ MainLoop /\ f \in infoUpToDate /\ f \in path \ (thumbnailUpToDate \cup loading)
  /\ loading' = loading \cup {f}
  /\ UNCHANGED <<disk, mtime, infoUpToDate, thumbnailUpToDate, path, failing, thumbnail, answer, loaded,
                 flags, creating, requests, thread, locals, notices, history>>

\* The picture is read on a thread of its own.
LoadThumbnail(f) ==
  /\ f \in loading /\ loaded[f] = 0
  /\ loaded' = [loaded EXCEPT ![f] = saved[f]]
  /\ UNCHANGED <<disk, mtime, infoUpToDate, thumbnailUpToDate, path, failing, thumbnail, answer, loading,
                 flags, creating, requests, thread, locals, notices, history>>

\* thumbnail_read_callback and thumbnail_done: a thumbnail of another time is not shown, and its
\* path forgotten.
ThumbnailRead(f) ==
  /\ MainLoop /\ loaded[f] # 0
  /\ loading' = loading \ {f} /\ loaded' = [loaded EXCEPT ![f] = 0]
  /\ thumbnailUpToDate' = thumbnailUpToDate \cup {f}
  /\ thumbnail' = [thumbnail EXCEPT ![f] = IF loaded[f] = mtime[f] THEN loaded[f] ELSE 0]
  /\ path' = IF loaded[f] = mtime[f] THEN path ELSE path \ {f}
  /\ redraw' = redraw \cup {f}
  /\ UNCHANGED <<disk, mtime, infoUpToDate, failing, answer, thumbnailing, creating, requests, thread,
                 locals, notices, history>>

\* The test in nautilus_file_get_icon.  Without info the type of f is not known, and
\* nautilus_can_thumbnail says no.
WantsThumbnail(f) ==
  /\ mtime[f] # 0
  /\ thumbnail[f] = 0 /\ f \notin path /\ f \notin thumbnailing
  /\ f \notin failing \/ failed[f] # mtime[f]

\* nautilus_create_thumbnail up to the mutex
NewRequest(f) == [file |-> f, mtime |-> IF f \in infoUpToDate THEN mtime[f] ELSE modified[f]]

\* nautilus_file_get_icon: an icon is drawn, after a change or for the view's own reasons.
GetIcon(f) ==
  /\ MainLoop /\ (f \in redraw \/ WantsThumbnail(f))
  /\ redraw' = redraw \ {f}
  /\ IF WantsThumbnail(f)
     THEN /\ thumbnailing' = thumbnailing \cup {f}
          /\ creating' = NewRequest(f)
     ELSE UNCHANGED <<thumbnailing, creating>>
  /\ UNCHANGED <<disk, file, requests, thread, locals, notices, history>>

-----------------------------------------------------------------------------
(* Asking for thumbnails                                                   *)

\* A thread has told of f and has yet to take its request off the queue.
Announced(f, m) ==
  \E t \in Threads : at[t] = "lock" /\ info[t] = f /\ current = f /\ originalMtime[t] = m

\* Mutant: a thread is started whether there is one or not.
CreateThumbnailUnasked ==
  /\ ~MainLoop
  /\ LET f == creating.file
         m == creating.mtime
     IN /\ toMake' = IF Queued(f) THEN toMake ELSE Append(toMake, f)
        /\ original' = [original EXCEPT ![f] = m]
        /\ starter' = (starter \/ ~Queued(f))
        /\ owed' = [owed EXCEPT ![f] = m]
        /\ overtaken' = IF Announced(f, m) /\ notices[f] = 0 THEN overtaken \cup {f} ELSE overtaken
  /\ creating' = NoInfo
  /\ UNCHANGED <<disk, file, flags, current, running, locals, notices, overwritten, forgotten>>

\* nautilus_create_thumbnail, under the mutex
CreateThumbnail ==
  /\ ~MainLoop
  /\ LET f == creating.file
         m == creating.mtime
     IN /\ toMake' = IF Queued(f) THEN toMake ELSE Append(toMake, f)
        /\ original' = [original EXCEPT ![f] = m]
        /\ starter' = (starter \/ (~Queued(f) /\ ~running))
        /\ owed' = [owed EXCEPT ![f] = m]
        /\ overtaken' = IF Announced(f, m) /\ notices[f] = 0 THEN overtaken \cup {f} ELSE overtaken
  /\ creating' = NoInfo
  /\ UNCHANGED <<disk, file, flags, current, running, locals, notices, overwritten, forgotten>>

\* nautilus_thumbnail_prioritize, for a file the view shows
Prioritize(f) ==
  /\ MainLoop /\ f \in thumbnailing /\ Queued(f) /\ current # f
  /\ toMake' = <<f>> \o Without(toMake, f)
  /\ UNCHANGED <<disk, file, flags, creating, original, current, thread, locals, notices, history>>

\* Mutant: the request in hand is freed as well.
RemoveFromQueueAnyway(f) ==
  IF f \in thumbnailing /\ Queued(f)
  THEN /\ toMake' = Without(toMake, f)
       /\ original' = [original EXCEPT ![f] = 0] /\ owed' = [owed EXCEPT ![f] = 0]
  ELSE UNCHANGED <<toMake, original, owed>>

\* nautilus_thumbnail_remove_from_queue
RemoveFromQueue(f) ==
  IF f \in thumbnailing /\ Queued(f) /\ current # f
  THEN /\ toMake' = Without(toMake, f)
       /\ original' = [original EXCEPT ![f] = 0] /\ owed' = [owed EXCEPT ![f] = 0]
  ELSE UNCHANGED <<toMake, original, owed>>

\* file_info_cancel and thumbnail_cancel: the callback will do nothing.
StopReading(f) ==
  /\ answer' = [answer EXCEPT ![f] = NoAnswer]
  /\ loading' = loading \ {f} /\ loaded' = [loaded EXCEPT ![f] = 0]

\* finalize: the NautilusFile is freed, and made anew by whoever asks for it.
Forget(f) ==
  /\ MainLoop /\ forgotten[f] < MaxForgets[f]
  /\ forgotten' = [forgotten EXCEPT ![f] = @ + 1]
  /\ RemoveFromQueue(f)
  /\ mtime' = [mtime EXCEPT ![f] = 0] /\ thumbnail' = [thumbnail EXCEPT ![f] = 0]
  /\ infoUpToDate' = infoUpToDate \ {f} /\ thumbnailUpToDate' = thumbnailUpToDate \ {f}
  /\ path' = path \ {f} /\ failing' = failing \ {f}
  /\ thumbnailing' = thumbnailing \ {f} /\ redraw' = redraw \ {f}
  /\ StopReading(f)
  /\ overwritten' = overwritten \ {f}
  /\ UNCHANGED <<disk, creating, current, thread, locals, notices, overtaken>>

\* Mutant: the source is not removed after its call.
NotifyFileChangedAgain(f) ==
  /\ MainLoop
  /\ notices' = [notices EXCEPT ![f] = @ - 1]
  /\ thumbnailing' = thumbnailing \ {f}
  /\ infoUpToDate' = infoUpToDate \ {f} /\ thumbnailUpToDate' = thumbnailUpToDate \ {f}
  /\ StopReading(f)
  /\ UNCHANGED <<disk, mtime, path, failing, thumbnail, redraw, creating, requests, thread, locals,
                 history>>

\* Mutant: the path of the thumbnail is not asked for again.
NotifyFileChangedThumbnail(f) ==
  /\ MainLoop /\ notices[f] > 0
  /\ notices' = [notices EXCEPT ![f] = @ - 1]
  /\ thumbnailing' = thumbnailing \ {f}
  /\ thumbnailUpToDate' = thumbnailUpToDate \ {f}
  /\ StopReading(f)
  /\ UNCHANGED <<disk, mtime, infoUpToDate, path, failing, thumbnail, redraw, creating, requests, thread,
                 locals, history>>

\* thumbnail_thread_notify_file_changed: nautilus_file_invalidate_attributes stops what is under way.
NotifyFileChanged(f) ==
  /\ MainLoop /\ notices[f] > 0
  /\ notices' = [notices EXCEPT ![f] = @ - 1]
  /\ thumbnailing' = thumbnailing \ {f}
  /\ infoUpToDate' = infoUpToDate \ {f} /\ thumbnailUpToDate' = thumbnailUpToDate \ {f}
  /\ StopReading(f)
  /\ UNCHANGED <<disk, mtime, path, failing, thumbnail, redraw, creating, requests, thread, locals,
                 history>>

-----------------------------------------------------------------------------
(* The thumbnail thread                                                    *)

\* thumbnail_thread_starter_cb
StartThread(t) ==
  /\ MainLoop /\ starter /\ at[t] = "none"
  /\ starter' = FALSE /\ running' = TRUE
  /\ at' = [at EXCEPT ![t] = "lock"]
  /\ UNCHANGED <<disk, file, flags, creating, requests, info, originalMtime, notices, history>>

\* Mutant: the time is not compared.
EndedAnyway(t) == current # NoFile

\* The request in hand has been worked off, and was not renewed with another time.
Ended(t) == current # NoFile /\ original[current] = originalMtime[t]

Left(t) == IF Ended(t) THEN Without(toMake, current) ELSE toMake

\* Mutant: the last request is taken for worked off.
NothingLeftButOne(t) == Len(toMake) <= 1

NothingLeft(t) == Left(t) = <<>>

ThreadEnds(t) ==
  /\ current' = NoFile /\ running' = FALSE
  /\ at' = [at EXCEPT ![t] = "none"]
  /\ info' = [info EXCEPT ![t] = NoFile] /\ originalMtime' = [originalMtime EXCEPT ![t] = 0]

Peek(t, f) ==
  /\ current' = f
  /\ info' = [info EXCEPT ![t] = f] /\ originalMtime' = [originalMtime EXCEPT ![t] = original[f]]
  /\ at' = [at EXCEPT ![t] = "make"]
  /\ UNCHANGED running

\* thumbnail_thread_start, under the mutex
NextThumbnail(t) ==
  /\ at[t] = "lock"
  /\ toMake' = Left(t)
  /\ IF Ended(t)
     THEN /\ original' = [original EXCEPT ![current] = 0]
          /\ owed' = IF owed[current] = originalMtime[t] THEN [owed EXCEPT ![current] = 0] ELSE owed
     ELSE UNCHANGED <<original, owed>>
  /\ IF NothingLeft(t) THEN ThreadEnds(t) ELSE Peek(t, Head(Left(t)))
  /\ UNCHANGED <<disk, file, flags, creating, starter, notices, overtaken, overwritten,
                 forgotten>>

\* Mutant: no notice.
SkipThumbnailQuietly(t) ==
  /\ at[t] = "make" /\ info[t] \in recent
  /\ at' = [at EXCEPT ![t] = "lock"]
  /\ UNCHANGED <<disk, file, flags, creating, requests, thread, info, originalMtime, notices, history>>

\* The file was modified recently: a notice in a second.
SkipThumbnail(t) ==
  /\ at[t] = "make" /\ info[t] \in recent
  /\ at' = [at EXCEPT ![t] = "lock"]
  /\ notices' = [notices EXCEPT ![info[t]] = @ + 1]
  /\ UNCHANGED <<disk, file, flags, creating, requests, thread, info, originalMtime, history>>

\* The thumbnail, or a failed one, is saved with the time it was asked for.
MakeThumbnail(t) ==
  /\ at[t] = "make" /\ (info[t] \in recent => originalMtime[t] # modified[info[t]])
  /\ at' = [at EXCEPT ![t] = "tell"]
  /\ \/ saved' = [saved EXCEPT ![info[t]] = originalMtime[t]] /\ UNCHANGED failed
     \/ failed' = [failed EXCEPT ![info[t]] = originalMtime[t]] /\ UNCHANGED saved
  /\ UNCHANGED <<modified, recent, untold, file, flags, creating, requests, thread, info, originalMtime,
                 notices, history>>

\* The idle function is added.
TellMainLoop(t) ==
  /\ at[t] = "tell"
  /\ at' = [at EXCEPT ![t] = "lock"]
  /\ notices' = [notices EXCEPT ![info[t]] = @ + 1]
  /\ UNCHANGED <<disk, file, flags, creating, requests, thread, info, originalMtime, history>>

-----------------------------------------------------------------------------
Init ==
  /\ modified = [f \in Files |-> 1] /\ recent = {}
  /\ saved = [f \in Files |-> 0] /\ failed = saved /\ untold = saved
  /\ mtime = saved /\ infoUpToDate = {} /\ thumbnailUpToDate = {} /\ path = {} /\ failing = {}
  /\ thumbnail = saved /\ thumbnailing = {} /\ redraw = {}
  /\ answer = [f \in Files |-> NoAnswer] /\ loading = {} /\ loaded = saved
  /\ creating = NoInfo
  /\ toMake = <<>> /\ original = saved /\ current = NoFile
  /\ running = FALSE /\ starter = FALSE
  /\ at = [t \in Threads |-> "none"]
  /\ info = [t \in Threads |-> NoFile] /\ originalMtime = [t \in Threads |-> 0]
  /\ notices = saved
  /\ owed = saved /\ overtaken = {} /\ overwritten = {} /\ forgotten = saved

MainThread(f) ==
  \/ MonitorTells(f) \/ InfoAnswered(f) \/ StartThumbnail(f) \/ ThumbnailRead(f) \/ GetIcon(f)
  \/ Prioritize(f) \/ Forget(f) \/ NotifyFileChanged(f)

Work(t) == NextThumbnail(t) \/ SkipThumbnail(t) \/ MakeThumbnail(t) \/ TellMainLoop(t)

Next ==
  \/ \E f \in Files :
       FileChanges(f) \/ TimePasses(f) \/ QueryInfo(f) \/ LoadThumbnail(f) \/ MainThread(f)
  \/ CreateThumbnail
  \/ \E t \in Threads : StartThread(t) \/ Work(t)

Spec == Init /\ [][Next]_vars

\* Time passes, threads go on, those of I/O among them, and the main loop comes to each of its
\* sources: SF, for between two of them it may be in nautilus_create_thumbnail, as often as an icon
\* is drawn.
Fairness ==
  /\ WF_vars(CreateThumbnail)
  /\ \A f \in Files :
       /\ WF_vars(TimePasses(f)) /\ WF_vars(QueryInfo(f)) /\ WF_vars(LoadThumbnail(f))
       /\ SF_vars(MonitorTells(f)) /\ SF_vars(InfoAnswered(f))
       /\ SF_vars(StartThumbnail(f)) /\ SF_vars(ThumbnailRead(f))
       /\ SF_vars(f \in redraw /\ GetIcon(f)) /\ SF_vars(NotifyFileChanged(f))
  /\ \A t \in Threads : WF_vars(Work(t))
  /\ SF_vars(\E t \in Threads : StartThread(t))

FairSpec == Spec /\ Fairness

-----------------------------------------------------------------------------
(* Properties                                                              *)

FileTypes ==
  /\ modified \in [Files -> Nat] /\ recent \subseteq Files
  /\ saved \in [Files -> Nat] /\ failed \in [Files -> Nat] /\ mtime \in [Files -> Nat]
  /\ infoUpToDate \subseteq Files /\ thumbnailUpToDate \subseteq Files
  /\ path \subseteq Files /\ failing \subseteq Files
  /\ thumbnail \in [Files -> Nat] /\ thumbnailing \subseteq Files /\ redraw \subseteq Files
  /\ untold \in [Files -> Nat] /\ answer \in [Files -> Answers]
  /\ loading \subseteq Files /\ loaded \in [Files -> Nat]

QueueTypes ==
  /\ creating \in Requests \cup {NoInfo} /\ notices \in [Files -> Nat]
  /\ toMake \in Seq(Files) /\ original \in [Files -> Nat] /\ current \in Files \cup {NoFile}
  /\ owed \in [Files -> Nat] /\ overtaken \subseteq Files /\ overwritten \subseteq Files
  /\ forgotten \in [Files -> Nat]

ThreadTypes ==
  /\ at \in [Threads -> {"none", "lock", "make", "tell"}]
  /\ info \in [Threads -> Files \cup {NoFile}] /\ originalMtime \in [Threads -> Nat]

TypeOK == FileTypes /\ QueueTypes /\ ThreadTypes /\ running \in BOOLEAN /\ starter \in BOOLEAN

\* thumbnail_thread_is_running says whether there is a thread, and there is one at most, although
\* it is set on the main thread without the mutex and reset by a thread about to end.
OneThread ==
  /\ running <=> \E t \in Threads : at[t] # "none"
  /\ \A t, u \in Threads : at[t] # "none" /\ at[u] # "none" => t = u

\* What is to be made has a thread working or about to be started, also when it was asked for
\* while the thread decided to end.
SomebodyMakes == toMake # <<>> => running \/ starter

\* The request in a thread's hands is the current one and on the queue, where every file is once:
\* nobody frees it meanwhile (the assertions of thumbnail_thread_start).
InHand ==
  /\ \A i, j \in 1..Len(toMake) : toMake[i] = toMake[j] => i = j
  /\ current # NoFile => Queued(current)
  /\ \A t \in Threads : /\ at[t] # "none" => info[t] = current
                        /\ at[t] \in {"make", "tell"} => current # NoFile

\* The last request for a file, with its modification time, is worked off before it leaves the queue.
NewestMade == \A f \in Files : ~Queued(f) => owed[f] = 0

\* A file said to be thumbnailing has a request or a notice coming, with one exception: its
\* request was renewed between the notice and its end.  The icon of such a file is "loading"
\* until it has a thumbnail, and it never gets another one (see README).
NoticeComes ==
  \A f \in thumbnailing \ overtaken : creating.file = f \/ Queued(f) \/ notices[f] > 0

\* Its thumbnail was found to be outdated and the path forgotten; then info that was read before
\* brought the path back, and nothing says that there is a thumbnail to be read.
Revived(f) == f \in path \cap thumbnailUpToDate /\ thumbnail[f] = 0

\* A file that is looked at and no longer modified gets its thumbnail, or a failed one, although
\* requests, notices, queries and the monitor overtake each other.  Three races of the code are
\* excepted (see README): it was overtaken, its path revived, or its last info was read before a
\* change and came after the one notice of it.
ThumbnailComes ==
  \A f \in Files :
    <>[](\/ thumbnail[f] = modified[f] \/ failed[f] = modified[f]
        \/ f \in overtaken \cup overwritten \/ Revived(f))

\* What nautilus-directory.c:1103 says of a file that has changed: its info is read again.  TLC
\* refutes it (see README).
InfoReread == \A f \in Files : <>[](mtime[f] = modified[f])
=============================================================================
