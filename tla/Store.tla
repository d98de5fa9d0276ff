------------------------------- MODULE Store -------------------------------
(***************************************************************************)
(* storage.py in single-process mode: one event loop, one in-memory db,    *)
(* one asyncio.Lock, and file writes pushed to worker threads.             *)
(*                                                                         *)
(* The content of the database is the set of changes it contains, so "an   *)
(* older snapshot" is a smaller set.  A task is anything that awaits the    *)
(* store: an API handler, a background loop, the disk-flush loop, and the  *)
(* lifespan's own shutdown code.                                           *)
(***************************************************************************)
EXTENDS Naturals, Sequences

CONSTANTS
    Change,        \* the changes that may be made to the database
    Handler,       \* tasks that serve API requests
    Loop,          \* background loops that mutate (traffic fold, bot, ...)
    DiskFlush,     \* the task running _disk_flush_loop
    Shutdown,      \* the lifespan code that runs after the loops are cancelled
    NoTask,        \* "nobody holds the lock"
    MaxFailures,   \* bound: how many file writes may fail
    DirSyncWorks,  \* does fsync of the directory work on this platform
    PowerMayFail   \* may the machine, and not only the process, stop

Task == Handler \cup Loop \cup {DiskFlush, Shutdown}

ASSUME TasksAssumption ==
    /\ NoTask \notin Task
    /\ DiskFlush \notin Handler \cup Loop
    /\ Shutdown \notin Handler \cup Loop \cup {DiskFlush}
    /\ Handler \cap Loop = {}

ASSUME BoundsAssumption == MaxFailures \in Nat /\ DirSyncWorks \in BOOLEAN

\* Where a directory cannot be fsynced ("not supported on Windows",
\* storage.py:185-186) nothing is promised about a power cut.
ASSUME PowerAssumption == PowerMayFail \in BOOLEAN /\ (PowerMayFail => DirSyncWorks)

Content == SUBSET Change

\* What a task asked of the store: mutate(persist=True), mutate(persist=False)
\* ("note"), flush(), flush(force=True), replace(backup), or the final fold
\* and forced flush of the lifespan.
Kind == {"none", "mutate", "note", "flush", "force", "replace", "final"}
Job == [kind : Kind, arg : Content]
NoJob == [kind |-> "none", arg |-> {}]

\* The thread running _atomic_write: it has written its temporary file, has
\* renamed it over db.json, has finished, or has failed before the rename.
Stage == {"none", "temp", "renamed", "done", "failed"}
Thread == [stage : Stage, data : Content]
NoThread == [stage |-> "none", data |-> {}]

VARIABLES
    db,         \* Store.db
    dirty,      \* Store._dirty
    holder,     \* who holds _lock
    waiters,    \* who waits for it; asyncio.Lock is first come, first served
    job,        \* what each task is asking
    thread,     \* the write thread each task started; it may outlive its task
    disk,       \* what db.json contains
    survivors,  \* what db.json may contain after a power cut
    acked,      \* changes whose caller was told that they are saved
    phase,      \* "up", the three steps of a shutdown, or "down"
    failures

lockVars == <<holder, waiters>>
vars == <<db, dirty, holder, waiters, job, thread, disk, survivors, acked,
          phase, failures>>

TypeOK ==
    /\ db \in Content
    /\ dirty \in BOOLEAN
    /\ holder \in Task \cup {NoTask}
    /\ waiters \in Seq(Task)
    /\ job \in [Task -> Job]
    /\ thread \in [Task -> Thread]
    /\ disk \in Content
    /\ survivors \in SUBSET Content
    /\ acked \in Content
    /\ phase \in {"up", "stopping", "saving", "exiting", "down"}
    /\ failures \in 0..MaxFailures

Init ==
    /\ db = {} /\ dirty = FALSE
    /\ holder = NoTask /\ waiters = <<>>
    /\ job = [t \in Task |-> NoJob]
    /\ thread = [t \in Task |-> NoThread]
    /\ disk = {} /\ survivors = {{}}
    /\ acked = {}
    /\ phase = "down" /\ failures = 0

\* Mutant of Start: load_db takes whatever the file has for an entry.
MutantStartUnchecked ==
    /\ phase = "down"
    /\ phase' = "up"
    /\ db' = {NoTask} /\ dirty' = FALSE
    /\ UNCHANGED <<holder, waiters, job, thread, disk, survivors, acked,
                   failures>>

(***************************************************************************)
(* Starting: load_db reads the file.  A write in progress at a crash left  *)
(* only a temporary file, which load_db deletes.                           *)
(***************************************************************************)
Start ==
    /\ phase = "down"
    /\ phase' = "up"
    /\ db' = disk /\ dirty' = FALSE
    /\ UNCHANGED <<holder, waiters, job, thread, disk, survivors, acked,
                   failures>>

(***************************************************************************)
(* The lock.                                                               *)
(***************************************************************************)
Enqueue(t) ==
    IF holder = NoTask
    THEN holder' = t /\ waiters' = waiters
    ELSE holder' = holder /\ waiters' = Append(waiters, t)

Release ==
    IF waiters = <<>>
    THEN holder' = NoTask /\ waiters' = waiters
    ELSE holder' = Head(waiters) /\ waiters' = Tail(waiters)

\* The jobs each kind of task asks for.
Changes == {{c} : c \in Change}
JobsOf(t) ==
    IF t \in Handler
    THEN [kind : {"mutate", "note"}, arg : Changes]
           \cup [kind : {"replace"}, arg : Content]
           \cup [kind : {"force"}, arg : {{}}]
    ELSE IF t \in Loop
    THEN [kind : {"mutate", "note"}, arg : Changes]
    ELSE [kind : {"flush"}, arg : {{}}]

\* A task reaches `async with _lock`.
Call(t, j) ==
    /\ phase = "up"
    /\ t # Shutdown /\ job[t] = NoJob
    /\ j \in JobsOf(t)
    /\ job' = [job EXCEPT ![t] = j]
    /\ Enqueue(t)
    /\ UNCHANGED <<db, dirty, thread, disk, survivors, acked, phase, failures>>

HasLock(t) == holder = t /\ job[t].kind # "none" /\ thread[t].stage = "none"

\* _write_locked: serialise on the loop, call the store clean, and only then
\* hand the bytes to a thread.
WriteLocked(t, content) ==
    /\ dirty' = FALSE
    /\ thread' = [thread EXCEPT ![t] = [stage |-> "temp", data |-> content]]
    /\ UNCHANGED <<holder, waiters, job>>

Leave(t) ==
    /\ job' = [job EXCEPT ![t] = NoJob]
    /\ Release
    /\ UNCHANGED thread

\* mutate(fn, persist=True) up to its await.
BeginMutate(t) ==
    /\ HasLock(t) /\ job[t].kind = "mutate"
    /\ db' = db \cup job[t].arg
    /\ WriteLocked(t, db')
    /\ UNCHANGED <<disk, survivors, acked, phase, failures>>

\* mutate(fn, persist=False): the whole call, it never suspends with the lock.
BeginNote(t) ==
    /\ HasLock(t) /\ job[t].kind = "note"
    /\ db' = db \cup job[t].arg
    /\ dirty' = TRUE
    /\ Leave(t)
    /\ UNCHANGED <<disk, survivors, acked, phase, failures>>

\* Mutant of Refuse: the exception leaves without releasing the lock.
MutantRefuseKeepsLock(t) ==
    /\ HasLock(t) /\ job[t].kind \in {"mutate", "note"}
    /\ job' = [job EXCEPT ![t] = NoJob]
    /\ UNCHANGED <<db, dirty, lockVars, thread, disk, survivors, acked, phase,
                   failures>>

\* fn raised (a 404, a conflict, a limit) before it changed anything.
Refuse(t) ==
    /\ HasLock(t) /\ job[t].kind \in {"mutate", "note"}
    /\ Leave(t)
    /\ UNCHANGED <<db, dirty, disk, survivors, acked, phase, failures>>

\* Mutant of SkipFlush: the flush skips whatever the dirty flag says.
MutantAlwaysSkip(t) ==
    /\ HasLock(t) /\ job[t].kind = "flush"
    /\ Leave(t)
    /\ UNCHANGED <<db, dirty, disk, survivors, acked, phase, failures>>

\* flush() with nothing to do returns False at once.
SkipFlush(t) ==
    /\ HasLock(t) /\ job[t].kind = "flush" /\ ~dirty
    /\ Leave(t)
    /\ UNCHANGED <<db, dirty, disk, survivors, acked, phase, failures>>

BeginFlush(t) ==
    /\ HasLock(t)
    /\ job[t].kind = "force" \/ (job[t].kind = "flush" /\ dirty)
    /\ WriteLocked(t, db)
    /\ UNCHANGED <<db, disk, survivors, acked, phase, failures>>

\* replace(new_db): from here on a caller holds no promise about a change the
\* backup does not contain.
BeginReplace(t) ==
    /\ HasLock(t) /\ job[t].kind = "replace"
    /\ db' = job[t].arg
    /\ acked' = acked \cap db'
    /\ WriteLocked(t, db')
    /\ UNCHANGED <<disk, survivors, phase, failures>>

(***************************************************************************)
(* The write thread.  It does not hold the lock itself: the task awaiting  *)
(* it does, and cancelling that task does not stop the thread.             *)
(***************************************************************************)
SetStage(t, stage) == thread' = [thread EXCEPT ![t].stage = stage]

ThreadRename(t) ==
    /\ thread[t].stage = "temp"
    /\ SetStage(t, "renamed")
    /\ disk' = thread[t].data
    /\ survivors' = survivors \cup {disk'}
    /\ UNCHANGED <<db, dirty, lockVars, job, acked, phase, failures>>

\* The error of a directory fsync is swallowed.
ThreadSyncDir(t) ==
    /\ thread[t].stage = "renamed"
    /\ SetStage(t, "done")
    /\ survivors' = IF DirSyncWorks THEN {disk} ELSE survivors
    /\ UNCHANGED <<db, dirty, lockVars, job, disk, acked, phase, failures>>

\* Disk full, read-only mount, ...: the temporary file is removed.
ThreadFail(t) ==
    /\ thread[t].stage = "temp" /\ failures < MaxFailures
    /\ SetStage(t, "failed")
    /\ failures' = failures + 1
    /\ UNCHANGED <<db, dirty, lockVars, job, disk, survivors, acked, phase>>

\* What returning from a successful call tells the caller.
Promise(j, content) ==
    CASE j.kind \in {"mutate", "replace"} -> j.arg
      [] j.kind = "force"                -> content
      [] OTHER                           -> {}

\* Mutant of Return: the write is not awaited, the caller is answered at once.
MutantReturnEarly(t) ==
    /\ holder = t /\ thread[t].stage # "none"
    /\ acked' = acked \cup Promise(job[t], thread[t].data)
    /\ job' = [job EXCEPT ![t] = NoJob]
    /\ Release
    /\ phase' = IF t = Shutdown THEN "exiting" ELSE phase
    /\ UNCHANGED <<db, dirty, thread, disk, survivors, failures>>

\* Mutant of Return: a failed write is reported as a success.
MutantReturnIgnoresFailure(t) ==
    /\ holder = t /\ thread[t].stage \in {"done", "failed"}
    /\ acked' = acked \cup Promise(job[t], thread[t].data)
    /\ job' = [job EXCEPT ![t] = NoJob]
    /\ thread' = [thread EXCEPT ![t] = NoThread]
    /\ Release
    /\ phase' = IF t = Shutdown THEN "exiting" ELSE phase
    /\ UNCHANGED <<db, dirty, disk, survivors, failures>>

\* The await of to_thread returns or raises in the task that holds the lock.
Return(t) ==
    /\ holder = t /\ thread[t].stage \in {"done", "failed"}
    /\ acked' = IF thread[t].stage = "done"
                THEN acked \cup Promise(job[t], thread[t].data) ELSE acked
    /\ job' = [job EXCEPT ![t] = NoJob]
    /\ thread' = [thread EXCEPT ![t] = NoThread]
    /\ Release
    /\ phase' = IF t = Shutdown THEN "exiting" ELSE phase
    /\ UNCHANGED <<db, dirty, disk, survivors, failures>>

\* A thread whose task was cancelled ends with nobody waiting for it.
OrphanEnds(t) ==
    /\ holder # t /\ thread[t].stage \in {"done", "failed"}
    /\ thread' = [thread EXCEPT ![t] = NoThread]
    /\ UNCHANGED <<db, dirty, lockVars, job, disk, survivors, acked, phase,
                   failures>>

(***************************************************************************)
(* Shutdown.  The server has finished every request; the lifespan cancels  *)
(* the loops, which leave the lock queue or abandon the write they were    *)
(* awaiting, then folds the traffic and forces a flush.                    *)
(***************************************************************************)
StopLoops ==
    /\ phase = "up" /\ \A h \in Handler : job[h] = NoJob
    /\ phase' = "stopping"
    /\ job' = [t \in Task |-> NoJob]
    /\ holder' = NoTask /\ waiters' = <<>>
    \* a write the thread pool had not started is withdrawn
    /\ \E started \in SUBSET Task :
         thread' = [t \in Task |-> IF thread[t].stage = "temp" /\ t \notin started
                                    THEN NoThread ELSE thread[t]]
    /\ UNCHANGED <<db, dirty, disk, survivors, acked, failures>>

\* _fold_pending_traffic() then flush(force=True); neither has to wait.
FinalSave(traffic) ==
    /\ phase = "stopping" /\ phase' = "saving"
    /\ db' = db \cup traffic
    /\ dirty' = FALSE
    /\ holder' = Shutdown /\ UNCHANGED waiters
    /\ job' = [job EXCEPT ![Shutdown] = [kind |-> "final", arg |-> {}]]
    /\ thread' = [thread EXCEPT ![Shutdown] = [stage |-> "temp", data |-> db']]
    /\ UNCHANGED <<disk, survivors, acked, failures>>

\* The process ends: its memory, its tasks and its threads are gone.
Die ==
    /\ phase' = "down"
    /\ db' = {} /\ dirty' = FALSE
    /\ holder' = NoTask /\ waiters' = <<>>
    /\ job' = [t \in Task |-> NoJob]
    /\ thread' = [t \in Task |-> NoThread]
    /\ UNCHANGED <<acked, failures>>

\* asyncio.run waits for the thread pool before it returns.
Exit ==
    /\ phase = "exiting" /\ \A t \in Task : thread[t] = NoThread
    /\ Die
    /\ UNCHANGED <<disk, survivors>>

\* A kill, an out-of-memory, or the os._exit(87) of an update.
Crash ==
    /\ phase # "down"
    /\ Die
    /\ UNCHANGED <<disk, survivors>>

PowerCut ==
    /\ PowerMayFail /\ phase # "down"
    /\ Die
    /\ disk' \in survivors /\ survivors' = {disk'}

Run(t) == \/ BeginMutate(t) \/ BeginNote(t) \/ Refuse(t)
          \/ SkipFlush(t) \/ BeginFlush(t) \/ BeginReplace(t)
Write(t) == ThreadRename(t) \/ ThreadSyncDir(t) \/ ThreadFail(t)

Next ==
    \/ Start
    \/ \E t \in Task : \/ \E j \in JobsOf(t) : Call(t, j)
                       \/ Run(t) \/ Write(t) \/ Return(t) \/ OrphanEnds(t)
    \/ StopLoops
    \/ \E traffic \in {{}} \cup Changes : FinalSave(traffic)
    \/ Exit \/ Crash \/ PowerCut

Spec == Init /\ [][Next]_vars

\* The event loop resumes every runnable task and the kernel every thread; the
\* flush loop wakes up every DISK_FLUSH_INTERVAL seconds; a supervisor restarts
\* the process.
Progress(t) == Run(t) \/ Write(t) \/ Return(t) \/ OrphanEnds(t)
LifeCycle == Start \/ (\E traffic \in {{}} \cup Changes : FinalSave(traffic)) \/ Exit

Fairness ==
    /\ WF_vars(LifeCycle)
    /\ WF_vars(\E j \in JobsOf(DiskFlush) : Call(DiskFlush, j))
    /\ \A t \in Task : WF_vars(Progress(t))

FairSpec == Spec /\ Fairness

(***************************************************************************)
(* Properties.                                                             *)
(***************************************************************************)

\* A change whose caller was told "saved" (mutate or replace returned, or
\* flush(force) did, storage.py:508-582) is in memory while the process runs,
\* in the file, and -- where a directory can be fsynced -- in everything a
\* power cut may leave, whatever the other tasks, failing writes, crashes and
\* writes that outlive a cancelled loop do.
AckedInMemory == phase # "down" => acked \subseteq db
AckedOnDisk == acked \subseteq disk
AckedSurvivesPowerCut == DirSyncWorks => \A s \in survivors : acked \subseteq s
AckedSurvives == AckedInMemory /\ AckedOnDisk /\ AckedSurvivesPowerCut

\* While the process serves, db.json only ever changes to exactly what memory
\* holds at that moment: no snapshot taken earlier, by whatever task, can
\* overwrite a newer one (_lock is held across the thread's write,
\* storage.py:515-519).
FileFollowsMemory == [][phase = "up" /\ phase' = "up" /\ disk' # disk
                          => disk' = db']_vars

\* As long as no write has failed, memory that differs from the file is either
\* marked dirty, so that _disk_flush_loop will write it, or being written
\* right now (storage.py:8-9, 563-570).
UnsavedIsDirty ==
    (phase = "up" /\ failures = 0 /\ db # disk)
      => dirty \/ (holder # NoTask /\ thread[holder].stage = "temp"
                                  /\ thread[holder].data = db)

\* Every task that waits for the store is served, unless the process stops:
\* no refusal, failed write or skipped flush leaves _lock taken.
EveryCallReturns ==
    \A t \in Task : job[t].kind # "none" ~> job[t].kind = "none"

\* "mark the store dirty and a background flush persists them"
\* (storage.py:6-7): as long as no write has failed a change in memory reaches the
\* file, unless a restore drops it first; the dirty flag and the flush loop miss no
\* change, whoever clears the flag and whenever.  A failed write leaves the change
\* in memory and the flag cleared (storage.py:567).
SavedUnlessAWriteFails ==
    \A c \in Change : (c \in db) ~> (c \in disk \/ c \notin db \/ failures # 0)

\* The store keeps the promises of DurableSet.
Durable == INSTANCE DurableSet
             WITH mem <- db, saved <- disk, promised <- acked,
                  running <- (phase # "down")
KeepsPromises == Durable!ASpec
=============================================================================
