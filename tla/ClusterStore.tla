---------------------------- MODULE ClusterStore ----------------------------
(***************************************************************************)
(* storage.py in multi-worker mode: every worker process has its own       *)
(* in-memory db, the workers share db.json, a file lock serialises         *)
(* read-modify-write, and the file's mtime tells a worker that a sibling   *)
(* has written.                                                            *)
(*                                                                         *)
(* As in Store, content is the set of changes it contains.  A worker's own *)
(* asyncio lock lets one call at a time in (module Store), so each worker  *)
(* has one call, which works on the memory in a thread.  get() takes no    *)
(* lock: it may re-read the file into the same memory, on the event loop,   *)
(* between any two steps of that thread.  An mtime is a write counter: two  *)
(* writes of the file never carry the same one.                            *)
(***************************************************************************)
EXTENDS Naturals

CONSTANTS
    Worker,       \* the worker processes
    Change,       \* the changes that may be made to the database
    Nobody,       \* "the file lock is free"
    Calls,        \* which of the store's calls the workers make
    MaxCalls,     \* bound: how many calls are made in all
    MaxFailures   \* bound: how many file writes may fail

ASSUME WorkerAssumption == Nobody \notin Worker
ASSUME CallsAssumption ==
    Calls \subseteq {"mutate", "note", "flush", "force", "replace"}
ASSUME BoundsAssumption == MaxCalls \in Nat /\ MaxFailures \in Nat

Content == SUBSET Change

\* Where a call is: waiting for the file lock, holding it, having re-read, having
\* applied fn, about to write without the lock (replace), or done in its thread.
Stage == {"idle", "want", "locked", "loaded", "applied", "replacing", "written", "noted"}

\* ver is the mtime of the file this call has read, then of the one it wrote.
Call == [stage : Stage, kind : {"none", "mutate", "note", "flush", "force", "replace"},
         arg : Content, ver : Nat]
\* The re-read of a get(): it has read the file, and has emptied the memory.
Reader == [at : {"none", "read", "cleared"}, data : Content, mtime : Nat]
NotReading == [at |-> "none", data |-> {}, mtime |-> 0]
Idle == [stage |-> "idle", kind |-> "none", arg |-> {}, ver |-> 0]

VARIABLES
    cache,      \* each worker's Store.db
    seen,       \* each worker's Store._mtime
    dirty,      \* each worker's Store._dirty
    call,       \* the call each worker is in
    reader,     \* the get() that each worker's event loop is in
    flock,      \* who holds db.lock
    file,       \* db.json: its content and mtime
    issued,     \* changes already asked for: each is made once
    committed,  \* what persisting calls have written, minus what a restore
                \* dropped
    noted,      \* each worker's persist=False changes whose call returned
    exposed,    \* which windows of the protocol some step has gone through
    calls,      \* how many calls were made
    failures    \* how many writes failed

vars == <<cache, seen, dirty, call, reader, flock, file, issued, committed, noted,
          exposed, calls, failures>>

TypeOK ==
    /\ cache \in [Worker -> Content]
    /\ seen \in [Worker -> Nat]
    /\ dirty \in [Worker -> BOOLEAN]
    /\ call \in [Worker -> Call]
    /\ reader \in [Worker -> Reader]
    /\ flock \in Worker \cup {Nobody}
    /\ file \in [data : Content, mtime : Nat]
    /\ issued \in Content
    /\ committed \in Content
    /\ noted \in [Worker -> Content]
    /\ exposed \subseteq {"mtime", "flush", "replace", "overlap"}
    /\ calls \in 0..MaxCalls
    /\ failures \in 0..MaxFailures

\* Every worker has loaded the same file.
Init ==
    /\ cache = [w \in Worker |-> {}]
    /\ seen = [w \in Worker |-> 0]
    /\ dirty = [w \in Worker |-> FALSE]
    /\ call = [w \in Worker |-> Idle]
    /\ reader = [w \in Worker |-> NotReading]
    /\ flock = Nobody
    /\ file = [data |-> {}, mtime |-> 0]
    /\ issued = {} /\ committed = {}
    /\ noted = [w \in Worker |-> {}]
    /\ exposed = {} /\ calls = 0 /\ failures = 0

Stale(w) == seen[w] # file.mtime

Reading(w) == reader[w].at # "none"

\* get() on the event loop finds another mtime than its own and reads the file.
\* (A file that is replaced between the two is read under the older mtime, and
\* read again by the next call.)
GetRead(w) ==
    /\ ~Reading(w) /\ Stale(w)
    /\ reader' = [reader EXCEPT ![w] = [at |-> "read", data |-> file.data,
                                        mtime |-> file.mtime]]
    /\ UNCHANGED <<cache, seen, dirty, call, flock, file, issued, committed, noted,
                   exposed, calls, failures>>

\* self.db.clear()
GetClear(w) ==
    /\ reader[w].at = "read"
    /\ cache' = [cache EXCEPT ![w] = {}]
    /\ reader' = [reader EXCEPT ![w].at = "cleared"]
    /\ UNCHANGED <<seen, dirty, call, flock, file, issued, committed, noted, exposed,
                   calls, failures>>

\* Mutant of GetUpdate: the new mtime is recorded, the content is not taken.
MutantRecordOnly(w) ==
    /\ reader[w].at = "cleared"
    /\ seen' = [seen EXCEPT ![w] = reader[w].mtime]
    /\ reader' = [reader EXCEPT ![w] = NotReading]
    /\ UNCHANGED <<cache, dirty, call, flock, file, issued, committed, noted, exposed,
                   calls, failures>>

\* self.db.update(fresh), and its mtime: what a thread of the same worker has put
\* into memory meanwhile is gone.
GetUpdate(w) ==
    /\ reader[w].at = "cleared"
    /\ cache' = [cache EXCEPT ![w] = reader[w].data]
    /\ seen' = [seen EXCEPT ![w] = reader[w].mtime]
    /\ reader' = [reader EXCEPT ![w] = NotReading]
    /\ exposed' = IF call[w].stage \in {"loaded", "applied"}
                  THEN exposed \cup {"overlap"} ELSE exposed
    /\ UNCHANGED <<dirty, call, flock, file, issued, committed, noted, calls, failures>>

Get(w) == GetRead(w) \/ GetClear(w) \/ GetUpdate(w)

(***************************************************************************)
(* Calls.                                                                  *)
(***************************************************************************)
Begin(w, kind, arg, stage) ==
    /\ call[w].stage = "idle" /\ ~Reading(w) /\ kind \in Calls /\ calls < MaxCalls
    /\ calls' = calls + 1
    /\ call' = [call EXCEPT ![w] = [stage |-> stage, kind |-> kind, arg |-> arg,
                                    ver |-> 0]]
    /\ UNCHANGED <<seen, reader, flock, file, committed, noted, exposed, failures>>

\* mutate(fn): a thread starts polling for the file lock.
BeginMutate(w, c) ==
    /\ c \notin issued /\ issued' = issued \cup {c}
    /\ \E kind \in {"mutate", "note"} : Begin(w, kind, {c}, "want")
    /\ UNCHANGED <<cache, dirty>>

\* flush(), or flush(force=True) at shutdown and before an update.
BeginFlush(w) ==
    /\ \E kind \in {"flush", "force"} : /\ kind = "flush" => dirty[w]
                                        /\ Begin(w, kind, {}, "want")
    /\ UNCHANGED <<cache, dirty, issued>>

\* replace(backup): swaps the content in and writes it under the worker's own
\* lock only.
BeginReplace(w, backup) ==
    /\ Begin(w, "replace", backup, "replacing")
    /\ cache' = [cache EXCEPT ![w] = backup]
    /\ dirty' = [dirty EXCEPT ![w] = FALSE]
    /\ UNCHANGED issued

SetStage(w, stage) == call' = [call EXCEPT ![w].stage = stage]

AcquireFlock(w) ==
    /\ call[w].stage = "want" /\ flock = Nobody
    /\ flock' = w
    /\ SetStage(w, "locked")
    /\ UNCHANGED <<cache, seen, dirty, reader, file, issued, committed, noted, exposed,
                   calls, failures>>

\* LOCK_TIMEOUT seconds passed: TimeoutError, the call has done nothing.
TimeOut(w) ==
    /\ call[w].stage = "want" /\ flock # Nobody
    /\ call' = [call EXCEPT ![w] = Idle]
    /\ UNCHANGED <<cache, seen, dirty, reader, flock, file, issued, committed, noted,
                   exposed, calls, failures>>

InMutate(w, stage) == call[w].stage = stage /\ call[w].kind \in {"mutate", "note"}

\* Mutant of Load: the memory is taken as it is.
MutantLoadNothing(w) ==
    /\ InMutate(w, "locked")
    /\ call' = [call EXCEPT ![w].stage = "loaded", ![w].ver = file.mtime]
    /\ UNCHANGED <<cache, seen, dirty, reader, flock, file, issued, committed, noted,
                   exposed, calls, failures>>

\* Under the lock, in a thread: re-read if a sibling wrote.
Load(w) ==
    /\ InMutate(w, "locked")
    /\ cache' = [cache EXCEPT ![w] = IF Stale(w) THEN file.data ELSE @]
    /\ call' = [call EXCEPT ![w].stage = "loaded", ![w].ver = file.mtime]
    /\ UNCHANGED <<seen, dirty, reader, flock, file, issued, committed, noted, exposed,
                   calls, failures>>

\* get() re-reads into the memory that this worker's thread is at work on.
Overlapped(w) == IF Reading(w) THEN exposed \cup {"overlap"} ELSE exposed

\* The mtime of what was re-read is recorded, and fn(db) is run, on what memory
\* then holds.
Apply(w) ==
    /\ InMutate(w, "loaded")
    /\ seen' = [seen EXCEPT ![w] = call[w].ver]
    /\ cache' = [cache EXCEPT ![w] = @ \cup call[w].arg]
    /\ IF call[w].kind = "mutate"
       THEN SetStage(w, "applied") /\ flock' = flock
       ELSE SetStage(w, "noted") /\ flock' = Nobody
    /\ exposed' = Overlapped(w)
    /\ UNCHANGED <<dirty, reader, file, issued, committed, noted, calls, failures>>

\* fn raised before changing anything; the re-read stays.
Refuse(w) ==
    /\ InMutate(w, "loaded")
    /\ seen' = [seen EXCEPT ![w] = call[w].ver]
    /\ call' = [call EXCEPT ![w] = Idle] /\ flock' = Nobody
    /\ exposed' = Overlapped(w)
    /\ UNCHANGED <<cache, dirty, reader, file, issued, committed, noted, calls, failures>>

Publish(w, data) ==
    /\ file' = [data |-> data, mtime |-> file.mtime + 1]
    /\ call' = [call EXCEPT ![w] = [stage |-> "written", kind |-> @.kind,
                                    arg |-> @.arg, ver |-> file.mtime + 1]]

\* A sibling between its re-read and its write.
SiblingWriting(w) == \E v \in Worker \ {w} : call[v].stage \in {"loaded", "applied"}

\* The write of a mutate: what memory holds now, the lock let go.  (A json.dumps that
\* a get() overlaps may also come out as some of what was there before and some of
\* what came after, or fail; it loses no more than one made in between.)
WriteMutate(w) ==
    /\ call[w].stage = "applied"
    /\ Publish(w, cache[w])
    /\ flock' = Nobody
    /\ committed' = committed \cup call[w].arg
    /\ exposed' = Overlapped(w)
    /\ UNCHANGED <<cache, seen, dirty, reader, issued, noted, calls, failures>>

\* The write of a flush: it does not re-read first.
WriteFlush(w) ==
    /\ call[w].stage = "locked" /\ call[w].kind \in {"flush", "force"}
    /\ Publish(w, cache[w])
    /\ flock' = Nobody
    /\ exposed' = IF Stale(w) THEN Overlapped(w) \cup {"flush"} ELSE Overlapped(w)
    /\ UNCHANGED <<cache, seen, dirty, reader, issued, committed, noted, calls, failures>>

\* The write of a restore: serialised when the call began, and under no lock that a
\* sibling, or a get() of this worker, can see.
WriteReplace(w) ==
    /\ call[w].stage = "replacing"
    /\ Publish(w, call[w].arg)
    /\ committed' = call[w].arg
    /\ exposed' = IF SiblingWriting(w) \/ Reading(w) \/ cache[w] # call[w].arg
                  THEN exposed \cup {"replace"} ELSE exposed
    /\ UNCHANGED <<cache, seen, dirty, reader, flock, issued, noted, calls, failures>>

\* Disk full, or a dictionary that changed under json.dumps: the temporary file is
\* removed, the exception leaves the call; what fn did stays in memory.
WriteFail(w) ==
    /\ \/ call[w].stage = "applied"
       \/ call[w].stage = "replacing"
       \/ call[w].stage = "locked" /\ call[w].kind \in {"flush", "force"}
    /\ failures < MaxFailures /\ failures' = failures + 1
    /\ call' = [call EXCEPT ![w] = Idle]
    /\ flock' = IF flock = w THEN Nobody ELSE flock
    /\ exposed' = IF call[w].stage = "replacing"
                  THEN exposed \cup {"replace"} ELSE exposed
    /\ UNCHANGED <<cache, seen, dirty, reader, file, issued, committed, noted, calls>>

\* Back on the event loop after a write: the mtime recorded is the file's mtime
\* now, whoever wrote it.
Return(w) ==
    /\ call[w].stage = "written" /\ ~Reading(w)
    /\ exposed' = IF file.mtime # call[w].ver /\ Stale(w)
                  THEN exposed \cup {"mtime"} ELSE exposed
    /\ seen' = [seen EXCEPT ![w] = file.mtime]
    /\ dirty' = [dirty EXCEPT ![w] = FALSE]
    /\ call' = [call EXCEPT ![w] = Idle]
    /\ UNCHANGED <<cache, reader, flock, file, issued, committed, noted, calls, failures>>

\* Back on the event loop after a persist=False mutate.
ReturnNote(w) ==
    /\ call[w].stage = "noted" /\ ~Reading(w)
    /\ dirty' = [dirty EXCEPT ![w] = TRUE]
    /\ noted' = [noted EXCEPT ![w] = @ \cup call[w].arg]
    /\ call' = [call EXCEPT ![w] = Idle]
    /\ UNCHANGED <<cache, seen, reader, flock, file, issued, committed, exposed, calls,
                   failures>>

\* Mutant of Restart: the new worker notes that it has read no version yet.
MutantRestartUnread(w) ==
    /\ cache' = [cache EXCEPT ![w] = file.data]
    /\ seen' = [seen EXCEPT ![w] = 0 - 1]
    /\ dirty' = [dirty EXCEPT ![w] = FALSE]
    /\ call' = [call EXCEPT ![w] = Idle]
    /\ reader' = [reader EXCEPT ![w] = NotReading]
    /\ flock' = IF flock = w THEN Nobody ELSE flock
    /\ noted' = [noted EXCEPT ![w] = {}]
    /\ UNCHANGED <<file, issued, committed, exposed, calls, failures>>

\* A worker dies and its supervisor starts another; the system drops its lock.
Restart(w) ==
    /\ cache' = [cache EXCEPT ![w] = file.data]
    /\ seen' = [seen EXCEPT ![w] = file.mtime]
    /\ dirty' = [dirty EXCEPT ![w] = FALSE]
    /\ call' = [call EXCEPT ![w] = Idle]
    /\ reader' = [reader EXCEPT ![w] = NotReading]
    /\ flock' = IF flock = w THEN Nobody ELSE flock
    /\ noted' = [noted EXCEPT ![w] = {}]
    /\ UNCHANGED <<file, issued, committed, exposed, calls, failures>>

Step(w) ==
    \/ AcquireFlock(w) \/ TimeOut(w) \/ Load(w) \/ Apply(w) \/ Refuse(w)
    \/ WriteMutate(w) \/ WriteFlush(w) \/ WriteReplace(w) \/ WriteFail(w)
    \/ Return(w) \/ ReturnNote(w)

Next ==
    \E w \in Worker :
        \/ Get(w) \/ Step(w) \/ Restart(w)
        \/ \E c \in Change : BeginMutate(w, c)
        \/ BeginFlush(w)
        \/ \E backup \in Content : BeginReplace(w, backup)

Spec == Init /\ [][Next]_vars

\* A worker's thread and event loop keep running, and every worker reads the
\* store now and then (the enforcement and flush loops call get()).
FairSpec == Spec /\ \A w \in Worker : WF_vars(Step(w)) /\ WF_vars(Get(w))

(***************************************************************************)
(* Properties.                                                             *)
(***************************************************************************)

\* "every mutation takes a cross-process file lock and re-reads from disk first,
\* so concurrent workers cannot clobber each other" (storage.py:457-459): what
\* some worker has written stays in the file until a restore drops it.
NoClobber == committed \subseteq file.data

\* The same, unless a call went through one of the protocol's four windows: it
\* recorded the mtime of a sibling's later write as its own (storage.py:538-540),
\* had its memory replaced by a get() of its own worker while its thread was at work
\* on it (498-500 against 527-535), flushed a stale memory (552-556), or ran a
\* restore that failed or overlapped a re-read or a sibling's read-modify-write
\* (575-582).
NoClobberOutsideWindows == exposed = {} => NoClobber

\* Outside those windows a worker whose recorded mtime is the file's holds
\* everything the file does, so the reader that skips the re-read misses nothing
\* (storage.py:482-502).
FreshMeansComplete ==
    exposed = {} =>
        \A w \in Worker :
            seen[w] = file.mtime /\ call[w].stage # "replacing"
              => file.data \subseteq cache[w]

\* "Readers notice a sibling's write via the file's mtime and reload"
\* (storage.py:459-460): what is in the file reaches every worker's memory, unless
\* it leaves the file, or a window that lets a mtime be recorded for content that
\* was not read has been gone through.
EveryWorkerLearns ==
    \A w \in Worker, c \in Change :
        c \in file.data ~> (\/ c \in cache[w] \/ c \notin file.data
                           \/ exposed \cap {"mtime", "overlap", "replace"} # {})

(***************************************************************************)
(* The inductive invariant of the proofs in StoreProofs.                   *)
(***************************************************************************)

\* The file lock: whoever is in a read-modify-write or a flush holds it.
LockInv ==
    \A w \in Worker : call[w].stage \in {"locked", "loaded", "applied"} => flock = w

\* No worker has seen, read or written a later version than the file's.
VersionInv ==
    \A w \in Worker :
        /\ seen[w] <= file.mtime
        /\ call[w].stage \in {"loaded", "written"} => call[w].ver <= file.mtime
        /\ Reading(w) => reader[w].mtime <= file.mtime

\* Outside the windows, a get() in its re-read has the version it read, one its
\* worker has not recorded, and started it after the last write of its worker.
ReaderInv ==
    exposed = {} =>
        \A w \in Worker : Reading(w) =>
            /\ seen[w] < reader[w].mtime
            /\ reader[w].mtime = file.mtime => file.data \subseteq reader[w].data
            /\ call[w].stage = "written" => call[w].ver <= reader[w].mtime

\* Outside the windows, a worker in a read-modify-write has the file's content
\* and its own change, and a worker whose write is still the last one holds it.
WindowInv ==
    exposed = {} =>
        \A w \in Worker :
            /\ call[w].stage = "loaded" =>
                 /\ call[w].ver = file.mtime
                 /\ reader[w].at # "cleared" => file.data \subseteq cache[w]
            /\ call[w].stage = "applied" =>
                 seen[w] = file.mtime /\ call[w].arg \subseteq cache[w]
            /\ call[w].stage = "written" /\ call[w].ver = file.mtime
                 /\ reader[w].at # "cleared" => file.data \subseteq cache[w]

IInv == /\ TypeOK /\ LockInv /\ VersionInv /\ ReaderInv /\ WindowInv
        /\ NoClobberOutsideWindows /\ FreshMeansComplete
=============================================================================
