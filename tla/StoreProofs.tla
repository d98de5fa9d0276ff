---------------------------- MODULE StoreProofs ----------------------------
(***************************************************************************)
(* Store: what holds for every set of tasks and changes, and for any       *)
(* number of failing writes.  The argument: in every phase where a caller  *)
(* can be promised something, one task holds the lock for the whole of its *)
(* write, so the bytes being written are what memory holds; and every      *)
(* write that outlives its task was started from a memory that already     *)
(* contained every promise.                                                *)
(***************************************************************************)
EXTENDS Store, TLAPS

(***************************************************************************)
(* The inductive invariant.                                                *)
(***************************************************************************)
\* Who may hold and want the lock in each phase: after the loops are cancelled
\* only the lifespan does.
LockInv ==
    /\ phase = "up" => /\ holder # Shutdown
                       /\ waiters \in Seq(Task \ {Shutdown})
    /\ phase # "up" => /\ holder \in {NoTask, Shutdown} /\ waiters = <<>>
                       /\ \A t \in Task \ {Shutdown} : job[t] = NoJob
    /\ phase # "saving" => holder # Shutdown /\ job[Shutdown] = NoJob
    /\ job[Shutdown].kind \in {"none", "final"}

\* While the process serves, at most one thread writes and its task holds the
\* lock; every write, orphaned or not, contains every promise made so far.
WriterInv ==
    /\ \A t \in Task : /\ thread[t].stage # "none" => acked \subseteq thread[t].data
                       /\ thread[t].stage # "none" /\ phase = "up"
                            => t = holder /\ job[t].kind # "none"
                       /\ thread[t].stage = "failed" => failures # 0
    /\ phase = "down" => \A t \in Task : thread[t] = NoThread

\* The write the lock holder awaits is of what memory holds, and contains what
\* its caller will be promised.
HolderInv ==
    phase = "up" /\ holder # NoTask /\ thread[holder].stage # "none" =>
        /\ thread[holder].data = db
        /\ job[holder].kind \in {"mutate", "replace"} => job[holder].arg \subseteq db
        /\ thread[holder].stage \in {"renamed", "done"} => disk = db
        /\ thread[holder].stage = "done" /\ DirSyncWorks => survivors = {disk}

IInv == /\ TypeOK /\ AckedSurvives /\ UnsavedIsDirty
        /\ LockInv /\ WriterInv /\ HolderInv

USE DEF Content

\* The shutdown task is one of the tasks, and no task is NoTask.
LEMMA TaskFacts == /\ Shutdown \in Task /\ DiskFlush \in Task
                   /\ Handler \subseteq Task /\ Loop \subseteq Task
                   /\ NoTask \notin Task
BY TasksAssumption DEF Task

\* Releasing the lock hands it to a waiting task or to nobody.
LEMMA ReleaseType ==
    ASSUME NEW S, waiters \in Seq(S), Release
    PROVE  waiters' \in Seq(S) /\ holder' \in S \cup {NoTask}
<1>1. CASE waiters = <<>>
  BY <1>1 DEF Release
<1>2. CASE waiters # <<>>
  BY <1>2 DEF Release
<1> QED BY <1>1, <1>2

\* Asking for the lock keeps the queue a queue of the tasks of S.
LEMMA EnqueueType ==
    ASSUME NEW S, NEW t \in S, waiters \in Seq(S), holder \in S \cup {NoTask},
           Enqueue(t)
    PROVE  waiters' \in Seq(S) /\ holder' \in S \cup {NoTask}
BY DEF Enqueue

\* The jobs a task asks for are jobs.
LEMMA JobType ==
    ASSUME NEW t \in Task, NEW j \in JobsOf(t)
    PROVE  j \in Job
BY DEF JobsOf, Job, Kind, Changes

-----------------------------------------------------------------------------
\* Type correctness.

LEMMA InitType == Init => TypeOK
<1> SUFFICES ASSUME Init PROVE TypeOK
  OBVIOUS
<1>1. NoJob \in Job /\ NoThread \in Thread
  BY DEF NoJob, Job, Kind, NoThread, Thread, Stage
<1>2. job \in [Task -> Job] /\ thread \in [Task -> Thread]
  BY <1>1 DEF Init
<1>3. db \in Content /\ disk \in Content /\ acked \in Content
  BY DEF Init
<1>4. survivors \in SUBSET Content /\ failures \in 0..MaxFailures
  BY BoundsAssumption DEF Init
<1>5. holder \in Task \cup {NoTask} /\ waiters \in Seq(Task)
  BY DEF Init
<1>6. dirty \in BOOLEAN /\ phase \in {"up", "stopping", "saving", "exiting", "down"}
  BY DEF Init
<1> QED BY <1>2, <1>3, <1>4, <1>5, <1>6 DEF TypeOK

LEMMA NextType == TypeOK /\ [Next]_vars => TypeOK'
<1> SUFFICES ASSUME TypeOK, [Next]_vars PROVE TypeOK'
  OBVIOUS
<1> USE BoundsAssumption DEF TypeOK
<1>0. NoJob \in Job /\ NoThread \in Thread
  BY DEF NoJob, Job, Kind, NoThread, Thread, Stage
<1>1. CASE Start
  BY <1>1 DEF Start
<1>2. ASSUME NEW t \in Task, NEW j \in JobsOf(t), Call(t, j) PROVE TypeOK'
  <2>1. j \in Job
    BY JobType
  <2>2. waiters' \in Seq(Task) /\ holder' \in Task \cup {NoTask}
    BY <1>2, EnqueueType DEF Call
  <2> QED BY <1>2, <2>1, <2>2 DEF Call
<1>3. ASSUME NEW t \in Task, Leave(t)
      PROVE /\ waiters' \in Seq(Task) /\ holder' \in Task \cup {NoTask}
            /\ job' \in [Task -> Job] /\ thread' \in [Task -> Thread]
  BY <1>0, <1>3, ReleaseType DEF Leave
<1>4. ASSUME NEW t \in Task, NEW content \in Content, WriteLocked(t, content)
      PROVE /\ waiters' \in Seq(Task) /\ holder' \in Task \cup {NoTask}
            /\ job' \in [Task -> Job] /\ thread' \in [Task -> Thread]
            /\ dirty' \in BOOLEAN
  BY <1>4 DEF WriteLocked, Thread, Stage
<1>5. ASSUME NEW t \in Task PROVE job[t].arg \in Content
  BY DEF Job
<1>6. ASSUME NEW t \in Task PROVE thread[t].data \in Content
  BY DEF Thread
<1>t. ASSUME NEW t \in Task, NEW s \in Stage
      PROVE  [thread EXCEPT ![t].stage = s]
               = [thread EXCEPT ![t] = [stage |-> s, data |-> thread[t].data]]
  <2>1. thread[t] \in [stage : Stage, data : Content]
    BY DEF Thread
  <2>2. [thread[t] EXCEPT !.stage = s] = [stage |-> s, data |-> thread[t].data]
    BY <2>1
  <2> QED BY <2>2
<1>7. ASSUME NEW t \in Task, Run(t) PROVE TypeOK'
  <2>1. CASE BeginMutate(t)
    <3>1. db \cup job[t].arg \in Content
      BY <1>5
    <3> QED BY <2>1, <3>1, <1>4 DEF BeginMutate
  <2>2. CASE BeginNote(t)
    BY <2>2, <1>3, <1>5 DEF BeginNote
  <2>3. CASE Refuse(t)
    BY <2>3, <1>3 DEF Refuse
  <2>4. CASE SkipFlush(t)
    BY <2>4, <1>3 DEF SkipFlush
  <2>5. CASE BeginFlush(t)
    BY <2>5, <1>4 DEF BeginFlush
  <2>6. CASE BeginReplace(t)
    BY <2>6, <1>4, <1>5 DEF BeginReplace
  <2> QED BY <1>7, <2>1, <2>2, <2>3, <2>4, <2>5, <2>6 DEF Run
<1>8. ASSUME NEW t \in Task, Write(t) PROVE TypeOK'
  <2>0. ASSUME NEW s \in Stage, SetStage(t, s) PROVE thread' \in [Task -> Thread]
    <3>1. thread' = [thread EXCEPT ![t] = [stage |-> s, data |-> thread[t].data]]
      BY <1>t, <2>0 DEF SetStage
    <3>2. [stage |-> s, data |-> thread[t].data] \in Thread
      BY <1>6, <2>0 DEF Thread
    <3> QED BY <3>1, <3>2
  <2>1. CASE ThreadRename(t)
    BY <2>1, <2>0, <1>6 DEF ThreadRename, lockVars, Stage
  <2>2. CASE ThreadSyncDir(t)
    BY <2>2, <2>0 DEF ThreadSyncDir, lockVars, Stage
  <2>3. CASE ThreadFail(t)
    BY <2>3, <2>0 DEF ThreadFail, lockVars, Stage
  <2> QED BY <1>8, <2>1, <2>2, <2>3 DEF Write
<1>9. ASSUME NEW t \in Task, Return(t) PROVE TypeOK'
  <2>1. Promise(job[t], thread[t].data) \in Content
    BY <1>5, <1>6 DEF Promise
  <2>2. waiters' \in Seq(Task) /\ holder' \in Task \cup {NoTask}
    BY <1>9, ReleaseType DEF Return
  <2> QED BY <1>0, <1>9, <2>1, <2>2 DEF Return
<1>10. ASSUME NEW t \in Task, OrphanEnds(t) PROVE TypeOK'
  BY <1>0, <1>10 DEF OrphanEnds, lockVars
<1>11. CASE StopLoops
  BY <1>0, <1>11 DEF StopLoops
<1>12. ASSUME NEW traffic \in {{}} \cup Changes, FinalSave(traffic) PROVE TypeOK'
  <2>1. db \cup traffic \in Content
    BY DEF Changes
  <2> QED BY <1>12, <2>1, TaskFacts
          DEF FinalSave, Job, Kind, Thread, Stage
<1>d. ASSUME Die, disk' \in Content, survivors' \in SUBSET Content
      PROVE  TypeOK'
  <2>1. job' \in [Task -> Job] /\ thread' \in [Task -> Thread]
    BY <1>0, <1>d DEF Die
  <2>2. db' \in Content
    BY <1>d DEF Die
  <2>3. holder' \in Task \cup {NoTask} /\ waiters' \in Seq(Task)
    BY <1>d DEF Die
  <2>4. dirty' \in BOOLEAN /\ acked' \in Content /\ failures' \in 0..MaxFailures
    BY <1>d DEF Die
  <2>5. phase' \in {"up", "stopping", "saving", "exiting", "down"}
    BY <1>d DEF Die
  <2> QED BY <1>d, <2>1, <2>2, <2>3, <2>4, <2>5
<1>13. CASE Exit
  BY <1>d, <1>13 DEF Exit
<1>14. CASE Crash
  BY <1>d, <1>14 DEF Crash
<1>15. CASE PowerCut
  BY <1>d, <1>15 DEF PowerCut
<1>16. CASE UNCHANGED vars
  BY <1>16 DEF vars, lockVars
<1> QED BY <1>1, <1>2, <1>7, <1>8, <1>9, <1>10, <1>11, <1>12, <1>13, <1>14,
           <1>15, <1>16 DEF Next

\* Every variable keeps its type, whatever the tasks, changes and bounds are.
THEOREM TypeCorrect == Spec => []TypeOK
BY InitType, NextType, PTL DEF Spec
-----------------------------------------------------------------------------
\* The inductive invariant.

\* What a step does to the function of write threads, spelled out.
LEMMA SetStageEffect ==
    ASSUME TypeOK, NEW t \in Task, NEW s \in Stage, SetStage(t, s)
    PROVE  /\ thread'[t].stage = s /\ thread'[t].data = thread[t].data
           /\ \A u \in Task \ {t} : thread'[u] = thread[u]
<1>1. thread[t] \in [stage : Stage, data : Content]
  BY DEF TypeOK, Thread
<1>2. thread'[t] = [thread[t] EXCEPT !.stage = s]
  BY DEF SetStage, TypeOK
<1>3. thread'[t].stage = s /\ thread'[t].data = thread[t].data
  BY <1>1, <1>2
<1> QED BY <1>3 DEF SetStage, TypeOK

LEMMA WriteLockedEffect ==
    ASSUME TypeOK, NEW t \in Task, NEW content, WriteLocked(t, content)
    PROVE  /\ thread'[t].stage = "temp" /\ thread'[t].data = content
           /\ \A u \in Task \ {t} : thread'[u] = thread[u]
           /\ dirty' = FALSE
           /\ holder' = holder /\ waiters' = waiters /\ job' = job
BY DEF WriteLocked, TypeOK

\* A task that runs under the lock does so while the process serves, and no
\* write is in flight.
LEMMA RunFacts ==
    ASSUME IInv, NEW t \in Task, Run(t)
    PROVE  /\ phase = "up" /\ t # Shutdown /\ holder = t
           /\ \A u \in Task : thread[u].stage = "none"
<1>1. HasLock(t) /\ job[t].kind \in {"mutate", "note", "flush", "force", "replace"}
  BY DEF Run, BeginMutate, BeginNote, Refuse, SkipFlush, BeginFlush, BeginReplace
<1>2. t # Shutdown
  BY <1>1 DEF IInv, LockInv
<1>3. phase = "up"
  BY <1>1, <1>2, TaskFacts DEF IInv, LockInv, HasLock
<1>4. \A u \in Task : thread[u].stage = "none"
  BY <1>1, <1>3 DEF IInv, WriterInv, HasLock
<1> QED BY <1>1, <1>2, <1>3, <1>4 DEF HasLock

LEMMA InitInv == Init => IInv
<1> SUFFICES ASSUME Init PROVE IInv
  OBVIOUS
<1>1. TypeOK
  BY InitType
<1>2. AckedSurvives /\ UnsavedIsDirty
  BY DEF Init, AckedSurvives, AckedInMemory, AckedOnDisk, AckedSurvivesPowerCut,
         UnsavedIsDirty
<1>3. LockInv
  BY TaskFacts DEF Init, LockInv, NoJob
<1>4. WriterInv /\ HolderInv
  BY DEF Init, WriterInv, HolderInv, NoThread
<1> QED BY <1>1, <1>2, <1>3, <1>4 DEF IInv

\* Everything in the invariant but the types, for the steps below.
Rest == AckedSurvives /\ UnsavedIsDirty /\ LockInv /\ WriterInv /\ HolderInv

LEMMA StartInv == IInv /\ Start => Rest'
<1> SUFFICES ASSUME IInv, Start PROVE Rest'
  OBVIOUS
<1>1. AckedSurvives' /\ UnsavedIsDirty'
  BY DEF IInv, Start, AckedSurvives, AckedInMemory, AckedOnDisk,
         AckedSurvivesPowerCut, UnsavedIsDirty
<1>2. LockInv'
  BY TaskFacts DEF IInv, LockInv, Start
<1>3. WriterInv' /\ HolderInv'
  BY TaskFacts DEF IInv, LockInv, WriterInv, HolderInv, Start, NoThread
<1> QED BY <1>1, <1>2, <1>3 DEF Rest

LEMMA CallInv ==
    ASSUME IInv, NEW t \in Task, NEW j \in JobsOf(t), Call(t, j)
    PROVE  Rest'
<1> USE DEF IInv, TypeOK
<1>1. LockInv'
  <2>1. phase = "up" /\ phase' = "up" /\ t \in Task \ {Shutdown}
    BY DEF Call
  <2>2. waiters' \in Seq(Task \ {Shutdown}) /\ holder' # Shutdown
    <3>1. holder \in (Task \ {Shutdown}) \cup {NoTask} /\ waiters \in Seq(Task \ {Shutdown})
      BY <2>1 DEF LockInv, Call
    <3>2. waiters' \in Seq(Task \ {Shutdown})
          /\ holder' \in (Task \ {Shutdown}) \cup {NoTask}
      BY <2>1, <3>1, EnqueueType DEF Call
    <3> QED BY <3>2, TaskFacts
  <2>3. job'[Shutdown] = job[Shutdown]
    BY <2>1, TaskFacts DEF Call
  <2> QED BY <2>1, <2>2, <2>3 DEF LockInv
<1>2. holder' = holder \/ (holder = NoTask /\ holder' = t)
  BY DEF Call, Enqueue
<1>3. holder = NoTask => \A u \in Task : thread[u].stage = "none"
  BY TaskFacts DEF WriterInv, Call
<1>j. \A u \in Task : job[u].kind # "none" => job'[u].kind # "none"
  <2>1. j.kind # "none"
    BY DEF JobsOf
  <2> QED BY <2>1 DEF Call
<1>4. WriterInv'
  BY <1>2, <1>3, <1>j DEF WriterInv, Call
<1>5. HolderInv'
  <2>1. CASE holder' = holder
    <3>1. holder # NoTask /\ thread[holder].stage # "none" => job'[holder] = job[holder] \/ t = holder
      BY DEF Call
    <3>2. holder # NoTask /\ thread[holder].stage # "none" => t # holder
      BY DEF Call, WriterInv, NoJob
    <3> QED BY <2>1, <3>1, <3>2 DEF HolderInv, Call
  <2>2. CASE holder = NoTask /\ holder' = t
    BY <2>2, <1>3 DEF HolderInv, Call
  <2> QED BY <1>2, <2>1, <2>2
<1>6. AckedSurvives'
  BY DEF AckedSurvives, AckedInMemory, AckedOnDisk, AckedSurvivesPowerCut, Call
<1>7. UnsavedIsDirty'
  BY <1>2 DEF UnsavedIsDirty, Call
<1> QED BY <1>1, <1>4, <1>5, <1>6, <1>7 DEF Rest

\* Leave(t) from a state with no write in flight: only the lock moves.
LEMMA LeaveInv ==
    ASSUME IInv, NEW t \in Task, Run(t), Leave(t),
           UNCHANGED <<disk, survivors, acked, phase, failures>>
    PROVE  LockInv' /\ WriterInv' /\ HolderInv'
<1> USE DEF IInv, TypeOK
<1>0. phase = "up" /\ t # Shutdown /\ \A u \in Task : thread[u].stage = "none"
  BY RunFacts
<1>1. waiters' \in Seq(Task \ {Shutdown})
      /\ holder' \in (Task \ {Shutdown}) \cup {NoTask}
  BY <1>0, ReleaseType DEF LockInv, Leave
<1>2. job'[Shutdown] = job[Shutdown]
  BY <1>0, TaskFacts DEF Leave
<1>3. LockInv'
  BY <1>0, <1>1, <1>2, TaskFacts DEF LockInv
<1>4. WriterInv'
  BY <1>0 DEF WriterInv, Leave
<1>5. HolderInv'
  BY <1>0, <1>1 DEF HolderInv, Leave
<1> QED BY <1>3, <1>4, <1>5

\* WriteLocked(t, db') by a task whose promise db' will contain.
LEMMA WriteLockedInv ==
    ASSUME IInv, NEW t \in Task, Run(t), WriteLocked(t, db'),
           acked' \subseteq db', phase' = phase,
           job[t].kind \in {"mutate", "replace"} => job[t].arg \subseteq db'
    PROVE  LockInv' /\ WriterInv' /\ HolderInv' /\ UnsavedIsDirty'
<1> USE DEF IInv, TypeOK
<1>0. /\ phase = "up" /\ t # Shutdown /\ holder = t
      /\ \A u \in Task : thread[u].stage = "none"
  BY RunFacts
<1>1. /\ thread'[t].stage = "temp" /\ thread'[t].data = db'
      /\ \A u \in Task \ {t} : thread'[u].stage = "none"
      /\ holder' = t /\ waiters' = waiters /\ job' = job
  BY <1>0, WriteLockedEffect
<1>2. LockInv'
  BY <1>0, <1>1 DEF LockInv
<1>3. job[t].kind # "none"
  BY DEF Run, BeginMutate, BeginNote, Refuse, SkipFlush, BeginFlush, BeginReplace
<1>4. WriterInv'
  BY <1>0, <1>1, <1>3 DEF WriterInv
<1>5. HolderInv'
  BY <1>0, <1>1 DEF HolderInv
<1>6. UnsavedIsDirty'
  BY <1>0, <1>1, TaskFacts DEF UnsavedIsDirty
<1> QED BY <1>2, <1>4, <1>5, <1>6

LEMMA RunInv == ASSUME IInv, NEW t \in Task, Run(t) PROVE Rest'
<1> USE DEF IInv, TypeOK
<1> USE DEF AckedSurvives, AckedInMemory, AckedOnDisk, AckedSurvivesPowerCut
<1>0. phase = "up" /\ \A u \in Task : thread[u].stage = "none"
  BY RunFacts
<1>1. CASE BeginMutate(t)
  <2>1. /\ WriteLocked(t, db') /\ acked' = acked /\ phase' = phase
        /\ db' = db \cup job[t].arg /\ disk' = disk /\ survivors' = survivors
    BY <1>1 DEF BeginMutate
  <2>2. AckedSurvives'
    BY <2>1, <1>0
  <2>3. acked' \subseteq db' /\ job[t].arg \subseteq db'
    BY <2>1, <1>0
  <2> QED BY <2>1, <2>2, <2>3, WriteLockedInv DEF Rest
<1>2. CASE BeginReplace(t)
  <2>1. /\ WriteLocked(t, db') /\ acked' = acked \cap db' /\ phase' = phase
        /\ db' = job[t].arg /\ disk' = disk /\ survivors' = survivors
    BY <1>2 DEF BeginReplace
  <2>2. AckedSurvives'
    BY <2>1, <1>0
  <2> QED BY <2>1, <2>2, WriteLockedInv DEF Rest
<1>3. CASE BeginFlush(t)
  <2>1. /\ WriteLocked(t, db') /\ acked' = acked /\ phase' = phase
        /\ db' = db /\ disk' = disk /\ survivors' = survivors
        /\ job[t].kind \in {"force", "flush"}
    BY <1>3 DEF BeginFlush
  <2>2. AckedSurvives'
    BY <2>1, <1>0
  <2>3. acked' \subseteq db' /\ job[t].kind \notin {"mutate", "replace"}
    BY <2>1, <1>0
  <2> QED BY <2>1, <2>2, <2>3, WriteLockedInv DEF Rest
<1>4. CASE BeginNote(t)
  <2>1. AckedSurvives' /\ UnsavedIsDirty'
    BY <1>4, <1>0 DEF BeginNote, UnsavedIsDirty
  <2> QED BY <1>4, <2>1, LeaveInv DEF BeginNote, Rest
<1>5. CASE Refuse(t) \/ SkipFlush(t)
  <2>1. /\ Leave(t)
        /\ UNCHANGED <<db, dirty, disk, survivors, acked, phase, failures>>
    BY <1>5 DEF Refuse, SkipFlush
  <2>2. AckedSurvives'
    BY <2>1
  <2>3. db # disk /\ failures = 0 => dirty
    BY <1>0, TaskFacts DEF UnsavedIsDirty
  <2>4. UnsavedIsDirty'
    BY <2>1, <2>3 DEF UnsavedIsDirty
  <2> QED BY <2>1, <2>2, <2>4, LeaveInv DEF Rest
<1> QED BY <1>1, <1>2, <1>3, <1>4, <1>5 DEF Run

LEMMA WriteInv == ASSUME IInv, NEW t \in Task, Write(t) PROVE Rest'
<1> USE DEF IInv, TypeOK
<1>1. ASSUME NEW s \in Stage, SetStage(t, s), thread[t].stage # "none", s # "none",
             UNCHANGED <<lockVars, job, phase>>
      PROVE  LockInv'
  BY <1>1 DEF LockInv, lockVars
<1>2. ASSUME NEW s \in Stage, SetStage(t, s), thread[t].stage # "none", s # "none",
             UNCHANGED <<lockVars, job, phase, acked>>,
             failures' \in {failures, failures + 1}, s = "failed" => failures' # 0
      PROVE  WriterInv'
  <2>1. /\ thread'[t].stage = s /\ thread'[t].data = thread[t].data
        /\ \A u \in Task \ {t} : thread'[u] = thread[u]
    BY <1>2, SetStageEffect
  <2>2. thread[t] # NoThread
    BY <1>2 DEF NoThread
  <2>3. phase # "down"
    BY <2>2 DEF WriterInv
  <2>4. \A u \in Task : thread[u].stage = "failed" => failures' # 0
    BY <1>2, BoundsAssumption DEF WriterInv
  <2> QED BY <1>2, <2>1, <2>3, <2>4 DEF WriterInv, lockVars
<1>3. acked \subseteq thread[t].data /\ (phase = "up" => t = holder)
  BY DEF Write, ThreadRename, ThreadSyncDir, ThreadFail, WriterInv
<1>4. CASE ThreadRename(t)
  <2>1. /\ SetStage(t, "renamed") /\ thread[t].stage = "temp"
        /\ disk' = thread[t].data /\ survivors' = survivors \cup {disk'}
        /\ UNCHANGED <<db, dirty, lockVars, job, acked, phase, failures>>
    BY <1>4 DEF ThreadRename
  <2>2. /\ thread'[t].stage = "renamed" /\ thread'[t].data = thread[t].data
        /\ \A u \in Task \ {t} : thread'[u] = thread[u]
    BY <2>1, SetStageEffect DEF Stage
  <2>3. LockInv' /\ WriterInv'
    BY <2>1, <1>1, <1>2 DEF Stage
  <2>4. AckedSurvives'
    BY <2>1, <1>3 DEF AckedSurvives, AckedInMemory, AckedOnDisk, AckedSurvivesPowerCut
  <2>5. phase = "up" => thread[t].data = db
    BY <2>1, <1>3, TaskFacts DEF HolderInv
  <2>6. UnsavedIsDirty'
    BY <2>1, <2>5 DEF UnsavedIsDirty
  <2>7. HolderInv'
    BY <2>1, <2>2, <2>5, <1>3 DEF HolderInv, lockVars
  <2> QED BY <2>3, <2>4, <2>6, <2>7 DEF Rest
<1>5. CASE ThreadSyncDir(t)
  <2>1. /\ SetStage(t, "done") /\ thread[t].stage = "renamed"
        /\ survivors' = IF DirSyncWorks THEN {disk} ELSE survivors
        /\ UNCHANGED <<db, dirty, lockVars, job, disk, acked, phase, failures>>
    BY <1>5 DEF ThreadSyncDir
  <2>2. /\ thread'[t].stage = "done" /\ thread'[t].data = thread[t].data
        /\ \A u \in Task \ {t} : thread'[u] = thread[u]
    BY <2>1, SetStageEffect DEF Stage
  <2>3. LockInv' /\ WriterInv'
    BY <2>1, <1>1, <1>2 DEF Stage
  <2>4. AckedSurvives'
    BY <2>1 DEF AckedSurvives, AckedInMemory, AckedOnDisk, AckedSurvivesPowerCut
  <2>5. phase = "up" => disk = db
    BY <2>1, <1>3, TaskFacts DEF HolderInv
  <2>6. UnsavedIsDirty'
    BY <2>1, <2>5 DEF UnsavedIsDirty
  <2>7. HolderInv'
    BY <2>1, <2>2, <2>5, <1>3 DEF HolderInv, lockVars
  <2> QED BY <2>3, <2>4, <2>6, <2>7 DEF Rest
<1>6. CASE ThreadFail(t)
  <2>1. /\ SetStage(t, "failed") /\ thread[t].stage = "temp"
        /\ failures' = failures + 1
        /\ UNCHANGED <<db, dirty, lockVars, job, disk, survivors, acked, phase>>
    BY <1>6 DEF ThreadFail
  <2>2. /\ thread'[t].stage = "failed" /\ thread'[t].data = thread[t].data
        /\ \A u \in Task \ {t} : thread'[u] = thread[u]
    BY <2>1, SetStageEffect DEF Stage
  <2>3. failures' # 0
    BY <2>1, BoundsAssumption
  <2>4. LockInv' /\ WriterInv'
    BY <2>1, <2>3, <1>1, <1>2 DEF Stage
  <2>5. AckedSurvives'
    BY <2>1 DEF AckedSurvives, AckedInMemory, AckedOnDisk, AckedSurvivesPowerCut
  <2>6. UnsavedIsDirty'
    BY <2>3 DEF UnsavedIsDirty
  <2>7. HolderInv'
    BY <2>1, <2>2, <1>3 DEF HolderInv, lockVars
  <2> QED BY <2>4, <2>5, <2>6, <2>7 DEF Rest
<1> QED BY <1>4, <1>5, <1>6 DEF Write

\* Only here is a promise made: the write is over, and in phase "up" it wrote
\* what memory holds.
LEMMA ReturnInv == ASSUME IInv, NEW t \in Task, Return(t) PROVE Rest'
<1> USE DEF IInv, TypeOK
<1>1. /\ holder = t /\ thread[t].stage \in {"done", "failed"}
      /\ job' = [job EXCEPT ![t] = NoJob]
      /\ thread' = [thread EXCEPT ![t] = NoThread]
      /\ Release
      /\ phase' = IF t = Shutdown THEN "exiting" ELSE phase
      /\ UNCHANGED <<db, dirty, disk, survivors, failures>>
  BY DEF Return
<1>2. CASE phase = "up"
  <2>1. t # Shutdown /\ phase' = "up"
    BY <1>1, <1>2 DEF LockInv
  <2>2. \A u \in Task : thread'[u].stage = "none"
    BY <1>1, <1>2 DEF WriterInv, NoThread
  <2>3. thread[t].data = db /\ (thread[t].stage = "done" => disk = db)
    BY <1>1, <1>2, TaskFacts DEF HolderInv
  <2>4. thread[t].stage = "done" => Promise(job[t], thread[t].data) \subseteq db
    BY <1>1, <1>2, <2>3, TaskFacts DEF HolderInv, Promise
  <2>5. AckedSurvives'
    <3>1. CASE thread[t].stage = "done"
      <4>1. acked' = acked \cup Promise(job[t], thread[t].data)
        BY <3>1 DEF Return
      <4>2. acked' \subseteq db /\ acked \subseteq disk
        BY <3>1, <4>1, <2>4, <1>2 DEF AckedSurvives, AckedInMemory, AckedOnDisk
      <4>3. DirSyncWorks => survivors = {disk}
        BY <1>1, <1>2, <3>1, TaskFacts DEF HolderInv
      <4> QED BY <1>1, <2>3, <3>1, <4>2, <4>3
              DEF AckedSurvives, AckedInMemory, AckedOnDisk, AckedSurvivesPowerCut
    <3>2. CASE thread[t].stage = "failed"
      <4>1. acked' = acked
        BY <3>2 DEF Return
      <4> QED BY <1>1, <1>2, <4>1
              DEF AckedSurvives, AckedInMemory, AckedOnDisk, AckedSurvivesPowerCut
    <3> QED BY <1>1, <3>1, <3>2
  <2>6. LockInv'
    <3>1. waiters' \in Seq(Task \ {Shutdown})
          /\ holder' \in (Task \ {Shutdown}) \cup {NoTask}
      BY <1>1, <1>2, ReleaseType DEF LockInv
    <3>2. job'[Shutdown] = job[Shutdown]
      BY <1>1, <2>1, TaskFacts
    <3> QED BY <1>2, <2>1, <3>1, <3>2, TaskFacts DEF LockInv
  <2>7. WriterInv' /\ HolderInv'
    <3>1. holder' \in Task \cup {NoTask}
      BY <1>1, ReleaseType
    <3> QED BY <2>1, <2>2, <3>1 DEF WriterInv, HolderInv
  <2>8. UnsavedIsDirty'
    <3>1. thread[t].stage = "failed" => failures # 0
      BY DEF WriterInv
    <3> QED BY <1>1, <2>3, <3>1 DEF UnsavedIsDirty
  <2> QED BY <2>5, <2>6, <2>7, <2>8 DEF Rest
<1>3. CASE phase # "up"
  <2>1. t = Shutdown /\ phase = "saving" /\ phase' = "exiting"
    BY <1>1, <1>3, TaskFacts DEF LockInv
  <2>2. job[t].kind \in {"none", "final"}
    BY <2>1 DEF LockInv
  <2>3. Promise(job[t], thread[t].data) = {}
    BY <2>2 DEF Promise
  <2>4. acked' = acked
    BY <2>3 DEF Return
  <2>5. holder' = NoTask /\ waiters' = <<>>
    BY <1>1, <1>3 DEF LockInv, Release
  <2>6. AckedSurvives' /\ UnsavedIsDirty' /\ HolderInv'
    BY <1>1, <2>1, <2>4, <2>5
       DEF AckedSurvives, AckedInMemory, AckedOnDisk, AckedSurvivesPowerCut,
           UnsavedIsDirty, HolderInv
  <2>7. LockInv'
    BY <1>1, <2>1, <2>5, <1>3, TaskFacts DEF LockInv, NoJob
  <2>8. WriterInv'
    BY <1>1, <2>1, <2>4 DEF WriterInv, NoThread
  <2> QED BY <2>6, <2>7, <2>8 DEF Rest
<1> QED BY <1>2, <1>3

LEMMA OrphanEndsInv == ASSUME IInv, NEW t \in Task, OrphanEnds(t) PROVE Rest'
<1> USE DEF IInv, TypeOK
<1>1. /\ holder # t /\ thread' = [thread EXCEPT ![t] = NoThread]
      /\ UNCHANGED <<db, dirty, lockVars, job, disk, survivors, acked, phase, failures>>
  BY DEF OrphanEnds
<1>2. AckedSurvives' /\ LockInv'
  BY <1>1 DEF AckedSurvives, AckedInMemory, AckedOnDisk, AckedSurvivesPowerCut,
              LockInv, lockVars
<1>3. WriterInv'
  BY <1>1 DEF WriterInv, NoThread, lockVars
<1>4. HolderInv' /\ UnsavedIsDirty'
  BY <1>1, TaskFacts DEF HolderInv, UnsavedIsDirty, lockVars
<1> QED BY <1>2, <1>3, <1>4 DEF Rest

\* The lifespan stops the loops: their writes go on, but they already contain
\* every promise, and no new one can be made.
LEMMA StopLoopsInv == IInv /\ StopLoops => Rest'
<1> SUFFICES ASSUME IInv, StopLoops PROVE Rest'
  OBVIOUS
<1> USE DEF IInv, TypeOK
<1>1. /\ phase = "up" /\ phase' = "stopping"
      /\ job' = [t \in Task |-> NoJob] /\ holder' = NoTask /\ waiters' = <<>>
      /\ UNCHANGED <<db, dirty, disk, survivors, acked, failures>>
  BY DEF StopLoops
<1>2. \A t \in Task : thread'[t] \in {thread[t], NoThread}
  BY DEF StopLoops
<1>3. AckedSurvives' /\ UnsavedIsDirty' /\ HolderInv'
  BY <1>1 DEF AckedSurvives, AckedInMemory, AckedOnDisk, AckedSurvivesPowerCut,
              UnsavedIsDirty, HolderInv
<1>4. LockInv'
  BY <1>1, TaskFacts DEF LockInv, NoJob
<1>5. WriterInv'
  BY <1>1, <1>2 DEF WriterInv, NoThread
<1> QED BY <1>3, <1>4, <1>5 DEF Rest

LEMMA FinalSaveInv ==
    ASSUME IInv, NEW traffic \in {{}} \cup Changes, FinalSave(traffic)
    PROVE  Rest'
<1> USE DEF IInv, TypeOK
<1>1. /\ phase = "stopping" /\ phase' = "saving" /\ db' = db \cup traffic
      /\ holder' = Shutdown /\ waiters' = waiters
      /\ job' = [job EXCEPT ![Shutdown] = [kind |-> "final", arg |-> {}]]
      /\ thread' = [thread EXCEPT ![Shutdown] = [stage |-> "temp", data |-> db']]
      /\ UNCHANGED <<disk, survivors, acked, failures>>
  BY DEF FinalSave
<1>2. AckedSurvives' /\ UnsavedIsDirty' /\ HolderInv'
  BY <1>1 DEF AckedSurvives, AckedInMemory, AckedOnDisk, AckedSurvivesPowerCut,
              UnsavedIsDirty, HolderInv
<1>3. LockInv'
  BY <1>1, TaskFacts DEF LockInv
<1>4. WriterInv'
  <2>1. thread'[Shutdown].stage = "temp" /\ thread'[Shutdown].data = db'
    BY <1>1, TaskFacts
  <2>2. acked' \subseteq db'
    BY <1>2, <1>1 DEF AckedSurvives, AckedInMemory
  <2> QED BY <1>1, <2>1, <2>2 DEF WriterInv
<1> QED BY <1>2, <1>3, <1>4 DEF Rest

\* The process ends, leaving on the disk something that holds every promise.
LEMMA DieInv ==
    ASSUME IInv, Die, acked \subseteq disk',
           DirSyncWorks => \A s \in survivors' : acked \subseteq s
    PROVE  Rest'
<1> USE DEF IInv, TypeOK, Die
<1>1. AckedSurvives' /\ UnsavedIsDirty' /\ HolderInv'
  BY DEF AckedSurvives, AckedInMemory, AckedOnDisk, AckedSurvivesPowerCut,
         UnsavedIsDirty, HolderInv
<1>2. LockInv'
  BY TaskFacts DEF LockInv, NoJob
<1>3. WriterInv'
  BY DEF WriterInv, NoThread
<1> QED BY <1>1, <1>2, <1>3 DEF Rest

LEMMA NextInv == IInv /\ [Next]_vars => IInv'
<1> SUFFICES ASSUME IInv, [Next]_vars PROVE IInv'
  OBVIOUS
<1>1. TypeOK'
  BY NextType DEF IInv
<1>2. Rest'
  <2>1. CASE Start
    BY <2>1, StartInv
  <2>2. ASSUME NEW t \in Task,
               \/ \E j \in JobsOf(t) : Call(t, j)
               \/ Run(t) \/ Write(t) \/ Return(t) \/ OrphanEnds(t)
        PROVE  Rest'
    BY <2>2, CallInv, RunInv, WriteInv, ReturnInv, OrphanEndsInv
  <2>3. CASE StopLoops
    BY <2>3, StopLoopsInv
  <2>4. ASSUME NEW traffic \in {{}} \cup Changes, FinalSave(traffic) PROVE Rest'
    BY <2>4, FinalSaveInv
  <2>5. CASE Exit \/ Crash
    BY <2>5, DieInv
       DEF Exit, Crash, IInv, AckedSurvives, AckedOnDisk, AckedSurvivesPowerCut
  <2>6. CASE PowerCut
    <3>1. \A s \in survivors : acked \subseteq s
      BY <2>6, PowerAssumption DEF PowerCut, IInv, AckedSurvives, AckedSurvivesPowerCut
    <3> QED BY <2>6, <3>1, DieInv DEF PowerCut
  <2>7. CASE UNCHANGED vars
    BY <2>7 DEF IInv, Rest, AckedSurvives, AckedInMemory, AckedOnDisk,
                AckedSurvivesPowerCut, UnsavedIsDirty, LockInv, WriterInv,
                HolderInv, vars, lockVars
  <2> QED BY <2>1, <2>2, <2>3, <2>4, <2>5, <2>6, <2>7 DEF Next
<1> QED BY <1>1, <1>2 DEF IInv, Rest

THEOREM Invariance == Spec => []IInv
BY InitInv, NextInv, PTL DEF Spec

\* What a caller was told is saved stays in memory, in the file and in all that
\* a power cut may leave, for every number of tasks, changes and failures.
THEOREM AckedChangesSurvive == Spec => []AckedSurvives
<1>1. IInv => AckedSurvives
  BY DEF IInv
<1> QED BY <1>1, Invariance, PTL

\* Until a write fails, memory that differs from the file is marked dirty or is
\* being written.
THEOREM UnsavedChangesAreDirty == Spec => []UnsavedIsDirty
<1>1. IInv => UnsavedIsDirty
  BY DEF IInv
<1> QED BY <1>1, Invariance, PTL

\* While the process serves, the file only ever becomes what memory holds.
THEOREM FileOnlyFollowsMemory == Spec => FileFollowsMemory
<1>1. IInv /\ [Next]_vars => [phase = "up" /\ phase' = "up" /\ disk' # disk
                                 => disk' = db']_vars
  <2> SUFFICES ASSUME IInv, Next, phase = "up", phase' = "up", disk' # disk
               PROVE  disk' = db'
    BY DEF vars
  <2>1. PICK t \in Task : ThreadRename(t)
    BY DEF Next, Start, Call, Run, BeginMutate, BeginNote, Refuse, SkipFlush,
           BeginFlush, BeginReplace, Write, ThreadSyncDir, ThreadFail, Return,
           OrphanEnds, StopLoops, FinalSave, Exit, Crash, PowerCut, Die
  <2>2. holder = t /\ thread[t].stage = "temp"
    BY <2>1 DEF ThreadRename, IInv, WriterInv
  <2>3. thread[t].data = db
    BY <2>2, TaskFacts DEF IInv, HolderInv
  <2> QED BY <2>1, <2>3 DEF ThreadRename
<1> QED BY <1>1, Invariance, PTL DEF Spec, FileFollowsMemory
-----------------------------------------------------------------------------
\* Refinement: memory, the file and the promises, seen without the lock, the
\* tasks and the threads, behave as DurableSet allows.

LEMMA InitRefines == Init => Durable!AInit
BY DEF Init, Durable!AInit

LEMMA RunRefines ==
    ASSUME IInv, NEW t \in Task, Run(t), TypeOK'
    PROVE  [Durable!ANext]_(Durable!abstractVars)
<1> USE DEF TypeOK
<1>0. phase = "up" /\ job[t].arg \in Content
  BY RunFacts DEF IInv, Job
<1>1. CASE BeginMutate(t) \/ BeginNote(t)
  <2>1. Durable!AApply
    BY <1>0, <1>1 DEF BeginMutate, BeginNote, Durable!AApply
  <2> QED BY <2>1 DEF Durable!ANext
<1>2. CASE BeginReplace(t)
  <2>1. Durable!ARestore
    BY <1>0, <1>2 DEF BeginReplace, Durable!ARestore
  <2> QED BY <2>1 DEF Durable!ANext
<1>3. CASE Refuse(t) \/ SkipFlush(t) \/ BeginFlush(t)
  BY <1>3 DEF Refuse, SkipFlush, BeginFlush, Durable!abstractVars
<1> QED BY <1>1, <1>2, <1>3 DEF Run

LEMMA WriteRefines ==
    ASSUME IInv, NEW t \in Task, Write(t), IInv'
    PROVE  [Durable!ANext]_(Durable!abstractVars)
<1> USE DEF TypeOK, IInv
<1>1. phase # "down"
  <2>1. thread[t] # NoThread
    BY DEF Write, ThreadRename, ThreadSyncDir, ThreadFail, NoThread
  <2> QED BY <2>1 DEF WriterInv
<1>2. CASE ThreadRename(t)
  <2>1. disk' \in Content /\ acked \subseteq disk'
    BY <1>2 DEF ThreadRename, AckedSurvives, AckedOnDisk
  <2>2. Durable!ASave
    BY <1>1, <1>2, <2>1 DEF ThreadRename, Durable!ASave
  <2> QED BY <2>2 DEF Durable!ANext
<1>3. CASE ThreadSyncDir(t) \/ ThreadFail(t)
  BY <1>3 DEF ThreadSyncDir, ThreadFail, Durable!abstractVars
<1> QED BY <1>2, <1>3 DEF Write

LEMMA ReturnRefines ==
    ASSUME IInv, NEW t \in Task, Return(t), IInv'
    PROVE  [Durable!ANext]_(Durable!abstractVars)
<1> USE DEF TypeOK, IInv
<1>1. phase # "down" /\ phase' # "down"
  <2>1. thread[t] # NoThread
    BY DEF Return, NoThread
  <2> QED BY <2>1 DEF WriterInv, Return
<1>2. acked' \subseteq db /\ acked' \subseteq disk /\ acked \subseteq acked'
  BY <1>1 DEF Return, AckedSurvives, AckedInMemory, AckedOnDisk
<1>3. Durable!APromise
  BY <1>1, <1>2 DEF Return, Durable!APromise
<1> QED BY <1>3 DEF Durable!ANext

LEMMA DieRefines ==
    ASSUME IInv, Die, phase # "down", disk' \in Content, acked \subseteq disk'
    PROVE  [Durable!ANext]_(Durable!abstractVars)
<1>1. Durable!AStop
  BY DEF Die, Durable!AStop
<1> QED BY <1>1 DEF Durable!ANext

LEMMA NextRefines ==
    IInv /\ IInv' /\ [Next]_vars => [Durable!ANext]_(Durable!abstractVars)
<1> SUFFICES ASSUME IInv, IInv', [Next]_vars
             PROVE  [Durable!ANext]_(Durable!abstractVars)
  OBVIOUS
<1> USE DEF TypeOK, IInv
<1>1. CASE Start
  <2>1. Durable!AStart
    BY <1>1 DEF Start, Durable!AStart
  <2> QED BY <2>1 DEF Durable!ANext
<1>2. ASSUME NEW t \in Task, NEW j \in JobsOf(t), Call(t, j)
      PROVE  [Durable!ANext]_(Durable!abstractVars)
  BY <1>2 DEF Call, Durable!abstractVars
<1>3. ASSUME NEW t \in Task, Run(t) \/ Write(t) \/ Return(t)
      PROVE  [Durable!ANext]_(Durable!abstractVars)
  BY <1>3, RunRefines, WriteRefines, ReturnRefines
<1>4. ASSUME NEW t \in Task, OrphanEnds(t)
      PROVE  [Durable!ANext]_(Durable!abstractVars)
  BY <1>4 DEF OrphanEnds, Durable!abstractVars
<1>5. CASE StopLoops
  BY <1>5 DEF StopLoops, Durable!abstractVars
<1>6. ASSUME NEW traffic \in {{}} \cup Changes, FinalSave(traffic)
      PROVE  [Durable!ANext]_(Durable!abstractVars)
  <2>1. Durable!AApply
    BY <1>6 DEF FinalSave, Durable!AApply
  <2> QED BY <2>1 DEF Durable!ANext
<1>7. CASE Exit \/ Crash \/ PowerCut
  <2>1. phase # "down" /\ disk' \in Content /\ acked \subseteq disk' /\ Die
    BY <1>7 DEF Exit, Crash, PowerCut, AckedSurvives, AckedOnDisk, Die
  <2> QED BY <2>1, DieRefines
<1>8. CASE UNCHANGED vars
  BY <1>8 DEF vars, lockVars, Durable!abstractVars
<1> QED BY <1>1, <1>2, <1>3, <1>4, <1>5, <1>6, <1>7, <1>8 DEF Next

\* The store implements DurableSet.
THEOREM StoreKeepsPromises == Spec => KeepsPromises
BY InitRefines, NextRefines, Invariance, PTL
   DEF Spec, KeepsPromises, Durable!ASpec
-----------------------------------------------------------------------------
(***************************************************************************)
(* ClusterStore, the same store with several workers: what holds of the    *)
(* multi-worker promise for every set of workers and changes.  The file    *)
(* lock makes each read-modify-write exclusive, a re-read under it brings  *)
(* the file's content in, so a write only ever adds -- except in the four  *)
(* windows that the history variable "exposed" records.  A get() in its    *)
(* re-read is harmless outside them, because what it will put into memory  *)
(* is as new as the mtime it will record.  unsaved and failed are          *)
(* ClusterStore's dirty and failures.                                      *)
(***************************************************************************)
CONSTANTS Worker, Nobody, Calls, MaxCalls
VARIABLES cache, seen, unsaved, call, reader, flock, file, issued, committed, noted,
          exposed, calls, failed
C == INSTANCE ClusterStore WITH dirty <- unsaved, failures <- failed

USE DEF C!Content

\* ClusterStore's assumptions about its constants.
ClusterConstants == C!WorkerAssumption /\ C!CallsAssumption /\ C!BoundsAssumption
LEMMA ClusterFacts ==
    ASSUME ClusterConstants
    PROVE  /\ Nobody \notin Worker
           /\ Calls \subseteq {"mutate", "note", "flush", "force", "replace"}
           /\ MaxCalls \in Nat /\ MaxFailures \in Nat
BY DEF ClusterConstants, C!WorkerAssumption, C!CallsAssumption, C!BoundsAssumption

LEMMA ClusterIdleType == C!Idle \in C!Call
BY DEF C!Idle, C!Call, C!Stage

LEMMA ClusterNotReadingType == C!NotReading \in C!Reader /\ C!NotReading.at = "none"
BY DEF C!NotReading, C!Reader

\* A call with another stage is a call.
LEMMA ClusterSetStageEffect ==
    ASSUME C!TypeOK, NEW w \in Worker, NEW s \in C!Stage, C!SetStage(w, s)
    PROVE  /\ call' \in [Worker -> C!Call]
           /\ call'[w].stage = s /\ call'[w].kind = call[w].kind
           /\ call'[w].arg = call[w].arg /\ call'[w].ver = call[w].ver
           /\ \A v \in Worker \ {w} : call'[v] = call[v]
<1>1. call[w] \in [stage : C!Stage,
                   kind : {"none", "mutate", "note", "flush", "force", "replace"},
                   arg : C!Content, ver : Nat]
  BY DEF C!TypeOK, C!Call
<1>2. call'[w] = [call[w] EXCEPT !.stage = s]
  BY DEF C!SetStage, C!TypeOK
<1>3. /\ call'[w].stage = s /\ call'[w].kind = call[w].kind
      /\ call'[w].arg = call[w].arg /\ call'[w].ver = call[w].ver
      /\ call'[w] \in C!Call
  BY <1>1, <1>2 DEF C!Call
<1>4. \A v \in Worker \ {w} : call'[v] = call[v]
  BY DEF C!SetStage, C!TypeOK
<1>5. call' \in [Worker -> C!Call]
  <2>1. call' = [call EXCEPT ![w] = call'[w]]
    BY DEF C!SetStage, C!TypeOK
  <2> QED BY <2>1, <1>3 DEF C!TypeOK
<1> QED BY <1>3, <1>4, <1>5

LEMMA ClusterLoadEffect ==
    ASSUME C!TypeOK, NEW w \in Worker, C!Load(w)
    PROVE  /\ call' \in [Worker -> C!Call]
           /\ call'[w].stage = "loaded" /\ call'[w].ver = file.mtime
           /\ \A v \in Worker \ {w} : call'[v] = call[v]
<1>1. call[w] \in [stage : C!Stage,
                   kind : {"none", "mutate", "note", "flush", "force", "replace"},
                   arg : C!Content, ver : Nat]
  BY DEF C!TypeOK, C!Call
<1>2. call' = [call EXCEPT ![w] = [call[w] EXCEPT !.stage = "loaded", !.ver = file.mtime]]
  BY DEF C!Load, C!TypeOK
<1>3. /\ call'[w] \in C!Call
      /\ call'[w].stage = "loaded" /\ call'[w].ver = file.mtime
  BY <1>1, <1>2 DEF C!TypeOK, C!Call, C!Stage
<1> QED BY <1>2, <1>3 DEF C!TypeOK

LEMMA ClusterPublishEffect ==
    ASSUME C!TypeOK, NEW w \in Worker, NEW data \in C!Content, C!Publish(w, data)
    PROVE  /\ call' \in [Worker -> C!Call] /\ file' \in [data : C!Content, mtime : Nat]
           /\ file'.data = data /\ file'.mtime = file.mtime + 1
           /\ call'[w].stage = "written" /\ call'[w].ver = file'.mtime
           /\ call'[w].arg = call[w].arg
           /\ \A v \in Worker \ {w} : call'[v] = call[v]
<1>0. file.mtime \in Nat
  BY DEF C!TypeOK
<1>1. call[w] \in [stage : C!Stage,
                   kind : {"none", "mutate", "note", "flush", "force", "replace"},
                   arg : C!Content, ver : Nat]
  BY DEF C!TypeOK, C!Call
<1>2. call'[w] = [stage |-> "written", kind |-> call[w].kind,
                 arg |-> call[w].arg, ver |-> file.mtime + 1]
  BY DEF C!Publish, C!TypeOK
<1>3. /\ call'[w].stage = "written" /\ call'[w].ver = file.mtime + 1
      /\ call'[w].arg = call[w].arg /\ call'[w] \in C!Call
  BY <1>0, <1>1, <1>2 DEF C!Call, C!Stage
<1>4. \A v \in Worker \ {w} : call'[v] = call[v]
  BY DEF C!Publish, C!TypeOK
<1>5. call' \in [Worker -> C!Call]
  <2>1. call' = [call EXCEPT ![w] = call'[w]]
    BY DEF C!Publish, C!TypeOK
  <2> QED BY <2>1, <1>3 DEF C!TypeOK
<1>6. file' \in [data : C!Content, mtime : Nat] /\ file'.data = data
      /\ file'.mtime = file.mtime + 1
  BY <1>0 DEF C!Publish
<1> QED BY <1>3, <1>4, <1>5, <1>6

LEMMA ClusterInitType == ASSUME ClusterConstants, C!Init PROVE C!TypeOK
<1>1. call \in [Worker -> C!Call]
  BY ClusterIdleType DEF C!Init
<1>2. cache \in [Worker -> C!Content] /\ noted \in [Worker -> C!Content]
  BY DEF C!Init
<1>3. seen \in [Worker -> Nat] /\ unsaved \in [Worker -> BOOLEAN]
  BY DEF C!Init
<1>4. file \in [data : C!Content, mtime : Nat]
  BY DEF C!Init
<1>5. calls \in 0..MaxCalls /\ failed \in 0..MaxFailures
  BY ClusterFacts DEF C!Init
<1>6. flock \in Worker \cup {Nobody} /\ issued \in C!Content /\ committed \in C!Content
  BY DEF C!Init
<1>7. exposed \subseteq {"mtime", "flush", "replace", "overlap"}
  BY DEF C!Init
<1>8. reader \in [Worker -> C!Reader]
  BY ClusterNotReadingType DEF C!Init
<1> QED BY <1>1, <1>2, <1>3, <1>4, <1>5, <1>6, <1>7, <1>8 DEF C!TypeOK

LEMMA ClusterBeginType ==
    ASSUME ClusterConstants, C!TypeOK, NEW w \in Worker, NEW kind, NEW arg \in C!Content,
           NEW stage \in C!Stage, C!Begin(w, kind, arg, stage)
    PROVE  /\ call' \in [Worker -> C!Call] /\ calls' \in 0..MaxCalls
           /\ call'[w] = [stage |-> stage, kind |-> kind, arg |-> arg, ver |-> 0]
           /\ \A v \in Worker \ {w} : call'[v] = call[v]
           /\ UNCHANGED <<seen, reader, flock, file, committed, noted, exposed, failed>>
<1>1. kind \in {"none", "mutate", "note", "flush", "force", "replace"}
  BY ClusterFacts DEF C!Begin
<1>2. [stage |-> stage, kind |-> kind, arg |-> arg, ver |-> 0] \in C!Call
  BY <1>1 DEF C!Call
<1> QED BY <1>2, ClusterFacts DEF C!Begin, C!TypeOK
-----------------------------------------------------------------------------
LEMMA ClusterNextType ==
    ASSUME ClusterConstants, C!TypeOK, [C!Next]_(C!vars) PROVE C!TypeOK'
<1> USE ClusterFacts DEF C!TypeOK
<1>0. file.data \in C!Content /\ file.mtime \in Nat
  OBVIOUS
<1>1. CASE UNCHANGED C!vars
  BY <1>1 DEF C!vars
<1>2. \A w \in Worker : reader[w].data \in C!Content /\ reader[w].mtime \in Nat
  BY DEF C!Reader
<1>3. ASSUME NEW w \in Worker, C!Get(w) PROVE C!TypeOK'
  <2>1. CASE C!GetRead(w)
    <3>1. [at |-> "read", data |-> file.data, mtime |-> file.mtime] \in C!Reader
      BY <1>0 DEF C!Reader
    <3> QED BY <2>1, <3>1 DEF C!GetRead
  <2>2. CASE C!GetClear(w)
    <3>1. reader' \in [Worker -> C!Reader] /\ cache' \in [Worker -> C!Content]
      BY <2>2 DEF C!GetClear, C!Reader
    <3> QED BY <2>2, <3>1 DEF C!GetClear
  <2>3. CASE C!GetUpdate(w)
    <3>1. cache' \in [Worker -> C!Content] /\ seen' \in [Worker -> Nat]
      BY <1>2, <2>3 DEF C!GetUpdate
    <3>2. reader' \in [Worker -> C!Reader]
      BY <2>3, ClusterNotReadingType DEF C!GetUpdate
    <3> QED BY <2>3, <3>1, <3>2 DEF C!GetUpdate
  <2> QED BY <1>3, <2>1, <2>2, <2>3 DEF C!Get
<1>4. ASSUME NEW w \in Worker, NEW c \in Change, C!BeginMutate(w, c) PROVE C!TypeOK'
  <2>1. PICK kind \in {"mutate", "note"} : C!Begin(w, kind, {c}, "want")
    BY <1>4 DEF C!BeginMutate
  <2>2. {c} \in C!Content /\ "want" \in C!Stage
    BY DEF C!Stage
  <2>3. call' \in [Worker -> C!Call] /\ calls' \in 0..MaxCalls
    BY <2>1, <2>2, ClusterBeginType
  <2> QED BY <1>4, <2>1, <2>3 DEF C!BeginMutate, C!Begin
<1>5. ASSUME NEW w \in Worker, C!BeginFlush(w) PROVE C!TypeOK'
  <2>1. PICK kind \in {"flush", "force"} : C!Begin(w, kind, {}, "want")
    BY <1>5 DEF C!BeginFlush
  <2>2. {} \in C!Content /\ "want" \in C!Stage
    BY DEF C!Stage
  <2>3. call' \in [Worker -> C!Call] /\ calls' \in 0..MaxCalls
    BY <2>1, <2>2, ClusterBeginType
  <2> QED BY <1>5, <2>1, <2>3 DEF C!BeginFlush, C!Begin
<1>6. ASSUME NEW w \in Worker, NEW backup \in C!Content, C!BeginReplace(w, backup)
      PROVE  C!TypeOK'
  <2>1. call' \in [Worker -> C!Call] /\ calls' \in 0..MaxCalls
    BY <1>6, ClusterBeginType DEF C!BeginReplace, C!Stage
  <2> QED BY <1>6, <2>1 DEF C!BeginReplace, C!Begin
<1>7. ASSUME NEW w \in Worker, C!Restart(w) PROVE C!TypeOK'
  BY <1>0, <1>7, ClusterIdleType, ClusterNotReadingType DEF C!Restart
<1>8. ASSUME NEW w \in Worker, C!Step(w) PROVE C!TypeOK'
  <2>1. CASE C!AcquireFlock(w)
    BY <2>1, ClusterSetStageEffect DEF C!AcquireFlock, C!Stage
  <2>2. CASE C!TimeOut(w)
    BY <2>2, ClusterIdleType DEF C!TimeOut
  <2>3. CASE C!Apply(w)
    <3>1. cache' \in [Worker -> C!Content] /\ seen' \in [Worker -> Nat]
      BY <2>3 DEF C!Apply, C!Call
    <3>2. call' \in [Worker -> C!Call] /\ flock' \in Worker \cup {Nobody}
      BY <2>3, ClusterSetStageEffect DEF C!Apply, C!Stage
    <3> QED BY <2>3, <3>1, <3>2 DEF C!Apply, C!Overlapped
  <2>4. CASE C!Refuse(w)
    <3>1. seen' \in [Worker -> Nat]
      BY <2>4 DEF C!Refuse, C!Call
    <3> QED BY <2>4, <3>1, ClusterIdleType DEF C!Refuse, C!Overlapped
  <2>11. CASE C!Load(w)
    <3>1. cache' \in [Worker -> C!Content]
      BY <1>0, <2>11 DEF C!Load
    <3>2. call' \in [Worker -> C!Call]
      BY <1>0, <2>11, ClusterLoadEffect
    <3> QED BY <2>11, <3>1, <3>2 DEF C!Load
  <2>5. CASE C!WriteMutate(w)
    <3>1. cache[w] \in C!Content /\ call[w].arg \in C!Content
      BY DEF C!Call
    <3>2. call' \in [Worker -> C!Call] /\ file' \in [data : C!Content, mtime : Nat]
      BY <2>5, <3>1, ClusterPublishEffect DEF C!WriteMutate
    <3> QED BY <2>5, <3>1, <3>2 DEF C!WriteMutate, C!Overlapped
  <2>6. CASE C!WriteFlush(w)
    <3>1. call' \in [Worker -> C!Call] /\ file' \in [data : C!Content, mtime : Nat]
      BY <2>6, ClusterPublishEffect DEF C!WriteFlush
    <3> QED BY <2>6, <3>1 DEF C!WriteFlush, C!Overlapped
  <2>7. CASE C!WriteReplace(w)
    <3>1. call[w].arg \in C!Content
      BY DEF C!Call
    <3>2. call' \in [Worker -> C!Call] /\ file' \in [data : C!Content, mtime : Nat]
      BY <2>7, <3>1, ClusterPublishEffect DEF C!WriteReplace
    <3> QED BY <2>7, <3>1, <3>2 DEF C!WriteReplace
  <2>8. CASE C!WriteFail(w)
    BY <2>8, ClusterIdleType DEF C!WriteFail
  <2>9. CASE C!Return(w)
    BY <1>0, <2>9, ClusterIdleType DEF C!Return
  <2>10. CASE C!ReturnNote(w)
    <3>1. call[w].arg \in C!Content
      BY DEF C!Call
    <3> QED BY <2>10, <3>1, ClusterIdleType DEF C!ReturnNote
  <2> QED BY <1>8, <2>1, <2>2, <2>3, <2>4, <2>5, <2>6, <2>7, <2>8, <2>9, <2>10, <2>11
          DEF C!Step
<1> QED BY <1>1, <1>3, <1>4, <1>5, <1>6, <1>7, <1>8 DEF C!Next

\* Several workers: every reachable state is well-typed.
THEOREM ClusterTypeCorrect == ASSUME ClusterConstants PROVE C!Spec => []C!TypeOK
<1>1. C!Init => C!TypeOK
  BY ClusterInitType
<1>2. C!TypeOK /\ [C!Next]_(C!vars) => C!TypeOK'
  BY ClusterNextType
<1> QED BY <1>1, <1>2, PTL DEF C!Spec
-----------------------------------------------------------------------------
\* The inductive invariant.

LEMMA ClusterInitInv == ASSUME ClusterConstants, C!Init PROVE C!IInv
<1>1. C!TypeOK
  BY ClusterInitType
<1>2. C!LockInv /\ C!VersionInv /\ C!WindowInv /\ C!ReaderInv
  BY ClusterNotReadingType DEF C!Init, C!LockInv, C!VersionInv, C!WindowInv, C!ReaderInv,
     C!Reading, C!Idle
<1>3. C!NoClobberOutsideWindows /\ C!FreshMeansComplete
  BY DEF C!Init, C!NoClobberOutsideWindows, C!NoClobber, C!FreshMeansComplete
<1> QED BY <1>1, <1>2, <1>3 DEF C!IInv

\* Everything in the invariant but the types.
ClusterRest == /\ C!LockInv /\ C!VersionInv /\ C!ReaderInv /\ C!WindowInv
               /\ C!NoClobberOutsideWindows /\ C!FreshMeansComplete

\* Steps that leave the file alone and bring worker w to a stage with no claim
\* on it.
LEMMA ClusterQuietInv ==
    ASSUME C!IInv, C!TypeOK', NEW w \in Worker,
           UNCHANGED <<file, committed>>, exposed \subseteq exposed',
           \A v \in Worker \ {w} : /\ call'[v] = call[v] /\ reader'[v] = reader[v]
                                   /\ seen'[v] = seen[v] /\ cache'[v] = cache[v],
           call'[w].stage \in {"idle", "want", "noted", "replacing"},
           reader'[w] = reader[w] \/ reader'[w].at = "none",
           exposed' = {} => seen'[w] = seen[w] \/ reader'[w].at = "none",
           seen'[w] <= file.mtime,
           exposed' = {} /\ seen'[w] = file.mtime /\ call'[w].stage # "replacing"
             => file.data \subseteq cache'[w],
           flock' = flock \/ (flock = w /\ flock' = Nobody)
    PROVE  ClusterRest'
<1> USE DEF C!IInv, C!TypeOK
<1>1. C!LockInv'
  BY DEF C!LockInv
<1>2. C!VersionInv'
  BY DEF C!VersionInv, C!Reading
<1>3. C!WindowInv'
  BY DEF C!WindowInv
<1>4. C!ReaderInv'
  BY DEF C!ReaderInv, C!Reading
<1>5. C!NoClobberOutsideWindows' /\ C!FreshMeansComplete'
  BY DEF C!NoClobberOutsideWindows, C!NoClobber, C!FreshMeansComplete
<1> QED BY <1>1, <1>2, <1>3, <1>4, <1>5 DEF ClusterRest

\* A worker whose loop is re-reading has not recorded the file's mtime.
LEMMA ClusterReadersAreStale ==
    ASSUME C!IInv, exposed = {}, NEW w \in Worker, C!Reading(w)
    PROVE  seen[w] # file.mtime
<1>1. seen[w] \in Nat /\ reader[w].mtime \in Nat /\ file.mtime \in Nat
  BY DEF C!IInv, C!TypeOK, C!Reader
<1> QED BY <1>1 DEF C!IInv, C!ReaderInv, C!VersionInv

\* get(): what it puts into memory is at least as new as what it finds there.
LEMMA ClusterGetInv == ASSUME C!IInv, NEW w \in Worker, C!Get(w) PROVE ClusterRest'
<1> USE DEF C!IInv, C!TypeOK
<1>0. /\ file.mtime \in Nat
      /\ \A v \in Worker : seen[v] \in Nat /\ reader[v].mtime \in Nat /\ call[v].ver \in Nat
  BY DEF C!Reader, C!Call
<1>1. CASE C!GetRead(w)
  <2>1. /\ UNCHANGED <<cache, seen, call, flock, file, committed, exposed>>
        /\ reader'[w].at = "read" /\ reader'[w].data = file.data
        /\ reader'[w].mtime = file.mtime /\ seen[w] # file.mtime
        /\ \A v \in Worker \ {w} : reader'[v] = reader[v]
    BY <1>1 DEF C!GetRead, C!Stale
  <2>2. C!LockInv' /\ C!VersionInv'
    BY <1>0, <2>1 DEF C!LockInv, C!VersionInv, C!Reading
  <2>3. C!ReaderInv'
    BY <1>0, <2>1 DEF C!ReaderInv, C!VersionInv, C!Reading
  <2>4. C!WindowInv'
    BY <1>1, <2>1 DEF C!WindowInv, C!GetRead, C!Reading
  <2>5. C!NoClobberOutsideWindows' /\ C!FreshMeansComplete'
    BY <2>1 DEF C!NoClobberOutsideWindows, C!NoClobber, C!FreshMeansComplete
  <2> QED BY <2>2, <2>3, <2>4, <2>5 DEF ClusterRest
<1>2. CASE C!GetClear(w)
  <2>1. /\ UNCHANGED <<seen, call, flock, file, committed, exposed>>
        /\ reader[w].at = "read" /\ reader'[w].at = "cleared"
        /\ reader'[w].mtime = reader[w].mtime /\ reader'[w].data = reader[w].data
        /\ \A v \in Worker \ {w} : reader'[v] = reader[v] /\ cache'[v] = cache[v]
    BY <1>2 DEF C!GetClear, C!Reader
  <2>2. exposed = {} => seen[w] # file.mtime
    BY <2>1, ClusterReadersAreStale DEF C!Reading
  <2>3. C!LockInv' /\ C!VersionInv'
    BY <2>1 DEF C!LockInv, C!VersionInv, C!Reading
  <2>4. C!ReaderInv'
    BY <2>1 DEF C!ReaderInv, C!Reading
  <2>5. C!WindowInv'
    BY <2>1, <2>2 DEF C!WindowInv
  <2>6. C!NoClobberOutsideWindows' /\ C!FreshMeansComplete'
    BY <2>1, <2>2 DEF C!NoClobberOutsideWindows, C!NoClobber, C!FreshMeansComplete
  <2> QED BY <2>3, <2>4, <2>5, <2>6 DEF ClusterRest
<1>3. CASE C!GetUpdate(w)
  <2>1. /\ UNCHANGED <<call, flock, file, committed>> /\ exposed \subseteq exposed'
        /\ reader[w].at = "cleared" /\ reader'[w].at = "none"
        /\ seen'[w] = reader[w].mtime /\ cache'[w] = reader[w].data
        /\ \A v \in Worker \ {w} : /\ reader'[v] = reader[v]
                                   /\ seen'[v] = seen[v] /\ cache'[v] = cache[v]
    BY <1>3, ClusterNotReadingType DEF C!GetUpdate
  <2>2. exposed' = {} => exposed = {} /\ call[w].stage \notin {"loaded", "applied"}
    BY <1>3 DEF C!GetUpdate
  <2>3. exposed' = {} /\ reader[w].mtime = file.mtime => file.data \subseteq cache'[w]
    BY <2>1, <2>2 DEF C!ReaderInv, C!Reading
  <2>4. C!LockInv' /\ C!VersionInv'
    BY <2>1 DEF C!LockInv, C!VersionInv, C!Reading
  <2>5. C!ReaderInv'
    BY <2>1, <2>2 DEF C!ReaderInv, C!Reading
  <2>6. C!WindowInv'
    <3>1. ASSUME exposed' = {}, call[w].stage = "written", call[w].ver = file.mtime
          PROVE  file.data \subseteq cache'[w]
      <4>1. reader[w].mtime <= file.mtime
        BY <2>1 DEF C!VersionInv, C!Reading
      <4>2. call[w].ver <= reader[w].mtime
        BY <2>1, <2>2, <3>1 DEF C!ReaderInv, C!Reading
      <4>3. reader[w].mtime = file.mtime
        <5>1. reader[w].mtime \in Nat /\ file.mtime \in Nat /\ call[w].ver = file.mtime
          BY <1>0, <3>1
        <5> HIDE DEF C!IInv, C!TypeOK
        <5> QED BY <5>1, <4>1, <4>2
      <4> QED BY <2>3, <3>1, <4>3
    <3> QED BY <2>1, <2>2, <3>1 DEF C!WindowInv
  <2>7. C!NoClobberOutsideWindows' /\ C!FreshMeansComplete'
    BY <2>1, <2>2, <2>3 DEF C!NoClobberOutsideWindows, C!NoClobber, C!FreshMeansComplete
  <2> QED BY <2>4, <2>5, <2>6, <2>7 DEF ClusterRest
<1> QED BY <1>1, <1>2, <1>3 DEF C!Get

\* A write that contains all that was there (or, when it is a restore, replaces
\* it), with no sibling in a read-modify-write and no get() of this worker in its
\* re-read.
LEMMA ClusterPublishInv ==
    ASSUME C!IInv, C!TypeOK', NEW w \in Worker, NEW data \in C!Content,
           C!Publish(w, data), UNCHANGED <<cache, seen, reader>>, exposed \subseteq exposed',
           exposed' = {} => /\ data \subseteq cache[w] /\ committed' \subseteq data
                            /\ ~C!SiblingWriting(w) /\ ~C!Reading(w),
           flock' = flock \/ (flock = w /\ flock' = Nobody)
    PROVE  ClusterRest'
<1> USE DEF C!IInv, C!TypeOK
<1>1. /\ file'.data = data /\ file'.mtime = file.mtime + 1
      /\ call'[w].stage = "written" /\ call'[w].ver = file'.mtime
      /\ \A v \in Worker \ {w} : call'[v] = call[v]
  BY ClusterPublishEffect
<1>2. /\ file.mtime \in Nat
      /\ \A v \in Worker : seen[v] \in Nat /\ call[v].ver \in Nat /\ reader[v].mtime \in Nat
  BY DEF C!Call, C!Reader
<1>3. C!LockInv'
  BY <1>1 DEF C!LockInv
<1>4. C!VersionInv'
  BY <1>1, <1>2 DEF C!VersionInv, C!Reading
<1>5. exposed' = {} => exposed = {}
  OBVIOUS
<1>6. C!WindowInv'
  <2> SUFFICES ASSUME exposed' = {}, NEW v \in Worker
               PROVE  /\ call'[v].stage \notin {"loaded", "applied"}
                      /\ call'[v].stage = "written" /\ call'[v].ver = file'.mtime =>
                           file'.data \subseteq cache'[v]
    BY DEF C!WindowInv
  <2>1. CASE v = w
    BY <1>1, <2>1
  <2>2. CASE v # w
    <3>1. call[v].stage \notin {"loaded", "applied"}
      BY <2>2 DEF C!SiblingWriting
    <3>2. call[v].stage = "written" => call[v].ver < file'.mtime
      BY <1>1, <1>2 DEF C!VersionInv
    <3> QED BY <1>1, <1>2, <2>2, <3>1, <3>2
  <2> QED BY <2>1, <2>2
<1>7. C!ReaderInv'
  BY <1>1, <1>2, <1>5 DEF C!ReaderInv, C!VersionInv, C!Reading
<1>8. C!NoClobberOutsideWindows'
  BY <1>1 DEF C!NoClobberOutsideWindows, C!NoClobber
<1>9. C!FreshMeansComplete'
  BY <1>1, <1>2 DEF C!FreshMeansComplete, C!VersionInv
<1> QED BY <1>3, <1>4, <1>6, <1>7, <1>8, <1>9 DEF ClusterRest

LEMMA ClusterBeginInv ==
    ASSUME ClusterConstants, C!IInv, C!TypeOK', NEW w \in Worker,
           \/ \E c \in Change : C!BeginMutate(w, c)
           \/ C!BeginFlush(w)
           \/ \E backup \in C!Content : C!BeginReplace(w, backup)
    PROVE  ClusterRest'
<1> USE DEF C!IInv, C!TypeOK
<1>1. ASSUME NEW kind, NEW arg \in C!Content, C!Begin(w, kind, arg, "want"), cache' = cache
      PROVE  ClusterRest'
  <2>1. /\ call[w].stage = "idle" /\ call'[w].stage = "want"
        /\ \A v \in Worker \ {w} : call'[v] = call[v]
        /\ UNCHANGED <<seen, reader, flock, file, committed, exposed>>
    BY <1>1, ClusterBeginType DEF C!Begin, C!Stage
  <2>2. exposed' = {} /\ seen'[w] = file.mtime => file.data \subseteq cache'[w]
    BY <1>1, <2>1 DEF C!FreshMeansComplete
  <2> QED BY <1>1, <2>1, <2>2, ClusterQuietInv DEF C!VersionInv
<1>2. ASSUME NEW c \in Change, C!BeginMutate(w, c) PROVE ClusterRest'
  <2>1. PICK kind \in {"mutate", "note"} : C!Begin(w, kind, {c}, "want")
    BY <1>2 DEF C!BeginMutate
  <2> QED BY <1>1, <1>2, <2>1 DEF C!BeginMutate
<1>3. CASE C!BeginFlush(w)
  <2>1. PICK kind \in {"flush", "force"} : C!Begin(w, kind, {}, "want")
    BY <1>3 DEF C!BeginFlush
  <2> QED BY <1>1, <1>3, <2>1 DEF C!BeginFlush
<1>4. ASSUME NEW backup \in C!Content, C!BeginReplace(w, backup) PROVE ClusterRest'
  <2>1. /\ call'[w].stage = "replacing"
        /\ \A v \in Worker \ {w} : call'[v] = call[v] /\ cache'[v] = cache[v]
        /\ UNCHANGED <<seen, reader, flock, file, committed, exposed>>
    BY <1>4, ClusterBeginType DEF C!BeginReplace, C!Stage
  <2> QED BY <2>1, ClusterQuietInv DEF C!VersionInv
<1> QED BY <1>2, <1>3, <1>4

LEMMA ClusterLockStepInv ==
    ASSUME ClusterConstants, C!IInv, C!TypeOK', NEW w \in Worker,
           C!AcquireFlock(w) \/ C!TimeOut(w)
    PROVE  ClusterRest'
<1> USE DEF C!IInv, C!TypeOK
<1>1. CASE C!AcquireFlock(w)
  <2>1. /\ call[w].stage = "want" /\ call'[w].stage = "locked" /\ call'[w].ver = call[w].ver
        /\ \A v \in Worker \ {w} : call'[v] = call[v]
    BY <1>1, ClusterSetStageEffect DEF C!AcquireFlock, C!Stage
  <2>2. \A v \in Worker : call[v].stage \notin {"locked", "loaded", "applied"}
    BY <1>1, ClusterFacts DEF C!AcquireFlock, C!LockInv
  <2>3. C!LockInv'
    BY <1>1, <2>1, <2>2 DEF C!AcquireFlock, C!LockInv
  <2>4. C!VersionInv' /\ C!WindowInv'
    BY <1>1, <2>1 DEF C!AcquireFlock, C!VersionInv, C!WindowInv, C!Reading
  <2>5. C!ReaderInv'
    BY <1>1, <2>1 DEF C!AcquireFlock, C!ReaderInv, C!Reading
  <2>6. C!NoClobberOutsideWindows' /\ C!FreshMeansComplete'
    BY <1>1, <2>1 DEF C!AcquireFlock, C!NoClobberOutsideWindows, C!NoClobber, C!FreshMeansComplete
  <2> QED BY <2>3, <2>4, <2>5, <2>6 DEF ClusterRest
<1>2. CASE C!TimeOut(w)
  <2>1. call'[w].stage = "idle" /\ call[w].stage = "want"
    BY <1>2 DEF C!TimeOut, C!Idle
  <2>2. exposed' = {} /\ seen'[w] = file.mtime => file.data \subseteq cache'[w]
    BY <1>2, <2>1 DEF C!TimeOut, C!FreshMeansComplete
  <2> QED BY <1>2, <2>1, <2>2, ClusterQuietInv DEF C!TimeOut, C!VersionInv
<1> QED BY <1>1, <1>2

\* The re-read under the lock: worker w then has all that the file holds, unless
\* its loop has just emptied the memory.
LEMMA ClusterLoadInv == ASSUME C!IInv, C!TypeOK', NEW w \in Worker, C!Load(w) PROVE ClusterRest'
<1> USE DEF C!IInv, C!TypeOK
<1>1. /\ call[w].stage = "locked" /\ flock = w
      /\ cache'[w] = (IF C!Stale(w) THEN file.data ELSE cache[w])
      /\ \A v \in Worker \ {w} : cache'[v] = cache[v]
      /\ UNCHANGED <<seen, reader, flock, file, committed, exposed>>
  BY DEF C!Load, C!LockInv, C!InMutate
<1>2. /\ call'[w].stage = "loaded" /\ call'[w].ver = file.mtime
      /\ \A v \in Worker \ {w} : call'[v] = call[v]
  BY ClusterLoadEffect
<1>3. exposed = {} => file.data \subseteq cache'[w]
  BY <1>1 DEF C!FreshMeansComplete, C!Stale
<1>4. C!LockInv' /\ C!VersionInv'
  BY <1>1, <1>2 DEF C!LockInv, C!VersionInv, C!Reading
<1>5. C!ReaderInv' /\ C!WindowInv'
  BY <1>1, <1>2, <1>3 DEF C!ReaderInv, C!WindowInv, C!Reading
<1>6. C!NoClobberOutsideWindows' /\ C!FreshMeansComplete'
  BY <1>1, <1>2, <1>3 DEF C!NoClobberOutsideWindows, C!NoClobber, C!FreshMeansComplete
<1> QED BY <1>4, <1>5, <1>6 DEF ClusterRest

\* fn, or its exception: outside the windows on a memory that holds the file.
LEMMA ClusterApplyInv ==
    ASSUME C!IInv, C!TypeOK', NEW w \in Worker, C!Apply(w) \/ C!Refuse(w)
    PROVE  ClusterRest'
<1> USE DEF C!IInv, C!TypeOK
<1>1. /\ call[w].stage = "loaded" /\ flock = w
      /\ seen'[w] = call[w].ver
      /\ cache[w] \subseteq cache'[w]
      /\ \A v \in Worker \ {w} : cache'[v] = cache[v] /\ seen'[v] = seen[v]
      /\ UNCHANGED <<reader, file, committed>> /\ exposed \subseteq exposed'
  BY DEF C!Apply, C!Refuse, C!InMutate, C!LockInv, C!Overlapped
<1>2. exposed' = {} => exposed = {} /\ reader[w].at = "none"
  BY DEF C!Apply, C!Refuse, C!Overlapped, C!Reading
<1>3. exposed' = {} => seen'[w] = file.mtime /\ file.data \subseteq cache'[w]
  BY <1>1, <1>2 DEF C!WindowInv
<1>4. seen'[w] <= file.mtime
  BY <1>1 DEF C!VersionInv
<1>5. CASE C!Apply(w) /\ call[w].kind = "mutate"
  <2>1. /\ call'[w].stage = "applied" /\ call'[w].arg = call[w].arg
        /\ \A v \in Worker \ {w} : call'[v] = call[v]
        /\ flock' = w /\ call[w].arg \subseteq cache'[w]
    BY <1>1, <1>5, ClusterSetStageEffect DEF C!Apply, C!Stage
  <2>2. C!LockInv' /\ C!VersionInv'
    BY <1>1, <1>4, <2>1 DEF C!LockInv, C!VersionInv, C!Reading
  <2>3. C!WindowInv'
    BY <1>1, <1>3, <2>1 DEF C!WindowInv
  <2>5. C!ReaderInv'
    BY <1>1, <1>2, <2>1 DEF C!ReaderInv, C!Reading
  <2>4. C!NoClobberOutsideWindows' /\ C!FreshMeansComplete'
    BY <1>1, <1>3, <2>1 DEF C!NoClobberOutsideWindows, C!NoClobber, C!FreshMeansComplete
  <2> QED BY <2>2, <2>3, <2>4, <2>5 DEF ClusterRest
<1>6. CASE C!Apply(w) /\ call[w].kind # "mutate"
  <2>1. /\ call'[w].stage = "noted" /\ flock' = Nobody
        /\ \A v \in Worker \ {w} : call'[v] = call[v]
    BY <1>6, ClusterSetStageEffect DEF C!Apply, C!Stage
  <2> QED BY <1>1, <1>2, <1>3, <1>4, <2>1, ClusterQuietInv
<1>7. CASE C!Refuse(w)
  <2>1. /\ call'[w].stage = "idle" /\ flock' = Nobody
        /\ \A v \in Worker \ {w} : call'[v] = call[v]
    BY <1>7 DEF C!Refuse, C!Idle
  <2> QED BY <1>1, <1>2, <1>3, <1>4, <2>1, ClusterQuietInv
<1> QED BY <1>5, <1>6, <1>7

LEMMA ClusterWriteInv ==
    ASSUME C!IInv, C!TypeOK', NEW w \in Worker,
           C!WriteMutate(w) \/ C!WriteFlush(w) \/ C!WriteReplace(w) \/ C!WriteFail(w)
    PROVE  ClusterRest'
<1> USE DEF C!IInv, C!TypeOK
<1>1. CASE C!WriteMutate(w)
  <2>1. flock = w /\ flock' = Nobody /\ ~C!SiblingWriting(w)
    BY <1>1 DEF C!WriteMutate, C!LockInv, C!SiblingWriting
  <2>2. exposed = {} => /\ file.data \subseteq cache[w] /\ call[w].arg \subseteq cache[w]
                        /\ committed \subseteq file.data
    BY <1>1 DEF C!WriteMutate, C!WindowInv, C!FreshMeansComplete, C!NoClobberOutsideWindows,
                C!NoClobber
  <2>3. exposed = {} => committed' \subseteq cache[w]
    BY <1>1, <2>2 DEF C!WriteMutate
  <2>4. exposed \subseteq exposed' /\ (exposed' = {} => ~C!Reading(w))
    BY <1>1 DEF C!WriteMutate, C!Overlapped
  <2> QED BY <1>1, <2>1, <2>3, <2>4, ClusterPublishInv DEF C!WriteMutate
<1>2. CASE C!WriteFlush(w)
  <2>1. flock = w /\ flock' = Nobody /\ ~C!SiblingWriting(w)
    BY <1>2 DEF C!WriteFlush, C!LockInv, C!SiblingWriting
  <2>2. exposed' = {} => exposed = {} /\ seen[w] = file.mtime /\ ~C!Reading(w)
    BY <1>2 DEF C!WriteFlush, C!Stale, C!Overlapped
  <2>3. exposed' = {} => committed \subseteq cache[w]
    BY <1>2, <2>2 DEF C!WriteFlush, C!FreshMeansComplete, C!NoClobberOutsideWindows, C!NoClobber
  <2>4. exposed \subseteq exposed' /\ committed' = committed
    BY <1>2 DEF C!WriteFlush, C!Overlapped
  <2> QED BY <1>2, <2>1, <2>2, <2>3, <2>4, ClusterPublishInv DEF C!WriteFlush
<1>3. CASE C!WriteReplace(w)
  <2>1. call[w].arg \in C!Content
    BY DEF C!Call
  <2>2. /\ exposed' = {} => cache[w] = call[w].arg /\ ~C!SiblingWriting(w) /\ ~C!Reading(w)
        /\ exposed \subseteq exposed' /\ committed' = call[w].arg
    BY <1>3 DEF C!WriteReplace
  <2> QED BY <1>3, <2>1, <2>2, ClusterPublishInv DEF C!WriteReplace
<1>4. CASE C!WriteFail(w)
  <2>1. /\ call'[w].stage = "idle" /\ exposed \subseteq exposed'
        /\ \A v \in Worker \ {w} : call'[v] = call[v]
        /\ UNCHANGED <<cache, seen, reader, file, committed>>
        /\ flock' = flock \/ (flock = w /\ flock' = Nobody)
    BY <1>4 DEF C!WriteFail, C!Idle
  <2>2. exposed' = {} => exposed = {} /\ call[w].stage # "replacing"
    BY <1>4 DEF C!WriteFail
  <2>3. exposed' = {} /\ seen'[w] = file.mtime => file.data \subseteq cache'[w]
    BY <2>1, <2>2 DEF C!FreshMeansComplete
  <2> QED BY <2>1, <2>3, ClusterQuietInv DEF C!VersionInv
<1> QED BY <1>1, <1>2, <1>3, <1>4

\* Back on the event loop: outside the windows the mtime recorded belongs to
\* content this worker holds.
LEMMA ClusterReturnInv ==
    ASSUME C!IInv, C!TypeOK', NEW w \in Worker, C!Return(w) \/ C!ReturnNote(w)
    PROVE  ClusterRest'
<1> USE DEF C!IInv, C!TypeOK
<1>1. CASE C!Return(w)
  <2>1. /\ call[w].stage = "written" /\ call'[w].stage = "idle"
        /\ seen'[w] = file.mtime /\ exposed \subseteq exposed' /\ reader[w].at = "none"
        /\ \A v \in Worker \ {w} : call'[v] = call[v] /\ seen'[v] = seen[v]
        /\ UNCHANGED <<cache, reader, flock, file, committed>>
    BY <1>1 DEF C!Return, C!Idle, C!Reading
  <2>2. exposed' = {} => exposed = {} /\ (call[w].ver = file.mtime \/ seen[w] = file.mtime)
    BY <1>1 DEF C!Return, C!Stale
  <2>3. exposed' = {} => file.data \subseteq cache[w]
    BY <2>1, <2>2 DEF C!WindowInv, C!FreshMeansComplete
  <2> QED BY <2>1, <2>3, ClusterQuietInv
<1>2. CASE C!ReturnNote(w)
  <2>1. /\ call[w].stage = "noted" /\ call'[w].stage = "idle"
        /\ \A v \in Worker \ {w} : call'[v] = call[v]
        /\ UNCHANGED <<cache, seen, reader, flock, file, committed, exposed>>
    BY <1>2 DEF C!ReturnNote, C!Idle
  <2>2. exposed' = {} /\ seen'[w] = file.mtime => file.data \subseteq cache'[w]
    BY <2>1 DEF C!FreshMeansComplete
  <2> QED BY <2>1, <2>2, ClusterQuietInv DEF C!VersionInv
<1> QED BY <1>1, <1>2

LEMMA ClusterRestartInv == ASSUME C!IInv, C!TypeOK', NEW w \in Worker, C!Restart(w) PROVE ClusterRest'
<1> USE DEF C!IInv, C!TypeOK
<1>1. /\ call'[w].stage = "idle" /\ seen'[w] = file.mtime /\ cache'[w] = file.data
      /\ reader'[w].at = "none"
      /\ \A v \in Worker \ {w} : /\ call'[v] = call[v] /\ reader'[v] = reader[v]
                                 /\ seen'[v] = seen[v] /\ cache'[v] = cache[v]
      /\ UNCHANGED <<file, committed, exposed>>
      /\ flock' = flock \/ (flock = w /\ flock' = Nobody)
  BY ClusterNotReadingType DEF C!Restart, C!Idle
<1> QED BY <1>1, ClusterQuietInv

LEMMA ClusterNextInv == ASSUME ClusterConstants, C!IInv, [C!Next]_(C!vars) PROVE C!IInv'
<1>1. C!TypeOK'
  BY ClusterNextType DEF C!IInv
<1>2. CASE UNCHANGED C!vars
  BY <1>1, <1>2 DEF C!vars, C!IInv, C!LockInv, C!VersionInv, C!ReaderInv, C!WindowInv,
                    C!Reading, C!NoClobber, C!NoClobberOutsideWindows, C!FreshMeansComplete
<1>3. CASE C!Next
  <2>1. PICK w \in Worker :
          \/ C!Get(w) \/ C!Step(w) \/ C!Restart(w)
          \/ \E c \in Change : C!BeginMutate(w, c)
          \/ C!BeginFlush(w)
          \/ \E backup \in C!Content : C!BeginReplace(w, backup)
    BY <1>3 DEF C!Next
  <2>2. ClusterRest'
    BY <1>1, <2>1, ClusterGetInv, ClusterBeginInv, ClusterLockStepInv, ClusterLoadInv,
       ClusterApplyInv, ClusterWriteInv, ClusterReturnInv, ClusterRestartInv DEF C!Step
  <2> QED BY <1>1, <2>2 DEF C!IInv, ClusterRest
<1> QED BY <1>2, <1>3

\* Several workers: the inductive invariant holds in every reachable state.
THEOREM ClusterInvariance == ASSUME ClusterConstants PROVE C!Spec => []C!IInv
<1>1. C!Init => C!IInv
  BY ClusterInitInv
<1>2. C!IInv /\ [C!Next]_(C!vars) => C!IInv'
  BY ClusterNextInv
<1> QED BY <1>1, <1>2, PTL DEF C!Spec

\* Outside the four windows no worker's write loses what another has written.
THEOREM NoClobberingOutsideWindows ==
    ASSUME ClusterConstants PROVE C!Spec => []C!NoClobberOutsideWindows
<1>1. C!IInv => C!NoClobberOutsideWindows
  BY DEF C!IInv
<1> QED BY <1>1, ClusterInvariance, PTL

\* Outside the four windows the mtime test never skips a re-read that a worker
\* needs.
THEOREM FreshReadersAreComplete ==
    ASSUME ClusterConstants PROVE C!Spec => []C!FreshMeansComplete
<1>1. C!IInv => C!FreshMeansComplete
  BY DEF C!IInv
<1> QED BY <1>1, ClusterInvariance, PTL
=============================================================================
