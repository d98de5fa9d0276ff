-------------------------------- MODULE Jobs --------------------------------
(***************************************************************************)
(* The jobs that one worker does for all of them (main.py, notify.py,      *)
(* LeaderLock in cluster.py): alerts for the seller and nudges for the      *)
(* customers, the health of an entry point, the detection of shared         *)
(* accounts, and the cleanup of expired ones.                              *)
(*                                                                         *)
(* Each job can be switched off; here the panel has one of them on.  An     *)
(* alert is sent first and recorded afterwards, a change of state is        *)
(* recorded first and told afterwards, and both records live in the db that *)
(* other workers rewrite.  A call of the store is one step here, or two when *)
(* it writes: the thread that holds the file lock, and its return to the     *)
(* loop, which reads the mtime.  ClusterStore has the same calls in all      *)
(* their steps.                                                            *)
(* forgotten and overtaken record why a job may say a thing twice or act on *)
(* what is no longer so.                                                   *)
(***************************************************************************)
EXTENDS Naturals, Sequences, SequencesExt

CONSTANTS
    Worker,       \* the worker processes
    Nobody,       \* the leader lock is free
    OwnerAlert,   \* (account, kind) pairs the seller is alerted of
    Nudge,        \* (account, kind) pairs a customer is nudged about
    MaxRecords,   \* MAX_ALERT_RECORDS
    Threshold,    \* health_fail_threshold
    DisableAfter, DeleteAfter, \* cleanup_disable_days, cleanup_delete_days
    MaxTime,      \* bound: the days
    MaxTroubles,  \* bound: crashes, stops, failed sends and failed writes
    MaxWrites     \* bound: writes and changes by everything else

ASSUME NobodyAssumption == Nobody \notin Worker
ASSUME KindsAssumption == OwnerAlert \cap Nudge = {} /\ "state" \notin OwnerAlert \cup Nudge
ASSUME BoundsAssumption ==
    /\ MaxRecords \in Nat \ {0}
    /\ {Threshold, DisableAfter, DeleteAfter, MaxTime, MaxTroubles, MaxWrites} \subseteq Nat

VARIABLES
    on,         \* the job that is switched on
    auto,       \* health_auto_disable or sharing_auto_disable
    alive,      \* the workers that run
    lock,       \* who holds leader.lock
    file,       \* db.json
    mem,        \* each worker's store.db
    fresh,      \* has it the file's mtime
    dirty,      \* each worker's _dirty
    late,       \* workers that have written and not returned to the loop
    round,      \* what each worker is doing
    told,       \* alerts that went out within ALERT_COOLDOWN
    lastTold,   \* the last change of state the seller knows of
    forgotten,  \* records of what was told that were lost, "state" for lastTold
    paid,       \* the day up to which the customer has paid
    overtaken,  \* workers whose cleanup plan was made before a renewal
    now, troubles, writes

vars == <<on, auto, alive, lock, file, mem, fresh, dirty, late, round, told,
          lastTold, forgotten, paid, overtaken, now, troubles, writes>>
settings == <<on, auto>>
store == <<file, mem, fresh, dirty, late>>
bounds == <<paid, now, troubles, writes>>

Alert == OwnerAlert \cup Nudge

\* alerts_sent, oldest record first; an entry point's fail_count; alerted_down or
\* sharing_flagged; and the enabled, expire_at of an account or entry point, which
\* may be deleted.
Db == [sent : Seq(Alert), fails : Nat, marked : BOOLEAN, enabled : BOOLEAN,
       expiry : 0..(MaxTime + 1), exists : BOOLEAN]
Idle == [at |-> "idle", todo |-> {}, done |-> <<>>, what |-> "none", asked |-> FALSE]

TypeOK ==
    /\ on \in {"alerts", "health", "sharing", "cleanup"} /\ auto \in BOOLEAN
    /\ alive \in SUBSET Worker /\ lock \in alive \cup {Nobody}
    /\ file \in Db /\ mem \in [Worker -> Db]
    /\ \A d \in {file} \cup {mem[w] : w \in Worker} :
         Len(d.sent) <= MaxRecords /\ IsInjective(d.sent)
    /\ fresh \in [Worker -> BOOLEAN] /\ dirty \in [Worker -> BOOLEAN]
    /\ late \in SUBSET Worker
    /\ round \in [Worker -> [at : {"idle", "nudge", "alert", "probe", "tell", "apply"},
                             todo : SUBSET Alert, done : Seq(Alert),
                             what : {"none", "down", "up", "disable", "delete"},
                             asked : BOOLEAN]]
    /\ told \in SUBSET Alert /\ lastTold \in {"none", "down", "up"}
    /\ forgotten \in SUBSET (Alert \cup {"state"})
    /\ paid \in 0..(MaxTime + 1) /\ overtaken \in SUBSET Worker
    /\ now \in 0..MaxTime /\ troubles \in 0..MaxTroubles /\ writes \in 0..MaxWrites

Init ==
    /\ on \in {"alerts", "health", "sharing", "cleanup"}
    /\ auto \in BOOLEAN /\ (on \in {"alerts", "cleanup"} => auto = FALSE)
    /\ alive = Worker /\ lock = Nobody
    /\ file = [sent |-> <<>>, fails |-> 0, marked |-> FALSE, enabled |-> TRUE,
               expiry |-> 1, exists |-> TRUE]
    /\ mem = [w \in Worker |-> file]
    /\ fresh = [w \in Worker |-> TRUE] /\ dirty = [w \in Worker |-> FALSE] /\ late = {}
    /\ round = [w \in Worker |-> Idle]
    /\ told = {} /\ lastTold = "none" /\ forgotten = {} /\ overtaken = {}
    /\ paid = file.expiry /\ now = 0 /\ troubles = 0 /\ writes = 0

(***************************************************************************)
(* The store.                                                              *)
(***************************************************************************)
\* What a call works on: _reload_if_stale takes the file when its mtime is another.
Loaded(w) == IF fresh[w] THEN mem[w] ELSE file

\* What is gone when content old is replaced by content new.
Lost(old, new) == (ToSet(old.sent) \ ToSet(new.sent))
                    \cup (IF old.marked # new.marked \/ old.expiry > new.expiry THEN {"state"} ELSE {})
Reread(w) == Lost(mem[w], Loaded(w))

Get(w) == /\ mem' = [mem EXCEPT ![w] = Loaded(w)]
          /\ fresh' = [fresh EXCEPT ![w] = TRUE]
          /\ forgotten' = forgotten \cup Reread(w)
          /\ UNCHANGED <<file, dirty, late>>

\* A call's thread takes the memory to d; a get() of the same worker that had read the
\* file just before the thread did may put that back, before the thread writes or
\* after.  (That a sibling writes between the two reads is left to ClusterStore.)  lost
\* is what the call itself loses.
Touch(w, d, lost) ==
    /\ w \notin late
    /\ \E left \in {d} \cup (IF fresh[w] THEN {} ELSE {file}) :
         /\ mem' = [mem EXCEPT ![w] = left]
         /\ forgotten' = forgotten \cup lost \cup Lost(d, left)

\* mutate(fn, persist=False), with fn taking Loaded(w) to d.
Note(w, d, lost) ==
    /\ Touch(w, d, lost)
    /\ fresh' = [fresh EXCEPT ![w] = TRUE] /\ dirty' = [dirty EXCEPT ![w] = TRUE]
    /\ UNCHANGED <<file, late>>

\* mutate(fn) and flush(), up to the write and the end of the thread.
Save(w, d, lost) ==
    /\ Touch(w, d, lost) /\ file' \in {mem'[w], d}
    /\ fresh' = [v \in Worker |-> FALSE] /\ dirty' = [dirty EXCEPT ![w] = FALSE]
    /\ late' = late \cup {w}

\* Back on the loop after a write, whose mtime is read only now: a sibling's write in
\* between passes for this worker's own, and what it wrote is missed.
Return(w) ==
    /\ w \in alive \cap late /\ late' = late \ {w}
    /\ fresh' = [fresh EXCEPT ![w] = TRUE]
    /\ forgotten' = forgotten \cup Lost(file, mem[w])
    /\ UNCHANGED <<settings, alive, lock, file, mem, dirty, round, told, lastTold, overtaken, bounds>>

Trouble == troubles < MaxTroubles /\ troubles' = troubles + 1 /\ UNCHANGED <<paid, now, writes>>
Write == writes < MaxWrites /\ writes' = writes + 1 /\ UNCHANGED <<paid, now, troubles>>

\* Anything else a worker does: a get, a change that is saved, or one only noted.
OtherCall(w) ==
    /\ w \in alive /\ Write
    /\ \/ ~fresh[w] /\ Get(w)
       \/ Save(w, Loaded(w), Reread(w)) \/ Note(w, Loaded(w), Reread(w))
    /\ UNCHANGED <<settings, alive, lock, round, told, lastTold, overtaken>>

\* _disk_flush_loop: the memory is written as it is, whatever a sibling wrote.
Flush(w) ==
    /\ w \in alive /\ dirty[w]
    /\ Save(w, mem[w], Lost(file, mem[w]))
    /\ UNCHANGED <<settings, alive, lock, round, told, lastTold, overtaken, bounds>>

(***************************************************************************)
(* Workers.                                                                *)
(***************************************************************************)
\* _is_leader: the lock is free, or this worker has it; it keeps it.
Lead(w) == w \in alive /\ lock \in {Nobody, w} /\ lock' = w

\* What a worker knows that nobody else does when its round ends in mid-air.
Unrecorded(w) == ToSet(round[w].done)
                   \cup (IF round[w].at = "tell" THEN {"state"} ELSE {})
                   \cup UNION {Lost(mem[w], Loaded(v)) : v \in alive}

\* The process dies: its memory goes, and the kernel drops its locks.
Crash(w) ==
    /\ w \in alive /\ Trouble
    /\ alive' = alive \ {w} /\ lock' = IF lock = w THEN Nobody ELSE lock
    /\ round' = [round EXCEPT ![w] = Idle]
    /\ forgotten' = forgotten \cup Unrecorded(w) \cup Lost(mem[w], file)
    /\ overtaken' = overtaken \ {w} /\ late' = late \ {w}
    /\ UNCHANGED <<settings, file, mem, fresh, dirty, told, lastTold>>

\* The lifespan ends: the tasks are cancelled, the memory is written as it is, and
\* the lock released.
Stop(w) ==
    /\ w \in alive /\ Trouble
    /\ alive' = alive \ {w} /\ lock' = IF lock = w THEN Nobody ELSE lock
    /\ round' = [round EXCEPT ![w] = Idle]
    /\ file' = mem[w] /\ mem' = mem /\ dirty' = [dirty EXCEPT ![w] = FALSE]
    /\ fresh' = [v \in Worker |-> FALSE]
    /\ forgotten' = forgotten \cup Unrecorded(w) \cup Lost(file, mem[w])
    /\ overtaken' = overtaken \ {w} /\ late' = late \ {w}
    /\ UNCHANGED <<settings, told, lastTold>>

Restart(w) ==
    /\ w \notin alive /\ alive' = alive \cup {w}
    /\ mem' = [mem EXCEPT ![w] = file] /\ fresh' = [fresh EXCEPT ![w] = TRUE]
    /\ dirty' = [dirty EXCEPT ![w] = FALSE]
    /\ UNCHANGED <<settings, lock, file, late, round, told, lastTold, forgotten, overtaken, bounds>>

(***************************************************************************)
(* _notify_loop.  The thresholds stay crossed: every alert is due whenever *)
(* should_alert lets it.                                                   *)
(***************************************************************************)
\* Mutant of Due: one alert of an account keeps its other alerts back.
MutantDueOncePerUser(d, alerts) == IF ToSet(d.sent) \cap alerts = {} THEN alerts ELSE {}

Due(d, alerts) == alerts \ ToSet(d.sent)

\* A round begins: who is to be nudged.
StartRound(w) ==
    /\ on = "alerts" /\ round[w].at = "idle" /\ Lead(w)
    /\ Get(w)
    /\ round' = [round EXCEPT ![w] = [Idle EXCEPT !.at = "nudge", !.todo = Due(Loaded(w), Nudge)]]
    /\ UNCHANGED <<settings, alive, told, lastTold, overtaken, bounds>>

\* The message goes out, which is what counts for the one who gets it.
Deliver(w, k) ==
    /\ round' = [round EXCEPT ![w].todo = @ \ {k}, ![w].done = Append(@, k)]
    /\ told' = told \cup {k} /\ forgotten' = forgotten \ {k}

\* _deliver_customer_nudges: a customer who blocked the bot counts as nudged; only
\* an error of another kind ends the nudging.
SendNudge(w, k) ==
    /\ round[w].at = "nudge" /\ k \in round[w].todo
    /\ \/ Deliver(w, k) /\ UNCHANGED troubles
       \/ /\ Trouble
          /\ \/ round' = [round EXCEPT ![w].todo = @ \ {k}, ![w].done = Append(@, k)]
             \/ round' = [round EXCEPT ![w].todo = {}]
          /\ UNCHANGED <<told, forgotten>>
    /\ UNCHANGED <<settings, alive, lock, store, lastTold, overtaken, paid, now, writes>>

\* notify.send_message, for the due ones in the order of the scan; any TelegramError
\* ends the round.
SendAlert(w, k) ==
    /\ round[w].at = "alert" /\ k \in round[w].todo
    /\ k = CHOOSE first \in round[w].todo : TRUE
    /\ \/ Deliver(w, k) /\ UNCHANGED troubles
       \/ Trouble /\ round' = [round EXCEPT ![w].todo = {}] /\ UNCHANGED <<told, forgotten>>
    /\ UNCHANGED <<settings, alive, lock, store, lastTold, overtaken, paid, now, writes>>

Without(sent, k) == IF k \in ToSet(sent) THEN RemoveAt(sent, CHOOSE i \in DOMAIN sent : sent[i] = k)
                                         ELSE sent

\* Mutant of Record: the table may grow one past its limit.
MutantRecordOneMore(sent, k) ==
    LET all == Append(Without(sent, k), k)
    IN  IF Len(all) > MaxRecords + 1 THEN SubSeq(all, Len(all) \div 2 + 1, Len(all)) ELSE all

\* record_alert: the new records come last, and past the limit the older half goes.
Record(sent, k) ==
    LET all == Append(Without(sent, k), k)
    IN  IF Len(all) > MaxRecords THEN SubSeq(all, Len(all) \div 2 + 1, Len(all)) ELSE all
\* What was delivered is recorded in the order in which it went out.
Recorded(d, done) ==
    LET table[i \in 0..Len(done)] ==
            IF i = 0 THEN d.sent ELSE Record(table[i - 1], done[i])
    IN  [d EXCEPT !.sent = table[Len(done)]]

\* That is done in memory only, and not at all when nothing was delivered.
NoteDone(w) ==
    LET old == Loaded(w)  new == Recorded(old, round[w].done)
    IN  IF round[w].done = <<>>
        THEN UNCHANGED <<store, forgotten>>
        ELSE Note(w, new, Reread(w) \cup (ToSet(old.sent) \ ToSet(new.sent))
                            \cup (ToSet(round[w].done) \ ToSet(new.sent)))

\* The nudges have been sent: they are recorded, and _scan_alerts looks who is due.
EndNudges(w) ==
    /\ round[w].at = "nudge" /\ round[w].todo = {}
    /\ NoteDone(w)
    /\ round' = [round EXCEPT ![w] = [Idle EXCEPT !.at = "alert",
                                                  !.todo = Due(mem'[w], OwnerAlert)]]
    /\ UNCHANGED <<settings, alive, lock, told, lastTold, overtaken, bounds>>

\* Mutant of EndAlerts: a round that was cut short records nothing.
MutantEndAlertsEarly(w) ==
    /\ round[w].at = "alert" /\ round[w].todo = {}
    /\ IF Len(round[w].done) < 2 THEN UNCHANGED <<store, forgotten>> ELSE NoteDone(w)
    /\ round' = [round EXCEPT ![w] = Idle]
    /\ UNCHANGED <<settings, alive, lock, told, lastTold, overtaken, bounds>>

EndAlerts(w) ==
    /\ round[w].at = "alert" /\ round[w].todo = {}
    /\ NoteDone(w)
    /\ round' = [round EXCEPT ![w] = Idle]
    /\ UNCHANGED <<settings, alive, lock, told, lastTold, overtaken, bounds>>

\* The mutation gives up waiting for the file lock, and with it the round.
LoseRound(w) ==
    /\ round[w].at \in {"nudge", "alert"} /\ round[w].todo = {} /\ round[w].done # <<>>
    /\ Trouble
    /\ forgotten' = forgotten \cup Unrecorded(w)
    /\ round' = [round EXCEPT ![w] = Idle]
    /\ UNCHANGED <<settings, alive, lock, store, told, lastTold, overtaken>>

\* ALERT_COOLDOWN has passed since k was told and recorded.
CooldownPasses(k) ==
    /\ \A w \in Worker : round[w].at = "idle"
    /\ k \in told \cup ToSet(file.sent) /\ Write
    /\ told' = told \ {k} /\ forgotten' = forgotten \ {k}
    /\ LET Older(d) == [d EXCEPT !.sent = Without(@, k)]
       IN  file' = Older(file) /\ mem' = [w \in Worker |-> Older(mem[w])]
    /\ UNCHANGED <<settings, alive, lock, fresh, dirty, late, round, lastTold, overtaken>>

(***************************************************************************)
(* _health_loop, and the probe a request asks for.                         *)
(***************************************************************************)
\* An entry point that is off is not probed.
StartProbe(w) ==
    /\ on = "health" /\ round[w].at = "idle"
    /\ Get(w) /\ Loaded(w).enabled
    /\ \E asked \in BOOLEAN :
         /\ IF asked THEN w \in alive /\ Write /\ lock' = lock
                     ELSE Lead(w) /\ UNCHANGED bounds
         /\ round' = [round EXCEPT ![w] = [Idle EXCEPT !.at = "probe", !.asked = asked]]
    /\ UNCHANGED <<settings, alive, told, lastTold, overtaken>>

\* One probe's effect on an entry point (fail_count is not counted past the
\* threshold).
Probed(d, ok) ==
    LET fails == IF d.fails < Threshold THEN d.fails + 1 ELSE d.fails
        falls == fails >= Threshold /\ ~d.marked
    IN  IF ok THEN [d EXCEPT !.fails = 0, !.marked = FALSE]
        ELSE [d EXCEPT !.fails = fails, !.marked = @ \/ falls,
                       !.enabled = @ /\ ~(falls /\ auto)]
\* Mutant of Transition: what the job switches off is not reported.
MutantTransitionOfListed(old, new) ==
    IF old.marked = new.marked \/ ~new.enabled THEN "none"
    ELSE IF new.marked THEN "down" ELSE "up"

Transition(old, new) == IF old.marked = new.marked THEN "none"
                        ELSE IF new.marked THEN "down" ELSE "up"

\* _run_health_checks records the result in memory only: persist is worked out
\* before _apply has found any transition.  One that a request found is only
\* shown to the one who asked.
EndProbe(w) ==
    /\ round[w].at = "probe"
    /\ \E ok \in BOOLEAN :
         LET old == Loaded(w)  new == Probed(old, ok)  what == Transition(old, new)
         IN  /\ Note(w, new, Reread(w) \cup (IF round[w].asked THEN Lost(old, new) ELSE {}))
             /\ round' = [round EXCEPT ![w] =
                   IF what = "none" \/ round[w].asked THEN Idle
                   ELSE [Idle EXCEPT !.at = "tell", !.what = what]]
    /\ UNCHANGED <<settings, alive, lock, told, lastTold, overtaken, bounds>>

\* The seller is told of a transition, or is not, and nobody tries again.
Tell(w) ==
    /\ round[w].at = "tell"
    /\ round' = [round EXCEPT ![w] = Idle]
    /\ \/ /\ lastTold' = round[w].what /\ UNCHANGED bounds
          /\ forgotten' = IF {mem[w].marked, file.marked} = {round[w].what = "down"}
                          THEN forgotten \ {"state"} ELSE forgotten
       \/ Trouble /\ forgotten' = forgotten \cup {"state"} /\ UNCHANGED lastTold
    /\ UNCHANGED <<settings, alive, lock, store, told, overtaken>>

\* The seller switches the entry point on again.
Relist(w) ==
    /\ on = "health" /\ w \in alive /\ Write /\ ~Loaded(w).enabled
    /\ Save(w, [Loaded(w) EXCEPT !.enabled = TRUE], Reread(w))
    /\ UNCHANGED <<settings, alive, lock, round, told, lastTold, overtaken>>

(***************************************************************************)
(* _sharing_loop.                                                          *)
(***************************************************************************)
Swept(d, over) == [d EXCEPT !.marked = over,
                            !.enabled = @ /\ ~(over /\ ~d.marked /\ auto)]

\* _run_sharing_check, which saves what it finds; that an account is no longer
\* shared is not told.  When the write fails memory has changed all the same, and
\* the round ends.
Sweep(w) ==
    /\ on = "sharing" /\ round[w].at = "idle" /\ Lead(w)
    /\ \E over \in BOOLEAN :
         LET old == Loaded(w)  new == Swept(old, over)
         IN  \/ /\ Save(w, new, Reread(w)) /\ UNCHANGED bounds
                /\ lastTold' = IF Transition(old, new) = "up" THEN "up" ELSE lastTold
                /\ round' = IF Transition(old, new) # "down" THEN round
                            ELSE [round EXCEPT ![w] = [Idle EXCEPT !.at = "tell", !.what = "down"]]
             \/ /\ Trouble /\ Touch(w, new, Reread(w) \cup Lost(old, new))
                /\ fresh' = [fresh EXCEPT ![w] = TRUE] /\ UNCHANGED <<file, dirty, late, lastTold, round>>
    /\ UNCHANGED <<settings, alive, told, overtaken>>

(***************************************************************************)
(* _cleanup_loop, and the cleanup a request asks for.                      *)
(***************************************************************************)
\* Mutant of Plan: an account is deleted as soon as it may be disabled.
MutantPlanHasty(d) ==
    IF ~d.exists \/ now < d.expiry THEN "none"
    ELSE IF DeleteAfter > 0 /\ now - d.expiry >= DisableAfter THEN "delete"
    ELSE IF now - d.expiry >= DisableAfter /\ d.enabled THEN "disable" ELSE "none"

\* _retention_plan, for one account; DeleteAfter = 0 is never.
Plan(d) ==
    IF ~d.exists \/ now < d.expiry THEN "none"
    ELSE IF DeleteAfter > 0 /\ now - d.expiry >= DeleteAfter THEN "delete"
    ELSE IF now - d.expiry >= DisableAfter /\ d.enabled THEN "disable" ELSE "none"

PlanCleanup(w) ==
    /\ on = "cleanup" /\ round[w].at = "idle"
    /\ (lock' = lock /\ w \in alive) \/ Lead(w)
    /\ Get(w) /\ Plan(Loaded(w)) # "none"
    /\ round' = [round EXCEPT ![w] = [Idle EXCEPT !.at = "apply", !.what = Plan(Loaded(w))]]
    /\ overtaken' = overtaken \ {w}
    /\ UNCHANGED <<settings, alive, told, lastTold, bounds>>

\* _run_cleanup's mutation: the plan is carried out on what it then finds.
ApplyCleanup(w) ==
    /\ round[w].at = "apply"
    /\ Save(w, IF round[w].what = "delete" THEN [Loaded(w) EXCEPT !.exists = FALSE]
               ELSE [Loaded(w) EXCEPT !.enabled = FALSE], Reread(w))
    /\ round' = [round EXCEPT ![w] = Idle] /\ overtaken' = overtaken \ {w}
    /\ UNCHANGED <<settings, alive, lock, told, lastTold, bounds>>

\* A renewal by any worker, which adds a day and does not switch the account on.
Renew(w) ==
    /\ on = "cleanup" /\ w \in alive /\ Loaded(w).exists
    /\ writes < MaxWrites /\ writes' = writes + 1
    /\ LET d == Loaded(w)
           until == (IF d.expiry > now THEN d.expiry ELSE now) + 1
       IN  /\ until <= MaxTime + 1
           /\ Save(w, [d EXCEPT !.expiry = until], Reread(w))
           /\ paid' = IF until > paid THEN until ELSE paid
    /\ overtaken' = overtaken \cup {v \in Worker : round[v].at = "apply"}
    /\ UNCHANGED <<settings, alive, lock, round, told, lastTold, now, troubles>>

Enable(w) ==
    /\ on = "cleanup" /\ w \in alive /\ Write /\ ~Loaded(w).enabled
    /\ Save(w, [Loaded(w) EXCEPT !.enabled = TRUE], Reread(w))
    /\ UNCHANGED <<settings, alive, lock, round, told, lastTold, overtaken>>

NextDay ==
    /\ on = "cleanup" /\ now < MaxTime /\ now' = now + 1
    /\ UNCHANGED <<settings, alive, lock, store, round, told, lastTold, forgotten, overtaken,
                   paid, troubles, writes>>

Alerts(w) == \/ StartRound(w) \/ EndNudges(w) \/ EndAlerts(w)
             \/ \E k \in Alert : SendNudge(w, k) \/ SendAlert(w, k)
Next == \/ \E w \in Worker :
              \/ Alerts(w) \/ LoseRound(w)
              \/ StartProbe(w) \/ EndProbe(w) \/ Tell(w) \/ Relist(w)
              \/ Sweep(w)
              \/ PlanCleanup(w) \/ ApplyCleanup(w) \/ Renew(w) \/ Enable(w)
              \/ OtherCall(w) \/ Flush(w) \/ Return(w) \/ Crash(w) \/ Stop(w) \/ Restart(w)
        \/ \E k \in Alert : CooldownPasses(k)
        \/ NextDay
Spec == Init /\ [][Next]_vars

\* Rounds come round and go on, requests to Telegram are answered, a call returns, and
\* a worker that died is started again.
Fairness == \A w \in Worker : WF_vars(Alerts(w) \/ Return(w) \/ Restart(w))
FairSpec == Spec /\ Fairness

(***************************************************************************)
(* Properties.                                                             *)
(***************************************************************************)
\* "One alert of a given kind per user per this window" (notify.py, ALERT_COOLDOWN),
\* and one message per change of state (_run_health_checks, "report state
\* transitions"): nobody is told a thing again, whoever leads, unless the record
\* that it was told had been lost on a way that forgotten names: in a crash, at a
\* shutdown, with a mutation that gave up, from a table that is full, or in the store:
\* under a sibling's write, to a get() that overlapped the call, or because a
\* sibling's mtime was taken for the worker's own.
ToldOnce ==
    [][/\ \A w \in Worker, k \in Alert :
            (SendNudge(w, k) \/ SendAlert(w, k)) /\ k \in told /\ UNCHANGED troubles => k \in forgotten
       /\ \A w \in Worker :
            Tell(w) /\ round[w].what = lastTold /\ UNCHANGED troubles => "state" \in forgotten]_vars

\* The seller knows: when the worker that leads takes an entry point for dead or an
\* account for shared, the last thing the seller was told is that, or the message
\* or the record was lost.
SellerKnows ==
    \A w \in Worker : (lock = w /\ mem[w].marked /\ round[w].at # "tell") =>
        lastTold = "down" \/ "state" \in forgotten

\* "this deletes paying customers' accounts if it gets them wrong"
\* (_retention_plan): a cleanup, of the loop or of a request, takes an account from
\* nobody who has paid, unless the renewal came between its plan and its mutation,
\* or was itself lost: under a sibling's write, to an overlapping get(), or to a
\* worker that took the mtime of the renewal's write for that of its own.
CleanupSparesThePaid ==
    [][\A w \in Worker : ApplyCleanup(w) =>
         \/ now >= paid + (IF round[w].what = "delete" THEN DeleteAfter ELSE DisableAfter)
         \/ w \in overtaken \/ "state" \in forgotten]_vars

\* "If the leader dies the OS drops the lock and the next worker to poll takes over"
\* (LeaderLock), and a round that a failed send cut short goes on in a later one:
\* again and again there is a time when every alert that is due has gone out or is on
\* record as sent.
AlertsGetOut ==
    (on = "alerts") ~>
        \A k \in Alert : k \in told \/ \E w \in Worker : k \in ToSet(mem[w].sent)
=============================================================================
