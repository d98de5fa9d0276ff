-------------------------------- MODULE Xray --------------------------------
(***************************************************************************)
(* The panel and the xray process that carries the traffic                 *)
(* (xray_manager.py and its callers in main.py), seen from the worker that  *)
(* started xray.                                                            *)
(*                                                                         *)
(* xray is told of users one call at a time, and cannot be asked whom it    *)
(* serves.  The worker keeps a mirror of what it has told it, and every 30  *)
(* seconds brings xray in line with the panel by comparing the panel with   *)
(* the mirror.  The module is about when that comparison can be trusted:    *)
(* unseen, raced, stale and orphaned record when it cannot.                 *)
(***************************************************************************)
EXTENDS Naturals, FiniteSets

CONSTANTS
    User,           \* the accounts
    MaxTransports,  \* how many transports may be enabled
    MaxChanges,     \* bound: changes of the panel's accounts, one fewer for each
                    \* transport after the first
    MaxFailures     \* bound: failed calls and deaths

ASSUME BoundsAssumption ==
    /\ User # {}
    /\ MaxTransports \in Nat \ {0} /\ MaxChanges \in Nat /\ MaxFailures \in Nat

VARIABLES
    row,        \* the account in db["inbounds"]
    key,        \* its uuid, numbered from 1
    transports, \* enabled_transports(settings), by number
    served,     \* served[t][u]: the key xray accepts for u on transport t, 0 for none
    up,         \* is there an xray process, which then holds the ports
    ours,       \* is it the one _process refers to
    config,     \* the clients in the config file
    mirror,     \* _live_uids
    call,       \* what each task is doing
    plan,       \* what the loop has yet to do in this round
    unseen,     \* accounts xray may serve without the mirror having them
    raced,      \* accounts of which two operations overlapped
    stale,      \* accounts xray may know by an old key
    orphaned,   \* did two restarts overlap, or the worker die
    changes, failures

vars == <<row, key, transports, served, up, ours, config, mirror, call, plan,
          unseen, raced, stale, orphaned, changes, failures>>
panel == <<row, key, changes>>
process == <<transports, up, ours, config, orphaned>>

\* "lapsed": enabled, but expired or over its quota; "new" and "gone" have no row.
RowState == {"new", "live", "lapsed", "off", "gone"}
\* "resync" is the first half of sync_user, which is followed by an "add".
Calls == {"remove", "resync", "add"}
Restart == {"write", "stop", "forget", "spawn"}
\* The n-th change, if it is a request that tells xray, is pushed by task n; task
\* 0 is _xray_reconcile_loop.
Task == 1..MaxChanges
Loop == 0
Actor == Task \cup {Loop}
Kinds == 1..transports
Keys == 0..(MaxChanges + 1)
Idle == [at |-> "idle", user |-> CHOOSE u \in User : TRUE, key |-> 0, t |-> 1,
         answered |-> FALSE, ok |-> TRUE]

TypeOK ==
    /\ row \in [User -> RowState]
    /\ key \in [User -> Keys \ {0}]
    /\ transports \in 1..MaxTransports
    /\ served \in [Kinds -> [User -> Keys]]
    /\ up \in BOOLEAN /\ ours \in BOOLEAN
    /\ config \in [User -> Keys]
    /\ mirror \in SUBSET User
    /\ call \in [Actor -> [at : Calls \cup Restart \cup {"idle"}, user : User, key : Keys,
                           t : Kinds, answered : BOOLEAN, ok : BOOLEAN]]
    /\ plan \in [remove : SUBSET User, add : SUBSET User]
    /\ unseen \in SUBSET User /\ raced \in SUBSET User /\ stale \in SUBSET User
    /\ orphaned \in BOOLEAN
    /\ changes \in 0..MaxChanges /\ failures \in 0..MaxFailures

\* running()
Running == up /\ ours
Reloading == \E k \in Actor : call[k].at \in Restart
Busy(u) == \E k \in Actor : call[k].at \in Calls /\ call[k].user = u
InFlight == {u \in User : Busy(u)}

\* _inbound: the clients of the config file are the enabled rows, lapsed or not.
Clients == [u \in User |-> IF row[u] \in {"live", "lapsed"} THEN key[u] ELSE 0]
Listed(clients) == {u \in User : clients[u] # 0}

\* _xray_should_serve
Entitled == {u \in User : row[u] = "live"}

\* The lifespan has just started xray: start filled the mirror, and stop, which
\* it calls next, emptied it.
Init ==
    /\ row \in [User -> {"new", "live", "lapsed"}]
    /\ key = [u \in User |-> 1]
    /\ transports \in 1..MaxTransports
    /\ config = Clients
    /\ served = [t \in Kinds |-> config]
    /\ up = TRUE /\ ours = TRUE
    /\ mirror = {}
    /\ call = [k \in Actor |-> Idle]
    /\ plan = [remove |-> {}, add |-> {}]
    /\ unseen = Listed(config) /\ raced = {} /\ stale = {} /\ orphaned = FALSE
    /\ changes = 0 /\ failures = 0

(***************************************************************************)
(* Changes of the panel's accounts.                                        *)
(***************************************************************************)

Count == changes + transports <= MaxChanges /\ changes' = changes + 1

\* What the panel does to an account; a deleted one does not come back, save in
\* a restored backup.
Changed(u, r) ==
    /\ Count
    /\ row[u] # r /\ row[u] # "gone" /\ r # "new"
    /\ row[u] = "new" => r = "live"
    /\ row' = [row EXCEPT ![u] = r]

\* Expiry, quotas, renewals, the shop, vouchers, imports, the retention sweep,
\* the sharing detection, and everything a sibling worker does: xray is not told.
ChangeQuietly(u, r) ==
    /\ Changed(u, r)
    /\ UNCHANGED <<key, served, process, mirror, call, plan, unseen, raced, stale, failures>>

\* A request handled by a sibling, whose xray_active is false.
RegenerateElsewhere(u) ==
    /\ Count
    /\ row[u] \notin {"new", "gone"}
    /\ key' = [key EXCEPT ![u] = @ + 1]
    /\ stale' = stale \cup {u}
    /\ raced' = IF Busy(u) \/ Reloading THEN raced \cup {u} ELSE raced
    /\ UNCHANGED <<row, served, process, mirror, call, plan, unseen, failures>>

\* The first call of add_user or remove_user leaves for xray.
Send(k, kind, u) ==
    /\ call' = [call EXCEPT ![k] = [Idle EXCEPT !.at = kind, !.user = u, !.key = key'[u]]]
    /\ raced' = IF Busy(u) \/ Reloading THEN raced \cup {u} ELSE raced

\* _xray_sync_user, after the mutation of the row: nothing when xray is not
\* running, else the push that the new row asks for.
SyncUser(k, u) ==
    IF Running
    THEN Send(k, IF row'[u] \in {"live", "lapsed"} THEN "resync" ELSE "remove", u)
    ELSE /\ raced' = IF Reloading THEN raced \cup {u} ELSE raced
         /\ UNCHANGED call

\* api_create_inbound, api_update_inbound, api_delete_inbound and the bulk
\* operations: change the row, then tell xray.
Push(k, u, r) ==
    /\ k = changes + 1
    /\ Changed(u, r)
    /\ UNCHANGED <<key, served, process, mirror, plan, unseen, stale, failures>>
    /\ SyncUser(k, u)

\* Mutant of Regenerate: xray is not told of the new key.
MutantRegenerateUntold(k, u) ==
    /\ Count /\ k = changes'
    /\ row[u] \notin {"new", "gone"}
    /\ key' = [key EXCEPT ![u] = @ + 1]
    /\ UNCHANGED <<row, served, process, mirror, call, plan, raced, unseen, stale, failures>>

\* api_regenerate_uuid
Regenerate(k, u) ==
    /\ Count /\ k = changes'
    /\ row[u] \notin {"new", "gone"}
    /\ key' = [key EXCEPT ![u] = @ + 1]
    /\ UNCHANGED <<row, served, process, mirror, plan, unseen, stale, failures>>
    /\ SyncUser(k, u)

\* api_restore (the backup holds every account as it first was), after which
\* xray is rebuilt; with the rows as they are it is a change of the transports.
Rebuild(k) ==
    /\ Count /\ k = changes'
    /\ \/ UNCHANGED <<row, key>>
       \/ row' = [u \in User |-> "live"] /\ key' = [u \in User |-> 1]
    /\ IF Running
       THEN call' = [call EXCEPT ![k].at = "write"] /\ raced' = raced
       ELSE call' = call /\ raced' = IF Reloading THEN User ELSE raced
    /\ UNCHANGED <<served, process, mirror, plan, unseen, stale, failures>>

(***************************************************************************)
(* add_user, remove_user and sync_user: one call per transport, each       *)
(* awaited.                                                                *)
(***************************************************************************)

\* What the call of a task does when xray gets it: a user xray has keeps its key.
Done(c) ==
    LET old == served[c.t][c.user]
    IN  IF c.at = "add" THEN (IF old = 0 THEN c.key ELSE old) ELSE 0
Do(c) == IF up THEN [served EXCEPT ![c.t][c.user] = Done(c)] ELSE served

\* The task goes on to the next transport, whatever the answer was, or is done.
Answer(k, ok) ==
    LET c == call[k] IN
    call' = [call EXCEPT ![k] =
               IF c.t < transports THEN [c EXCEPT !.t = @ + 1, !.ok = @ /\ ok]
               ELSE [c EXCEPT !.answered = TRUE, !.ok = @ /\ ok]]

\* xray gets the call and answers.  Whether it calls it an error to add a user it
\* has, or to remove one it has not, is its own affair.
Receive(k) ==
    LET c == call[k]
    IN  /\ c.at \in Calls /\ ~c.answered
        /\ \E ok \in BOOLEAN :
             /\ ok => up
             /\ Do(c) # served => ok
             /\ Answer(k, ok)
        /\ served' = Do(c)
        /\ UNCHANGED <<panel, process, mirror, plan, unseen, raced, stale, failures>>

\* The call fails, or is given up after ten seconds, whether or not xray got it.
Fail(k) ==
    LET c == call[k]
    IN  /\ c.at \in Calls /\ ~c.answered
        /\ failures < MaxFailures /\ failures' = failures + 1
        /\ Answer(k, FALSE)
        /\ served' \in {served, Do(c)}
        /\ UNCHANGED <<panel, process, mirror, plan, unseen, raced, stale>>

Answered(k, kind) ==
    call[k].at = kind /\ call[k].answered

\* A request whose push failed restarts xray; the loop leaves it to its next round.
Finish(k, ok) ==
    call' = [call EXCEPT ![k] = [Idle EXCEPT
                           !.at = IF ok \/ k = Loop THEN "idle" ELSE "write"]]

Doubt(u, ok) == unseen' = IF ok THEN unseen \ {u} ELSE unseen \cup {u}

\* Mutant of Removed: the mirror keeps the user.
MutantRemovedKeeps(k) ==
    LET u == call[k].user
        ok == call[k].ok
    IN  /\ Answered(k, "remove")
        /\ Doubt(u, ok)
        /\ stale' = IF ok THEN stale \ {u} ELSE stale
        /\ Finish(k, ok)
        /\ UNCHANGED <<panel, served, process, mirror, plan, raced, failures>>

\* The end of remove_user: the mirror forgets the user, removed or not.
Removed(k) ==
    LET u == call[k].user
        ok == call[k].ok
    IN  /\ Answered(k, "remove")
        /\ mirror' = mirror \ {u}
        /\ Doubt(u, ok)
        /\ stale' = IF ok THEN stale \ {u} ELSE stale
        /\ Finish(k, ok)
        /\ UNCHANGED <<panel, served, process, plan, raced, failures>>

\* sync_user from its remove_user to its add_user: the former's result is ignored.
Resynced(k) ==
    LET u == call[k].user
        ok == call[k].ok
    IN  /\ Answered(k, "resync")
        /\ mirror' = mirror \ {u}
        /\ Doubt(u, ok)
        /\ stale' = IF ok THEN stale \ {u} ELSE stale \cup {u}
        /\ IF Running
           THEN call' = [call EXCEPT ![k].at = "add", ![k].t = 1,
                                     ![k].answered = FALSE, ![k].ok = TRUE]
           ELSE Finish(k, FALSE)
        /\ UNCHANGED <<panel, served, process, plan, raced, failures>>

\* Mutant of Added: the mirror gets the uuid.
MutantAddedKey(k) ==
    LET ok == call[k].ok
    IN  /\ Answered(k, "add")
        /\ mirror' = IF ok THEN mirror \cup {call[k].key} ELSE mirror
        /\ Doubt(call[k].user, ok)
        /\ Finish(k, ok)
        /\ UNCHANGED <<panel, served, process, plan, raced, stale, failures>>

\* The end of add_user: the mirror has the user if every transport took it.
Added(k) ==
    LET u == call[k].user
        ok == call[k].ok
    IN  /\ Answered(k, "add")
        /\ mirror' = IF ok THEN mirror \cup {u} ELSE mirror
        /\ Doubt(u, ok)
        /\ Finish(k, ok)
        /\ UNCHANGED <<panel, served, process, plan, raced, stale, failures>>

(***************************************************************************)
(* _xray_reconcile_loop: the plan is made once a round, the calls follow   *)
(* one by one.                                                             *)
(***************************************************************************)

\* Mutant of MakePlan: who is to be served is taken from the enabled flag.
MutantPlanFromFlag ==
    /\ Running /\ call[Loop].at = "idle"
    /\ plan = [remove |-> {}, add |-> {}]
    /\ plan' = [remove |-> mirror \ Listed(Clients), add |-> Listed(Clients) \ mirror]
    /\ UNCHANGED <<panel, served, process, mirror, call, unseen, raced, stale, failures>>

\* A round begins.
MakePlan ==
    /\ Running /\ call[Loop].at = "idle"
    /\ plan = [remove |-> {}, add |-> {}]
    /\ plan' = [remove |-> mirror \ Entitled, add |-> Entitled \ mirror]
    /\ UNCHANGED <<panel, served, process, mirror, call, unseen, raced, stale, failures>>

\* remove_user and add_user do nothing when xray is not running.
LoopCalls(kind, u) ==
    IF Running THEN Send(Loop, kind, u) ELSE UNCHANGED <<call, raced>>

LoopRemoves(u) ==
    /\ call[Loop].at = "idle" /\ u \in plan.remove
    /\ plan' = [plan EXCEPT !.remove = @ \ {u}]
    /\ UNCHANGED <<panel, served, process, mirror, unseen, stale, failures>>
    /\ LoopCalls("remove", u)

\* The rows are looked up when the removals are done.
LoopAdds(u) ==
    /\ call[Loop].at = "idle" /\ plan.remove = {} /\ u \in plan.add
    /\ plan' = [plan EXCEPT !.add = @ \ {u}]
    /\ UNCHANGED <<panel, served, process, mirror, unseen, stale, failures>>
    /\ \/ LoopCalls("add", u)
       \/ row[u] = "gone" /\ UNCHANGED <<call, raced>>

(***************************************************************************)
(* reload, which is start, in a thread of its own: the loop and the        *)
(* requests go on meanwhile.                                               *)
(***************************************************************************)
WriteConfig(k) ==
    /\ call[k].at = "write"
    /\ config' = Clients /\ mirror' = Listed(Clients)
    /\ raced' = raced \cup InFlight
    /\ orphaned' = (orphaned \/ \E j \in Actor : j # k /\ call[j].at \in Restart \ {"write"})
    /\ call' = [call EXCEPT ![k].at = "stop"]
    /\ UNCHANGED <<panel, transports, served, up, ours, plan, unseen, stale, failures>>

NobodyServed == [t \in Kinds |-> [u \in User |-> 0]]

\* stop, up to the end of the old process, ...
StopProcess(k) ==
    /\ call[k].at = "stop"
    /\ IF Running THEN up' = FALSE /\ served' = NobodyServed
                  ELSE UNCHANGED <<up, served>>
    /\ call' = [call EXCEPT ![k].at = "forget"]
    /\ UNCHANGED <<panel, transports, ours, config, orphaned, mirror, plan, unseen, raced, stale, failures>>

\* ... and from there: the mirror that start has just filled is emptied.
ForgetProcess(k) ==
    /\ call[k].at = "forget"
    /\ ours' = FALSE /\ mirror' = {}
    /\ call' = [call EXCEPT ![k].at = "spawn"]
    /\ UNCHANGED <<panel, transports, served, up, config, orphaned, plan, unseen, raced, stale, failures>>

\* Mutant of Spawn: _process is not set.
MutantSpawnUnheld(k) ==
    /\ call[k].at = "spawn"
    /\ up' = TRUE
    /\ served' = IF up THEN served ELSE [t \in Kinds |-> config]
    /\ unseen' = Listed(config) /\ stale' = {} /\ raced' = raced \cup InFlight
    /\ call' = [call EXCEPT ![k] = Idle]
    /\ UNCHANGED <<panel, transports, ours, config, orphaned, mirror, plan, failures>>

\* Popen: the new process reads the config file, or ends at once when another
\* one still holds the ports.
Spawn(k) ==
    /\ call[k].at = "spawn"
    /\ up' = TRUE /\ ours' = ~up
    /\ served' = IF up THEN served ELSE [t \in Kinds |-> config]
    /\ unseen' = Listed(config)
    /\ stale' = {u \in stale : config[u] # key[u]}
    /\ raced' = raced \cup InFlight
    /\ call' = [call EXCEPT ![k] = Idle]
    /\ UNCHANGED <<panel, transports, config, orphaned, mirror, plan, failures>>

\* xray ends by itself; nothing starts it again.
XrayDies ==
    /\ failures < MaxFailures /\ failures' = failures + 1
    /\ up /\ up' = FALSE /\ served' = NobodyServed
    /\ UNCHANGED <<panel, transports, ours, config, orphaned, mirror, call, plan, unseen, raced, stale>>

\* The worker dies and its xray lives on.  Whoever leads now has no process to
\* talk to, so its xray_active is false.
WorkerDies ==
    /\ failures < MaxFailures /\ failures' = failures + 1
    /\ ours' = FALSE /\ mirror' = {} /\ orphaned' = TRUE
    /\ plan' = [remove |-> {}, add |-> {}]
    /\ call' = [k \in Actor |-> Idle]
    /\ UNCHANGED <<panel, transports, served, up, config, unseen, raced, stale>>

Step(k) == \/ Receive(k) \/ Removed(k) \/ Resynced(k) \/ Added(k)
           \/ WriteConfig(k) \/ StopProcess(k) \/ ForgetProcess(k) \/ Spawn(k)
LoopStep == MakePlan \/ \E u \in User : LoopRemoves(u) \/ LoopAdds(u)
Change == \/ \E u \in User, r \in RowState :
                ChangeQuietly(u, r) \/ \E k \in Task : Push(k, u, r)
          \/ \E u \in User : RegenerateElsewhere(u) \/ \E k \in Task : Regenerate(k, u)
          \/ \E k \in Task : Rebuild(k)

Next == \/ Change \/ LoopStep \/ XrayDies \/ WorkerDies
        \/ \E k \in Actor : Step(k) \/ Fail(k)

Spec == Init /\ [][Next]_vars

\* A call of xray's API returns or is given up, the threads run, and the loop
\* makes a round every 30 seconds and goes through each of its plans.
Fairness ==
    /\ \A k \in Actor : WF_vars(Step(k))
    /\ WF_vars(MakePlan)
    /\ \A u \in User : WF_vars(LoopRemoves(u)) /\ WF_vars(LoopAdds(u))
FairSpec == Spec /\ Fairness

(***************************************************************************)
(* Properties.                                                             *)
(***************************************************************************)
Settled(u) == Running /\ ~Reloading /\ ~Busy(u)

\* The mirror describes xray, account by account and on every transport, save
\* for the accounts xray got from its config file or of which a call failed, and
\* for those of which two operations overlapped: what
\* _xray_reconcile_loop compares with the panel is what xray does
\* (xray_manager.py, "this mirrors what has been pushed in").
MirrorTells ==
    \A u \in User : Settled(u) /\ u \notin unseen \cup raced =>
        \A t \in Kinds : (u \in mirror) <=> (served[t][u] # 0)

\* "A rotated uuid must reach xray, or the old credential keeps working"
\* (api_regenerate_uuid): whatever restarts, failures and other pushes come in
\* between, an old key works on no transport once the push is done, save one
\* rotated by a sibling worker or whose removal failed (stale), or raced.
OldKeyIsGone ==
    \A u \in User : Settled(u) /\ u \notin stale \cup raced =>
        \A t \in Kinds : served[t][u] \in {0, key[u]}

\* The process that serves is the one the panel can talk to and stop, unless two
\* restarts overlapped or the worker died: the customers of an orphaned one can
\* never be cut off again.
XrayIsManaged == up => ours \/ orphaned

\* The reconcile loop heals (_xray_reconcile_loop, "heals a live API call that
\* silently failed"): an account that should be served comes to be served on every
\* transport, unless operations on it raced.
EntitledAreServed ==
    \A u \in User :
        (u \in Entitled /\ Running) ~>
          (u \notin Entitled \/ ~Running \/ u \in raced
             \/ \A t \in Kinds : served[t][u] # 0)

\* An account that should not be served comes to be cut off, if the mirror knows
\* of it.
UnentitledAreCutOff ==
    \A u \in User :
        (u \notin Entitled /\ Running) ~>
          (u \in Entitled \/ ~Running \/ u \in raced \cup unseen
             \/ \A t \in Kinds : served[t][u] = 0)

\* In short: what xray serves comes to be what the panel grants.
Reconciles == EntitledAreServed /\ UnentitledAreCutOff

\* "an expired customer would keep working unless they are actually removed" and
\* "Diffing the whole set instead covers all of them" (main.py, _xray_should_serve
\* and _xray_reconcile_loop): an account that lapses is cut off.  It is not if it
\* lapses between the start of xray, whose stop() has emptied the mirror, and the
\* first round of the loop: it is not wanted then, and not in the mirror either.
LapsedAreCutOff ==
    \A u \in User :
        (row[u] = "lapsed" /\ Running) ~>
          (row[u] # "lapsed" \/ ~Running \/ \A t \in Kinds : served[t][u] = 0)
=============================================================================
