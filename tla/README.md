# A verification project for the Peyk panel

Peyk is a panel that sells and serves VLESS-over-WebSocket access: a FastAPI
process (or several) that keeps everything in one JSON file, relays its users'
traffic, and runs a Telegram shop next to it.  This directory holds TLA+ modules
translated from its source, the TLC configurations that check them on small
instances, and TLAPS proofs of the theorems that matter most.

Run from this directory, for example:

    tlc -workers 2 -config MCStore.cfg MCStore
    tlapm StoreProofs.tla

## 1. Inventory of the system

| Component | Source | State it keeps | Operations | What is hard about it |
|---|---|---|---|---|
| Store, one process | storage.py | `db`, `_dirty`, the module's asyncio lock, db.json | `get`, `mutate(persist)`, `flush(force)`, `replace`, start, shutdown | threads write while the loop runs on; failing writes; cancelled loops; crashes, power cuts |
| Store, several workers | storage.py, cluster.py | each worker's `db` and `_mtime`, db.lock, db.json | the same, with a file lock and re-reads | stale memories, who wrote last, lock timeouts |
| Relay sessions and limits | main.py (ws_endpoint, enforcement), cluster.py (journals) | `runtime["active"]`, one journal file per worker | connect, register, first frame, end; sweep; delete, regenerate, restore | dicts captured across awaits; limits counted over workers; sessions that must end |
| Traffic and request accounting | main.py, cluster.py | `pending_traffic`, `pending_requests`, `pending_ips`, usage in the db | count, fold, publish, reset | bytes between buffer, fold and file; resets racing folds |
| Account lifecycle and retention | main.py | `inbounds` | create, update, renew, disable, delete, bulk, cleanup sweep | plans made before the mutation that applies them |
| Login, setup, two-factor | main.py, totp.py | `admin`, `login_attempts`, `twofa`, `sessions_epoch` | setup, login, lockout, codes, password change | checks before an await, single-use codes |
| Resellers | main.py | `resellers`, ownership of accounts | create, quota check, delete | quota checked outside the mutation |
| Shop, vouchers, trials, referrals | main.py, userbot.py | `orders`, `vouchers`, `trial_claims`, `referrals`, `bot_bindings` | order, approve, reject, redeem, claim, settle | exactly once under double taps, redelivery, crashes |
| Customer bot | userbot.py, main.py | `bot_offset`, the batch's pending effects | poll, handle, save, dispatch | what is lost or repeated when the process dies mid-batch |
| Xray data plane | xray_manager.py, main.py | the mirror of live users, the child process | start, stop, add, remove, reconcile, reload | mirror against reality, stale plans, failover |
| Leader and singleton jobs | cluster.py, main.py, notify.py, backup.py | leader.lock, `alerts_sent`, `last_backup` | acquire, notify, backup, self-restore | failover in the middle of a job |
| Health and sharing detection | main.py | endpoint health, ip logs, flags | probe, fold, flag, alert | results applied to a changed list |
| Relay engine | vless_engine.py | per-session counters, buffers, timers | handshake, pumps, idle timeout, close | half-open connections, bounded buffers |
| Worker sizing | cluster.py | none (pure) | resolve_workers, cgroup readers | boundaries, overflow of limits |
| Import, migration, formats | migrate.py, subscription.py, fragments.py, colo_map.py | none (pure) | parse, dedupe, render | conversions |
| OTA, pages, static assets | main.py, templates, static | files | download, swap, exit | I/O |

How they interact: every handler and loop reads through `store.get()` and writes
through `store.mutate(fn)`; live state that is not in the file (sessions, byte
buffers, bot rate limits) is in the module-level dict `runtime`, one per worker;
workers see each other only through db.json, the journal files and the two lock
files.  One event loop per worker runs everything, so tasks interleave exactly
at awaits; threads appear only behind `asyncio.to_thread`.

## 2. Modules

| Module | What it is | Status |
|---|---|---|
| DurableSet | the abstract promise of a store: what was promised is saved | done |
| Store, MCStore, StoreProofs | storage.py in one process; implements DurableSet | done, proved |
| ClusterStore, MCClusterStore | storage.py with several workers and the file lock | done, proved in StoreProofs |
| Sessions, MCSessions, SessionsProofs | sessions of one account, its limits and cut-offs | done, proved |
| Usage, MCUsage, UsageProofs | traffic from the relay to the bill, resets and deletions | done, proved |
| Sales | the abstract promise of a shop: every offer delivered at most once | done |
| Fulfilment, MCFulfilment, FulfilmentProofs | the customers' bot and the shop behind it; implements Sales | done, proved |
| Xray, MCXray, XrayProofs | the panel and the xray process it tells of its users | done, proved |
| Access, MCAccess, AccessProofs | setup, logins, lockout, the second factor, resellers and their quotas | done, proved |
| Relay, MCRelay, RelayProofs | one session of the built-in relay | done, proved |
| Jobs, MCJobs, JobsProofs | the leader lock and what the leader does: alerts, nudges, health, sharing, cleanup | done, proved |

The modules do not instantiate one another, DurableSet and Sales apart: each looks at the
next through what the code relies on.  The inductive invariant of a proof
stands at the head of its Proofs module, that of ClusterStore in its own.  Usage and
Fulfilment describe one process, which has the db to itself, and see the store through
its asyncio lock (first come, first served): what they promise is promised of
`PEYK_WORKERS=1`, or of `auto` on less than about two effective cores (the repository's
README.md:606).  With several workers each has a db of its own, a fold or a bot's note is
in one of them until a flush, a sibling's write makes that one be read again without it,
and a flush of an old memory can bring back usage that a sibling has reset or a voucher
that a sibling has redeemed: those are the windows of ClusterStore, and nothing is claimed
of accounting or sales beyond them.  Sessions sees the account only as live, cut off or
gone, whatever Usage would say of its quota.  Jobs is about several workers and has
each one's copy of the db, with one or two steps per call of the store.

### Store

The content of the database is the set of changes it contains: an older snapshot
is a smaller set, a restore sets it to any set.  `db`, `dirty`, `disk` are
`Store.db`, `Store._dirty` and db.json.  `holder` and `waiters` are the asyncio
lock, first come first served.  Each task that awaits the store has a `job` and
may have a `thread`, the one `asyncio.to_thread` started; a cancelled task leaves
its thread behind (`StopLoops`).  `survivors` is what a power cut may leave in
place of db.json, a rename being durable once the directory has been synced
(`ThreadSyncDir`).  `acked` is a history variable: what returning calls have told
their callers is saved.  One action runs from one await to the next.

### ClusterStore

Each worker's `Store.db` and `_mtime` are `cache[w]` and `seen[w]`; `flock` is
db.lock; the file carries an `mtime` that each write advances.  A call goes
through the stages of `mutate._guarded`, which runs in a thread: waiting for the lock,
re-reading (`Load`), applying fn (`Apply`), writing, letting go, and *then*, on the event
loop again, recording the mtime (`Return`).  Nothing keeps `get()` of the same worker out
meanwhile: it re-reads on the event loop into the same dict, in the three steps of
`_reload_if_stale` (`GetRead`, `GetClear`, `GetUpdate`; `reader[w]` is where it is), and
every step of the thread may fall between them.  `exposed` is a history variable naming
the four places where the protocol's own words do not hold:

* `mtime`: the mtime recorded after the lock was released is a sibling's;
* `overlap`: a `get()` re-read into the memory that its worker's own thread was at work
  on, so that fn may find it empty, or what fn did be overwritten by an older content;
* `flush`: a flush wrote a memory that was older than the file;
* `replace`: a restore, which takes no file lock, overlapped a re-read or a sibling's
  read-modify-write, or failed half way.

That something is exempted does not say it is harmless: the run `cluster_clobber` shows
what the second one costs.

### Sessions

One account, its connection attempts, several workers.  A dict in
`runtime["active"]` is named by the session whose `setdefault` made it, so that
"the dict a session captured" (`home`) and "the dict the map has now" (`slot`)
can differ: the whole difficulty of the code is there.  `registered` is the set
of sessions present in the dict they captured.  `account` says only whether the
account is live, cut off or gone; `key` counts its uuid rotations.  Journals are
sets of sessions published by each worker, as old as the last publication.
Awaits separate `Connect` from `Register` (accept), `Disconnect` from `Forget`
(the close handshakes) and `Forget` from `FinishRestore` (the store).
`AcceptYields` says whether the server's `accept()` lets other tasks run: the
code does not depend on it, its limits do.  `dropped` is a history variable: it
holds "regenerate" or "restore" once such an operation has removed an entry of
the map, which it does whether or not a session still needs the entry.

### Usage

The traffic of one account, in the single-process mode.  Bytes are a set of chunks,
each relayed once, so that a byte counted twice, or never, can be told; a connection
counted against `max_requests` goes the same way.  `pending` is the buffer; `queue` are
the jobs that hold (first) or await the store's lock, each with the chunks it carries;
`writing` says that the first one is waiting for its write, which may fail.  `used` and
`total` are the account's and the panel's counters; `popped`, `lost` and `settled`
are history variables: what was forgotten on purpose, what a cancelled fold took with
it, and what a reset has promised to forget.  The actions keep the order of each
operation: the reset pops its buffer and then awaits the store, the renewal pops inside
its mutation, the bulk reset after its write, the deletion after it has closed the
sessions (`Forget`).  The shutdown cancels the loops, folds once more and writes
(`Stop`, `LastFold`); what a flush then does with the file is Store's subject.

### Fulfilment

What is sold or given away is an `Offer`: a voucher, a chat's free trial, an order
or a request for a renewal; the last two are named by the update that asked for
them, and an account by the offer it was made for.  `db` and `saved` are the
leader's memory and db.json, seen from the shop; `sent` and `confirmed` are what
Telegram knows.  `pc`, `batch`, `left` and `ctx` follow one round of
`_userbot_loop`: `Poll`, one action per message, `Apply` (the batch's effects and
its offset in one mutation, saved only if there is more than the offset),
`Dispatch`, one action per tap, `Reply`.  A menu tap takes two actions, its command
and `FollowThrough`.  Every action that awaits the store is one step, since the
store serialises them; requests to the panel (`PanelRequest`), which the same process
answers from the same memory, come between any two.  `made`,
`bonuses`, `told` and `shown` are history variables: deliveries, bonuses paid,
asks acknowledged to customers, asks whose buttons the seller has.  `IgnoreTap` and
`Ignore` stand for refusals whose reasons (settings, missing plans, a full panel,
the rate limit) are not modelled.  Accounts and references to them are, prices and
terms are not.

### Xray

The worker that started xray tells it of users one call at a time (`call`: "add",
"remove", "resync", each once per transport, answered or not) and cannot ask whom it
serves.  `served` is what xray does, `mirror` is `_live_uids`, `config` the file a
start writes; `up` and `ours` tell the process that holds the ports from the one
`_process` refers to.  Task 0 is `_xray_reconcile_loop` with the `plan` of its round
(`MakePlan`, `LoopRemoves`, `LoopAdds`), the others are requests that push their own
change or restart xray in a thread, whose stages ("write", "stop", "forget", "spawn")
others come between.  `unseen`, `raced`, `stale` and `orphaned` are history
variables: accounts xray got from its config, or by a call that failed, without the
mirror knowing; accounts two operations overlapped on; accounts xray may know by an
old key; whether two restarts overlapped or the worker died.

### Access

Requests run from one await to the next: up to the password hash ("kdf"), up to the
store's lock ("lock"), and the mutation.  `admin`, `reseller`, `twofa`, `attempts`
are the db's; passwords, secrets and sets of recovery codes are numbered in the
order they were made, resellers in the order they were hired: an id is given out
once, and `First` is the first in the list that matches.  `cookie` is one session
cookie, any that was ever given out, with what its holder knew (`by`, `knew`).
`overlap` is a history variable: which pairs of requests, one checking what the other changes, were ever under way together.
`tries`, `uses`, `confirmed` and `founded` count what the properties are about.

### Relay

The client's stream is counted in units and cut into frames anywhere; over UDP it is
a sequence of datagrams, each with a header of two units.  `at` follows `relay` from
the first frame over resolving, dialling and the response header to the two pumps
(`up`, `down`) and their end; the waiter of `_await_with_idle_timeout` has a `timer`
that runs while the pumps move the clock (`idle`, the time since `last_activity`).  That
clock starts when the counter is made, before the first frame is awaited and the
destination dialled, so `idle` begins anywhere up to `MaxWait`; `quiet` is a history
variable, the time since the pumps last counted a byte, or started.  Either end may leave, vanish
without a word, end its half or reset, and the panel may close the websocket, at any
moment.  `shy` are ends that wait for each other: a client that says nothing before
the response header, a destination that says nothing before the client.

### Jobs

One of the jobs is switched on, `on`, in each behaviour: they share the leader lock
and the store, no state of their own.  `mem`, `fresh`, `dirty` and `file` are each
worker's db, whether it has the file's mtime on record, its dirty flag, and db.json.  A
call that writes takes two steps: the thread up to its write and the release of the file
lock (`Save`), and the return to the loop (`Return`, owed by the workers in `late`),
which records the mtime it finds then: after a sibling's write in between, the worker
looks fresh and is not.  A `get()` that had read the file before the thread did may put
that content back into memory, before the write or after it (`Touch`); that a sibling
writes between those two reads is left to ClusterStore.  a record
holds `alerts_sent` (`sent`), an entry point's `fail_count` and `alerted_down` or an
account's `sharing_flagged` (`fails`, `marked`), and an account's `enabled`,
`expire_at` and existence.  `round[w]` is what a worker's loop is doing between
awaits: nudging, alerting, probing, telling, or holding a cleanup plan.  `told` and
`lastTold` are what people have been told; `forgotten` names records of that which
were lost, in a crash, at a shutdown, in a mutation that gave up, under a sibling's
write, by trimming a full table, to an overlapping `get()`, or because a sibling's mtime
was taken for the worker's own; "state" stands for the mark, and for a renewal that was
lost on one of these ways; `paid` is the day a customer has paid for, and
`overtaken` holds the workers whose plan is older than a renewal.  What a round has
delivered is recorded in the order in which it went out, and the table is trimmed as
it grows (`Recorded`): which records a full table loses depends on that order.

## 3. Runs

| Run | Question | Bounds |
|---|---|---|
| store | is anything acknowledged ever lost, does the store implement DurableSet, does every call on the lock return, does every change reach the file unless a write fails | 1 change, 2 handlers, 1 loop, flush loop, shutdown, 1 failing write, crashes and power cuts |
| cluster | do workers clobber each other, or fail to learn from each other, outside four windows of the protocol | 2 workers, each with a thread and an event loop, 2 changes, 2 calls of all kinds, 1 failing write, restarts |
| cluster_clobber (violation) | do workers that only mutate and read clobber each other | 2 workers, 2 changes, 3 calls, no failures |
| sessions | are sessions in use always found, do the cap and the address lock hold | 3 sessions, 2 addresses, 1 worker, a cap of 2, all operations |
| sessions_live | do cut-off and revoked sessions end, are unused entries dropped | 2 sessions, 2 workers, a cap of 1 |
| usage | is every byte in exactly one place, does a reset stay a reset, does what is buffered reach the bill | 1 process, 3 chunks, 3 operations, 1 failing write, shutdowns and restarts |
| fulfilment | is anything sold, given or paid twice, is a customer told of an ask that is then lost, does the bot get through its updates | 1 process, 1 customer, 1 voucher, an old order and 3 updates, 1 crash or request to the panel |
| xray | does the mirror tell what xray serves, does any old key still work, does any xray run unmanaged, does the loop bring xray in line | 1 account, 2 transports, 2 changes of any kind with one transport, 1 with two, 1 failed call or death |
| xray_lapsed (violation) | is an account that lapses cut off, whenever it lapses | 1 account, 1 transport, 1 change, no failures |
| access | whose are the sessions, do lockout, codes and quotas hold, what does it take to break a check | 2 requests at once, 4 in all, 2 resellers, 2 names, 2 attempts, a quota of 1 |
| relay | does a session leave everything in order, is idle idle, does anybody wait for ever | 1 frame waiting, 3 units of TCP, a sequence of datagrams over UDP, 2 replies, 2 addresses, idle timeouts of none and 2 ticks, up to 5 ticks between the counter's creation and the pumps' start |
| jobs | is anybody told twice or left untold, does the cleanup take from those who have paid, do alerts get out | 2 workers, 2 alerts and 1 nudge in a table of 2, 3 days, 1 crash, stop or failure, 1 write of something else or renewal |

Why these bounds are enough: an overwrite needs one writer that is behind and
one that is ahead, so two workers or two tasks with two changes show it; a
session loses its dict when another ends or is dropped between its steps, so
two sessions and an operator show it, and a third exceeds the cap; a byte that
a reset must forget needs one fold before and one after it, so two chunks and
two operations show it, and three leave room for a chunk that stays in the buffer and
an operation that fails; something is sold twice if one tap, update or request
repeats another, so an ask and two answers, with a crash between them, show it.
A mirror is wrong after one failed call
or one change that overtakes a round of the loop, and two transports differ after one
failure; a check is broken by the second of two requests at once, and a third and
fourth show that it takes two at once; a pump, a timer and a peer's end, each once,
come in every order over three units and two ticks; a clock that started
early needs no more than twice the limit and one; a record is lost by one crash or
one sibling's write, a renewal by one write that was taken for another, and a table of two is full with three alerts.  In the shop customers meet only in the pruning of orders,
for which the run starts with an old one.  A counter in a bound (`MaxCalls`, `MaxFailures`,
`MaxOps`, `MaxRotations`,
`MaxUpdates`, `MaxIncidents`, `MaxChanges`, `MaxRequests`, `MaxTroubles`, `MaxWrites`,
`MaxWait`)
limits how often, or how long, the environment acts, never what the
code does.  Symmetry over changes, workers, requests, sessions and addresses is used in
safety runs only.  Each inductive invariant was also checked by TLC on these
bounds before it was proved.

### Fairness

Weak fairness is assumed of what the event loop or the kernel owes: a runnable
task is resumed, a thread finishes, a periodic loop wakes up, a supervisor
restarts the process.  Nothing is assumed of clients, operators, failures or
renewals; in Usage a process that stops need not come back.  In Fulfilment the bot's
loop goes on: a poll or a message that fails is tried again, or given up, by the
code, and no round waits for a customer.  In Xray a call of its API returns or is
given up, and the loop makes its rounds.  In Relay the tasks of the session run and
time passes; clients and destinations owe nothing, except that the two shy ends speak
when it is their turn and read what they are sent.  In Jobs a worker's rounds come round
and go on, since every request to Telegram is answered or times out, a thread returns
to its loop, and a worker that died is started again.  In Sessions a session whose WebSocket was closed ends: its pumps see
the disconnect and `_relay_tcp` waits at most two seconds for its upstream.

### Where the code and its own text disagree

Two runs are spent on a violation each; both are under "findings" in PROJECT.json.

* cluster_clobber: "every mutation takes a cross-process file lock and re-reads from disk
  first, so concurrent workers cannot clobber each other" (storage.py:457-459).  In the
  run one worker has saved a change, the thread of the other has re-read it, `get()` on
  that worker's event loop clears the dict for a re-read of its own, the thread applies
  fn to what is left and writes, and the first worker's change is out of the file.
* xray_lapsed: `start` fills the mirror from the config it has written and then calls
  `stop`, which empties it.  In the run an account in good standing is served from the
  moment xray starts; it expires, or goes over its limit, before the first round of the
  reconcile loop would have put it into the mirror.  From then on it is neither wanted
  nor in the mirror, the loop removes only what is in the mirror, and it goes on being
  served.  (The config lists enabled accounts whether or not they have lapsed, so one
  that had lapsed before is in the same position.)

The passing properties name every other exception they need, and each was met as a
counterexample to the property without it:

* A failed write is forgotten: `_write_locked` clears the dirty flag before it
  writes, so a change that a background loop noted stays unsaved for good
  (`SavedUnlessAWriteFails`).
* "Concurrent workers cannot clobber each other" has four exceptions, named by
  `exposed`: an mtime recorded after the lock is released, a `get()` that overlaps its
  own worker's thread, a flush and a restore that write without re-reading.  What is only
  noted in memory is lost at the next re-read.
* Regenerating a uuid can hide a new session from enforcement, and does not reach
  sessions on other workers (`dropped`, and "on its own worker" in
  `RevokedSessionsEnd`).
* Checks made before an await are made for as many requests as are under way: two
  setups at once both succeed, the last one wins (`OnlyOverlapsBreak`); one
  recovery code, or the last try before a lockout, serves several logins at once
  (`ChecksHold`).
* A client that leaves while its destination is being dialled leaves that connection
  open (`why = "abandoned"` in `SessionSettles`), the first frame is awaited without a
  time limit, and a correct client that packs many datagrams into one large frame is
  cut off (`why = "overrun"`).
* `_run_health_checks` means to save the changes of state it finds, but works out
  `persist=bool(transitions)` before it has looked for any: they are only noted, and
  a sibling's write may take them back after the seller was told (`forgotten`).  When
  the sharing sweep's write fails, memory has the flag and nobody is told, then or
  later.
* An account that is renewed between the cleanup's plan and its mutation is disabled
  or deleted all the same (`overtaken` in `CleanupSparesThePaid`), and so is one whose
  renewal the worker at work does not know of, having taken the mtime of the renewal's
  write for that of its own (`Return`, `forgotten`).

Met in the shop while modelling it, and visible in Fulfilment's actions, though no
run is spent on them: a renewal asked for with the menu's button is acknowledged
and never stored (`MenuRenew`, `FollowThrough`; main.py:1694-1712), so
`ToldIsSaved` is stated for what is typed; a menu tap applies the batch's bindings
a second time, over an order's that was approved in between (`Follow`); a voucher
is used up before the binding of its account is saved, so that a crash leaves the
account unbound (`Redeem`, `Apply`); an order whose message to the seller fails
stays open and keeps its customer from ordering again (`Dispatch`, `Photo`).

## 4. Proofs

The proofs are for every value of the constants, under the named assumptions of
the modules.

**Store** (StoreProofs).  `AckedSurvives` alone is not inductive: it must be known
that no write thread, orphaned ones included, carries less than what was
promised.  `IInv` adds the lock discipline of each phase (`LockInv`), that every
thread carries every promise and at most the lock holder's runs while serving
(`WriterInv`), and that the holder's thread writes exactly the present memory
(`HolderInv`).  From it: type correctness, `AckedSurvives`, `UnsavedIsDirty`, the
action property `FileFollowsMemory`, and `StoreKeepsPromises`, which shows step
by step that Store implements DurableSet under the mapping mem = db, saved =
disk, promised = acked.

**ClusterStore** (StoreProofs, as the instance `C`; the theorems assume ClusterStore's named
assumptions).  `IInv` says the file lock is exclusive, no
recorded version is newer than the file's, and -- while no window has been gone
through -- a worker between its re-read and its write holds all of the file
(`WindowInv`), and a `get()` under way has a version that its worker has not recorded
and that is no older than its last write (`ReaderInv`).
`NoClobberOutsideWindows` and `FreshMeansComplete` follow, for any number of workers,
each with a thread and an event loop that share a memory.  The theorems say how far the
protocol's words hold in this model, not that the windows are rare.

**Sessions** (SessionsProofs).  Type correctness for all operations, and
`EverySessionTracked` where accept does not yield.  `TrackingInv` says a session
in use, or about to be registered, captured the dict its worker's map has, and
one that is winding down did too or its account is gone and the map has no
entry; `DeleteInv` says that a deletion has removed the account before it
disconnects and pops only when nobody on its worker uses it.  Both hold until a
regeneration or a restore has dropped an entry; after that tracking is false: the
cleanup of an old session pops the entry of a new one.  The limits come from counting
places (`LimitInv`): the sessions in a worker's dict and the one whose accept is
awaited are at most `MaxConn` and, with no sibling, of one address, as long as the
dict that is counted is the one they are in.  So each worker keeps its limit whatever
its siblings do (`EachWorkerKeepsTheLimit`), and one worker keeps `LimitsHold` exactly;
`BegunInv` says that only finitely many have begun, so that they can be counted.

**Usage** (UsageProofs).  `EveryChunkInOnePlace` and `ResetForgets`, for any
traffic, any number of operations and of failing writes, in one process.  Where a chunk is does
not suffice to show that a reset is not undone: `QueueInv` adds that a fold
carries nothing that a fold queued before it carries, nor what a reset queued
before it is going to settle, and that the buffer holds none of it either;
`WritingInv` that no traffic is charged while a bulk reset awaits its write, since it
promises to forget only when it returns; `SettledInv` that what is settled is in no bill,
buffer or fold.

**Access** (AccessProofs).  `ChecksHold`, `SessionsAreTheirs` and
`OnlyOverlapsBreak`, for any number of requests at once and in all.  A limit that is
checked before an await can be exceeded by the requests that have passed the check:
`LockInv`, `CodeInv` and `QuotaInv` count those together with what has been done, the
logins under way, those that carry a recovery code and those creating for a reseller.
`CountInv` leaves each request under way room in every counter, so that the bounds of
the types hold.  `RaceInv` says that racing requests have been noted; with it, what a
request has checked is still so when it is applied (`SecretInv`, `CreateInv`,
`NameInv`, `SetupInv`, `LoginInv`), or its race is named.  A login is verified on the
first reseller of a name, and the same one must answer to it later: `StaffInv` says
that those hired before have the smaller numbers, so a hire in between comes after.

**Relay** (RelayProofs).  `SessionSettles` and `IdleMeansIdle`, for any stream, frames,
datagrams, replies and idle timeouts.  `StreamInv` says the waiting frames carry on
the stream from what was read to what was sent; it says so with a function of
positions rather than a sum over the queue, so that appending and removing a frame
need no induction.  `ReplyInv` balances the destination's replies: delivered, on the
wire, in the pump's hand, sent.  `DoneInv` and `WhyInv` say why a pump is done and
what that says of the session; they are what makes an orderly end lose nothing.
`ClockInv` bounds the pumps' silence (`quiet`) and the timer together by twice the limit:
`last_activity` itself may be older, since it is set when the counter is made, before the
first frame and the dialling, and what it says then is not bounded by anything.  That a datagram has
a place in the stream (`End`) is shown by its least counterexample.

**Fulfilment** (FulfilmentProofs).  `DeliversOnce`, that the bot implements Sales for
any customers, codes and updates, in one process; `OnceAtATime`; `ToldIsSaved`.  `Booked` says that
each database agrees with itself: what was delivered is what its codes, claims,
invitations and answers say.  `AheadInv` is the heart of it: memory is ahead of
db.json by no sale, only by rejected requests for renewals, so that a crash takes back
nothing that was delivered.  `BatchInv`, `AskInv` and `SentInv` say that an ask is new
until its batch is applied, once, with an offset beyond it, and is saved from then on,
which is why it may be told.  For the refinement, `Leads` says that from one database
to the next each offer takes at most one step of Sales; each action is shown to lead
memory somewhere and db.json to the same place, and a crash to lead nowhere.

**Xray** (XrayProofs).  `MirrorTells`, `OldKeyIsGone` and `XrayIsManaged`, for any
accounts, transports, changes and failures.  The invariant says what each call and
each stage of a restart still owes.  `RaceInv`: an account on which no operations
overlapped has at most one call at a time, and no restart meanwhile.  `CallInv`: such a
call carries a good key, or a restart is due, and the answers so far still hold.
`ConfigInv`: a restart has read keys that are still good, or another will read them,
and the mirror has at most what the config has.  `KeyInv` and `MirrorInv` are the two
properties with those debts.  `ManagedInv` says that until restarts overlap there is
one, which starts xray only when none is up; it showed that `XrayIsManaged` needs no
exception for a restart in progress, and the property was strengthened.

**Jobs** (JobsProofs).  `SellerKnows`, `ToldOnce` and `CleanupSparesThePaid`, for any
workers, alerts, thresholds and limits.  `RoundFits` says what each stage of a round
implies: who leads, which job is on, what is carried.  The other parts speak of views:
db.json, and what each living worker would find in it or in its memory.  `RecordInv`:
while somebody leads, what was told is on record with the leader or is about to be;
while nobody does, in every view, so that whoever takes over finds it, whichever
worker that is.  A record that a step takes out of some view is in `forgotten`, and
the proof is the bookkeeping that the ways to lose one are all there: a crash, a
shutdown, a mutation that gives up, a sibling's write, a flush of an old memory, a
table that is full, a `get()` that overlaps the call, and a return that takes a sibling's
mtime for its own (`ReturnKeeps`).  `TodoInv` keeps what was told out of a round's list.  `MarkInv`
says the mark is what the seller was last told, and, while a message is under way,
what it says; `PaidInv` that no view is older than the last renewal, unless one was
lost, and `PlanInv`
that what is planned was due when it was planned.  Two lemmas carry all calls of the
store: what a call leaves in the views (`CallFacts`), and that the invariant survives
when what it loses is forgotten (`CallOnly`).  That recording a round's alerts leaves a
table, within its limit and without repetition, is shown by its least counterexample
(`RecordedFacts`).  Nothing is proved of which records a full table keeps, and nothing
needs it: those it drops are in `forgotten`.

### What stays with TLC

Every liveness property: fairness and ENABLED are outside the prover's reach.  They
are `EveryCallReturns`, `SavedUnlessAWriteFails`, `EveryWorkerLearns` and their like,
one or more in every run with a fair specification.  Every invariant and every action
property that a run checks has a theorem.
`LimitsHold` for more than one worker has no proof because it has no claim: the run
checks one worker, and what holds for several is `EachWorkerKeepsTheLimit`.
`LapsedAreCutOff` and `NoClobber` are refuted by their runs.  In the other direction
`UnsavedIsDirty`, `FileFollowsMemory` and `FreshMeansComplete` are proved and checked by no run.

## 5. Plan

What is left, in order:

1. Backups: two uploads at once, the pinned message when a pin fails, the self-restore
   of several workers that start on an empty disk.
2. Algorithms: resolve_workers, pruning functions, import deduplication, against
   reference definitions on bounded inputs.
3. What several workers may lose of the accounting and of the sales: Usage and Fulfilment
   on a memory per worker, with properties that name the windows of ClusterStore.

## 6. Not modelled, and why

Rendering of subscriptions and links, templates and JavaScript, HTTP details,
the Telegram transport, OTA downloads: formatting and I/O without state of their
own.  `normalize_db` and the corrupt-file branch of `load_db` are data migration
that runs before anything else does.  The wall clock is abstracted to whether a
limit has been passed, or to days and ticks.

Of the modelled components: traffic and sales under several workers (section 2); xray's traffic counters and the text of its config; the
expiry of cookies and the arithmetic of passwords, codes and TOTP windows; the bytes
of the relay's request header and the table of private networks it refuses; what a
probe does and how networks are counted; the texts of alerts, the cleanup's report
and the trials' own clock (one value of `DeleteAfter`); bulk edits, plans and prices.
Worker sizing is arithmetic on two files at start, with unit tests of its cases.  The
transport of backups is listed in the plan.
