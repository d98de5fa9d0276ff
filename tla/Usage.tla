------------------------------- MODULE Usage -------------------------------
(***************************************************************************)
(* The traffic of one user account, from the relay to the bill: the        *)
(* buffers, the fold that moves them into the database, and the operations *)
(* that reset or delete the account (main.py), in the single-process mode: *)
(* the database is the one in memory, and its lock is asyncio's, first     *)
(* come, first served.  (With several workers each folds into a memory of  *)
(* its own, which a sibling's write makes it re-read: see ClusterStore.)   *)
(*                                                                         *)
(* Traffic is a set of chunks, each relayed once, so that a chunk that is  *)
(* lost, or is in two places, can be told.  (A connection counted against  *)
(* max_requests goes the same way through pending_requests.)  What the     *)
(* store then does with the file is the subject of Store.                  *)
(***************************************************************************)
EXTENDS Naturals, Sequences, FiniteSets

CONSTANTS
    Chunk,          \* pieces of traffic
    MaxOps,         \* bound: resets, renewals, deletions and other writes
    MaxFailures     \* bound: writes that fail

ASSUME BoundsAssumption == MaxOps \in Nat /\ MaxFailures \in Nat

VARIABLES
    live,       \* the account is in the database
    relayed,    \* the chunks the relays have reported
    pending,    \* runtime["pending_traffic"][uid]
    queue,      \* the jobs that hold (first) or await the store's lock
    writing,    \* is the first job waiting for its write
    forgetting, \* a deletion has yet to pop the buffer
    used,       \* the account's used_up + used_down
    total,      \* stats.total_up + total_down
    popped,     \* chunks whose buffer was popped
    lost,       \* chunks taken by a fold that was then cancelled
    settled,    \* chunks that a reset has promised to forget
    phase,      \* "up", "stopping" or "down"
    ops,        \* operations started
    failures    \* writes that failed

vars == <<live, relayed, pending, queue, writing, forgetting, used, total,
          popped, lost, settled, phase, ops, failures>>
bill == <<live, used, total, settled>>

\* "fold" is the flush loop's, "last" that of the shutdown code; "flush" is
\* whatever else writes through the store.
Kind == {"fold", "last", "flush", "reset", "renew", "bulk", "delete"}
Job == [kind : Kind, bytes : SUBSET Chunk]
Loops == {"fold", "flush"}
Folds == {"fold", "last"}

TypeOK ==
    /\ live \in BOOLEAN
    /\ relayed \in SUBSET Chunk
    /\ pending \in SUBSET Chunk
    /\ queue \in Seq(Job)
    /\ writing \in BOOLEAN
    /\ forgetting \in BOOLEAN
    /\ used \in SUBSET Chunk
    /\ total \in SUBSET Chunk
    /\ popped \in SUBSET Chunk
    /\ lost \in SUBSET Chunk
    /\ settled \in SUBSET Chunk
    /\ phase \in {"up", "stopping", "down"}
    /\ ops \in 0..MaxOps
    /\ failures \in 0..MaxFailures

Init ==
    /\ live = TRUE
    /\ relayed = {} /\ pending = {} /\ queue = <<>>
    /\ writing = FALSE /\ forgetting = FALSE
    /\ used = {} /\ total = {} /\ popped = {} /\ lost = {} /\ settled = {}
    /\ phase = "up"
    /\ ops = 0 /\ failures = 0

Queued(kind) == \E i \in DOMAIN queue : queue[i].kind = kind
Await(kind, bytes) == queue' = Append(queue, [kind |-> kind, bytes |-> bytes])
Leave == queue' = Tail(queue)

\* The chunks that folds have taken and not yet added to the database.
Folding == UNION {queue[i].bytes : i \in {j \in DOMAIN queue : queue[j].kind \in Folds}}

\* runtime["pending_traffic"].pop(uid, None)
Pop == pending' = {} /\ popped' = popped \cup pending

(***************************************************************************)
(* Traffic.                                                                *)
(***************************************************************************)

\* Mutant of Report: what is reported is put in as one entry.
MutantReportEntry(c) ==
    /\ phase = "up"
    /\ c \notin relayed
    /\ relayed' = relayed \cup {c}
    /\ pending' = pending \cup {{c}}
    /\ UNCHANGED <<bill, queue, writing, forgetting, popped, lost, phase, ops, failures>>

\* on_traffic, or the loop that reads xray's counters; it may still come when
\* the account is already gone.
Report(c) ==
    /\ phase = "up"
    /\ c \notin relayed
    /\ relayed' = relayed \cup {c}
    /\ pending' = pending \cup {c}
    /\ UNCHANGED <<bill, queue, writing, forgetting, popped, lost, phase, ops, failures>>

\* Mutant of TakeBuffers: the buffers are emptied only after the store has them.
MutantTakeKeeps(kind) ==
    /\ Await(kind, pending)
    /\ UNCHANGED pending

\* _fold_pending_traffic up to its call of mutate.
TakeBuffers(kind) ==
    /\ Await(kind, pending)
    /\ pending' = {}

\* _periodic_flush: one fold at a time, and none of an empty buffer.
Fold ==
    /\ phase = "up" /\ ~Queued("fold") /\ pending # {}
    /\ TakeBuffers("fold")
    /\ UNCHANGED <<bill, relayed, writing, forgetting, popped, lost, phase, ops, failures>>

(***************************************************************************)
(* Operations, up to their call of mutate.                                 *)
(***************************************************************************)
Begin == phase = "up" /\ ops < MaxOps /\ ops' = ops + 1

\* Mutant of Reset: the buffer is left alone.
MutantResetKeeps ==
    /\ Begin
    /\ Await("reset", relayed)
    /\ UNCHANGED <<bill, relayed, pending, popped, writing, forgetting, lost, phase, failures>>

\* api_reset_usage, and the approval of a renewal: pop, then mutate.  From then
\* on nothing that had been relayed may be charged.
Reset ==
    /\ Begin
    /\ Pop
    /\ Await("reset", relayed)
    /\ UNCHANGED <<bill, relayed, writing, forgetting, lost, phase, failures>>

\* api_renew_inbound with reset_usage, the bulk reset, and deletions start with
\* the mutation; so does all else that writes through the store, a flush for one.
Change(kind) ==
    /\ Begin
    /\ Await(kind, {})
    /\ UNCHANGED <<bill, relayed, pending, writing, forgetting, popped, lost, phase, failures>>

(***************************************************************************)
(* The store: the first job in line is applied, then written if it         *)
(* persists.  An operation on a deleted account is refused (404).          *)
(***************************************************************************)
First == queue[1]
Ready(kinds) == queue # <<>> /\ ~writing /\ First.kind \in kinds

\* _apply of a fold: the panel's total takes everything, the account its own.
\* persist=False: nothing is written.
ApplyFold ==
    /\ Ready(Folds)
    /\ total' = total \cup First.bytes
    /\ used' = IF live THEN used \cup First.bytes ELSE used
    /\ Leave
    /\ UNCHANGED <<live, relayed, pending, writing, forgetting, popped, lost, settled,
                   phase, ops, failures>>

ApplyReset ==
    /\ Ready({"reset"}) /\ live
    /\ used' = {} /\ settled' = settled \cup First.bytes
    /\ writing' = TRUE
    /\ UNCHANGED <<live, relayed, pending, queue, forgetting, total, popped, lost, phase,
                   ops, failures>>

\* The renewal pops the buffer inside its mutation.  A fold that has taken bytes
\* while it waited comes after it: those it does not forget.
ApplyRenew ==
    /\ Ready({"renew"}) /\ live
    /\ used' = {} /\ Pop
    /\ settled' = settled \cup (relayed \ Folding)
    /\ writing' = TRUE
    /\ UNCHANGED <<live, relayed, queue, forgetting, total, lost, phase, ops, failures>>

\* A bulk reset of an account that is gone changes nothing, but writes.
ApplyBulk ==
    /\ Ready({"bulk", "flush"})
    /\ used' = IF live /\ First.kind = "bulk" THEN {} ELSE used
    /\ writing' = TRUE
    /\ UNCHANGED <<live, relayed, pending, queue, forgetting, total, popped, lost,
                   settled, phase, ops, failures>>

ApplyDelete ==
    /\ Ready({"delete"}) /\ live
    /\ live' = FALSE /\ used' = {}
    /\ writing' = TRUE
    /\ UNCHANGED <<relayed, pending, queue, forgetting, total, popped, lost, settled,
                   phase, ops, failures>>

Refuse ==
    /\ Ready({"reset", "renew", "delete"}) /\ ~live
    /\ Leave
    /\ UNCHANGED <<bill, relayed, pending, writing, forgetting, popped, lost, phase,
                   ops, failures>>

\* The write fails: the change stays in memory, the exception leaves the operation.
WriteFail ==
    /\ queue # <<>> /\ writing
    /\ failures < MaxFailures /\ failures' = failures + 1
    /\ Leave /\ writing' = FALSE
    /\ UNCHANGED <<bill, relayed, pending, forgetting, popped, lost, phase, ops>>

\* The write is done: the bulk reset pops the buffer, a deletion closes the
\* account's sessions before it does.
Return ==
    /\ queue # <<>> /\ writing
    /\ Leave /\ writing' = FALSE
    /\ IF First.kind = "bulk"
       THEN Pop /\ settled' = settled \cup (relayed \ Folding)
       ELSE UNCHANGED <<pending, popped, settled>>
    /\ forgetting' = (forgetting \/ First.kind = "delete")
    /\ UNCHANGED <<live, used, total, relayed, lost, phase, ops, failures>>

\* The deletion has closed the sessions.
Forget ==
    /\ forgetting /\ forgetting' = FALSE
    /\ Pop
    /\ UNCHANGED <<bill, relayed, queue, writing, lost, phase, ops, failures>>

(***************************************************************************)
(* Shutdown.                                                               *)
(***************************************************************************)

\* The requests are over; the loops are cancelled, a fold that waits for the store
\* among them, and one whose turn has come but that has not resumed.  (One that finds
\* the store free is applied at once; here the shutdown may still come before it.)
Stop ==
    /\ phase = "up" /\ ~forgetting
    /\ \A i \in DOMAIN queue : queue[i].kind \in Loops
    /\ phase' = "stopping"
    /\ queue' = <<>> /\ lost' = lost \cup Folding
    /\ writing' = FALSE
    /\ UNCHANGED <<bill, relayed, pending, forgetting, popped, ops, failures>>

\* Mutant of LastFold: the process ends without a last fold.
MutantNoLastFold ==
    /\ phase = "stopping" /\ phase' = "down"
    /\ UNCHANGED <<bill, relayed, pending, queue, writing, forgetting, popped, lost, ops, failures>>

\* lifespan folds what the buffers still hold, then forces a flush.
LastFold ==
    /\ phase = "stopping" /\ phase' = "down"
    /\ IF pending = {} THEN UNCHANGED <<queue, pending>> ELSE TakeBuffers("last")
    /\ UNCHANGED <<bill, relayed, writing, forgetting, popped, lost, ops, failures>>

\* A new process starts with empty buffers.
Restart ==
    /\ phase = "down" /\ queue = <<>>
    /\ phase' = "up" /\ pending' = {}
    /\ UNCHANGED <<bill, relayed, queue, writing, forgetting, popped, lost, ops, failures>>

Store == ApplyFold \/ ApplyReset \/ ApplyRenew \/ ApplyBulk \/ ApplyDelete
            \/ Refuse \/ Return \/ WriteFail

Next ==
    \/ \E c \in Chunk : Report(c)
    \/ Fold \/ Reset
    \/ \E kind \in {"renew", "bulk", "delete", "flush"} : Change(kind)
    \/ Store \/ Forget
    \/ Stop \/ LastFold \/ Restart

Spec == Init /\ [][Next]_vars

\* The event loop resumes what can run, and the flush loop wakes up.  Nothing
\* is owed by users, administrators or the operating system.
Fairness == WF_vars(Store) /\ WF_vars(Forget) /\ WF_vars(Fold) /\ WF_vars(LastFold)

FairSpec == Spec /\ Fairness

(***************************************************************************)
(* Properties.                                                             *)
(***************************************************************************)

Unsettled == pending \cup Folding
Accounted == total \cup popped \cup lost

\* "nothing is double-counted and nothing is lost" (main.py:611), lost and popped
\* traffic being told apart: whatever folds, resets, deletions, failing writes and
\* shutdowns do, what was relayed is in the buffer, in one fold, in the panel's
\* total, was popped or was lost -- exactly one of these; what the account is
\* charged is in the total.
EveryChunkInOnePlace ==
    /\ relayed = Unsettled \cup Accounted
    /\ pending \cap Folding = {} /\ Unsettled \cap Accounted = {}
    /\ total \cap popped = {} /\ total \cap lost = {} /\ popped \cap lost = {}
    /\ used \subseteq total

\* The account is not charged again for traffic a reset has covered, however folds
\* and resets queue for the store: for a reset or an approved renewal, all that had
\* been relayed when it was asked for; for a renewal or a bulk reset, all but what
\* a waiting fold had taken.
ResetForgets == used \cap settled = {}

\* What is buffered is charged, popped or, with a cancelled fold, lost: it does not
\* stay unseen by the quota for ever, and a shutdown does not forget it.
BuffersAreFolded == \A c \in Chunk : c \in pending ~> c \in total \cup popped \cup lost
=============================================================================
