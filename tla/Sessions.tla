------------------------------ MODULE Sessions ------------------------------
(***************************************************************************)
(* The relay sessions of one user account: ws_endpoint, the enforcement    *)
(* loop, and the operations that cut sessions off (main.py).               *)
(*                                                                         *)
(* Each worker keeps runtime["active"], which maps the account to the dict *)
(* of its registered connections.  A session holds on to the dict it found *)
(* when it connected, the others find a dict through the map: that these   *)
(* can come to be different dicts is what this module is about.  A dict is  *)
(* named by the session whose setdefault created it.                       *)
(***************************************************************************)
EXTENDS Naturals, FiniteSets

CONSTANTS
    Session,        \* connection attempts, each made once
    Worker,         \* worker processes
    Addr,           \* client addresses
    NoDict,         \* "the account has no entry in runtime["active"]"
    Operator,       \* tasks that run an administrative operation
    Ops,            \* the operations they run
    MaxConn,        \* the account's max_connections, 0 for no limit
    StrictIp,       \* the account's strict_single_ip
    AcceptYields,   \* may other tasks run while accept() is awaited
    MaxRotations    \* bound: how many times the credential is regenerated

ASSUME DictAssumption == NoDict \notin Session
ASSUME WorkerAssumption == Worker # {}
ASSUME OpsAssumption == Ops \subseteq {"delete", "regenerate", "restore"}
ASSUME BoundsAssumption ==
    MaxConn \in Nat /\ StrictIp \in BOOLEAN /\ AcceptYields \in BOOLEAN
      /\ MaxRotations \in Nat

VARIABLES
    account,    \* "live", "cut" (over a limit, expired, disabled) or "gone"
    key,        \* the account's uuid, as the number of regenerations so far
    pc,         \* where each session is
    where,      \* the worker it connected to
    addr,       \* its client address
    cred,       \* the uuid its client presents
    expected,   \* the uuid ws_endpoint read for it
    home,       \* the dict it captured
    registered, \* sessions present in the dict they captured
    slot,       \* runtime["active"][uid] of each worker
    published,  \* the sessions in each worker's journal
    oper,       \* what each operator is doing
    dropped     \* which operations have popped an entry that may be needed

vars == <<account, key, pc, where, addr, cred, expected, home, registered,
          slot, published, oper, dropped>>
sessionVars == <<where, addr, cred, expected, home>>

\* "handshake": accepted, waiting for the first frame; "closing": its WebSocket
\* was closed under it and its relay is winding down.
Place == {"new", "accepting", "handshake", "open", "closing", "gone"}
NoOp == [op |-> "none", stage |-> "none", at |-> CHOOSE w \in Worker : TRUE]

TypeOK ==
    /\ account \in {"live", "cut", "gone"}
    /\ key \in 0..MaxRotations
    /\ pc \in [Session -> Place]
    /\ where \in [Session -> Worker]
    /\ addr \in [Session -> Addr]
    /\ cred \in [Session -> 0..MaxRotations]
    /\ expected \in [Session -> 0..MaxRotations]
    /\ home \in [Session -> Session \cup {NoDict}]
    /\ registered \in SUBSET Session
    /\ slot \in [Worker -> Session \cup {NoDict}]
    /\ published \in [Worker -> SUBSET Session]
    /\ oper \in [Operator -> [op : {"none", "delete", "regenerate", "restore"},
                              stage : {"none", "changed", "kicked", "cleared"},
                              at : Worker]]
    /\ dropped \subseteq {"regenerate", "restore"}

Init ==
    /\ account = "live" /\ key = 0
    /\ pc = [s \in Session |-> "new"]
    /\ where \in [Session -> Worker]
    /\ addr \in [Session -> Addr]
    /\ cred = [s \in Session |-> 0]
    /\ expected = [s \in Session |-> 0]
    /\ home = [s \in Session |-> NoDict]
    /\ registered = {}
    /\ slot = [w \in Worker |-> NoDict]
    /\ published = [w \in Worker |-> {}]
    /\ oper = [o \in Operator |-> NoOp]
    /\ dropped = {}

\* The connections in a dict, and those a worker finds through its map.
InDict(d) == {s \in registered : home[s] = d}
Local(w) == IF slot[w] = NoDict THEN {} ELSE InDict(slot[w])

\* The connections ws_endpoint counts: its own and what siblings have published.
Merged(w) == Local(w) \cup UNION {published[v] : v \in Worker \ {w}}

\* While accept() is awaited nothing else runs, unless the server's accept
\* gives up the event loop (AcceptYields).
Quiet == AcceptYields \/ \A s \in Session : pc[s] # "accepting"

(***************************************************************************)
(* ws_endpoint.                                                            *)
(***************************************************************************)

\* Mutant of Admitted: one connection too many (`>` for `>=`).
MutantOneMore(s) ==
    LET others == Merged(where[s])
    IN /\ StrictIp /\ others # {} => \E t \in others : addr[t] = addr[s]
       /\ MaxConn > 0 => Cardinality(others) <= MaxConn

\* Mutant of Admitted: the address lock is forgotten.
MutantAnyAddress(s) ==
    MaxConn > 0 => Cardinality(Merged(where[s])) < MaxConn

\* Up to the await of accept: the entry is made before the limits are checked.
Admitted(s) ==
    LET others == Merged(where[s])
    IN /\ StrictIp /\ others # {} => \E t \in others : addr[t] = addr[s]
       /\ MaxConn > 0 => Cardinality(others) < MaxConn

Connect(s) ==
    /\ Quiet /\ pc[s] = "new" /\ account = "live"
    /\ Admitted(s)
    /\ LET w == where[s]
           d == IF slot[w] = NoDict THEN s ELSE slot[w]
       IN slot' = [slot EXCEPT ![w] = d] /\ home' = [home EXCEPT ![s] = d]
    /\ pc' = [pc EXCEPT ![s] = "accepting"]
    /\ \E k \in 0..key : cred' = [cred EXCEPT ![s] = k]
    /\ UNCHANGED <<account, key, where, addr, expected, registered, published, oper, dropped>>

\* Closed with 1008; the empty dict it may have made stays in the map.
TurnAway(s) ==
    /\ Quiet /\ pc[s] = "new"
    /\ account # "live" \/ ~Admitted(s)
    /\ pc' = [pc EXCEPT ![s] = "gone"]
    /\ slot' = IF account = "live" /\ slot[where[s]] = NoDict
               THEN [slot EXCEPT ![where[s]] = s] ELSE slot
    /\ UNCHANGED <<account, key, sessionVars, registered, published, oper, dropped>>

\* After accept: the connection goes into the dict captured before it.
Register(s) ==
    /\ pc[s] = "accepting"
    /\ pc' = [pc EXCEPT ![s] = "handshake"]
    /\ registered' = registered \cup {s}
    /\ expected' = [expected EXCEPT ![s] = key]
    /\ UNCHANGED <<account, key, where, addr, cred, home, slot, published, oper, dropped>>

\* relay: the first frame carries the credential.
FirstFrame(s) ==
    /\ Quiet /\ pc[s] = "handshake"
    /\ pc' = [pc EXCEPT ![s] = IF cred[s] = expected[s] THEN "open" ELSE "closing"]
    /\ UNCHANGED <<account, key, sessionVars, registered, slot, published, oper, dropped>>

\* Mutant of Finish: the entry is popped although other sessions share the dict.
MutantFinishPops(s) ==
    /\ Quiet /\ pc[s] \in {"handshake", "open", "closing"}
    /\ pc' = [pc EXCEPT ![s] = "gone"]
    /\ registered' = registered \ {s}
    /\ slot' = [slot EXCEPT ![where[s]] = NoDict]
    /\ UNCHANGED <<account, key, sessionVars, published, oper, dropped>>

\* The client leaves, the upstream closes, the session idles out, or the relay
\* notices that its WebSocket was closed; then ws_endpoint's finally clause.
Finish(s) ==
    /\ Quiet /\ pc[s] \in {"handshake", "open", "closing"}
    /\ pc' = [pc EXCEPT ![s] = "gone"]
    /\ registered' = registered \ {s}
    /\ slot' = IF InDict(home[s]) \ {s} = {}
               THEN [slot EXCEPT ![where[s]] = NoDict] ELSE slot
    /\ UNCHANGED <<account, key, sessionVars, published, oper, dropped>>

(***************************************************************************)
(* Limits.                                                                 *)
(***************************************************************************)

\* The account runs over its quota, expires, is disabled ...
CutOff == /\ Quiet /\ account = "live" /\ account' = "cut"
          /\ UNCHANGED <<key, pc, sessionVars, registered, slot, published, oper, dropped>>

\* ... and is renewed, topped up or enabled.
Renew == /\ Quiet /\ account = "cut" /\ account' = "live"
         /\ UNCHANGED <<key, pc, sessionVars, registered, slot, published, oper, dropped>>

\* _disconnect_uid: what the map knows of is closed.  Sessions are closed one by
\* one; that a later one goes on for a moment is what its Finish may mean.
Kick(w) == pc' = [s \in Session |->
                    IF s \in Local(w) /\ pc[s] \in {"handshake", "open"}
                    THEN "closing" ELSE pc[s]]

\* Mutant of Enforce: empty entries are left alone.
MutantEnforceKeeps(w) ==
    /\ Quiet /\ slot[w] # NoDict /\ account # "live"
    /\ Kick(w)
    /\ UNCHANGED <<account, key, sessionVars, registered, slot, published, oper, dropped>>

\* Mutant of Enforce: the entry is set to None instead of being popped.
MutantEnforceNone(w) ==
    /\ Quiet /\ slot[w] # NoDict
    /\ account # "live" /\ Kick(w)
    /\ slot' = [slot EXCEPT ![w] = "None"]
    /\ UNCHANGED <<account, key, sessionVars, registered, published, oper, dropped>>

\* _enforce_once, on each worker: an empty entry is dropped, an account without
\* an active subscription is disconnected.
Enforce(w) ==
    /\ Quiet /\ slot[w] # NoDict
    /\ IF Local(w) = {}
       THEN slot' = [slot EXCEPT ![w] = NoDict] /\ UNCHANGED pc
       ELSE account # "live" /\ Kick(w) /\ UNCHANGED slot
    /\ UNCHANGED <<account, key, sessionVars, registered, published, oper, dropped>>

\* _journal_loop; a worker without siblings publishes nothing.
PublishJournal(w) ==
    /\ Quiet /\ Worker # {w} /\ published' = [published EXCEPT ![w] = Local(w)]
    /\ UNCHANGED <<account, key, pc, sessionVars, registered, slot, oper, dropped>>

(***************************************************************************)
(* Operations that cut sessions off.  Every await between their steps lets *)
(* other tasks run.                                                        *)
(***************************************************************************)
At(o, stage) == oper[o].stage = stage
GoTo(o, stage) == oper' = [oper EXCEPT ![o].stage = stage]

\* The mutation of a delete (the API's, a bulk one's, or a retention sweep's),
\* or of a regenerate; a restore starts by disconnecting.
StartDelete(o, w) ==
    /\ Quiet /\ "delete" \in Ops /\ oper[o] = NoOp /\ account # "gone"
    /\ account' = "gone"
    /\ oper' = [oper EXCEPT ![o] = [op |-> "delete", stage |-> "changed", at |-> w]]
    /\ UNCHANGED <<key, pc, sessionVars, registered, slot, published, dropped>>

StartRegenerate(o, w) ==
    /\ Quiet /\ "regenerate" \in Ops /\ oper[o] = NoOp /\ account # "gone"
    /\ key < MaxRotations /\ key' = key + 1
    /\ oper' = [oper EXCEPT ![o] = [op |-> "regenerate", stage |-> "changed", at |-> w]]
    /\ UNCHANGED <<account, pc, sessionVars, registered, slot, published, dropped>>

StartRestore(o, w) ==
    /\ Quiet /\ "restore" \in Ops /\ oper[o] = NoOp
    /\ oper' = [oper EXCEPT ![o] = [op |-> "restore", stage |-> "changed", at |-> w]]
    /\ UNCHANGED <<account, key, pc, sessionVars, registered, slot, published, dropped>>

\* runtime["active"].pop(uid, None), or .clear().  A deletion drops the entry of
\* an account nobody can connect to any more; the others may drop one in use.
Drop(o) ==
    LET w == oper[o].at
        op == oper[o].op
    IN /\ slot' = [slot EXCEPT ![w] = NoDict]
       /\ dropped' = IF op = "restore" \/ (op = "regenerate" /\ Local(w) # {})
                     THEN dropped \cup {op} ELSE dropped
       /\ IF op = "restore" THEN GoTo(o, "cleared")
                           ELSE oper' = [oper EXCEPT ![o] = NoOp]

\* Mutant of Disconnect: the entry is popped first, so nothing is found to close.
MutantPopFirst(o) ==
    /\ Quiet /\ At(o, "changed")
    /\ Drop(o)
    /\ UNCHANGED <<account, key, pc, sessionVars, registered, published>>

\* await _disconnect_uid(uid): it waits for a close handshake if there is a
\* session to close, and goes straight on to the pop if there is none.
Disconnect(o) ==
    /\ Quiet /\ At(o, "changed")
    /\ Kick(oper[o].at)
    /\ IF pc' # pc THEN GoTo(o, "kicked") /\ UNCHANGED <<slot, dropped>> ELSE Drop(o)
    /\ UNCHANGED <<account, key, sessionVars, registered, published>>

Forget(o) ==
    /\ Quiet /\ At(o, "kicked")
    /\ Drop(o)
    /\ UNCHANGED <<account, key, pc, sessionVars, registered, published>>

\* await store.replace(backup): the account, and its uuid, are as the backup has
\* them.
FinishRestore(o) ==
    /\ Quiet /\ At(o, "cleared")
    /\ account' \in {"live", "cut", "gone"} /\ key' \in 0..key
    /\ oper' = [oper EXCEPT ![o] = NoOp]
    /\ UNCHANGED <<pc, sessionVars, registered, slot, published, dropped>>

Operate(o) == Disconnect(o) \/ Forget(o) \/ FinishRestore(o)

Next ==
    \/ \E s \in Session : Connect(s) \/ TurnAway(s) \/ Register(s)
                           \/ FirstFrame(s) \/ Finish(s)
    \/ CutOff \/ Renew
    \/ \E w \in Worker : Enforce(w) \/ PublishJournal(w)
    \/ \E o \in Operator : \/ Operate(o)
                           \/ \E w \in Worker : \/ StartDelete(o, w)
                                                \/ StartRegenerate(o, w)
                                                \/ StartRestore(o, w)

Spec == Init /\ [][Next]_vars

\* The loops wake up, awaited operations go on, and a relay whose WebSocket was
\* closed ends (its pumps see the disconnect; _relay_tcp waits at most two more
\* seconds).  Clients owe us nothing.
Fairness ==
    /\ \A s \in Session : /\ WF_vars(Register(s))
                          /\ WF_vars(pc[s] = "closing" /\ Finish(s))
    /\ \A w \in Worker : WF_vars(Enforce(w))
    /\ \A o \in Operator : WF_vars(Operate(o))

FairSpec == Spec /\ Fairness

(***************************************************************************)
(* Properties.                                                             *)
(***************************************************************************)
Using(s) == pc[s] \in {"handshake", "open"}

\* A session in use can be found through its worker's map, so enforcement, the
\* connection cap, the address lock and every cut-off operation see it -- as
\* long as no regeneration or restore has dropped an entry.
EverySessionTracked ==
    dropped = {} => \A s \in Session : Using(s) => s \in Local(where[s])

\* max_connections and strict_single_ip hold among all the sessions in use of a
\* single worker, not only among those its map still knows of.  (Siblings learn
\* of each other's sessions from the journals, after the fact.)
LimitsHold ==
    LET users == {s \in Session : Using(s)}
    IN dropped = {} =>
         /\ MaxConn > 0 => Cardinality(users) <= MaxConn
         /\ StrictIp => \A s, t \in users : addr[s] = addr[t]

\* Whatever its siblings do, no worker serves more sessions than max_connections:
\* N workers together serve at most N times as many.
WorkersKeepLimit ==
    dropped = {} /\ MaxConn > 0 =>
        \A w \in Worker : Cardinality({s \in Session : Using(s) /\ where[s] = w}) <= MaxConn

\* A session that outlives its account's right to it (quota, expiry, deletion)
\* is closed, unless the account gets that right back or an entry was dropped.
CutOffSessionsEnd ==
    \A s \in Session : (Using(s) /\ account # "live")
                         ~> (pc[s] = "gone" \/ account = "live" \/ dropped # {})

\* A regeneration closes the sessions on its own worker that were opened with an
\* uuid it has rotated, if no entry was dropped before and no restore interferes.
RevokedSessionsEnd ==
    \A s \in Session :
        (/\ pc[s] = "open" /\ cred[s] # key /\ dropped = {}
         /\ \E o \in Operator :
                oper[o] = [op |-> "regenerate", stage |-> "changed", at |-> where[s]])
          ~> (pc[s] = "gone" \/ "restore" \in dropped)

\* Who may no longer use the panel does not, with those two exceptions.
DeniedSessionsEnd == CutOffSessionsEnd /\ RevokedSessionsEnd

\* No slot is held by a session that is over: an entry that remains in a map is
\* either used by someone or dropped by the next sweep.
EntriesAreReleased ==
    \A w \in Worker : (slot[w] # NoDict /\ Local(w) = {})
                        ~> (slot[w] = NoDict \/ Local(w) # {})
=============================================================================
