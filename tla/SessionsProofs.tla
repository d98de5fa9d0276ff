--------------------------- MODULE SessionsProofs ---------------------------
(***************************************************************************)
(* Sessions: where no task runs while accept() is awaited, every session   *)
(* in use stays in its worker's map until a regeneration or a restore has  *)
(* dropped an entry that was in use -- for any number of sessions,         *)
(* workers, addresses and concurrent operations.                           *)
(***************************************************************************)
EXTENDS Sessions, FiniteSetTheorems, TLAPS

(***************************************************************************)
(* The inductive invariant, for servers whose accept does not yield.       *)
(***************************************************************************)
\* A session in use, or about to be registered, is where its map points; one
\* that is winding down is there too, or its account was deleted and its worker
\* has no entry any more.
TrackingInv ==
    \A s \in Session :
        /\ pc[s] \in {"handshake", "open", "closing"} => s \in registered
        /\ Using(s) => home[s] = slot[where[s]]
        /\ pc[s] = "accepting" => home[s] = slot[where[s]] /\ account # "gone"
        /\ Using(s) \/ pc[s] = "accepting" => slot[where[s]] # NoDict
        /\ s \in registered =>
             /\ home[s] # NoDict
             /\ \/ home[s] = slot[where[s]]
                \/ account = "gone" /\ slot[where[s]] = NoDict

\* A deletion has removed the account before it disconnects, and nobody uses
\* its worker when it pops the entry.
DeleteInv ==
    \A o \in Operator :
        oper[o].op = "delete" =>
            /\ oper[o].stage # "none" => account = "gone"
            /\ oper[o].stage = "kicked" =>
                 \A s \in Session : where[s] = oper[o].at => ~Using(s)

\* An operator in the middle of something does an operation, and a restore that
\* has cleared the map has been noted.
OperInv ==
    \A o \in Operator :
        /\ oper[o].op = "none" => oper[o].stage = "none"
        /\ oper[o].stage = "cleared" => "restore" \in dropped

\* Sessions that a worker holds a place for: those in a dict and the one whose
\* accept is awaited.  Only finitely many have begun, so they can be counted.
Begun == {s \in Session : pc[s] # "new"}
Present(w) == {s \in Session : where[s] = w /\ (s \in registered \/ pc[s] = "accepting")}
SingleWorker == \A v, w \in Worker : v = w

BegunInv ==
    /\ IsFiniteSet(Begun) /\ registered \subseteq Begun
    /\ \A w \in Worker : published[w] \subseteq Begun

\* Each worker keeps the connection cap among the places it holds, and with
\* no sibling they all have one address.
LimitInv ==
    /\ MaxConn > 0 => \A w \in Worker : Cardinality(Present(w)) <= MaxConn
    /\ StrictIp /\ SingleWorker =>
         \A w \in Worker : \A s, t \in Present(w) : addr[s] = addr[t]

IInv ==
    /\ TypeOK /\ OperInv /\ BegunInv
    /\ dropped = {} => TrackingInv /\ DeleteInv /\ LimitInv

Oper == [op : {"none", "delete", "regenerate", "restore"},
         stage : {"none", "changed", "kicked", "cleared"},
         at : Worker]

LEMMA NoOpType == NoOp \in Oper
<1>1. (CHOOSE w \in Worker : TRUE) \in Worker
  BY WorkerAssumption
<1> QED BY <1>1 DEF NoOp, Oper

\* An operator that moves on keeps its operation and its worker.
LEMMA GoToEffect ==
    ASSUME TypeOK, NEW o \in Operator,
           NEW stage \in {"none", "changed", "kicked", "cleared"}, GoTo(o, stage)
    PROVE  /\ oper' \in [Operator -> Oper]
           /\ oper'[o].stage = stage /\ oper'[o].op = oper[o].op
           /\ oper'[o].at = oper[o].at
           /\ \A p \in Operator \ {o} : oper'[p] = oper[p]
<1>1. oper[o] \in Oper
  BY DEF TypeOK, Oper
<1>2. oper'[o] = [oper[o] EXCEPT !.stage = stage]
  BY DEF GoTo, TypeOK
<1>3. /\ oper'[o].stage = stage /\ oper'[o].op = oper[o].op
      /\ oper'[o].at = oper[o].at /\ oper'[o] \in Oper
  BY <1>1, <1>2 DEF Oper
<1>4. \A p \in Operator \ {o} : oper'[p] = oper[p]
  BY DEF GoTo, TypeOK
<1>5. oper' = [oper EXCEPT ![o] = oper'[o]]
  BY DEF GoTo, TypeOK
<1>6. oper' \in [Operator -> Oper]
  BY <1>3, <1>5 DEF TypeOK, Oper
<1> QED BY <1>3, <1>4, <1>6

LEMMA KickType == ASSUME TypeOK, NEW w \in Worker, Kick(w)
                  PROVE  pc' \in [Session -> Place]
BY DEF TypeOK, Kick, Place

LEMMA DropType ==
    ASSUME TypeOK, NEW o \in Operator, Drop(o)
    PROVE  /\ slot' \in [Worker -> Session \cup {NoDict}]
           /\ oper' \in [Operator -> Oper]
           /\ dropped' \subseteq {"regenerate", "restore"}
<1>1. /\ slot' \in [Worker -> Session \cup {NoDict}]
      /\ dropped' \subseteq {"regenerate", "restore"}
  BY DEF Drop, TypeOK
<1>2. CASE oper[o].op = "restore"
  <2>1. GoTo(o, "cleared")
    BY <1>2 DEF Drop
  <2> QED BY <1>1, <2>1, GoToEffect
<1>3. CASE oper[o].op # "restore"
  <2>1. oper' = [oper EXCEPT ![o] = NoOp]
    BY <1>3 DEF Drop
  <2> QED BY <1>1, <2>1, NoOpType DEF TypeOK, Oper
<1> QED BY <1>2, <1>3

LEMMA InitType == Init => TypeOK
<1> SUFFICES ASSUME Init PROVE TypeOK
  OBVIOUS
<1>1. oper \in [Operator -> Oper]
  BY NoOpType DEF Init
<1>2. 0 \in 0..MaxRotations
  BY BoundsAssumption
<1> QED BY <1>1, <1>2 DEF Init, TypeOK, Place, Oper

\* The type invariant is preserved by every step, whatever the operations.
LEMMA NextType == TypeOK /\ [Next]_vars => TypeOK'
<1> SUFFICES ASSUME TypeOK, [Next]_vars PROVE TypeOK'
  OBVIOUS
<1> USE DEF Place
<1>1. ASSUME NEW s \in Session, Connect(s) PROVE TypeOK'
  <2>1. slot' \in [Worker -> Session \cup {NoDict}] /\ home' \in [Session -> Session \cup {NoDict}]
    BY <1>1 DEF Connect, TypeOK
  <2>2. cred' \in [Session -> 0..MaxRotations]
    <3>1. PICK k \in 0..key : cred' = [cred EXCEPT ![s] = k]
      BY <1>1 DEF Connect
    <3>2. k \in 0..MaxRotations
      BY BoundsAssumption DEF TypeOK
    <3> QED BY <3>1, <3>2 DEF TypeOK
  <2>3. pc' \in [Session -> Place]
    BY <1>1 DEF Connect, TypeOK
  <2> QED BY <1>1, <2>1, <2>2, <2>3 DEF Connect, TypeOK
<1>2. ASSUME NEW s \in Session, TurnAway(s) PROVE TypeOK'
  BY <1>2 DEF TurnAway, TypeOK, sessionVars
<1>3. ASSUME NEW s \in Session, Register(s) PROVE TypeOK'
  BY <1>3 DEF Register, TypeOK
<1>4. ASSUME NEW s \in Session, FirstFrame(s) PROVE TypeOK'
  BY <1>4 DEF FirstFrame, TypeOK, sessionVars
<1>5. ASSUME NEW s \in Session, Finish(s) PROVE TypeOK'
  BY <1>5 DEF Finish, TypeOK, sessionVars
<1>6. CASE CutOff \/ Renew
  BY <1>6 DEF CutOff, Renew, TypeOK, sessionVars
<1>7. ASSUME NEW w \in Worker, Enforce(w) PROVE TypeOK'
  <2>1. pc' \in [Session -> Place]
    BY <1>7, KickType DEF Enforce, TypeOK
  <2> QED BY <1>7, <2>1 DEF Enforce, TypeOK, sessionVars
<1>8. ASSUME NEW w \in Worker, PublishJournal(w) PROVE TypeOK'
  <2>1. Local(w) \subseteq Session
    BY DEF Local, InDict, TypeOK
  <2> QED BY <1>8, <2>1 DEF PublishJournal, TypeOK, sessionVars
<1>9. ASSUME NEW o \in Operator, NEW w \in Worker, StartDelete(o, w) PROVE TypeOK'
  BY <1>9 DEF StartDelete, TypeOK, sessionVars
<1>10. ASSUME NEW o \in Operator, NEW w \in Worker, StartRegenerate(o, w) PROVE TypeOK'
  <2>1. key' \in 0..MaxRotations
    BY <1>10, BoundsAssumption DEF StartRegenerate, TypeOK
  <2> QED BY <1>10, <2>1 DEF StartRegenerate, TypeOK, sessionVars
<1>11. ASSUME NEW o \in Operator, NEW w \in Worker, StartRestore(o, w) PROVE TypeOK'
  BY <1>11 DEF StartRestore, TypeOK, sessionVars
<1>12. ASSUME NEW o \in Operator, Disconnect(o) PROVE TypeOK'
  <2>1. oper[o].at \in Worker
    BY DEF TypeOK
  <2>2. pc' \in [Session -> Place]
    BY <1>12, <2>1, KickType DEF Disconnect
  <2>3. /\ slot' \in [Worker -> Session \cup {NoDict}]
        /\ oper' \in [Operator -> Oper]
        /\ dropped' \subseteq {"regenerate", "restore"}
    <3>1. CASE pc' # pc
      <4>1. GoTo(o, "kicked") /\ UNCHANGED <<slot, dropped>>
        BY <1>12, <3>1 DEF Disconnect
      <4> QED BY <4>1, GoToEffect DEF TypeOK
    <3>2. CASE pc' = pc
      <4>1. Drop(o)
        BY <1>12, <3>2 DEF Disconnect
      <4> QED BY <4>1, DropType
    <3> QED BY <3>1, <3>2
  <2> QED BY <1>12, <2>2, <2>3 DEF Disconnect, TypeOK, sessionVars, Oper
<1>13. ASSUME NEW o \in Operator, Forget(o) PROVE TypeOK'
  <2>1. /\ slot' \in [Worker -> Session \cup {NoDict}]
        /\ oper' \in [Operator -> Oper]
        /\ dropped' \subseteq {"regenerate", "restore"}
    BY <1>13, DropType DEF Forget
  <2> QED BY <1>13, <2>1 DEF Forget, TypeOK, sessionVars, Oper
<1>14. ASSUME NEW o \in Operator, FinishRestore(o) PROVE TypeOK'
  <2>1. oper' \in [Operator -> Oper]
    BY <1>14, NoOpType DEF FinishRestore, TypeOK, Oper
  <2>2. key' \in 0..MaxRotations
    BY <1>14, BoundsAssumption DEF FinishRestore, TypeOK
  <2> QED BY <1>14, <2>1, <2>2 DEF FinishRestore, TypeOK, sessionVars, Oper
<1>15. CASE UNCHANGED vars
  BY <1>15 DEF vars, TypeOK
<1> QED BY <1>1, <1>2, <1>3, <1>4, <1>5, <1>6, <1>7, <1>8, <1>9, <1>10, <1>11,
           <1>12, <1>13, <1>14, <1>15 DEF Next, Operate

\* Type correctness of the sessions, for every set of operations.
THEOREM TypeCorrect == Spec => []TypeOK
<1>1. Init => TypeOK
  BY InitType
<1>2. TypeOK /\ [Next]_vars => TypeOK'
  BY NextType
<1> QED BY <1>1, <1>2, PTL DEF Spec

(***************************************************************************)
(* Tracking.                                                               *)
(***************************************************************************)

LEMMA InitTracking == Init => OperInv /\ TrackingInv /\ DeleteInv
BY DEF Init, OperInv, TrackingInv, DeleteInv, Using, NoOp

\* A dropped entry stays dropped, and a restore that clears the map is noted.
LEMMA NextOper ==
    ASSUME TypeOK, OperInv, Next
    PROVE  OperInv' /\ dropped \subseteq dropped'
<1>1. ASSUME NEW o \in Operator, Drop(o), oper[o].op # "none"
      PROVE  OperInv' /\ dropped \subseteq dropped'
  <2>1. dropped \subseteq dropped'
    BY <1>1 DEF Drop
  <2>2. CASE oper[o].op = "restore"
    <3>1. GoTo(o, "cleared") /\ "restore" \in dropped'
      BY <1>1, <2>2 DEF Drop
    <3>2. /\ oper'[o].stage = "cleared" /\ oper'[o].op = oper[o].op
          /\ \A p \in Operator \ {o} : oper'[p] = oper[p]
      BY <3>1, GoToEffect
    <3> QED BY <1>1, <2>1, <3>1, <3>2 DEF OperInv
  <2>3. CASE oper[o].op # "restore"
    <3>1. oper' = [oper EXCEPT ![o] = NoOp]
      BY <1>1, <2>3 DEF Drop
    <3>2. oper'[o] = NoOp /\ \A p \in Operator \ {o} : oper'[p] = oper[p]
      BY <3>1 DEF TypeOK
    <3> QED BY <2>1, <3>2 DEF OperInv, NoOp
  <2> QED BY <2>2, <2>3
<1>2. CASE UNCHANGED <<oper, dropped>>
  BY <1>2 DEF OperInv
<1>3. ASSUME NEW o \in Operator, NEW w \in Worker, NEW op \in {"delete", "regenerate", "restore"},
             oper' = [oper EXCEPT ![o] = [op |-> op, stage |-> "changed", at |-> w]],
             UNCHANGED dropped
      PROVE  OperInv' /\ dropped \subseteq dropped'
  <2>1. /\ oper'[o] = [op |-> op, stage |-> "changed", at |-> w]
        /\ \A p \in Operator \ {o} : oper'[p] = oper[p]
    BY <1>3 DEF TypeOK
  <2> QED BY <1>3, <2>1 DEF OperInv
<1>4. ASSUME NEW o \in Operator, Disconnect(o) PROVE OperInv' /\ dropped \subseteq dropped'
  <2>1. oper[o].op # "none"
    BY <1>4 DEF Disconnect, At, OperInv
  <2>2. CASE pc' # pc
    <3>1. GoTo(o, "kicked") /\ UNCHANGED dropped
      BY <1>4, <2>2 DEF Disconnect
    <3>2. /\ oper'[o].stage = "kicked" /\ oper'[o].op = oper[o].op
          /\ \A p \in Operator \ {o} : oper'[p] = oper[p]
      BY <3>1, GoToEffect
    <3> QED BY <2>1, <3>1, <3>2 DEF OperInv
  <2>3. CASE pc' = pc
    <3>1. Drop(o)
      BY <1>4, <2>3 DEF Disconnect
    <3> QED BY <1>1, <2>1, <3>1
  <2> QED BY <2>2, <2>3
<1>5. ASSUME NEW o \in Operator, Forget(o) PROVE OperInv' /\ dropped \subseteq dropped'
  <2>1. Drop(o) /\ oper[o].op # "none"
    BY <1>5 DEF Forget, At, OperInv
  <2> QED BY <1>1, <2>1
<1>6. ASSUME NEW o \in Operator, FinishRestore(o) PROVE OperInv' /\ dropped \subseteq dropped'
  <2>1. /\ oper'[o] = NoOp /\ \A p \in Operator \ {o} : oper'[p] = oper[p]
        /\ UNCHANGED dropped
    BY <1>6 DEF FinishRestore, TypeOK
  <2> QED BY <2>1 DEF OperInv, NoOp
<1>7. ASSUME NEW s \in Session,
             Connect(s) \/ TurnAway(s) \/ Register(s) \/ FirstFrame(s) \/ Finish(s)
      PROVE  UNCHANGED <<oper, dropped>>
  BY <1>7 DEF Connect, TurnAway, Register, FirstFrame, Finish
<1>8. ASSUME NEW w \in Worker, CutOff \/ Renew \/ Enforce(w) \/ PublishJournal(w)
      PROVE  UNCHANGED <<oper, dropped>>
  BY <1>8 DEF CutOff, Renew, Enforce, PublishJournal
<1>9. ASSUME NEW o \in Operator, NEW w \in Worker,
             StartDelete(o, w) \/ StartRegenerate(o, w) \/ StartRestore(o, w)
      PROVE  OperInv' /\ dropped \subseteq dropped'
  BY <1>3, <1>9 DEF StartDelete, StartRegenerate, StartRestore
<1>10. CASE CutOff \/ Renew
  BY <1>2, <1>10 DEF CutOff, Renew
<1> QED BY <1>2, <1>4, <1>5, <1>6, <1>7, <1>8, <1>9, <1>10 DEF Next, Operate

\* The connections a kicked worker still finds are not in use any more.
LEMMA KickEffect ==
    ASSUME TypeOK, TrackingInv, NEW w \in Worker, Kick(w)
    PROVE  /\ \A s \in Session : Using(s)' => Using(s)
           /\ \A s \in Session : where[s] = w => ~Using(s)'
           /\ \A s \in Session : pc'[s] = "accepting" => pc[s] = "accepting"
           /\ \A s \in Session : pc'[s] \in {"handshake", "open", "closing"}
                                  => pc[s] \in {"handshake", "open", "closing"}
           /\ pc' = pc => \A s \in Session : where[s] = w => ~Using(s)
<1>1. \A s \in Session : pc'[s] = IF s \in Local(w) /\ pc[s] \in {"handshake", "open"}
                                 THEN "closing" ELSE pc[s]
  BY DEF Kick, TypeOK
<1>2. \A s \in Session : where[s] = w /\ Using(s) => s \in Local(w)
  BY DEF TrackingInv, Using, Local, InDict, TypeOK
<1> QED BY <1>1, <1>2 DEF Using

\* Dropping an entry nobody uses loses nobody: the account was deleted, or the
\* entry was empty.
LEMMA DropEffect ==
    ASSUME TypeOK, OperInv, TrackingInv, DeleteInv, NEW o \in Operator, Drop(o),
           dropped' = {}, oper[o].op # "none",
           \A s \in Session : pc[s] # "accepting", account' = account,
           oper[o].op = "delete" =>
              account = "gone" /\ \A s \in Session : where[s] = oper[o].at => ~Using(s),
           UNCHANGED <<pc, sessionVars, registered>>
    PROVE  TrackingInv' /\ DeleteInv'
<1> DEFINE w == oper[o].at
<1>1. w \in Worker /\ oper[o].op \in {"delete", "regenerate", "restore"}
  BY DEF TypeOK
<1>2. oper[o].op # "restore" /\ (oper[o].op = "regenerate" => Local(w) = {})
  BY DEF Drop
<1>3. slot' = [slot EXCEPT ![w] = NoDict] /\ oper' = [oper EXCEPT ![o] = NoOp]
  BY <1>2 DEF Drop
<1>4. slot'[w] = NoDict /\ \A v \in Worker \ {w} : slot'[v] = slot[v]
  BY <1>1, <1>3 DEF TypeOK
<1>5. TrackingInv'
  <2>1. CASE oper[o].op = "delete"
    BY <1>1, <1>4, <2>1 DEF TrackingInv, Using, TypeOK, sessionVars
  <2>2. CASE oper[o].op = "regenerate"
    <3>1. Local(w) = {}
      BY <1>2, <2>2
    <3>2. \A s \in Session : where[s] = w /\ slot[w] # NoDict => s \notin registered
      BY <3>1 DEF TrackingInv, Local, InDict
    <3>3. \A s \in Session : where[s] = w => ~Using(s)
      BY <3>2 DEF TrackingInv, Using
    <3> HIDE DEF w
    <3>4. \A s \in Session : \/ slot'[where[s]] = slot[where[s]]
                             \/ s \notin registered /\ ~Using(s)
      <4> TAKE s \in Session
      <4>1. where[s] \in Worker
        BY DEF TypeOK
      <4>2. CASE where[s] # w
        BY <1>4, <4>1, <4>2
      <4>3. CASE where[s] = w
        BY <1>4, <3>2, <3>3, <4>3
      <4> QED BY <4>2, <4>3
    <3> QED BY <3>4 DEF TrackingInv, Using, sessionVars
  <2> QED BY <1>1, <1>2, <2>1, <2>2
<1>6. DeleteInv'
  BY <1>3 DEF DeleteInv, TypeOK, NoOp, Using, sessionVars
<1> QED BY <1>5, <1>6

LEMMA NextTracking ==
    ASSUME ~AcceptYields, TypeOK, OperInv, TrackingInv, DeleteInv, Next,
           dropped' = {}
    PROVE  TrackingInv' /\ DeleteInv'
<1>0. Quiet => \A s \in Session : pc[s] # "accepting"
  BY DEF Quiet
<1>1. ASSUME NEW s \in Session, Connect(s) PROVE TrackingInv' /\ DeleteInv'
  <2> DEFINE d == IF slot[where[s]] = NoDict THEN s ELSE slot[where[s]]
  <2>1. /\ account = "live" /\ pc[s] = "new" /\ where[s] \in Worker
        /\ \A t \in Session : pc[t] # "accepting"
    BY <1>0, <1>1 DEF Connect, TypeOK
  <2>2. /\ slot' = [slot EXCEPT ![where[s]] = d] /\ home' = [home EXCEPT ![s] = d]
        /\ pc' = [pc EXCEPT ![s] = "accepting"]
        /\ UNCHANGED <<account, where, registered, oper>>
    BY <1>1 DEF Connect
  <2>3. d # NoDict
    BY DictAssumption
  <2>4. slot'[where[s]] = d /\ home'[s] = d
    BY <2>1, <2>2 DEF TypeOK
  <2>5. ASSUME NEW t \in Session, t # s
        PROVE  /\ pc'[t] = pc[t] /\ home'[t] = home[t]
               /\ slot[where[t]] # NoDict => slot'[where[t]] = slot[where[t]]
    BY <2>1, <2>2, <2>5 DEF TypeOK
  <2>6. TrackingInv'
    <3> HIDE DEF d
    <3>1. ASSUME NEW t \in Session, t # s
          PROVE  t \in registered => home[t] # NoDict /\ home[t] = slot[where[t]]
      BY <2>1, <3>1 DEF TrackingInv
    <3>2. ~Using(s)' /\ pc'[s] = "accepting"
      BY <2>2 DEF Using, TypeOK
    <3> QED BY <2>1, <2>2, <2>3, <2>4, <2>5, <3>1, <3>2 DEF TrackingInv, Using
  <2>7. DeleteInv'
    BY <2>1, <2>2 DEF DeleteInv, Using
  <2> QED BY <2>6, <2>7
<1>2. ASSUME NEW s \in Session, TurnAway(s) PROVE TrackingInv' /\ DeleteInv'
  <2>1. /\ pc[s] = "new" /\ where[s] \in Worker
        /\ \A t \in Session : pc[t] # "accepting"
        /\ pc' = [pc EXCEPT ![s] = "gone"]
        /\ UNCHANGED <<account, where, home, registered, oper>>
    BY <1>0, <1>2 DEF TurnAway, TypeOK, sessionVars
  <2>2. ASSUME NEW t \in Session
        PROVE  \/ slot'[where[t]] = slot[where[t]]
               \/ account = "live" /\ slot[where[t]] = NoDict
    BY <1>2, <2>1 DEF TurnAway, TypeOK
  <2>3. \A t \in Session : /\ Using(t)' => Using(t)
                           /\ pc'[t] # "accepting"
                           /\ pc'[t] \in {"handshake", "open", "closing"}
                                => pc[t] \in {"handshake", "open", "closing"}
    BY <2>1 DEF Using, TypeOK
  <2>4. TrackingInv'
    BY <2>1, <2>2, <2>3 DEF TrackingInv
  <2>5. DeleteInv'
    BY <2>1, <2>3 DEF DeleteInv
  <2> QED BY <2>4, <2>5
<1>3. ASSUME NEW s \in Session, Register(s) PROVE TrackingInv' /\ DeleteInv'
  <2>1. /\ pc[s] = "accepting" /\ pc' = [pc EXCEPT ![s] = "handshake"]
        /\ registered' = registered \cup {s}
        /\ UNCHANGED <<account, where, home, slot, oper>>
    BY <1>3 DEF Register
  <2>2. account # "gone" /\ home[s] = slot[where[s]] /\ home[s] # NoDict
    BY <2>1 DEF TrackingInv
  <2>3. TrackingInv'
    BY <2>1, <2>2 DEF TrackingInv, Using, TypeOK
  <2>4. DeleteInv'
    BY <2>1, <2>2 DEF DeleteInv
  <2> QED BY <2>3, <2>4
<1>4. ASSUME NEW s \in Session, FirstFrame(s) PROVE TrackingInv' /\ DeleteInv'
  <2>1. /\ pc[s] = "handshake"
        /\ pc' = [pc EXCEPT ![s] = "open"] \/ pc' = [pc EXCEPT ![s] = "closing"]
        /\ UNCHANGED <<account, where, home, registered, slot, oper>>
    BY <1>4 DEF FirstFrame, sessionVars
  <2>2. \A t \in Session : /\ Using(t)' => Using(t)
                           /\ pc'[t] = "accepting" => pc[t] = "accepting"
                           /\ pc'[t] \in {"handshake", "open", "closing"}
                                => pc[t] \in {"handshake", "open", "closing"}
    BY <2>1 DEF Using, TypeOK
  <2> QED BY <2>1, <2>2 DEF TrackingInv, DeleteInv
<1>5. ASSUME NEW s \in Session, Finish(s) PROVE TrackingInv' /\ DeleteInv'
  <2>1. /\ \A t \in Session : pc[t] # "accepting"
        /\ pc[s] \in {"handshake", "open", "closing"} /\ where[s] \in Worker
        /\ pc' = [pc EXCEPT ![s] = "gone"]
        /\ registered' = registered \ {s}
        /\ UNCHANGED <<account, where, home, oper>>
    BY <1>0, <1>5 DEF Finish, TypeOK, sessionVars
  <2>2. \A t \in Session : /\ Using(t)' => Using(t) /\ t # s
                           /\ pc'[t] # "accepting"
                           /\ pc'[t] \in {"handshake", "open", "closing"}
                                => pc[t] \in {"handshake", "open", "closing"} /\ t # s
    BY <2>1 DEF Using, TypeOK
  <2>3. s \in registered
    BY <2>1 DEF TrackingInv
  <2>4. ASSUME NEW t \in Session, t # s, t \in registered, home[t] = slot[where[t]]
        PROVE  slot'[where[t]] = slot[where[t]]
    <3>1. home[t] # NoDict
      BY <2>4 DEF TrackingInv
    <3>2. CASE where[t] = where[s]
      <4>1. home[s] = slot[where[s]]
        BY <2>3, <2>4, <3>1, <3>2 DEF TrackingInv
      <4>2. t \in InDict(home[s]) \ {s}
        BY <2>4, <3>2, <4>1 DEF InDict, TypeOK
      <4> QED BY <1>5, <4>2 DEF Finish
    <3>3. CASE where[t] # where[s]
      BY <1>5, <2>1, <3>3 DEF Finish, TypeOK
    <3> QED BY <3>2, <3>3
  <2>5. ASSUME NEW t \in Session, slot[where[t]] = NoDict PROVE slot'[where[t]] = NoDict
    BY <1>5, <2>5 DEF Finish, TypeOK
  <2>6. TrackingInv'
    BY <2>1, <2>2, <2>4, <2>5 DEF TrackingInv, Using
  <2>7. DeleteInv'
    BY <2>1, <2>2 DEF DeleteInv
  <2> QED BY <2>6, <2>7
<1>6. CASE CutOff \/ Renew
  <2>1. /\ account # "gone" /\ account' # "gone"
        /\ UNCHANGED <<pc, where, home, registered, slot, oper>>
    BY <1>6 DEF CutOff, Renew, sessionVars
  <2> QED BY <2>1 DEF TrackingInv, DeleteInv, Using
<1>7. ASSUME NEW w \in Worker, Enforce(w) PROVE TrackingInv' /\ DeleteInv'
  <2>1. /\ \A t \in Session : pc[t] # "accepting"
        /\ slot[w] # NoDict
        /\ UNCHANGED <<account, where, home, registered, oper>>
    BY <1>0, <1>7 DEF Enforce, sessionVars
  <2>2. CASE Local(w) = {}
    <3>1. slot' = [slot EXCEPT ![w] = NoDict] /\ pc' = pc
      BY <1>7, <2>2 DEF Enforce
    <3>2. \A t \in Session : t \in registered => where[t] # w
      BY <2>1, <2>2 DEF Local, InDict, TrackingInv
    <3>3. \A t \in Session : where[t] # w => slot'[where[t]] = slot[where[t]]
      BY <3>1 DEF TypeOK
    <3>4. TrackingInv'
      BY <2>1, <3>1, <3>2, <3>3 DEF TrackingInv, Using
    <3>5. DeleteInv'
      BY <2>1, <3>1 DEF DeleteInv, Using
    <3> QED BY <3>4, <3>5
  <2>3. CASE Local(w) # {}
    <3>1. Kick(w) /\ slot' = slot
      BY <1>7, <2>3 DEF Enforce
    <3> QED BY <2>1, <3>1, KickEffect DEF TrackingInv, DeleteInv
  <2> QED BY <2>2, <2>3
<1>8. ASSUME NEW w \in Worker, PublishJournal(w) PROVE TrackingInv' /\ DeleteInv'
  BY <1>8 DEF PublishJournal, sessionVars, TrackingInv, DeleteInv, Using
<1>9. ASSUME NEW o \in Operator, NEW w \in Worker, StartDelete(o, w)
      PROVE  TrackingInv' /\ DeleteInv'
  <2>1. /\ \A t \in Session : pc[t] # "accepting"
        /\ account' = "gone" /\ account # "gone"
        /\ oper' = [oper EXCEPT ![o] = [op |-> "delete", stage |-> "changed", at |-> w]]
        /\ UNCHANGED <<pc, where, home, registered, slot>>
    BY <1>0, <1>9 DEF StartDelete, sessionVars
  <2> QED BY <2>1 DEF TrackingInv, DeleteInv, Using, TypeOK
<1>10. ASSUME NEW o \in Operator, NEW w \in Worker, StartRegenerate(o, w) \/ StartRestore(o, w)
       PROVE  TrackingInv' /\ DeleteInv'
  <2>1. PICK op \in {"regenerate", "restore"} :
           oper' = [oper EXCEPT ![o] = [op |-> op, stage |-> "changed", at |-> w]]
    BY <1>10 DEF StartRegenerate, StartRestore
  <2>2. UNCHANGED <<account, pc, where, home, registered, slot>>
    BY <1>10 DEF StartRegenerate, StartRestore, sessionVars
  <2>3. oper'[o].op # "delete" /\ \A p \in Operator \ {o} : oper'[p] = oper[p]
    BY <2>1 DEF TypeOK
  <2>4. TrackingInv'
    BY <2>2 DEF TrackingInv, Using
  <2>5. DeleteInv'
    BY <2>2, <2>3 DEF DeleteInv, Using
  <2> QED BY <2>4, <2>5
<1>11. ASSUME NEW o \in Operator, Disconnect(o) PROVE TrackingInv' /\ DeleteInv'
  <2>1. /\ \A t \in Session : pc[t] # "accepting"
        /\ Kick(oper[o].at) /\ oper[o].at \in Worker /\ oper[o].stage = "changed"
        /\ oper[o].op # "none"
        /\ UNCHANGED <<account, where, home, registered>>
    BY <1>0, <1>11 DEF Disconnect, sessionVars, TypeOK, At, OperInv
  <2>2. oper[o].op = "delete" => account = "gone"
    BY <2>1 DEF DeleteInv
  <2>3. CASE pc' # pc
    <3>1. GoTo(o, "kicked") /\ slot' = slot
      BY <1>11, <2>3 DEF Disconnect
    <3>2. /\ oper'[o].stage = "kicked" /\ oper'[o].op = oper[o].op
          /\ oper'[o].at = oper[o].at
          /\ \A p \in Operator \ {o} : oper'[p] = oper[p]
      BY <3>1, GoToEffect
    <3>3. TrackingInv'
      BY <2>1, <3>1, KickEffect DEF TrackingInv
    <3>4. DeleteInv'
      BY <2>1, <2>2, <3>2, KickEffect DEF DeleteInv
    <3> QED BY <3>3, <3>4
  <2>4. CASE pc' = pc
    <3>1. Drop(o) /\ \A s \in Session : where[s] = oper[o].at => ~Using(s)
      BY <1>11, <2>1, <2>4, KickEffect DEF Disconnect
    <3> QED BY <1>11, <2>1, <2>2, <2>4, <3>1, DropEffect DEF Disconnect
  <2> QED BY <2>3, <2>4
<1>12. ASSUME NEW o \in Operator, Forget(o) PROVE TrackingInv' /\ DeleteInv'
  <2>1. /\ \A t \in Session : pc[t] # "accepting"
        /\ Drop(o) /\ oper[o].stage = "kicked" /\ oper[o].op # "none"
        /\ UNCHANGED <<account, pc, sessionVars, registered>>
    BY <1>0, <1>12 DEF Forget, At, OperInv
  <2>2. oper[o].op = "delete" =>
          account = "gone" /\ \A s \in Session : where[s] = oper[o].at => ~Using(s)
    BY <2>1 DEF DeleteInv
  <2> QED BY <2>1, <2>2, DropEffect
<1>13. ASSUME NEW o \in Operator, FinishRestore(o) PROVE FALSE
  <2>1. "restore" \in dropped /\ dropped' = dropped
    BY <1>13 DEF FinishRestore, At, OperInv
  <2> QED BY <2>1
<1> QED BY <1>1, <1>2, <1>3, <1>4, <1>5, <1>6, <1>7, <1>8, <1>9, <1>10, <1>11,
           <1>12, <1>13 DEF Next, Operate

(***************************************************************************)
(* Limits.                                                                 *)
(***************************************************************************)

LEMMA InitLimit == Init => BegunInv /\ LimitInv
<1> SUFFICES ASSUME Init PROVE BegunInv /\ LimitInv
  OBVIOUS
<1>1. Begun = {} /\ \A w \in Worker : Present(w) = {}
  BY DEF Init, Begun, Present
<1>2. IsFiniteSet({}) /\ Cardinality({}) = 0
  BY FS_EmptySet
<1>3. BegunInv
  BY <1>1, <1>2 DEF BegunInv, Init
<1>4. MaxConn > 0 => 0 <= MaxConn
  BY BoundsAssumption
<1>5. LimitInv
  BY <1>1, <1>2, <1>4 DEF LimitInv
<1> QED BY <1>3, <1>5

\* A step begins at most one session, and moves none back.
LEMMA BegunEffect ==
    ASSUME TypeOK, Next
    PROVE  /\ \E s : Begun' \subseteq Begun \cup {s}
           /\ Begun \subseteq Begun'
<1>1. CASE UNCHANGED pc
  BY <1>1 DEF Begun
<1>2. ASSUME NEW s \in Session,
             Connect(s) \/ TurnAway(s) \/ Register(s) \/ FirstFrame(s) \/ Finish(s)
      PROVE  /\ \E t : Begun' \subseteq Begun \cup {t}
             /\ Begun \subseteq Begun'
  <2>1. PICK p \in Place \ {"new"} : pc' = [pc EXCEPT ![s] = p]
    BY <1>2 DEF Connect, TurnAway, Register, FirstFrame, Finish, Place
  <2>2. Begun' = Begun \cup {s}
    BY <2>1 DEF Begun, TypeOK
  <2> QED BY <2>2
<1>3. ASSUME NEW w \in Worker, Kick(w)
      PROVE  Begun' = Begun
  BY <1>3 DEF Kick, Begun, TypeOK
<1>4. ASSUME NEW w \in Worker, Enforce(w)
      PROVE  /\ \E t : Begun' \subseteq Begun \cup {t}
             /\ Begun \subseteq Begun'
  BY <1>1, <1>3, <1>4 DEF Enforce
<1>5. ASSUME NEW o \in Operator, Disconnect(o)
      PROVE  /\ \E t : Begun' \subseteq Begun \cup {t}
             /\ Begun \subseteq Begun'
  <2>1. oper[o].at \in Worker /\ Kick(oper[o].at)
    BY <1>5 DEF Disconnect, TypeOK
  <2> QED BY <1>3, <2>1
<1>6. CASE CutOff \/ Renew
  BY <1>1, <1>6 DEF CutOff, Renew
<1>7. ASSUME NEW w \in Worker, PublishJournal(w) PROVE UNCHANGED pc
  BY <1>7 DEF PublishJournal
<1>8. ASSUME NEW o \in Operator, Forget(o) \/ FinishRestore(o) PROVE UNCHANGED pc
  BY <1>8 DEF Forget, FinishRestore
<1>9. ASSUME NEW o \in Operator, NEW w \in Worker,
             StartDelete(o, w) \/ StartRegenerate(o, w) \/ StartRestore(o, w)
      PROVE  UNCHANGED pc
  BY <1>9 DEF StartDelete, StartRegenerate, StartRestore
<1> QED BY <1>1, <1>2, <1>4, <1>5, <1>6, <1>7, <1>8, <1>9 DEF Next, Operate

\* What is registered or published is registered already, or was being accepted.
LEMMA RegisteredEffect ==
    ASSUME TypeOK, Next
    PROVE  /\ registered' \subseteq registered \cup {s \in Session : pc[s] = "accepting"}
           /\ \A w \in Worker : published'[w] \subseteq published[w] \cup registered
<1>1. ASSUME NEW s \in Session,
             Connect(s) \/ TurnAway(s) \/ Register(s) \/ FirstFrame(s) \/ Finish(s)
      PROVE  /\ registered' \subseteq registered \cup {t \in Session : pc[t] = "accepting"}
             /\ published' = published
  BY <1>1 DEF Connect, TurnAway, Register, FirstFrame, Finish
<1>2. ASSUME NEW w \in Worker, PublishJournal(w)
      PROVE  /\ registered' = registered
             /\ \A v \in Worker : published'[v] \subseteq published[v] \cup registered
  BY <1>2 DEF PublishJournal, Local, InDict, sessionVars, TypeOK
<1>3. ASSUME NEW w \in Worker, CutOff \/ Renew \/ Enforce(w)
      PROVE  UNCHANGED <<registered, published>>
  BY <1>3 DEF CutOff, Renew, Enforce
<1>4. ASSUME NEW o \in Operator, Disconnect(o) \/ Forget(o) \/ FinishRestore(o)
      PROVE  UNCHANGED <<registered, published>>
  BY <1>4 DEF Disconnect, Forget, FinishRestore
<1>5. ASSUME NEW o \in Operator, NEW w \in Worker,
             StartDelete(o, w) \/ StartRegenerate(o, w) \/ StartRestore(o, w)
      PROVE  UNCHANGED <<registered, published>>
  BY <1>5 DEF StartDelete, StartRegenerate, StartRestore
<1>6. CASE CutOff \/ Renew
  BY <1>6 DEF CutOff, Renew
<1> QED BY <1>1, <1>2, <1>3, <1>4, <1>5, <1>6 DEF Next, Operate

LEMMA NextBegun == ASSUME TypeOK, BegunInv, Next PROVE BegunInv'
<1>1. PICK s : Begun' \subseteq Begun \cup {s}
  BY BegunEffect
<1>2. IsFiniteSet(Begun \cup {s})
  BY FS_AddElement DEF BegunInv
<1>3. IsFiniteSet(Begun')
  BY <1>1, <1>2, FS_Subset
<1>4. {t \in Session : pc[t] = "accepting"} \subseteq Begun /\ Begun \subseteq Begun'
  BY BegunEffect DEF Begun
<1>5. /\ registered' \subseteq Begun'
      /\ \A w \in Worker : published'[w] \subseteq Begun'
  BY <1>4, RegisteredEffect DEF BegunInv
<1> QED BY <1>3, <1>5 DEF BegunInv

\* Where the cap and the address lock are checked, a worker holds places only for
\* sessions that it finds in its map.
LEMMA PresentIsLocal ==
    ASSUME TypeOK, TrackingInv, NEW w \in Worker, account # "gone",
           \A s \in Session : pc[s] # "accepting"
    PROVE  Present(w) \subseteq Local(w)
<1> SUFFICES ASSUME NEW s \in Present(w) PROVE s \in Local(w)
  OBVIOUS
<1>1. s \in Session /\ s \in registered /\ where[s] = w
  BY DEF Present
<1>2. home[s] = slot[w] /\ home[s] # NoDict
  BY <1>1 DEF TrackingInv
<1> QED BY <1>1, <1>2 DEF Local, InDict

\* Every step but a connect only gives places up.
LEMMA PresentShrinks ==
    ASSUME TypeOK, TrackingInv, Next, \A s \in Session : ~Connect(s)
    PROVE  /\ \A w \in Worker : Present(w)' \subseteq Present(w)
           /\ addr' = addr
<1>1. CASE UNCHANGED <<pc, sessionVars, registered>>
  BY <1>1 DEF Present, sessionVars
<1>2. ASSUME NEW s \in Session, TurnAway(s) \/ FirstFrame(s) \/ Finish(s)
      PROVE  /\ \A w \in Worker : Present(w)' \subseteq Present(w)
             /\ addr' = addr
  <2>1. /\ registered' \subseteq registered
        /\ \A t \in Session : pc'[t] = "accepting" => pc[t] = "accepting"
        /\ where' = where /\ addr' = addr
    BY <1>2 DEF TurnAway, FirstFrame, Finish, sessionVars, TypeOK
  <2> QED BY <2>1 DEF Present
<1>3. ASSUME NEW s \in Session, Register(s)
      PROVE  /\ \A w \in Worker : Present(w)' \subseteq Present(w)
             /\ addr' = addr
  <2>1. /\ pc[s] = "accepting" /\ registered' = registered \cup {s}
        /\ \A t \in Session : pc'[t] = "accepting" => pc[t] = "accepting"
        /\ where' = where /\ addr' = addr
    BY <1>3 DEF Register, TypeOK
  <2> QED BY <2>1 DEF Present
<1>4. ASSUME NEW v \in Worker, Kick(v), UNCHANGED <<sessionVars, registered>>
      PROVE  /\ \A w \in Worker : Present(w)' \subseteq Present(w)
             /\ addr' = addr
  BY <1>4, KickEffect DEF Present, sessionVars
<1>5. ASSUME NEW w \in Worker, Enforce(w)
      PROVE  UNCHANGED <<sessionVars, registered>> /\ (UNCHANGED pc \/ Kick(w))
  BY <1>5 DEF Enforce
<1>6. ASSUME NEW w \in Worker, PublishJournal(w)
      PROVE  UNCHANGED <<pc, sessionVars, registered>>
  BY <1>6 DEF PublishJournal
<1>7. ASSUME NEW o \in Operator, Disconnect(o)
      PROVE  /\ \A w \in Worker : Present(w)' \subseteq Present(w)
             /\ addr' = addr
  <2>1. oper[o].at \in Worker /\ Kick(oper[o].at) /\ UNCHANGED <<sessionVars, registered>>
    BY <1>7 DEF Disconnect, TypeOK
  <2> QED BY <1>4, <2>1
<1>8. ASSUME NEW o \in Operator, Forget(o) \/ FinishRestore(o)
      PROVE  UNCHANGED <<pc, sessionVars, registered>>
  BY <1>8 DEF Forget, FinishRestore
<1>9. ASSUME NEW o \in Operator, NEW w \in Worker,
             StartDelete(o, w) \/ StartRegenerate(o, w) \/ StartRestore(o, w)
      PROVE  UNCHANGED <<pc, sessionVars, registered>>
  BY <1>9 DEF StartDelete, StartRegenerate, StartRestore
<1>10. CASE CutOff \/ Renew
  BY <1>1, <1>10 DEF CutOff, Renew
<1>11. ASSUME NEW w \in Worker, Enforce(w)
       PROVE  /\ \A v \in Worker : Present(v)' \subseteq Present(v)
              /\ addr' = addr
  BY <1>1, <1>4, <1>5, <1>11
<1> QED BY <1>1, <1>2, <1>3, <1>6, <1>7, <1>8, <1>9, <1>10, <1>11 DEF Next, Operate

\* Sessions that a worker holds places for have begun, so they can be counted.
LEMMA PresentFinite ==
    ASSUME BegunInv, NEW w \in Worker
    PROVE  IsFiniteSet(Present(w)) /\ Cardinality(Present(w)) \in Nat
<1>1. Present(w) \subseteq Begun
  BY DEF Present, Begun, BegunInv
<1>2. IsFiniteSet(Present(w))
  BY <1>1, FS_Subset DEF BegunInv
<1> QED BY <1>2, FS_CardinalityType

LEMMA NextLimit ==
    ASSUME ~AcceptYields, TypeOK, BegunInv, TrackingInv, LimitInv, Next
    PROVE  LimitInv'
<1>1. CASE \A s \in Session : ~Connect(s)
  <2>1. \A w \in Worker : Present(w)' \subseteq Present(w) /\ addr' = addr
    BY <1>1, PresentShrinks
  <2>2. ASSUME NEW w \in Worker, MaxConn > 0 PROVE Cardinality(Present(w)') <= MaxConn
    <3>1. IsFiniteSet(Present(w)) /\ Cardinality(Present(w)) \in Nat
      BY PresentFinite
    <3>2. IsFiniteSet(Present(w)') /\ Cardinality(Present(w)') <= Cardinality(Present(w))
      BY <2>1, <3>1, FS_Subset
    <3>3. Cardinality(Present(w)') \in Nat
      BY <3>2, FS_CardinalityType
    <3>4. Cardinality(Present(w)) <= MaxConn
      BY <2>2 DEF LimitInv
    <3> QED BY <3>1, <3>2, <3>3, <3>4, BoundsAssumption
  <2> QED BY <2>1, <2>2 DEF LimitInv, SingleWorker
<1>2. ASSUME NEW s \in Session, Connect(s) PROVE LimitInv'
  <2>0. PICK w \in Worker : w = where[s]
    BY DEF TypeOK
  <2>1. /\ account # "gone" /\ Admitted(s)
        /\ \A t \in Session : pc[t] # "accepting"
        /\ pc' = [pc EXCEPT ![s] = "accepting"]
        /\ UNCHANGED <<where, addr, registered>>
    BY <1>2 DEF Connect, Quiet
  <2>2. \A t \in Session : pc'[t] = "accepting" => t = s
    BY <2>1 DEF TypeOK
  <2>3. Present(w)' \subseteq Present(w) \cup {s}
    BY <2>0, <2>1, <2>2 DEF Present
  <2>4. \A v \in Worker \ {w} : Present(v)' \subseteq Present(v)
    BY <2>0, <2>1, <2>2 DEF Present
  <2>5. Present(w) \subseteq Local(w) /\ Local(w) \subseteq Merged(w)
    BY <2>1, PresentIsLocal DEF Merged
  <2>6. ASSUME NEW v \in Worker, MaxConn > 0 PROVE Cardinality(Present(v)') <= MaxConn
    <3>1. CASE v = w
      <4>1. Merged(w) \subseteq Begun
        BY DEF BegunInv, Merged, Local, InDict
      <4>2. IsFiniteSet(Merged(w))
        BY <4>1, FS_Subset DEF BegunInv
      <4>3. Cardinality(Merged(w)) \in Nat /\ Cardinality(Present(w)) \in Nat
        BY <2>1, <4>2, FS_CardinalityType, PresentFinite
      <4>4. Cardinality(Merged(w)) < MaxConn
        BY <2>0, <2>1, <2>6 DEF Admitted
      <4>5. Cardinality(Present(w)) <= Cardinality(Merged(w))
        BY <2>5, <4>2, FS_Subset
      <4>6. IsFiniteSet(Present(w))
        BY <2>1, PresentFinite
      <4>7. /\ IsFiniteSet(Present(w) \cup {s})
            /\ Cardinality(Present(w) \cup {s}) \in {Cardinality(Present(w)), Cardinality(Present(w)) + 1}
        BY <4>6, FS_AddElement
      <4>8. /\ IsFiniteSet(Present(w)')
            /\ Cardinality(Present(w)') <= Cardinality(Present(w) \cup {s})
        BY <2>3, <4>7, FS_Subset
      <4>9. Cardinality(Present(w)') \in Nat
        BY <4>8, FS_CardinalityType
      <4> QED BY <3>1, <4>3, <4>4, <4>5, <4>7, <4>8, <4>9, BoundsAssumption
    <3>2. CASE v # w
      <4>1. IsFiniteSet(Present(v)) /\ Cardinality(Present(v)) \in Nat
        BY PresentFinite
      <4>2. IsFiniteSet(Present(v)') /\ Cardinality(Present(v)') <= Cardinality(Present(v))
        BY <2>4, <3>2, <4>1, FS_Subset
      <4>3. Cardinality(Present(v)') \in Nat
        BY <4>2, FS_CardinalityType
      <4>4. Cardinality(Present(v)) <= MaxConn
        BY <2>6 DEF LimitInv
      <4> QED BY <4>1, <4>2, <4>3, <4>4, BoundsAssumption
    <3> QED BY <3>1, <3>2
  <2>7. ASSUME StrictIp, SingleWorker, NEW v \in Worker
        PROVE  \A t, u \in Present(v)' : addr'[t] = addr'[u]
    <3>1. v = w /\ Merged(w) = Local(w)
      BY <2>1, <2>7 DEF SingleWorker, Merged
    <3>2. \A t, u \in Present(w) : addr[t] = addr[u]
      BY <2>1, <2>7 DEF LimitInv
    <3>3. Local(w) \subseteq Present(w) \cup {t \in Session : where[t] # w}
      BY DEF Local, InDict, Present, TypeOK
    <3>4. \A t \in Session : where[t] = w
      BY <2>1, <2>7 DEF SingleWorker, TypeOK
    <3>5. Merged(w) # {} => \E t \in Present(w) : addr[t] = addr[s]
      BY <2>0, <2>1, <2>7, <3>1, <3>3, <3>4 DEF Admitted
    <3>6. \A t \in Present(w) : addr[t] = addr[s]
      BY <2>5, <3>2, <3>5
    <3> QED BY <2>1, <2>3, <3>1, <3>2, <3>6
  <2> QED BY <2>6, <2>7 DEF LimitInv, SingleWorker
<1> QED BY <1>1, <1>2

\* The inductive invariant holds of every reachable state.
THEOREM Invariance == ASSUME ~AcceptYields PROVE Spec => []IInv
<1>1. Init => IInv
  BY InitType, InitTracking, InitLimit DEF IInv
<1>2. IInv /\ [Next]_vars => IInv'
  <2>1. ASSUME IInv, Next PROVE IInv'
    <3>1. TypeOK'
      BY <2>1, NextType DEF IInv
    <3>2. OperInv' /\ dropped \subseteq dropped'
      BY <2>1, NextOper DEF IInv
    <3>3. BegunInv'
      BY <2>1, NextBegun DEF IInv
    <3>4. ASSUME dropped' = {} PROVE TrackingInv' /\ DeleteInv' /\ LimitInv'
      <4>1. TrackingInv /\ DeleteInv /\ LimitInv
        BY <2>1, <3>2, <3>4 DEF IInv
      <4>2. TrackingInv' /\ DeleteInv'
        BY <2>1, <3>4, <4>1, NextTracking DEF IInv
      <4>3. LimitInv'
        BY <2>1, <4>1, NextLimit DEF IInv
      <4> QED BY <4>2, <4>3
    <3> QED BY <3>1, <3>2, <3>3, <3>4 DEF IInv
  <2>2. ASSUME IInv, UNCHANGED vars PROVE IInv'
    <3>1. TypeOK' /\ OperInv'
      BY <2>2 DEF IInv, vars, TypeOK, OperInv
    <3>2. BegunInv' /\ (LimitInv => LimitInv')
      BY <2>2 DEF IInv, vars, BegunInv, Begun, LimitInv, Present, SingleWorker
    <3>3. TrackingInv /\ DeleteInv => TrackingInv' /\ DeleteInv'
      BY <2>2 DEF vars, TrackingInv, DeleteInv, Using
    <3> QED BY <2>2, <3>1, <3>2, <3>3 DEF IInv, vars
  <2> QED BY <2>1, <2>2
<1> QED BY <1>1, <1>2, PTL DEF Spec

\* A session in use is always found through its worker's map: no interleaving of
\* connects, disconnects, sweeps and deletions orphans a connection, nor does a
\* regeneration or a restore before it drops an entry in use.
THEOREM SessionsStayTracked ==
    ASSUME ~AcceptYields PROVE Spec => []EverySessionTracked
<1>1. IInv => EverySessionTracked
  <2> SUFFICES ASSUME IInv, dropped = {}, NEW s \in Session, Using(s)
               PROVE  s \in Local(where[s])
    BY DEF EverySessionTracked
  <2> QED BY DEF IInv, TrackingInv, Using, Local, InDict
<1> QED BY <1>1, Invariance, PTL

\* The sessions in use are among those a worker holds a place for.
LEMMA UsersArePresent ==
    ASSUME IInv, dropped = {}, NEW w \in Worker
    PROVE  /\ {s \in Session : Using(s) /\ where[s] = w} \subseteq Present(w)
           /\ MaxConn > 0 =>
                Cardinality({s \in Session : Using(s) /\ where[s] = w}) <= MaxConn
<1> DEFINE U == {s \in Session : Using(s) /\ where[s] = w}
<1>1. U \subseteq Present(w)
  BY DEF IInv, TrackingInv, Using, Present
<1>2. IsFiniteSet(Present(w)) /\ Cardinality(Present(w)) \in Nat
  BY PresentFinite DEF IInv
<1>3. IsFiniteSet(U) /\ Cardinality(U) <= Cardinality(Present(w))
  BY <1>1, <1>2, FS_Subset
<1>4. Cardinality(U) \in Nat
  BY <1>3, FS_CardinalityType
<1>5. MaxConn > 0 => Cardinality(Present(w)) <= MaxConn
  BY DEF IInv, LimitInv
<1>6. MaxConn > 0 => Cardinality(U) <= MaxConn
  BY <1>2, <1>3, <1>4, <1>5, BoundsAssumption
<1> QED BY <1>1, <1>6

\* However many siblings it has and whenever their journals arrive, a worker never
\* serves more sessions of an account than max_connections.
THEOREM EachWorkerKeepsTheLimit ==
    ASSUME ~AcceptYields PROVE Spec => []WorkersKeepLimit
<1>1. IInv => WorkersKeepLimit
  BY UsersArePresent DEF WorkersKeepLimit
<1> QED BY <1>1, Invariance, PTL

\* With a single worker, max_connections and strict_single_ip hold of all the
\* sessions in use: the check, made before accept() is awaited, still holds after
\* the registration that follows it.
THEOREM SingleWorkerKeepsLimits ==
    ASSUME ~AcceptYields, SingleWorker PROVE Spec => []LimitsHold
<1>1. IInv => LimitsHold
  <2> SUFFICES ASSUME IInv, dropped = {} PROVE LimitsHold
    BY DEF LimitsHold
  <2>1. PICK w \in Worker : TRUE
    BY WorkerAssumption
  <2> DEFINE U == {s \in Session : Using(s)}
  <2>2. U = {s \in Session : Using(s) /\ where[s] = w}
    BY <2>1 DEF SingleWorker, IInv, TypeOK
  <2>3. /\ U \subseteq Present(w)
        /\ MaxConn > 0 => Cardinality(U) <= MaxConn
    BY <2>1, <2>2, UsersArePresent
  <2>4. StrictIp => \A s, t \in U : addr[s] = addr[t]
    BY <2>1, <2>3 DEF IInv, LimitInv
  <2> QED BY <2>3, <2>4 DEF LimitsHold
<1> QED BY <1>1, Invariance, PTL
=============================================================================
