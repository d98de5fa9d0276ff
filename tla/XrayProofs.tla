----------------------------- MODULE XrayProofs -----------------------------
(***************************************************************************)
(* Xray: the mirror tells what xray does, a rotated key works no longer,   *)
(* and the process that serves is the one the panel holds -- outside the   *)
(* cases the model names, for any accounts, transports, changes, failures. *)
(***************************************************************************)
EXTENDS Xray, TLAPS

(***************************************************************************)
(* The inductive invariant.                                                *)
(***************************************************************************)
Restarting == \E k \in Actor : call[k].at \in Restart \ {"write"}
Writing == \E k \in Actor : call[k].at = "write"
On(k, u) == call[k].at \in Calls /\ call[k].user = u

\* Keys are numbered by the changes, and so are the tasks, of which none is used twice.
CountInv ==
    /\ \A u \in User : key[u] <= changes + 1
    /\ \A k \in Task : k > changes => call[k].at = "idle"
    /\ \A k \in Actor : call[k].at \in {"resync", "add"} => call[k].key # 0

\* Until restarts overlap there is one at a time, and it starts xray when no xray is up.
ManagedInv ==
    ~orphaned =>
        /\ up => ours
        /\ \A j, k \in Actor : call[j].at \in Restart \ {"write"}
                                 /\ call[k].at \in Restart \ {"write"} => j = k
        /\ \A k \in Actor : call[k].at \in {"forget", "spawn"} => ~up

DownInv == ~up => \A t \in Kinds, u \in User : served[t][u] = 0

\* An account that has not raced has one call at a time, to the process of which the
\* worker knows, and no restart meanwhile.
RaceInv ==
    \A u \in User \ raced :
        /\ \A j, k \in Actor : On(j, u) /\ On(k, u) => j = k
        /\ Busy(u) => ours /\ ~Restarting

\* A call carries the account's key, or a restart is due; what every transport has
\* taken so far is still so, or xray is down.
CallInv ==
    \A u \in User \ raced, k \in Actor : On(k, u) =>
        /\ call[k].at # "remove" => call[k].key = key[u] \/ Writing \/ ~up
        /\ call[k].ok => \A t \in Kinds : call[k].answered \/ t < call[k].t =>
             IF call[k].at = "add" THEN served[t][u] # 0 \/ ~up ELSE served[t][u] = 0

\* A restart has read keys that are still good, or another will read them; when it
\* is about to start xray, the mirror has at most what it will read.
ConfigInv ==
    \A u \in User \ raced :
        /\ Restarting /\ u \notin stale => config[u] \in {0, key[u]} \/ Writing
        /\ (\E k \in Actor : call[k].at = "spawn") /\ u \in mirror => config[u] # 0

\* An old key is about to be removed by a request, which restarts xray if it cannot.
KeyInv ==
    \A u \in User \ (raced \cup stale) :
        ours => \/ Reloading
                \/ \E k \in Task : On(k, u) /\ call[k].at # "add"
                \/ \A t \in Kinds : served[t][u] \in {0, key[u]}

MirrorInv ==
    \A u \in User \ (raced \cup unseen) :
        Running => \/ Reloading \/ Busy(u)
                   \/ \A t \in Kinds : (u \in mirror) <=> (served[t][u] # 0)

IInv ==
    /\ TypeOK /\ CountInv /\ ManagedInv /\ DownInv /\ RaceInv /\ CallInv
    /\ ConfigInv /\ KeyInv /\ MirrorInv

CallType == [at : Calls \cup Restart \cup {"idle"}, user : User, key : Keys,
             t : Kinds, answered : BOOLEAN, ok : BOOLEAN]

LEMMA Fields == ASSUME TypeOK
    PROVE  /\ transports \in Nat /\ 1 \in Kinds /\ changes \in Nat /\ MaxChanges \in Nat
           /\ Keys \subseteq Nat /\ 0 \in Keys /\ Loop \in Actor /\ Task \subseteq Actor
           /\ Task \subseteq Nat \ {0} /\ Loop \notin Task
           /\ call \in [Actor -> CallType] /\ Idle \in CallType
           /\ Idle.at = "idle" /\ Idle.t = 1 /\ Idle.answered = FALSE /\ Idle.ok = TRUE
           /\ \A t \in Kinds, u \in User : served[t][u] \in Keys
<1>1. transports \in Nat /\ 1 \in Kinds /\ changes \in Nat /\ MaxChanges \in Nat
  BY BoundsAssumption DEF TypeOK, Kinds
<1>2. Keys \subseteq Nat /\ 0 \in Keys
  BY <1>1 DEF Keys
<1>3. Loop \in Actor /\ Task \subseteq Actor /\ Task \subseteq Nat \ {0} /\ Loop \notin Task
  BY <1>1 DEF Actor, Task, Loop
<1>4. call \in [Actor -> CallType]
  BY DEF TypeOK, CallType
<1>5. (CHOOSE u \in User : TRUE) \in User
  BY BoundsAssumption
<1>6. /\ Idle \in CallType
      /\ Idle.at = "idle" /\ Idle.t = 1 /\ Idle.answered = FALSE /\ Idle.ok = TRUE
  BY <1>1, <1>2, <1>5 DEF Idle, CallType
<1>7. \A t \in Kinds, u \in User : served[t][u] \in Keys
  BY DEF TypeOK
<1> QED BY <1>1, <1>2, <1>3, <1>4, <1>6, <1>7

LEMMA CallFields == ASSUME TypeOK, NEW k \in Actor
    PROVE  /\ call[k].at \in Calls \cup Restart \cup {"idle"} /\ call[k].user \in User
           /\ call[k].key \in Keys /\ call[k].t \in Kinds
           /\ call[k].answered \in BOOLEAN /\ call[k].ok \in BOOLEAN
BY Fields DEF CallType

\* No phase of a call is one of a restart.
LEMMA Apart == \A s \in Calls : s \notin Restart /\ s # "idle"
BY DEF Calls, Restart

(***************************************************************************)
(* The panel changes, and no call with it.                                 *)
(***************************************************************************)
LEMMA QuietIs ==
    ASSUME IInv, TypeOK', changes <= changes', \A u \in User : key'[u] <= changes' + 1,
           UNCHANGED <<served, process, mirror, call, unseen>>,
           raced \subseteq raced', stale \subseteq stale',
           \A u \in User : \/ key'[u] = key[u] \/ u \in raced'
                           \/ u \in stale' /\ ~Busy(u)
                           \/ ~Running /\ ~Reloading
    PROVE  IInv'
<1>1. UNCHANGED <<transports, up, ours, config, orphaned>>
  BY DEF process
<1>2. TypeOK /\ changes \in Nat /\ changes' \in Nat
  <2>1. TypeOK /\ changes' \in 0..MaxChanges
    BY DEF IInv, TypeOK
  <2> QED BY <2>1, Fields
<1>3. CountInv'
  <2>1. ASSUME NEW k \in Task, k > changes' PROVE call[k].at = "idle"
    BY <1>2, <2>1, Fields DEF IInv, CountInv
  <2>2. \A k \in Actor : call[k].at \in {"resync", "add"} => call[k].key # 0
    BY DEF IInv, CountInv
  <2> QED BY <2>1, <2>2 DEF CountInv
<1>4. ManagedInv' /\ DownInv' /\ RaceInv' /\ MirrorInv'
  BY <1>1 DEF IInv, ManagedInv, DownInv, RaceInv, MirrorInv, Busy, Restarting, Reloading, Running, On, Kinds
<1>5. CallInv'
  <2> SUFFICES ASSUME NEW u \in User, u \notin raced', NEW k \in Actor, On(k, u)
               PROVE  /\ call[k].at # "remove" => call[k].key = key'[u] \/ Writing \/ ~up
                      /\ call[k].ok => \A t \in Kinds : call[k].answered \/ t < call[k].t =>
                           IF call[k].at = "add" THEN served[t][u] # 0 \/ ~up ELSE served[t][u] = 0
    BY <1>1 DEF CallInv, On, Writing, Kinds
  <2>1. u \notin raced /\ Busy(u) /\ ours
    BY DEF IInv, RaceInv, On, Busy
  <2>2. key'[u] = key[u] \/ ~up
    BY <2>1 DEF Running
  <2> QED BY <2>1, <2>2 DEF IInv, CallInv
<1>6. ConfigInv'
  <2> SUFFICES ASSUME NEW u \in User, u \notin raced'
               PROVE  /\ Restarting /\ u \notin stale' => config[u] \in {0, key'[u]} \/ Writing
                      /\ (\E k \in Actor : call[k].at = "spawn") /\ u \in mirror => config[u] # 0
    BY <1>1 DEF ConfigInv, Restarting, Writing
  <2>1. u \notin raced /\ (Restarting => Reloading)
    BY DEF Restarting, Reloading
  <2> QED BY <2>1 DEF IInv, ConfigInv
<1>7. KeyInv'
  <2> SUFFICES ASSUME NEW u \in User, u \notin raced', u \notin stale', ours
               PROVE  \/ Reloading
                      \/ \E k \in Task : On(k, u) /\ call[k].at # "add"
                      \/ \A t \in Kinds : served[t][u] \in {0, key'[u]}
    BY <1>1 DEF KeyInv, Reloading, On, Kinds
  <2>1. CASE key'[u] = key[u]
    BY <2>1 DEF IInv, KeyInv
  <2>2. CASE ~up
    BY <2>2 DEF IInv, DownInv
  <2> QED BY <2>1, <2>2 DEF Running
<1> QED BY <1>3, <1>4, <1>5, <1>6, <1>7 DEF IInv


(***************************************************************************)
(* A call leaves.                                                          *)
(***************************************************************************)
LEMMA CallIs ==
    ASSUME TypeOK, NEW k \in Actor, NEW r \in CallType, call' = [call EXCEPT ![k] = r]
    PROVE  /\ call' \in [Actor -> CallType] /\ call'[k] = r
           /\ \A j \in Actor : j # k => call'[j] = call[j]
BY Fields

LEMMA SendIs ==
    ASSUME IInv, NEW k \in Actor, NEW kind \in Calls, NEW u \in User, Running,
           call[k].at = "idle", Send(k, kind, u),
           UNCHANGED <<served, process, mirror, unseen, stale>>,
           row' \in [User -> RowState], key' \in [User -> Keys \ {0}],
           plan' \in [remove : SUBSET User, add : SUBSET User],
           changes' \in 0..MaxChanges, failures' \in 0..MaxFailures,
           changes <= changes', k \in Task => k <= changes',
           \A w \in User : key'[w] <= changes' + 1,
           \A w \in User : w # u => key'[w] = key[w],
           key'[u] # key[u] => k \in Task /\ kind # "add"
    PROVE  IInv'
<1>1. UNCHANGED <<transports, up, ours, config, orphaned>>
  BY DEF process
<1>2. TypeOK /\ key'[u] \in Keys /\ key'[u] # 0
  BY DEF IInv
<1>3. PICK r : r = [Idle EXCEPT !.at = kind, !.user = u, !.key = key'[u]]
  OBVIOUS
<1>4. /\ r \in CallType /\ r.at = kind /\ r.user = u /\ r.key = key'[u]
      /\ r.t = 1 /\ r.answered = FALSE /\ r.ok = TRUE
  BY <1>2, <1>3, Fields DEF CallType
<1>5. call' = [call EXCEPT ![k] = r] /\ raced' = IF Busy(u) \/ Reloading THEN raced \cup {u} ELSE raced
  BY <1>3 DEF Send
<1>6. /\ call' \in [Actor -> CallType] /\ call'[k] = r
      /\ \A j \in Actor : j # k => call'[j] = call[j]
  BY <1>2, <1>4, <1>5, CallIs
<1>7. raced \subseteq raced' /\ raced' \subseteq User /\ (u \notin raced' => ~Busy(u) /\ ~Reloading)
  BY <1>2, <1>5 DEF TypeOK
<1>8. kind \notin Restart /\ kind # "idle" /\ call[k].at \notin Restart /\ call[k].at \notin Calls
  BY Apart DEF Restart, Calls
<1>9. \A w \in User : /\ On(k, w)' <=> w = u
                      /\ \A j \in Actor : j # k => (On(j, w)' <=> On(j, w))
                      /\ ~On(k, w)
  BY <1>4, <1>6, <1>8 DEF On
<1>10. \A w \in User : Busy(w)' <=> Busy(w) \/ w = u
  BY <1>9 DEF Busy, On
<1>11. /\ \A j \in Actor : \A s \in Restart : call'[j].at = s <=> call[j].at = s
       /\ (Reloading' <=> Reloading) /\ (Restarting' <=> Restarting) /\ (Writing' <=> Writing)
  BY <1>4, <1>6, <1>8 DEF Reloading, Restarting, Writing, Restart
<1>12. TypeOK'
  BY <1>1, <1>2, <1>6, <1>7 DEF TypeOK, CallType, Kinds
<1>13. CountInv'
  <2>1. changes \in Nat /\ changes' \in Nat
    BY <1>2, Fields
  <2>2. ASSUME NEW j \in Task, j > changes' PROVE call'[j].at = "idle"
    <3>1. j # k /\ j > changes
      BY <2>1, <2>2, <1>2, Fields
    <3> QED BY <3>1, <1>2, <1>6, Fields DEF IInv, CountInv
  <2>3. ASSUME NEW j \in Actor, call'[j].at \in {"resync", "add"} PROVE call'[j].key # 0
    BY <1>2, <1>4, <1>6, <2>3 DEF IInv, CountInv
  <2> QED BY <2>2, <2>3 DEF CountInv
<1>14. ManagedInv'
  BY <1>1, <1>11 DEF IInv, ManagedInv, Restart
<1>15. DownInv'
  BY <1>1 DEF IInv, DownInv, Kinds
<1>16. RaceInv'
  <2> SUFFICES ASSUME NEW w \in User, w \notin raced'
               PROVE  /\ \A i, j \in Actor : On(i, w)' /\ On(j, w)' => i = j
                      /\ Busy(w)' => ours /\ ~Restarting
    BY <1>1, <1>11 DEF RaceInv, Busy, On
  <2>1. w \notin raced
    BY <1>7
  <2>2. CASE w # u
    BY <2>1, <2>2, <1>9, <1>10 DEF IInv, RaceInv
  <2>3. CASE w = u
    <3>1. ~Restarting /\ ours /\ \A j \in Actor : ~On(j, u)
      BY <1>7, <2>3 DEF Reloading, Restarting, Running, Busy, On
    <3> QED BY <2>3, <3>1, <1>9
  <2> QED BY <2>2, <2>3
<1>17. CallInv'
  <2> SUFFICES ASSUME NEW w \in User \ raced', NEW j \in Actor, On(j, w)'
               PROVE  (/\ call[j].at # "remove" => call[j].key = key[w] \/ Writing \/ ~up
                       /\ call[j].ok => \A t \in Kinds : call[j].answered \/ t < call[j].t =>
                            IF call[j].at = "add" THEN served[t][w] # 0 \/ ~up ELSE served[t][w] = 0)'
    BY DEF CallInv
  <2>1. CASE j = k
    <3>1. w = u /\ \A t \in Kinds : ~(call'[j].answered \/ t < call'[j].t)
      BY <1>2, <1>4, <1>6, <1>9, <2>1, Fields DEF Kinds
    <3> QED BY <3>1, <2>1, <1>1, <1>4, <1>6 DEF Kinds
  <2>2. CASE j # k
    <3>1. call'[j] = call[j] /\ On(j, w) /\ w \in User \ raced
      BY <1>6, <1>7, <1>9, <2>2
    <3>2. w # u
      BY <1>7, <3>1 DEF Busy, On
    <3>3. /\ call[j].at # "remove" => call[j].key = key[w] \/ Writing \/ ~up
          /\ call[j].ok => \A t \in Kinds : call[j].answered \/ t < call[j].t =>
               IF call[j].at = "add" THEN served[t][w] # 0 \/ ~up ELSE served[t][w] = 0
      BY <3>1 DEF IInv, CallInv
    <3>4. (call[j].at # "remove" => call[j].key = key[w] \/ Writing \/ ~up)'
      BY <3>1, <3>2, <3>3, <1>1, <1>11
    <3>5. (call[j].ok => \A t \in Kinds : call[j].answered \/ t < call[j].t =>
             IF call[j].at = "add" THEN served[t][w] # 0 \/ ~up ELSE served[t][w] = 0)'
      BY <3>1, <3>3, <1>1 DEF Kinds
    <3> QED BY <3>4, <3>5
  <2> QED BY <2>1, <2>2
<1>18. ConfigInv'
  <2> SUFFICES ASSUME NEW w \in User, w \notin raced'
               PROVE  /\ Restarting /\ w \notin stale => config[w] \in {0, key'[w]} \/ Writing
                      /\ (\E j \in Actor : call[j].at = "spawn") /\ w \in mirror => config[w] # 0
    BY <1>1, <1>11 DEF ConfigInv, Restart
  <2>1. w \notin raced /\ (w = u => ~Restarting)
    BY <1>7 DEF Reloading, Restarting
  <2> QED BY <2>1 DEF IInv, ConfigInv
<1>19. KeyInv'
  <2> SUFFICES ASSUME NEW w \in User, w \notin raced', w \notin stale, ours
               PROVE  \/ Reloading
                      \/ \E j \in Task : On(j, w)' /\ call'[j].at # "add"
                      \/ \A t \in Kinds : served[t][w] \in {0, key'[w]}
    BY <1>1, <1>11 DEF KeyInv, Kinds, Reloading, On
  <2>1. CASE key'[w] # key[w]
    BY <2>1, <1>4, <1>6, <1>9
  <2>2. CASE key'[w] = key[w]
    <3>1. CASE \E j \in Task : On(j, w) /\ call[j].at # "add"
      BY <1>2, <1>6, <1>9, <3>1, Fields
    <3> QED BY <1>7, <2>2, <3>1 DEF IInv, KeyInv
  <2> QED BY <2>1, <2>2
<1>20. MirrorInv'
  BY <1>1, <1>7, <1>10, <1>11 DEF IInv, MirrorInv, Running, Kinds, Reloading, Busy, On
<1> QED BY <1>12, <1>13, <1>14, <1>15, <1>16, <1>17, <1>18, <1>19, <1>20 DEF IInv


(***************************************************************************)
(* A call is answered, or given up.                                        *)
(***************************************************************************)
\* xray acts on the account of the call and on its transport, if at all.
LEMMA DoIs ==
    ASSUME TypeOK, NEW c \in CallType, NEW s, s = Do(c)
    PROVE  /\ s \in [Kinds -> [User -> Keys]]
           /\ \A t \in Kinds, u \in User : t # c.t \/ u # c.user \/ ~up => s[t][u] = served[t][u]
           /\ up => s[c.t][c.user] = Done(c)
<1>1. c.t \in Kinds /\ c.user \in User /\ c.key \in Keys
  BY DEF CallType
<1>2. served \in [Kinds -> [User -> Keys]] /\ 0 \in Keys
  BY Fields DEF TypeOK
<1>3. PICK d : d = Done(c)
  OBVIOUS
<1>4. d \in Keys
  BY <1>1, <1>2, <1>3 DEF Done
<1>5. s = IF up THEN [served EXCEPT ![c.t][c.user] = d] ELSE served
  BY <1>3 DEF Do
<1>6. CASE up
  <2>1. s = [served EXCEPT ![c.t] = [served[c.t] EXCEPT ![c.user] = d]]
    BY <1>5, <1>6
  <2>2. [served[c.t] EXCEPT ![c.user] = d] \in [User -> Keys]
    BY <1>1, <1>2, <1>4
  <2>3. /\ s \in [Kinds -> [User -> Keys]] /\ s[c.t] = [served[c.t] EXCEPT ![c.user] = d]
        /\ \A t \in Kinds : t # c.t => s[t] = served[t]
    BY <1>1, <1>2, <2>1, <2>2
  <2>4. \A u \in User : s[c.t][u] = IF u = c.user THEN d ELSE served[c.t][u]
    BY <1>1, <1>2, <2>3
  <2> QED BY <1>1, <1>3, <1>6, <2>3, <2>4
<1>7. CASE ~up
  BY <1>2, <1>5, <1>7
<1> QED BY <1>6, <1>7

LEMMA AnswerIs ==
    ASSUME IInv, NEW k \in Actor, call[k].at \in Calls, ~call[k].answered, NEW ok \in BOOLEAN,
           Answer(k, ok), served' \in {served, Do(call[k])}, ok => up /\ served' = Do(call[k]),
           UNCHANGED <<panel, process, mirror, plan, unseen, raced, stale>>,
           failures' \in 0..MaxFailures
    PROVE  IInv'
<1>1. UNCHANGED <<row, key, changes, transports, up, ours, config, orphaned, mirror, plan,
                  unseen, raced, stale>>
  BY DEF panel, process
<1>2. TypeOK /\ transports \in Nat
  BY Fields DEF IInv
<1>3. PICK c \in CallType : c = call[k]
  BY <1>2, Fields
<1>4. /\ c.at \in Calls /\ c.user \in User /\ c.key \in Keys /\ c.t \in Kinds /\ c.t \in Nat
      /\ c.ok \in BOOLEAN /\ c.answered = FALSE
  BY <1>2, <1>3, Fields DEF CallType, Kinds
<1>5. PICK r : r = IF c.t < transports THEN [c EXCEPT !.t = c.t + 1, !.ok = c.ok /\ ok]
                   ELSE [c EXCEPT !.answered = TRUE, !.ok = c.ok /\ ok]
  OBVIOUS
<1>6. /\ r \in CallType /\ r.at = c.at /\ r.user = c.user /\ r.key = c.key
      /\ r.ok = (c.ok /\ ok)
  <2>1. c.t < transports => c.t + 1 \in Kinds
    BY <1>2, <1>4 DEF Kinds
  <2>2. PICK b \in BOOLEAN : b = (c.ok /\ ok)
    BY <1>4
  <2>3. r = IF c.t < transports THEN [c EXCEPT !.t = c.t + 1, !.ok = b]
            ELSE [c EXCEPT !.answered = TRUE, !.ok = b]
    BY <1>5, <2>2
  <2> QED BY <2>1, <2>2, <2>3 DEF CallType
<1>7. \A t \in Kinds : r.answered \/ t < r.t => t = c.t \/ t < c.t
  <2>1. CASE c.t < transports
    <3>1. r.answered = FALSE /\ r.t = c.t + 1
      BY <1>4, <1>5, <2>1 DEF CallType
    <3> QED BY <1>2, <1>4, <3>1 DEF Kinds
  <2>2. CASE ~(c.t < transports)
    BY <1>2, <1>4, <2>2 DEF Kinds
  <2> QED BY <2>1, <2>2
<1>8. call' = [call EXCEPT ![k] = r]
  BY <1>3, <1>5 DEF Answer
<1>9. /\ call' \in [Actor -> CallType] /\ call'[k] = r
      /\ \A j \in Actor : j # k => call'[j] = call[j]
  BY <1>2, <1>6, <1>8, CallIs
<1>10. /\ served' \in [Kinds -> [User -> Keys]]
       /\ \A t \in Kinds, u \in User : t # c.t \/ u # c.user \/ ~up => served'[t][u] = served[t][u]
       /\ served'[c.t][c.user] \in {served[c.t][c.user], Done(c)}
       /\ ok => up /\ served'[c.t][c.user] = Done(c)
  <2>1. CASE served' = served
    <3>1. served \in [Kinds -> [User -> Keys]]
      BY <1>2 DEF TypeOK
    <3>2. ok => up /\ served'[c.t][c.user] = Done(c)
      BY <1>2, <1>3, DoIs
    <3> QED BY <2>1, <3>1, <3>2
  <2>2. CASE served' = Do(c)
    <3>1. ~up => served'[c.t][c.user] = served[c.t][c.user]
      BY <1>2, <1>3, <1>4, <2>2, DoIs
    <3> QED BY <1>2, <1>3, <2>2, <3>1, DoIs
  <2> QED BY <1>3, <2>1, <2>2
<1>11. \A j \in Actor : /\ call'[j].at = call[j].at /\ call'[j].user = call[j].user
                        /\ call'[j].key = call[j].key
  BY <1>3, <1>6, <1>9
<1>12. /\ (Reloading' <=> Reloading) /\ (Restarting' <=> Restarting) /\ (Writing' <=> Writing)
       /\ \A u \in User : Busy(u)' <=> Busy(u)
       /\ \A j \in Actor, u \in User : On(j, u)' <=> On(j, u)
  BY <1>11 DEF Reloading, Restarting, Writing, Busy, On
<1>13. TypeOK'
  BY <1>1, <1>2, <1>9, <1>10 DEF TypeOK, CallType, Kinds
<1>14. CountInv'
  BY <1>1, <1>2, <1>11, Fields DEF IInv, CountInv
<1>15. ManagedInv' /\ RaceInv' /\ ConfigInv'
  BY <1>1, <1>11, <1>12 DEF IInv, ManagedInv, RaceInv, ConfigInv
<1>16. DownInv'
  BY <1>1, <1>4, <1>10 DEF IInv, DownInv, Kinds
<1>17. \A u \in User \ raced : On(k, u) <=> u = c.user
  BY <1>3, <1>4 DEF On
<1>18. CallInv'
  <2> SUFFICES ASSUME NEW u \in User \ raced', NEW j \in Actor, On(j, u)'
               PROVE  (/\ call[j].at # "remove" => call[j].key = key[u] \/ Writing \/ ~up
                       /\ call[j].ok => \A t \in Kinds : call[j].answered \/ t < call[j].t =>
                            IF call[j].at = "add" THEN served[t][u] # 0 \/ ~up ELSE served[t][u] = 0)'
    BY DEF CallInv
  <2>1. /\ On(j, u) /\ u \in User \ raced
        /\ call[j].at # "remove" => call[j].key = key[u] \/ Writing \/ ~up
        /\ call[j].ok => \A t \in Kinds : call[j].answered \/ t < call[j].t =>
             IF call[j].at = "add" THEN served[t][u] # 0 \/ ~up ELSE served[t][u] = 0
    BY <1>1, <1>12 DEF IInv, CallInv
  <2>2. (call[j].at # "remove" => call[j].key = key[u] \/ Writing \/ ~up)'
    BY <1>1, <1>11, <1>12, <2>1
  <2>3. ASSUME NEW t \in Kinds, call'[j].ok, call'[j].answered \/ t < call'[j].t
        PROVE  IF call'[j].at = "add" THEN served'[t][u] # 0 \/ ~up ELSE served'[t][u] = 0
    <3>1. CASE j # k
      <4>1. u # c.user
        BY <1>3, <1>4, <2>1, <3>1 DEF IInv, RaceInv, On
      <4> QED BY <1>9, <1>10, <2>1, <2>3, <3>1, <4>1
    <3>2. CASE j = k
      <4>1. u = c.user /\ c.ok /\ ok /\ (t = c.t \/ t < c.t)
        BY <1>6, <1>7, <1>9, <1>17, <2>1, <2>3, <3>2
      <4>2. CASE t = c.t
        <5>1. up /\ served'[t][u] = Done(c)
          BY <1>10, <4>1, <4>2
        <5>2. c.at \in {"resync", "add"} => c.key # 0
          BY <1>3 DEF IInv, CountInv
        <5> QED BY <1>6, <1>9, <3>2, <4>1, <4>2, <5>1, <5>2 DEF Done
      <4>3. CASE t < c.t
        <5>1. IF c.at = "add" THEN served[t][u] # 0 \/ ~up ELSE served[t][u] = 0
          BY <1>3, <2>1, <3>2, <4>1, <4>3
        <5>2. t # c.t
          BY <1>2, <1>4, <4>3 DEF Kinds
        <5> QED BY <1>6, <1>9, <1>10, <2>1, <3>2, <5>1, <5>2
      <4> QED BY <4>1, <4>2, <4>3
    <3> QED BY <3>1, <3>2
  <2> QED BY <1>1, <2>2, <2>3 DEF Kinds
<1>19. KeyInv'
  <2> SUFFICES ASSUME NEW u \in User, u \notin raced, u \notin stale, ours
               PROVE  (\/ Reloading
                       \/ \E j \in Task : On(j, u) /\ call[j].at # "add"
                       \/ \A t \in Kinds : served[t][u] \in {0, key[u]})'
    BY <1>1 DEF KeyInv
  <2>1. \/ Reloading
        \/ \E j \in Task : On(j, u) /\ call[j].at # "add"
        \/ \A t \in Kinds : served[t][u] \in {0, key[u]}
    BY DEF IInv, KeyInv
  <2>2. CASE Reloading
    BY <1>12, <2>2
  <2>3. CASE \E j \in Task : On(j, u) /\ call[j].at # "add"
    BY <1>2, <1>11, <1>12, <2>3, Fields
  <2>4. CASE ~Reloading /\ \A t \in Kinds : served[t][u] \in {0, key[u]}
    <3>1. ASSUME NEW t \in Kinds PROVE served'[t][u] \in {0, key[u]}
      <4>1. CASE t # c.t \/ u # c.user \/ ~up
        BY <1>10, <2>4, <4>1
      <4>2. CASE t = c.t /\ u = c.user /\ up
        <5>1. On(k, u) /\ ~Writing
          BY <1>17, <2>4, <4>2 DEF Writing, Reloading, Restart
        <5>2. c.at # "remove" => c.key = key[u]
          BY <1>3, <4>2, <5>1 DEF IInv, CallInv
        <5>3. Done(c) \in {0, key[u]}
          BY <1>4, <2>4, <4>2, <5>2 DEF Done, Calls
        <5> QED BY <1>10, <2>4, <4>2, <5>3
      <4> QED BY <4>1, <4>2
    <3> QED BY <1>1, <3>1 DEF Kinds
  <2> QED BY <2>1, <2>2, <2>3, <2>4
<1>20. MirrorInv'
  <2> SUFFICES ASSUME NEW u \in User, u \notin raced, u \notin unseen, up, ours, ~Reloading, ~Busy(u)
               PROVE  (\A t \in Kinds : (u \in mirror) <=> (served[t][u] # 0))'
    BY <1>1, <1>12 DEF MirrorInv, Running
  <2>1. \A t \in Kinds : (u \in mirror) <=> (served[t][u] # 0)
    BY DEF IInv, MirrorInv, Running
  <2>2. u # c.user
    BY <1>3, <1>4 DEF Busy
  <2> QED BY <1>1, <1>10, <2>1, <2>2 DEF Kinds
<1> QED BY <1>13, <1>14, <1>15, <1>16, <1>18, <1>19, <1>20 DEF IInv


LEMMA ReceiveKeeps == ASSUME IInv, NEW k \in Actor, Receive(k) PROVE IInv'
<1>1. /\ call[k].at \in Calls /\ ~call[k].answered /\ served' = Do(call[k])
      /\ UNCHANGED <<panel, process, mirror, plan, unseen, raced, stale, failures>>
  BY DEF Receive
<1>2. PICK ok \in BOOLEAN : (ok => up) /\ Answer(k, ok)
  BY DEF Receive
<1>3. failures' \in 0..MaxFailures
  BY <1>1 DEF IInv, TypeOK
<1> QED BY <1>1, <1>2, <1>3, AnswerIs

LEMMA FailKeeps == ASSUME IInv, NEW k \in Actor, Fail(k) PROVE IInv'
<1>1. /\ call[k].at \in Calls /\ ~call[k].answered /\ served' \in {served, Do(call[k])}
      /\ UNCHANGED <<panel, process, mirror, plan, unseen, raced, stale>>
      /\ Answer(k, FALSE) /\ failures < MaxFailures /\ failures' = failures + 1
  BY DEF Fail
<1>2. failures' \in 0..MaxFailures
  BY <1>1, BoundsAssumption DEF IInv, TypeOK
<1> QED BY <1>1, <1>2, AnswerIs

(***************************************************************************)
(* A call is over.                                                         *)
(***************************************************************************)
\* The call of k ends; the mirror and the doubts change for its account only.
LEMMA EndIs ==
    ASSUME IInv, NEW k \in Actor, call[k].at \in Calls, call[k].answered,
           NEW r \in CallType, call' = [call EXCEPT ![k] = r],
           r.at \in {"idle", "write"} \/ (call[k].at = "resync" /\ r.at = "add"),
           r.at = "idle" => call[k].ok \/ call[k].at = "resync" \/ k \notin Task,
           r.at = "add" => /\ r.user = call[k].user /\ r.key = call[k].key
                           /\ r.t = 1 /\ r.answered = FALSE,
           UNCHANGED <<panel, served, process, plan, raced, failures>>,
           mirror' \in SUBSET User, unseen' \in SUBSET User, stale' \in SUBSET User,
           \A u \in User : u # call[k].user =>
               /\ u \in mirror' <=> u \in mirror
               /\ u \in unseen' <=> u \in unseen
               /\ u \in stale' <=> u \in stale,
           call[k].user \notin unseen' =>
               call[k].ok /\ (call[k].user \in mirror' <=> call[k].at = "add"),
           call[k].user \in stale /\ call[k].user \notin stale' => call[k].ok /\ call[k].at # "add",
           call[k].at = "resync" /\ ~call[k].ok => call[k].user \in stale'
    PROVE  IInv'
<1>1. UNCHANGED <<row, key, changes, transports, served, up, ours, config, orphaned, plan,
                  raced, failures>>
  BY DEF panel, process
<1>2. TypeOK
  BY DEF IInv
<1>3. PICK c \in CallType : c = call[k]
  BY <1>2, Fields
<1>4. c.at \in Calls /\ c.user \in User /\ c.answered /\ c.ok \in BOOLEAN
  BY <1>3 DEF CallType
<1>5. /\ call' \in [Actor -> CallType] /\ call'[k] = r
      /\ \A j \in Actor : j # k => call'[j] = call[j]
  BY <1>2, CallIs
<1>6. r.at \notin Restart \ {"write"} /\ c.at \notin Restart
  BY <1>4, Apart DEF Restart
<1>7. /\ (Restarting' <=> Restarting) /\ (Reloading' <=> Reloading \/ r.at = "write")
      /\ (Writing' <=> Writing \/ r.at = "write")
      /\ \A s \in Restart \ {"write"}, j \in Actor : call'[j].at = s <=> call[j].at = s
  BY <1>3, <1>5, <1>6 DEF Restarting, Reloading, Writing, Restart
<1>8. \A u \in User : /\ On(k, u)' <=> r.at = "add" /\ u = c.user
                      /\ On(k, u) <=> u = c.user
                      /\ \A j \in Actor : j # k => (On(j, u)' <=> On(j, u))
  <2>1. r.at \in Calls <=> r.at = "add"
    BY <1>3 DEF Calls
  <2> QED BY <1>3, <1>4, <1>5, <2>1 DEF On
<1>9. \A u \in User : /\ Busy(u)' => Busy(u)
                      /\ Busy(u) /\ u # c.user => Busy(u)'
                      /\ Busy(c.user)
  BY <1>4, <1>8 DEF Busy, On
<1>10. \A j \in Actor : On(j, c.user) /\ c.user \notin raced => j = k
  BY <1>4, <1>8 DEF IInv, RaceInv
<1>11. TypeOK'
  BY <1>1, <1>2, <1>5 DEF TypeOK, CallType, Kinds
<1>12. CountInv'
  <2>1. k \in Task => ~(k > changes)
    BY <1>3, <1>4, Apart DEF IInv, CountInv
  <2>2. r.at \in {"resync", "add"} => r.key # 0
    BY <1>3 DEF IInv, CountInv
  <2>3. \A j \in Task : j > changes => call'[j].at = "idle"
    BY <1>2, <1>5, <2>1, Fields DEF IInv, CountInv
  <2> QED BY <1>1, <1>5, <2>2, <2>3 DEF IInv, CountInv
<1>13. ManagedInv' /\ DownInv'
  BY <1>1, <1>7 DEF IInv, ManagedInv, DownInv, Kinds, Restart
<1>14. RaceInv'
  BY <1>1, <1>4, <1>7, <1>8, <1>9 DEF IInv, RaceInv
<1>15. c.ok /\ c.user \notin raced =>
         \A t \in Kinds : IF c.at = "add" THEN served[t][c.user] # 0 \/ ~up ELSE served[t][c.user] = 0
  BY <1>3, <1>4, <1>8 DEF IInv, CallInv
<1>16. CallInv'
  <2> SUFFICES ASSUME NEW u \in User \ raced', NEW j \in Actor, On(j, u)'
               PROVE  (/\ call[j].at # "remove" => call[j].key = key[u] \/ Writing \/ ~up
                       /\ call[j].ok => \A t \in Kinds : call[j].answered \/ t < call[j].t =>
                            IF call[j].at = "add" THEN served[t][u] # 0 \/ ~up ELSE served[t][u] = 0)'
    BY DEF CallInv
  <2>1. On(j, u) /\ u \in User \ raced
    BY <1>1, <1>8
  <2>2. /\ call[j].at # "remove" => call[j].key = key[u] \/ Writing \/ ~up
        /\ call[j].ok => \A t \in Kinds : call[j].answered \/ t < call[j].t =>
             IF call[j].at = "add" THEN served[t][u] # 0 \/ ~up ELSE served[t][u] = 0
    BY <2>1 DEF IInv, CallInv
  <2>3. CASE j # k
    BY <1>1, <1>5, <1>7, <2>2, <2>3 DEF Kinds
  <2>4. CASE j = k
    <3>1. r.at = "add" /\ c.at = "resync" /\ r.key = c.key /\ r.t = 1 /\ r.answered = FALSE
      BY <1>3, <1>8, <2>4
    <3>2. \A t \in Kinds : ~(t < 1)
      BY <1>2, Fields DEF Kinds
    <3> QED BY <1>1, <1>3, <1>5, <1>7, <2>2, <2>4, <3>1, <3>2 DEF Kinds
  <2> QED BY <2>3, <2>4
<1>17. ConfigInv'
  <2> SUFFICES ASSUME NEW u \in User, u \notin raced
               PROVE  (/\ Restarting /\ u \notin stale => config[u] \in {0, key[u]} \/ Writing
                       /\ (\E j \in Actor : call[j].at = "spawn") /\ u \in mirror => config[u] # 0)'
    BY <1>1 DEF ConfigInv
  <2>1. /\ Restarting /\ u \notin stale => config[u] \in {0, key[u]} \/ Writing
        /\ (\E j \in Actor : call[j].at = "spawn") /\ u \in mirror => config[u] # 0
    BY DEF IInv, ConfigInv
  <2>2. CASE u = c.user
    <3>1. ~Restarting
      BY <1>4, <1>9, <2>2 DEF IInv, RaceInv
    <3>2. \A j \in Actor : call'[j].at # "spawn"
      BY <1>7, <3>1 DEF Restarting, Restart
    <3> QED BY <1>7, <3>1, <3>2
  <2>3. CASE u # c.user
    <3>1. (u \in stale' <=> u \in stale) /\ (u \in mirror' <=> u \in mirror)
      BY <1>3, <2>3
    <3>2. (\E j \in Actor : call'[j].at = "spawn") => \E j \in Actor : call[j].at = "spawn"
      BY <1>7 DEF Restart
    <3> QED BY <1>1, <1>7, <2>1, <3>1, <3>2
  <2> QED BY <2>2, <2>3
<1>18. KeyInv'
  <2> SUFFICES ASSUME NEW u \in User, u \notin raced, u \notin stale', ours
               PROVE  (\/ Reloading
                       \/ \E j \in Task : On(j, u) /\ call[j].at # "add"
                       \/ \A t \in Kinds : served[t][u] \in {0, key[u]})'
    BY <1>1 DEF KeyInv
  <2>1. CASE u # c.user
    <3>1. \/ Reloading
          \/ \E j \in Task : On(j, u) /\ call[j].at # "add"
          \/ \A t \in Kinds : served[t][u] \in {0, key[u]}
      BY <1>3, <2>1 DEF IInv, KeyInv
    <3>2. ASSUME NEW j \in Task, On(j, u), call[j].at # "add" PROVE On(j, u)' /\ call'[j].at # "add"
      BY <1>2, <1>5, <1>8, <2>1, <3>2, Fields
    <3> QED BY <1>1, <1>7, <3>1, <3>2 DEF Kinds
  <2>2. CASE u = c.user
    <3>1. CASE c.ok /\ c.at # "add"
      BY <1>1, <1>15, <2>2, <3>1 DEF Kinds
    <3>2. CASE ~(c.ok /\ c.at # "add")
      <4>1. u \notin stale
        BY <1>3, <2>2, <3>2
      <4>2. \/ Reloading \/ (k \in Task /\ c.at # "add")
            \/ \A t \in Kinds : served[t][u] \in {0, key[u]}
        BY <1>2, <1>3, <1>10, <2>2, <4>1, Fields DEF IInv, KeyInv
      <4>3. c.at # "resync" /\ (k \in Task /\ c.at # "add" => r.at = "write")
        BY <1>3, <2>2, <3>2 DEF Calls
      <4> QED BY <1>1, <1>7, <4>2, <4>3 DEF Kinds
    <3> QED BY <3>1, <3>2
  <2> QED BY <2>1, <2>2
<1>19. MirrorInv'
  <2> SUFFICES ASSUME NEW u \in User, u \notin raced, u \notin unseen', up, ours, ~Reloading', ~Busy(u)'
               PROVE  (\A t \in Kinds : (u \in mirror) <=> (served[t][u] # 0))'
    BY <1>1 DEF MirrorInv, Running
  <2>1. CASE u # c.user
    <3>1. (u \in unseen' <=> u \in unseen) /\ (u \in mirror' <=> u \in mirror)
      BY <1>3, <2>1
    <3>2. \A t \in Kinds : (u \in mirror) <=> (served[t][u] # 0)
      BY <1>7, <1>9, <2>1, <3>1 DEF IInv, MirrorInv, Running
    <3> QED BY <1>1, <3>1, <3>2 DEF Kinds
  <2>2. CASE u = c.user
    <3>1. c.ok /\ (u \in mirror' <=> c.at = "add")
      BY <1>3, <2>2
    <3> QED BY <1>1, <1>15, <2>2, <3>1 DEF Kinds
  <2> QED BY <2>1, <2>2
<1> QED BY <1>11, <1>12, <1>13, <1>14, <1>16, <1>17, <1>18, <1>19 DEF IInv


LEMMA FinishIs == ASSUME TypeOK, NEW k \in Actor, NEW ok \in BOOLEAN, Finish(k, ok)
    PROVE  \E r \in CallType : /\ call' = [call EXCEPT ![k] = r]
                               /\ r.at \in {"idle", "write"}
                               /\ r.at = "idle" => ok \/ k \notin Task
<1>1. PICK a \in {"idle", "write"} : a = IF ok \/ k = Loop THEN "idle" ELSE "write"
  OBVIOUS
<1>2. PICK r : r = [Idle EXCEPT !.at = a]
  OBVIOUS
<1>3. r \in CallType /\ r.at = a
  BY <1>2, Fields DEF CallType, Restart
<1>4. a = "idle" => ok \/ k \notin Task
  BY <1>1, Fields
<1> QED BY <1>1, <1>2, <1>3, <1>4 DEF Finish

LEMMA RemovedKeeps == ASSUME IInv, NEW k \in Actor, Removed(k) PROVE IInv'
<1>1. TypeOK /\ call[k].user \in User /\ call[k].ok \in BOOLEAN
  BY CallFields DEF IInv
<1>2. PICK u \in User, ok \in BOOLEAN : u = call[k].user /\ ok = call[k].ok
  BY <1>1
<1>3. /\ call[k].at = "remove" /\ call[k].answered /\ Finish(k, ok)
      /\ mirror' = mirror \ {u} /\ unseen' = (IF ok THEN unseen \ {u} ELSE unseen \cup {u})
      /\ stale' = (IF ok THEN stale \ {u} ELSE stale)
      /\ UNCHANGED <<panel, served, process, plan, raced, failures>>
  BY <1>2 DEF Removed, Answered, Doubt
<1>4. PICK r \in CallType : /\ call' = [call EXCEPT ![k] = r] /\ r.at \in {"idle", "write"}
                            /\ r.at = "idle" => ok \/ k \notin Task
  BY <1>1, <1>3, FinishIs
<1>5. mirror' \in SUBSET User /\ unseen' \in SUBSET User /\ stale' \in SUBSET User
  BY <1>1, <1>3 DEF TypeOK
<1>6. "remove" \in Calls
  BY DEF Calls
<1> QED BY <1>2, <1>3, <1>4, <1>5, <1>6, EndIs

LEMMA AddedKeeps == ASSUME IInv, NEW k \in Actor, Added(k) PROVE IInv'
<1>1. TypeOK /\ call[k].user \in User /\ call[k].ok \in BOOLEAN
  BY CallFields DEF IInv
<1>2. PICK u \in User, ok \in BOOLEAN : u = call[k].user /\ ok = call[k].ok
  BY <1>1
<1>3. /\ call[k].at = "add" /\ call[k].answered /\ Finish(k, ok)
      /\ mirror' = (IF ok THEN mirror \cup {u} ELSE mirror)
      /\ unseen' = (IF ok THEN unseen \ {u} ELSE unseen \cup {u})
      /\ stale' = stale /\ UNCHANGED <<panel, served, process, plan, raced, failures>>
  BY <1>2 DEF Added, Answered, Doubt
<1>4. PICK r \in CallType : /\ call' = [call EXCEPT ![k] = r] /\ r.at \in {"idle", "write"}
                            /\ r.at = "idle" => ok \/ k \notin Task
  BY <1>1, <1>3, FinishIs
<1>5. mirror' \in SUBSET User /\ unseen' \in SUBSET User /\ stale' \in SUBSET User
  BY <1>1, <1>3 DEF TypeOK
<1>6. "add" \in Calls
  BY DEF Calls
<1> QED BY <1>2, <1>3, <1>4, <1>5, <1>6, EndIs

LEMMA ResyncedKeeps == ASSUME IInv, NEW k \in Actor, Resynced(k) PROVE IInv'
<1>1. TypeOK /\ call[k].user \in User /\ call[k].ok \in BOOLEAN /\ call[k] \in CallType
  BY CallFields, Fields DEF IInv
<1>2. PICK u \in User, ok \in BOOLEAN : u = call[k].user /\ ok = call[k].ok
  BY <1>1
<1>3. /\ call[k].at = "resync" /\ call[k].answered
      /\ mirror' = mirror \ {u} /\ unseen' = (IF ok THEN unseen \ {u} ELSE unseen \cup {u})
      /\ stale' = (IF ok THEN stale \ {u} ELSE stale \cup {u})
      /\ UNCHANGED <<panel, served, process, plan, raced, failures>>
  BY <1>2 DEF Resynced, Answered, Doubt
<1>4. PICK r \in CallType :
        /\ call' = [call EXCEPT ![k] = r]
        /\ r.at \in {"idle", "write"} \/ r.at = "add"
        /\ r.at = "add" => /\ r.user = call[k].user /\ r.key = call[k].key
                           /\ r.t = 1 /\ r.answered = FALSE
  <2>1. CASE Running
    <3>1. PICK r : r = [call[k] EXCEPT !.at = "add", !.t = 1, !.answered = FALSE, !.ok = TRUE]
      OBVIOUS
    <3>2. /\ r \in CallType /\ r.at = "add" /\ r.user = call[k].user /\ r.key = call[k].key
          /\ r.t = 1 /\ r.answered = FALSE
      BY <1>1, <3>1, Fields DEF CallType, Calls
    <3>3. call' = [call EXCEPT ![k] = r]
      BY <1>1, <2>1, <3>1, Fields DEF Resynced
    <3> QED BY <3>2, <3>3
  <2>2. CASE ~Running
    <3>1. Finish(k, FALSE)
      BY <2>2 DEF Resynced
    <3>2. PICK r \in CallType : call' = [call EXCEPT ![k] = r] /\ r.at \in {"idle", "write"}
      BY <1>1, <3>1, FinishIs
    <3> QED BY <3>2
  <2> QED BY <2>1, <2>2
<1>5. mirror' \in SUBSET User /\ unseen' \in SUBSET User /\ stale' \in SUBSET User
  BY <1>1, <1>3 DEF TypeOK
<1>6. "resync" \in Calls
  BY DEF Calls
<1> QED BY <1>2, <1>3, <1>4, <1>5, <1>6, EndIs


(***************************************************************************)
(* A restart.                                                              *)
(***************************************************************************)
\* The restart of k goes on from one phase to the next; calls are not touched.
LEMMA PhaseIs ==
    ASSUME TypeOK, CountInv, NEW k \in Actor, call[k].at \in Restart,
           NEW r \in CallType, r.at \in Restart \cup {"idle"}, call' = [call EXCEPT ![k] = r],
           UNCHANGED <<key, changes>>
    PROVE  /\ call' \in [Actor -> CallType] /\ CountInv'
           /\ call'[k].at = r.at /\ \A j \in Actor : j # k => call'[j] = call[j]
           /\ \A j \in Actor, u \in User : On(j, u)' <=> On(j, u)
           /\ \A u \in User : Busy(u)' <=> Busy(u)
<1>1. /\ call' \in [Actor -> CallType] /\ call'[k] = r
      /\ \A j \in Actor : j # k => call'[j] = call[j]
  BY CallIs
<1>2. r.at \notin Calls /\ call[k].at \notin Calls /\ call[k].at # "idle"
  BY Apart DEF Calls, Restart
<1>3. \A j \in Actor, u \in User : On(j, u)' <=> On(j, u)
  BY <1>1, <1>2 DEF On
<1>4. \A u \in User : Busy(u)' <=> Busy(u)
  BY <1>1, <1>2 DEF Busy
<1>5. CountInv'
  <2>1. \A j \in Task : j > changes => call'[j].at = "idle"
    BY <1>1, <1>2, Fields DEF CountInv
  <2>2. \A j \in Actor : call'[j].at \in {"resync", "add"} => call'[j].key # 0
    BY <1>1, <1>2 DEF CountInv, Calls
  <2> QED BY <2>1, <2>2 DEF CountInv
<1> QED BY <1>1, <1>3, <1>4, <1>5

\* Once a restart has begun, an account of which a call is under way has raced.
LEMMA NobodyBusy ==
    ASSUME \A u \in User : Busy(u)' <=> Busy(u),
           \A j \in Actor, u \in User : On(j, u)' <=> On(j, u),
           \A u \in User : u \notin raced' => ~Busy(u)
    PROVE  RaceInv' /\ CallInv'
<1>1. \A u \in User : u \notin raced' => \A j \in Actor : ~On(j, u)'
  BY DEF Busy, On
<1>2. CallInv'
  BY <1>1 DEF CallInv
<1>3. RaceInv'
  BY <1>1 DEF RaceInv
<1> QED BY <1>2, <1>3

LEMMA WriteConfigKeeps == ASSUME IInv, NEW k \in Actor, WriteConfig(k) PROVE IInv'
<1>1. /\ call[k].at = "write" /\ config' = Clients /\ mirror' = Listed(Clients)
      /\ raced' = raced \cup InFlight
      /\ orphaned' = (orphaned \/ \E j \in Actor : j # k /\ call[j].at \in Restart \ {"write"})
      /\ UNCHANGED <<row, key, changes, transports, served, up, ours, plan, unseen, stale, failures>>
  BY DEF WriteConfig, panel
<1>2. TypeOK /\ CountInv /\ call[k] \in CallType
  BY Fields DEF IInv
<1>3. PICK r : r = [call[k] EXCEPT !.at = "stop"]
  OBVIOUS
<1>4. r \in CallType /\ r.at = "stop" /\ call' = [call EXCEPT ![k] = r]
  BY <1>2, <1>3, Fields DEF CallType, Restart, WriteConfig
<1>5. /\ call' \in [Actor -> CallType] /\ CountInv'
      /\ call'[k].at = "stop" /\ \A j \in Actor : j # k => call'[j] = call[j]
      /\ \A j \in Actor, u \in User : On(j, u)' <=> On(j, u)
      /\ \A u \in User : Busy(u)' <=> Busy(u)
  <2>1. call[k].at \in Restart /\ r.at \in Restart \cup {"idle"}
    BY <1>1, <1>4 DEF Restart
  <2> QED BY <1>1, <1>2, <1>4, <2>1, PhaseIs
<1>6. Clients \in [User -> Keys] /\ \A u \in User : Clients[u] \in {0, key[u]}
  BY <1>2, Fields DEF Clients, TypeOK
<1>7. Listed(Clients) \in SUBSET User /\ \A u \in Listed(Clients) : Clients[u] # 0
  BY DEF Listed
<1>8. InFlight \in SUBSET User /\ \A u \in User : u \notin raced' => ~Busy(u)
  BY <1>1 DEF InFlight
<1>9. TypeOK'
  <2>1. orphaned' \in BOOLEAN
    BY <1>1
  <2> QED BY <1>1, <1>2, <1>5, <1>6, <1>7, <1>8, <2>1 DEF TypeOK, CallType, Kinds
<1>10. RaceInv' /\ CallInv'
  BY <1>5, <1>8, NobodyBusy
<1>11. ManagedInv' /\ DownInv'
  <2>1. ASSUME ~orphaned', NEW j \in Actor, call'[j].at \in Restart \ {"write"} PROVE j = k
    BY <1>1, <1>5, <2>1
  <2>2. ASSUME ~orphaned', NEW j \in Actor PROVE call'[j].at \notin {"forget", "spawn"}
    BY <1>5, <2>1, <2>2 DEF Restart
  <2> QED BY <1>1, <2>1, <2>2 DEF IInv, ManagedInv, DownInv, Kinds
<1>12. ConfigInv'
  BY <1>1, <1>6, <1>7 DEF ConfigInv
<1>13. Reloading'
  BY <1>5 DEF Reloading, Restart
<1>14. KeyInv' /\ MirrorInv'
  BY <1>13 DEF KeyInv, MirrorInv
<1> QED BY <1>5, <1>9, <1>10, <1>11, <1>12, <1>14 DEF IInv

LEMMA StopProcessKeeps == ASSUME IInv, NEW k \in Actor, StopProcess(k) PROVE IInv'
<1>1. /\ call[k].at = "stop"
      /\ UNCHANGED <<row, key, changes, transports, ours, config, orphaned, mirror, plan, unseen,
                     raced, stale, failures>>
  BY DEF StopProcess, panel
<1>2. TypeOK /\ CountInv /\ call[k] \in CallType
  BY Fields DEF IInv
<1>3. PICK r : r = [call[k] EXCEPT !.at = "forget"]
  OBVIOUS
<1>4. r \in CallType /\ r.at = "forget" /\ call' = [call EXCEPT ![k] = r]
  BY <1>2, <1>3, Fields DEF CallType, Restart, StopProcess
<1>5. /\ call' \in [Actor -> CallType] /\ CountInv'
      /\ call'[k].at = "forget" /\ \A j \in Actor : j # k => call'[j] = call[j]
      /\ \A j \in Actor, u \in User : On(j, u)' <=> On(j, u)
      /\ \A u \in User : Busy(u)' <=> Busy(u)
  <2>1. call[k].at \in Restart /\ r.at \in Restart \cup {"idle"}
    BY <1>1, <1>4 DEF Restart
  <2> QED BY <1>1, <1>2, <1>4, <2>1, PhaseIs
<1>6. /\ served' \in [Kinds -> [User -> Keys]] /\ up' \in BOOLEAN /\ (up' => up /\ ~ours)
      /\ ~up' => \A t \in Kinds, u \in User : served'[t][u] = 0
  <2>1. CASE Running
    <3>1. up' = FALSE /\ served' = [t \in Kinds |-> [u \in User |-> 0]]
      BY <2>1 DEF StopProcess, NobodyServed
    <3> QED BY <1>2, <3>1, Fields
  <2>2. CASE ~Running
    BY <1>2, <2>2 DEF StopProcess, TypeOK, Running, IInv, DownInv
  <2> QED BY <2>1, <2>2
<1>7. TypeOK'
  BY <1>1, <1>2, <1>5, <1>6 DEF TypeOK, CallType, Kinds
<1>8. Restarting
  BY <1>1 DEF Restarting, Restart
<1>9. RaceInv' /\ CallInv'
  <2>1. \A u \in User : u \notin raced' => ~Busy(u)
    BY <1>1, <1>8 DEF IInv, RaceInv
  <2> QED BY <1>5, <2>1, NobodyBusy
<1>10. ManagedInv' /\ DownInv'
  <2>1. ~orphaned => ~up'
    BY <1>6 DEF IInv, ManagedInv
  <2>2. \A j \in Actor : call'[j].at \in Restart \ {"write"} => call[j].at \in Restart \ {"write"}
    BY <1>1, <1>5 DEF Restart
  <2> QED BY <1>1, <1>6, <2>1, <2>2 DEF IInv, ManagedInv, DownInv, Kinds
<1>11. ConfigInv'
  <2>1. /\ Writing => Writing'
        /\ (\E j \in Actor : call'[j].at = "spawn") => \E j \in Actor : call[j].at = "spawn"
    BY <1>1, <1>5 DEF Writing
  <2> QED BY <1>1, <1>8, <2>1 DEF IInv, ConfigInv
<1>12. Reloading'
  BY <1>5 DEF Reloading, Restart
<1>13. KeyInv' /\ MirrorInv'
  BY <1>12 DEF KeyInv, MirrorInv
<1> QED BY <1>5, <1>7, <1>9, <1>10, <1>11, <1>13 DEF IInv


LEMMA ForgetProcessKeeps == ASSUME IInv, NEW k \in Actor, ForgetProcess(k) PROVE IInv'
<1>1. /\ call[k].at = "forget" /\ ours' = FALSE /\ mirror' = {}
      /\ UNCHANGED <<row, key, changes, transports, served, up, config, orphaned, plan, unseen,
                     raced, stale, failures>>
  BY DEF ForgetProcess, panel
<1>2. TypeOK /\ CountInv /\ call[k] \in CallType
  BY Fields DEF IInv
<1>3. PICK r : r = [call[k] EXCEPT !.at = "spawn"]
  OBVIOUS
<1>4. r \in CallType /\ r.at = "spawn" /\ call' = [call EXCEPT ![k] = r]
  BY <1>2, <1>3, Fields DEF CallType, Restart, ForgetProcess
<1>5. /\ call' \in [Actor -> CallType] /\ CountInv'
      /\ call'[k].at = "spawn" /\ \A j \in Actor : j # k => call'[j] = call[j]
      /\ \A j \in Actor, u \in User : On(j, u)' <=> On(j, u)
      /\ \A u \in User : Busy(u)' <=> Busy(u)
  <2>1. call[k].at \in Restart /\ r.at \in Restart \cup {"idle"}
    BY <1>1, <1>4 DEF Restart
  <2> QED BY <1>1, <1>2, <1>4, <2>1, PhaseIs
<1>6. TypeOK'
  BY <1>1, <1>2, <1>5 DEF TypeOK, CallType, Kinds
<1>7. Restarting
  BY <1>1 DEF Restarting, Restart
<1>8. RaceInv' /\ CallInv'
  <2>1. \A u \in User : u \notin raced' => ~Busy(u)
    BY <1>1, <1>7 DEF IInv, RaceInv
  <2> QED BY <1>5, <2>1, NobodyBusy
<1>9. ManagedInv' /\ DownInv'
  <2>1. ~orphaned => ~up
    BY <1>1 DEF IInv, ManagedInv
  <2>2. \A j \in Actor : call'[j].at \in Restart \ {"write"} => call[j].at \in Restart \ {"write"}
    BY <1>1, <1>5 DEF Restart
  <2> QED BY <1>1, <2>1, <2>2 DEF IInv, ManagedInv, DownInv, Kinds
<1>10. ConfigInv'
  <2>1. Writing => Writing'
    BY <1>1, <1>5 DEF Writing
  <2> QED BY <1>1, <1>7, <2>1 DEF IInv, ConfigInv
<1>11. KeyInv' /\ MirrorInv'
  BY <1>1 DEF KeyInv, MirrorInv, Running
<1> QED BY <1>5, <1>6, <1>8, <1>9, <1>10, <1>11 DEF IInv

LEMMA SpawnKeeps == ASSUME IInv, NEW k \in Actor, Spawn(k) PROVE IInv'
<1>1. /\ call[k].at = "spawn" /\ up' = TRUE /\ ours' = ~up
      /\ served' = (IF up THEN served ELSE [t \in Kinds |-> config])
      /\ unseen' = Listed(config) /\ stale' = {u \in stale : config[u] # key[u]}
      /\ raced' = raced \cup InFlight /\ call' = [call EXCEPT ![k] = Idle]
      /\ UNCHANGED <<row, key, changes, transports, config, orphaned, mirror, plan, failures>>
  BY DEF Spawn, panel
<1>2. TypeOK /\ CountInv /\ Idle \in CallType /\ Idle.at = "idle"
  BY Fields DEF IInv
<1>3. /\ call' \in [Actor -> CallType] /\ CountInv'
      /\ call'[k].at = "idle" /\ \A j \in Actor : j # k => call'[j] = call[j]
      /\ \A j \in Actor, u \in User : On(j, u)' <=> On(j, u)
      /\ \A u \in User : Busy(u)' <=> Busy(u)
  <2>1. call[k].at \in Restart /\ Idle.at \in Restart \cup {"idle"}
    BY <1>1, <1>2 DEF Restart
  <2> QED BY <1>1, <1>2, <2>1, PhaseIs
<1>4. \A u \in User : u \notin raced' => u \notin raced /\ ~Busy(u)
  BY <1>1 DEF InFlight
<1>5. \A u \in User : u \notin unseen' => config[u] = 0
  BY <1>1 DEF Listed
<1>6. config \in [User -> Keys] /\ served' \in [Kinds -> [User -> Keys]]
  BY <1>1, <1>2 DEF TypeOK
<1>7. TypeOK'
  <2>1. ours' \in BOOLEAN
    BY <1>1
  <2>2. unseen' \in SUBSET User /\ raced' \in SUBSET User /\ stale' \in SUBSET User
    BY <1>1, <1>2 DEF TypeOK, Listed, InFlight
  <2> QED BY <1>1, <1>2, <1>3, <1>6, <2>1, <2>2 DEF TypeOK, CallType, Kinds
<1>8. RaceInv' /\ CallInv'
  BY <1>3, <1>4, NobodyBusy
<1>9. Restarting
  BY <1>1 DEF Restarting, Restart
<1>10. ManagedInv' /\ DownInv'
  <2>1. ASSUME ~orphaned PROVE ours' /\ \A j \in Actor : call'[j].at \notin Restart \ {"write"}
    <3>1. ~up
      BY <1>1, <2>1 DEF IInv, ManagedInv
    <3>2. \A j \in Actor : j # k => call[j].at \notin Restart \ {"write"}
      BY <1>1, <2>1 DEF IInv, ManagedInv, Restart
    <3> QED BY <1>1, <1>3, <3>1, <3>2 DEF Restart
  <2>2. ~orphaned => \A j \in Actor : call'[j].at \notin {"forget", "spawn"}
    BY <2>1 DEF Restart
  <2> QED BY <1>1, <2>1, <2>2 DEF ManagedInv, DownInv
<1>11. Writing => Writing'
  BY <1>1, <1>3 DEF Writing
<1>12. \A u \in User : u \notin raced' /\ u \notin stale' => config[u] \in {0, key[u]} \/ Writing
  BY <1>1, <1>4, <1>9 DEF IInv, ConfigInv
<1>13. ConfigInv'
  BY <1>1, <1>4, <1>11, <1>12 DEF IInv, ConfigInv
<1>14. KeyInv'
  <2> SUFFICES ASSUME NEW u \in User, u \notin raced', u \notin stale', ours'
               PROVE  (Reloading \/ \A t \in Kinds : served[t][u] \in {0, key[u]})'
    BY DEF KeyInv
  <2>1. CASE Writing
    BY <1>11, <2>1 DEF Writing, Reloading, Restart
  <2>2. CASE ~Writing
    BY <1>1, <1>12, <2>2 DEF Kinds
  <2> QED BY <2>1, <2>2
<1>15. MirrorInv'
  <2> SUFFICES ASSUME NEW u \in User, u \notin raced', u \notin unseen', ours'
               PROVE  (\A t \in Kinds : (u \in mirror) <=> (served[t][u] # 0))'
    BY DEF MirrorInv, Running
  <2>1. config[u] = 0
    BY <1>5
  <2>2. u \notin mirror
    BY <1>1, <1>4, <2>1 DEF IInv, ConfigInv
  <2> QED BY <1>1, <2>1, <2>2 DEF Kinds
<1> QED BY <1>3, <1>7, <1>8, <1>10, <1>13, <1>14, <1>15 DEF IInv

(***************************************************************************)
(* Deaths.                                                                 *)
(***************************************************************************)
LEMMA XrayDiesKeeps == ASSUME IInv, XrayDies PROVE IInv'
<1>1. /\ failures < MaxFailures /\ failures' = failures + 1 /\ up' = FALSE
      /\ served' = [t \in Kinds |-> [u \in User |-> 0]]
      /\ UNCHANGED <<row, key, changes, transports, ours, config, orphaned, mirror, call, plan,
                     unseen, raced, stale>>
  BY DEF XrayDies, NobodyServed, panel
<1>2. TypeOK /\ failures' \in 0..MaxFailures
  BY <1>1, BoundsAssumption DEF IInv, TypeOK
<1>3. /\ served' \in [Kinds -> [User -> Keys]]
      /\ \A t \in Kinds, u \in User : served'[t][u] = 0
  BY <1>1, <1>2, Fields
<1>4. TypeOK'
  BY <1>1, <1>2, <1>3 DEF TypeOK, Kinds
<1>5. CountInv' /\ ManagedInv' /\ DownInv' /\ RaceInv' /\ ConfigInv'
  BY <1>1, <1>3 DEF IInv, CountInv, ManagedInv, DownInv, RaceInv, ConfigInv, Busy, On, Restarting,
                    Writing, Kinds
<1>6. KeyInv' /\ MirrorInv'
  BY <1>1, <1>3 DEF KeyInv, MirrorInv, Running, Kinds
<1>7. CallInv'
  <2> SUFFICES ASSUME NEW u \in User \ raced', NEW j \in Actor, On(j, u)'
               PROVE  (call[j].ok => \A t \in Kinds : call[j].answered \/ t < call[j].t =>
                            IF call[j].at = "add" THEN served[t][u] # 0 \/ ~up ELSE served[t][u] = 0)'
    BY <1>1 DEF CallInv
  <2> QED BY <1>1, <1>3 DEF Kinds
<1> QED BY <1>4, <1>5, <1>6, <1>7 DEF IInv

LEMMA WorkerDiesKeeps == ASSUME IInv, WorkerDies PROVE IInv'
<1>1. /\ failures < MaxFailures /\ failures' = failures + 1
      /\ ours' = FALSE /\ mirror' = {} /\ orphaned' = TRUE
      /\ plan' = [remove |-> {}, add |-> {}] /\ call' = [k \in Actor |-> Idle]
      /\ UNCHANGED <<row, key, changes, transports, served, up, config, unseen, raced, stale>>
  BY DEF WorkerDies, panel
<1>2. TypeOK /\ failures' \in 0..MaxFailures
  BY <1>1, BoundsAssumption DEF IInv, TypeOK
<1>3. call' \in [Actor -> CallType] /\ \A j \in Actor : call'[j].at = "idle"
  BY <1>1, <1>2, Fields
<1>4. TypeOK'
  BY <1>1, <1>2, <1>3 DEF TypeOK, CallType, Kinds
<1>5. /\ ~Restarting' /\ \A u \in User : u \notin raced' => ~Busy(u)'
      /\ \A u \in User, j \in Actor : ~On(j, u)'
  BY <1>3, Apart DEF On, Busy, Restarting, Restart, Calls
<1>6. CountInv' /\ ManagedInv' /\ DownInv'
  BY <1>1, <1>2, <1>3, Fields DEF IInv, CountInv, ManagedInv, DownInv, Kinds
<1>7. KeyInv' /\ MirrorInv'
  BY <1>1 DEF KeyInv, MirrorInv, Running
<1>8. RaceInv' /\ CallInv'
  BY <1>5 DEF RaceInv, CallInv
<1>9. ConfigInv'
  <2>1. \A j \in Actor : call'[j].at # "spawn"
    BY <1>3
  <2> QED BY <1>1, <1>5, <2>1 DEF ConfigInv
<1> QED BY <1>4, <1>6, <1>7, <1>8, <1>9 DEF IInv


(***************************************************************************)
(* The panel's accounts and the reconcile loop.                            *)
(***************************************************************************)
LEMMA CountIs == ASSUME TypeOK, Count
    PROVE  /\ changes' = changes + 1 /\ changes' \in 0..MaxChanges /\ changes \in Nat
           /\ changes <= changes'
<1>1. transports \in Nat /\ 1 <= transports /\ changes \in Nat /\ MaxChanges \in Nat
  BY Fields DEF Kinds
<1> QED BY <1>1 DEF Count

LEMMA ChangedIs == ASSUME TypeOK, NEW u \in User, NEW r \in RowState, Changed(u, r)
    PROVE  Count /\ row' \in [User -> RowState]
BY DEF Changed, TypeOK

LEMMA SyncUserIs ==
    ASSUME IInv, NEW k \in Task, NEW u \in User, SyncUser(k, u), k = changes + 1, Count,
           row' \in [User -> RowState], \A w \in User : key'[w] <= changes' + 1,
           key' \in [User -> Keys \ {0}], \A w \in User : w # u => key'[w] = key[w],
           UNCHANGED <<served, process, mirror, plan, unseen, stale, failures>>
    PROVE  IInv'
<1>1. TypeOK /\ k \in Actor /\ k \in Nat
  BY Fields DEF IInv
<1>2. /\ changes' = changes + 1 /\ changes' \in 0..MaxChanges /\ changes \in Nat
      /\ changes <= changes' /\ k <= changes' /\ k > changes
  BY <1>1, CountIs
<1>3. call[k].at = "idle"
  BY <1>2 DEF IInv, CountInv
<1>4. plan' \in [remove : SUBSET User, add : SUBSET User] /\ failures' \in 0..MaxFailures
  BY <1>1 DEF TypeOK
<1>5. CASE Running
  <2>1. PICK kind \in {"resync", "remove"} :
          kind = IF row'[u] \in {"live", "lapsed"} THEN "resync" ELSE "remove"
    OBVIOUS
  <2>2. Send(k, kind, u)
    BY <1>5, <2>1 DEF SyncUser
  <2>3. kind \in Calls /\ kind # "add"
    BY DEF Calls
  <2> QED BY <1>1, <1>2, <1>3, <1>4, <1>5, <2>2, <2>3, SendIs
<1>6. CASE ~Running
  <2>1. call' = call /\ raced' = IF Reloading THEN raced \cup {u} ELSE raced
    BY <1>6 DEF SyncUser
  <2>2. raced \subseteq raced' /\ raced' \in SUBSET User
    BY <1>1, <2>1 DEF TypeOK
  <2>3. TypeOK'
    BY <1>1, <1>2, <1>4, <2>1, <2>2 DEF TypeOK, process, Kinds
  <2>4. \A w \in User : key'[w] = key[w] \/ w \in raced' \/ (~Running /\ ~Reloading)
    BY <1>6, <2>1
  <2> QED BY <1>2, <2>1, <2>2, <2>3, <2>4, QuietIs
<1> QED BY <1>5, <1>6

LEMMA PushKeeps ==
    ASSUME IInv, NEW k \in Task, NEW u \in User, NEW r \in RowState, Push(k, u, r) PROVE IInv'
<1>1. TypeOK
  BY DEF IInv
<1>2. /\ k = changes + 1 /\ SyncUser(k, u) /\ Changed(u, r) /\ key' = key
      /\ UNCHANGED <<served, process, mirror, plan, unseen, stale, failures>>
  BY DEF Push
<1>3. Count /\ row' \in [User -> RowState]
  BY <1>1, <1>2, ChangedIs
<1>4. key \in [User -> Keys \ {0}] /\ \A w \in User : key[w] \in Nat
  BY <1>1, Fields DEF TypeOK
<1>5. \A w \in User : key'[w] <= changes' + 1
  BY <1>1, <1>2, <1>3, <1>4, CountIs DEF IInv, CountInv
<1> QED BY <1>2, <1>3, <1>4, <1>5, SyncUserIs

\* A key that is rotated has the next number at most.
LEMMA NextKey ==
    ASSUME IInv, Count, NEW u \in User, key' = [key EXCEPT ![u] = @ + 1]
    PROVE  /\ key' \in [User -> Keys \ {0}] /\ \A w \in User : key'[w] <= changes' + 1
           /\ \A w \in User : w # u => key'[w] = key[w]
<1>1. TypeOK /\ changes' = changes + 1 /\ changes' \in 0..MaxChanges /\ changes \in Nat
  BY CountIs DEF IInv
<1>2. key \in [User -> Keys \ {0}] /\ \A w \in User : key[w] \in Nat /\ key[w] <= changes + 1
  BY <1>1, Fields DEF IInv, CountInv, TypeOK
<1>3. key[u] + 1 \in Keys \ {0}
  BY <1>1, <1>2, Fields DEF Keys
<1> QED BY <1>1, <1>2, <1>3

LEMMA RegenerateKeeps ==
    ASSUME IInv, NEW k \in Task, NEW u \in User, Regenerate(k, u) PROVE IInv'
<1>1. TypeOK
  BY DEF IInv
<1>2. /\ Count /\ k = changes' /\ SyncUser(k, u) /\ key' = [key EXCEPT ![u] = @ + 1]
      /\ row' = row /\ UNCHANGED <<served, process, mirror, plan, unseen, stale, failures>>
  BY DEF Regenerate
<1>3. k = changes + 1 /\ row' \in [User -> RowState]
  BY <1>1, <1>2, CountIs DEF TypeOK
<1> QED BY <1>2, <1>3, NextKey, SyncUserIs

LEMMA ChangeQuietlyKeeps ==
    ASSUME IInv, NEW u \in User, NEW r \in RowState, ChangeQuietly(u, r) PROVE IInv'
<1>1. TypeOK
  BY DEF IInv
<1>2. /\ Changed(u, r)
      /\ UNCHANGED <<key, served, process, mirror, call, plan, unseen, raced, stale, failures>>
  BY DEF ChangeQuietly
<1>3. Count /\ row' \in [User -> RowState]
  BY <1>1, <1>2, ChangedIs
<1>4. changes' \in 0..MaxChanges /\ changes <= changes' /\ changes \in Nat /\ changes' \in Nat
  BY <1>1, <1>3, CountIs
<1>5. TypeOK'
  BY <1>1, <1>2, <1>3, <1>4 DEF TypeOK, process, Kinds
<1>6. \A w \in User : key[w] \in Nat /\ key[w] <= changes + 1
  BY <1>1, Fields DEF IInv, CountInv, TypeOK
<1>7. \A w \in User : key'[w] <= changes' + 1
  BY <1>2, <1>4, <1>6
<1> QED BY <1>2, <1>4, <1>5, <1>7, QuietIs

LEMMA RegenerateElsewhereKeeps ==
    ASSUME IInv, NEW u \in User, RegenerateElsewhere(u) PROVE IInv'
<1>1. TypeOK
  BY DEF IInv
<1>2. /\ Count /\ key' = [key EXCEPT ![u] = @ + 1] /\ stale' = stale \cup {u}
      /\ raced' = IF Busy(u) \/ Reloading THEN raced \cup {u} ELSE raced
      /\ UNCHANGED <<row, served, process, mirror, call, plan, unseen, failures>>
  BY DEF RegenerateElsewhere
<1>3. changes' \in 0..MaxChanges /\ changes <= changes'
  BY <1>1, <1>2, CountIs
<1>4. /\ key' \in [User -> Keys \ {0}] /\ \A w \in User : key'[w] <= changes' + 1
      /\ \A w \in User : w # u => key'[w] = key[w]
  BY <1>2, NextKey
<1>5. stale' \in SUBSET User /\ raced' \in SUBSET User /\ raced \subseteq raced'
  BY <1>1, <1>2 DEF TypeOK
<1>6. TypeOK'
  BY <1>1, <1>2, <1>3, <1>4, <1>5 DEF TypeOK, process, Kinds
<1>7. \A w \in User : key'[w] = key[w] \/ w \in raced' \/ (w \in stale' /\ ~Busy(w))
  BY <1>2, <1>4
<1> QED BY <1>2, <1>3, <1>4, <1>5, <1>6, <1>7, QuietIs


LEMMA RebuildKeeps == ASSUME IInv, NEW k \in Task, Rebuild(k) PROVE IInv'
<1>1. TypeOK /\ k \in Actor
  BY Fields DEF IInv
<1>2. /\ Count /\ k = changes'
      /\ UNCHANGED <<served, process, mirror, plan, unseen, stale, failures>>
  BY DEF Rebuild
<1>3. /\ changes' = changes + 1 /\ changes' \in 0..MaxChanges /\ changes <= changes'
      /\ changes \in Nat /\ changes' \in Nat
  BY <1>1, <1>2, CountIs
<1>4. /\ row' \in [User -> RowState] /\ key' \in [User -> Keys \ {0}]
      /\ \A w \in User : key'[w] <= changes' + 1
  <2>1. CASE row' = row /\ key' = key
    <3>1. \A w \in User : key[w] \in Nat /\ key[w] <= changes + 1
      BY <1>1, Fields DEF IInv, CountInv, TypeOK
    <3> QED BY <1>1, <1>3, <2>1, <3>1 DEF TypeOK
  <2>2. CASE row' = [u \in User |-> "live"] /\ key' = [u \in User |-> 1]
    <3>1. "live" \in RowState
      BY DEF RowState
    <3>2. 1 \in Keys
      BY <1>1, Fields DEF Keys
    <3> QED BY <1>3, <2>2, <3>1, <3>2
  <2> QED BY <2>1, <2>2 DEF Rebuild
<1>5. CASE ~Running
  <2>1. call' = call /\ raced' = IF Reloading THEN User ELSE raced
    BY <1>5 DEF Rebuild
  <2>2. raced \subseteq raced' /\ raced' \in SUBSET User
    BY <1>1, <2>1 DEF TypeOK
  <2>3. TypeOK'
    BY <1>1, <1>2, <1>3, <1>4, <2>1, <2>2 DEF TypeOK, process, Kinds
  <2>4. \A w \in User : key'[w] = key[w] \/ w \in raced' \/ (~Running /\ ~Reloading)
    BY <1>5, <2>1
  <2> QED BY <1>2, <1>3, <1>4, <2>1, <2>2, <2>3, <2>4, QuietIs
<1>6. CASE Running
  <2>1. UNCHANGED <<transports, up, ours, config, orphaned, served, mirror, plan, unseen, stale,
                    failures, raced>>
    BY <1>2, <1>6 DEF process, Rebuild
  <2>2. call[k].at = "idle" /\ call[k] \in CallType
    BY <1>1, <1>2, <1>3, Fields DEF IInv, CountInv
  <2>3. PICK r : r = [call[k] EXCEPT !.at = "write"]
    OBVIOUS
  <2>4. r \in CallType /\ r.at = "write" /\ call' = [call EXCEPT ![k] = r]
    BY <1>1, <1>6, <2>2, <2>3, Fields DEF CallType, Restart, Rebuild
  <2>5. /\ call' \in [Actor -> CallType] /\ call'[k] = r
        /\ \A j \in Actor : j # k => call'[j] = call[j]
    BY <1>1, <2>4, CallIs
  <2>6. \A j \in Actor, u \in User : On(j, u)' <=> On(j, u)
    BY <2>2, <2>4, <2>5 DEF On, Calls
  <2>7. \A u \in User : Busy(u)' <=> Busy(u)
    BY <2>2, <2>4, <2>5 DEF Busy, Calls
  <2>8. /\ \A s \in Restart \ {"write"}, j \in Actor : call'[j].at = s <=> call[j].at = s
        /\ (Restarting' <=> Restarting) /\ Writing' /\ Reloading'
    BY <1>1, <2>2, <2>4, <2>5 DEF Restart, Restarting, Writing, Reloading
  <2>9. TypeOK'
    BY <1>1, <1>3, <1>4, <2>1, <2>5 DEF TypeOK, CallType, Kinds
  <2>10. CountInv'
    <3>1. ASSUME NEW j \in Task, j > changes' PROVE call'[j].at = "idle"
      <4>1. j # k /\ j > changes
        BY <1>1, <1>2, <1>3, <3>1, Fields
      <4> QED BY <1>1, <2>5, <4>1, Fields DEF IInv, CountInv
    <3>2. \A j \in Actor : call'[j].at \in {"resync", "add"} => call'[j].key # 0
      BY <2>4, <2>5 DEF IInv, CountInv
    <3> QED BY <1>4, <3>1, <3>2 DEF CountInv
  <2>11. ManagedInv' /\ DownInv' /\ RaceInv'
    BY <2>1, <2>6, <2>7, <2>8 DEF IInv, ManagedInv, DownInv, RaceInv, Kinds, Restart
  <2>12. CallInv'
    <3> SUFFICES ASSUME NEW u \in User \ raced', NEW j \in Actor, On(j, u)'
                 PROVE  (call[j].ok => \A t \in Kinds : call[j].answered \/ t < call[j].t =>
                            IF call[j].at = "add" THEN served[t][u] # 0 \/ ~up ELSE served[t][u] = 0)'
      BY <2>8 DEF CallInv
    <3>1. On(j, u) /\ j # k /\ u \in User \ raced
      BY <2>1, <2>2, <2>6, Apart DEF On
    <3> QED BY <2>1, <2>5, <3>1 DEF IInv, CallInv, Kinds
  <2>13. ConfigInv'
    <3>1. (\E j \in Actor : call'[j].at = "spawn") => \E j \in Actor : call[j].at = "spawn"
      BY <2>8 DEF Restart
    <3> QED BY <2>1, <2>8, <3>1 DEF IInv, ConfigInv
  <2>14. KeyInv' /\ MirrorInv'
    BY <2>8 DEF KeyInv, MirrorInv
  <2> QED BY <2>9, <2>10, <2>11, <2>12, <2>13, <2>14 DEF IInv
<1> QED BY <1>5, <1>6

\* Nothing but the plan, and perhaps a call of the loop.
LEMMA LoopCallsIs ==
    ASSUME IInv, NEW kind \in Calls, NEW u \in User, call[Loop].at = "idle",
           LoopCalls(kind, u) \/ UNCHANGED <<call, raced>>,
           plan' \in [remove : SUBSET User, add : SUBSET User],
           UNCHANGED <<panel, served, process, mirror, unseen, stale, failures>>
    PROVE  IInv'
<1>1. TypeOK /\ Loop \in Actor /\ Loop \notin Task /\ UNCHANGED <<row, key, changes>>
  BY Fields DEF IInv, panel
<1>2. changes \in 0..MaxChanges /\ changes \in Nat /\ \A w \in User : key[w] <= changes + 1
  BY <1>1, Fields DEF IInv, CountInv, TypeOK
<1>3. CASE Running /\ LoopCalls(kind, u)
  <2>1. Send(Loop, kind, u)
    BY <1>3 DEF LoopCalls
  <2>2. /\ row' \in [User -> RowState] /\ key' \in [User -> Keys \ {0}]
        /\ failures' \in 0..MaxFailures
    BY <1>1 DEF TypeOK
  <2> QED BY <1>1, <1>2, <1>3, <2>1, <2>2, SendIs
<1>4. CASE ~(Running /\ LoopCalls(kind, u))
  <2>1. UNCHANGED <<call, raced>>
    BY <1>4 DEF LoopCalls
  <2>2. TypeOK'
    BY <1>1, <2>1 DEF TypeOK, process, Kinds
  <2>3. changes <= changes' /\ (\A w \in User : key'[w] <= changes' + 1)
        /\ raced \subseteq raced' /\ stale \subseteq stale'
    BY <1>1, <1>2, <2>1
  <2> QED BY <1>1, <2>1, <2>2, <2>3, QuietIs
<1> QED BY <1>3, <1>4

LEMMA LoopStepKeeps == ASSUME IInv, LoopStep PROVE IInv'
<1>1. plan \in [remove : SUBSET User, add : SUBSET User] /\ mirror \in SUBSET User
  BY DEF IInv, TypeOK
<1>2. CASE MakePlan
  <2>1. /\ call[Loop].at = "idle" /\ UNCHANGED <<call, raced>>
        /\ plan' = [remove |-> mirror \ Entitled, add |-> Entitled \ mirror]
        /\ UNCHANGED <<panel, served, process, mirror, unseen, stale, failures>>
    BY <1>2 DEF MakePlan
  <2>2. plan' \in [remove : SUBSET User, add : SUBSET User]
    BY <1>1, <2>1 DEF Entitled
  <2>3. PICK u \in User : TRUE
    BY BoundsAssumption
  <2>4. "add" \in Calls
    BY DEF Calls
  <2> QED BY <2>1, <2>2, <2>3, <2>4, LoopCallsIs
<1>3. ASSUME NEW u \in User, LoopRemoves(u) PROVE IInv'
  <2>1. /\ call[Loop].at = "idle" /\ LoopCalls("remove", u)
        /\ plan' = [plan EXCEPT !.remove = plan.remove \ {u}]
        /\ UNCHANGED <<panel, served, process, mirror, unseen, stale, failures>>
    BY <1>3 DEF LoopRemoves
  <2>2. plan' \in [remove : SUBSET User, add : SUBSET User]
    BY <1>1, <2>1
  <2>3. "remove" \in Calls
    BY DEF Calls
  <2> QED BY <2>1, <2>2, <2>3, LoopCallsIs
<1>4. ASSUME NEW u \in User, LoopAdds(u) PROVE IInv'
  <2>1. /\ call[Loop].at = "idle" /\ (LoopCalls("add", u) \/ UNCHANGED <<call, raced>>)
        /\ plan' = [plan EXCEPT !.add = plan.add \ {u}]
        /\ UNCHANGED <<panel, served, process, mirror, unseen, stale, failures>>
    BY <1>4 DEF LoopAdds
  <2>2. plan' \in [remove : SUBSET User, add : SUBSET User]
    BY <1>1, <2>1
  <2>3. "add" \in Calls
    BY DEF Calls
  <2> QED BY <2>1, <2>2, <2>3, LoopCallsIs
<1> QED BY <1>2, <1>3, <1>4 DEF LoopStep

LEMMA StutterKeeps == ASSUME IInv, UNCHANGED vars PROVE IInv'
<1>1. UNCHANGED <<row, key, transports, served, up, ours, config, mirror, call, plan,
                  unseen, raced, stale, orphaned, changes, failures>>
  BY DEF vars
<1>2. TypeOK'
  BY <1>1 DEF IInv, TypeOK, Kinds
<1>3. \A w \in User : key'[w] <= changes' + 1
  BY <1>1 DEF IInv, CountInv
<1>4. changes <= changes'
  BY <1>1, Fields DEF IInv
<1>5. raced \subseteq raced' /\ stale \subseteq stale'
  BY <1>1
<1>6. UNCHANGED <<served, process, mirror, call, unseen>>
  BY <1>1 DEF process
<1> QED BY <1>1, <1>2, <1>3, <1>4, <1>5, <1>6, QuietIs

(***************************************************************************)
(* The theorems.                                                           *)
(***************************************************************************)
LEMMA InitHolds == ASSUME Init PROVE IInv
<1>1. /\ row \in [User -> {"new", "live", "lapsed"}] /\ key = [u \in User |-> 1]
      /\ transports \in 1..MaxTransports /\ config = Clients /\ served = [t \in Kinds |-> config]
      /\ up = TRUE /\ ours = TRUE /\ mirror = {} /\ call = [k \in Actor |-> Idle]
      /\ plan = [remove |-> {}, add |-> {}] /\ unseen = Listed(config) /\ raced = {}
      /\ stale = {} /\ orphaned = FALSE /\ changes = 0 /\ failures = 0
  BY DEF Init
<1>2. transports \in Nat /\ 1 \in Kinds /\ MaxChanges \in Nat /\ MaxFailures \in Nat
  BY <1>1, BoundsAssumption DEF Kinds
<1>3. 0 \in Keys /\ 1 \in Keys
  BY <1>2 DEF Keys
<1>4. config \in [User -> Keys] /\ \A u \in User : config[u] \in {0, 1}
  BY <1>1, <1>3 DEF Clients
<1>5. (CHOOSE u \in User : TRUE) \in User
  BY BoundsAssumption
<1>6. Idle \in CallType /\ Idle.at = "idle"
  BY <1>2, <1>3, <1>5 DEF Idle, CallType
<1>7. call \in [Actor -> CallType] /\ \A k \in Actor : call[k].at = "idle"
  BY <1>1, <1>6
<1>8. row \in [User -> RowState]
  BY <1>1 DEF RowState
<1>9. TypeOK
  <2>1. Listed(config) \in SUBSET User
    BY DEF Listed
  <2>2. key \in [User -> Keys \ {0}]
    BY <1>1, <1>3
  <2>3. served \in [Kinds -> [User -> Keys]] /\ plan \in [remove : SUBSET User, add : SUBSET User]
    BY <1>1, <1>4
  <2>4. call \in [Actor -> [at : Calls \cup Restart \cup {"idle"}, user : User, key : Keys,
                            t : Kinds, answered : BOOLEAN, ok : BOOLEAN]]
    BY <1>7 DEF CallType
  <2>5. changes \in 0..MaxChanges /\ failures \in 0..MaxFailures
    BY <1>1, <1>2
  <2> QED BY <1>1, <1>4, <1>8, <2>1, <2>2, <2>3, <2>4, <2>5 DEF TypeOK
<1>10. CountInv
  BY <1>1, <1>7, <1>9, Fields DEF CountInv
<1>11. ManagedInv /\ DownInv
  BY <1>1, <1>7 DEF ManagedInv, DownInv, Restart
<1>12. ~Restarting /\ (\A u \in User : ~Busy(u)) /\ \A k \in Actor, u \in User : ~On(k, u)
  BY <1>7, Apart DEF Restarting, Busy, On, Restart, Calls
<1>13. RaceInv /\ CallInv
  BY <1>12 DEF RaceInv, CallInv
<1>14. ConfigInv /\ KeyInv /\ MirrorInv
  BY <1>1, <1>4, <1>12 DEF ConfigInv, KeyInv, MirrorInv, Listed
<1> QED BY <1>9, <1>10, <1>11, <1>13, <1>14 DEF IInv

LEMMA NextKeeps == ASSUME IInv, [Next]_vars PROVE IInv'
<1>1. CASE Change
  BY <1>1, ChangeQuietlyKeeps, PushKeeps, RegenerateElsewhereKeeps, RegenerateKeeps, RebuildKeeps
  DEF Change
<1>2. CASE LoopStep
  BY <1>2, LoopStepKeeps
<1>3. CASE XrayDies \/ WorkerDies
  BY <1>3, XrayDiesKeeps, WorkerDiesKeeps
<1>4. CASE \E k \in Actor : Step(k) \/ Fail(k)
  BY <1>4, ReceiveKeeps, RemovedKeeps, ResyncedKeeps, AddedKeeps, WriteConfigKeeps,
     StopProcessKeeps, ForgetProcessKeeps, SpawnKeeps, FailKeeps DEF Step
<1>5. CASE UNCHANGED vars
  BY <1>5, StutterKeeps
<1> QED BY <1>1, <1>2, <1>3, <1>4, <1>5 DEF Next

\* The invariant the others rest on: an account outside raced has one call at a time,
\* of which the key and the answers so far are still good, and no restart meanwhile.
THEOREM Invariance == Spec => []IInv
<1>1. Init => IInv
  BY InitHolds
<1>2. IInv /\ [Next]_vars => IInv'
  BY NextKeeps
<1> QED BY <1>1, <1>2, PTL DEF Spec

\* Every variable keeps its type.
THEOREM TypeCorrect == Spec => []TypeOK
<1>1. IInv => TypeOK
  BY DEF IInv
<1> QED BY <1>1, Invariance, PTL

\* What _xray_reconcile_loop compares with the panel is what xray does, save for
\* accounts of the config file, of a failed call, or of operations that overlapped.
THEOREM MirrorIsTrue == Spec => []MirrorTells
<1>1. IInv => MirrorTells
  BY DEF IInv, MirrorInv, MirrorTells, Settled
<1> QED BY <1>1, Invariance, PTL

\* Once api_regenerate_uuid's push is done the old key works on no transport, whatever
\* restarts, failures and other pushes come in between.
THEOREM OldKeysGo == Spec => []OldKeyIsGone
<1>1. IInv => OldKeyIsGone
  <2> SUFFICES ASSUME IInv, NEW u \in User, Settled(u), u \notin stale \cup raced
               PROVE  \A t \in Kinds : served[t][u] \in {0, key[u]}
    BY DEF OldKeyIsGone
  <2>1. ours /\ ~Reloading /\ ~Busy(u)
    BY DEF Settled, Running
  <2>2. \A j \in Task : ~On(j, u)
    BY <2>1, Fields DEF IInv, Busy, On
  <2> QED BY <2>1, <2>2 DEF IInv, KeyInv
<1> QED BY <1>1, Invariance, PTL

\* Until restarts overlap or the worker dies, no xray serves but the one that the panel
\* can talk to and stop.
THEOREM XrayStaysManaged == Spec => []XrayIsManaged
<1>1. IInv => XrayIsManaged
  BY DEF IInv, ManagedInv, XrayIsManaged
<1> QED BY <1>1, Invariance, PTL
=============================================================================
