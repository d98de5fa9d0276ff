---------------------------- MODULE UsageProofs ----------------------------
(***************************************************************************)
(* Usage: for any amount of traffic, any number of operations and failing  *)
(* writes, every chunk stays in exactly one place, and a reset never lets  *)
(* traffic it has settled come back to the account's bill.                 *)
(***************************************************************************)
EXTENDS Usage, SequenceTheorems, TLAPS

(***************************************************************************)
(* The inductive invariant.                                                *)
(***************************************************************************)

\* A fold carries nothing that a fold before it carries, nor what a reset before
\* it will settle; and the buffer holds nothing that a waiting reset will settle.
QueueInv ==
    /\ \A i \in DOMAIN queue :
          queue[i].kind = "reset" =>
            /\ queue[i].bytes \subseteq relayed
            /\ queue[i].bytes \cap pending = {}
    /\ \A i, j \in DOMAIN queue :
          (/\ i < j /\ queue[j].kind \in Folds
           /\ queue[i].kind \in Folds \cup {"reset"})
            => queue[i].bytes \cap queue[j].bytes = {}

\* What is settled was relayed, and is in no bill, buffer or fold.
SettledInv ==
    /\ ResetForgets
    /\ settled \cap Unsettled = {}
    /\ settled \subseteq relayed

\* Folds await no write, and while a bulk reset awaits its own the bill is empty.
WritingInv ==
    /\ ~live => used = {}
    /\ writing => /\ queue # <<>>
                  /\ First.kind \notin Folds
                  /\ First.kind = "bulk" => used = {}

\* A process that has ended holds nothing.
DownInv == phase = "down" => pending = {}

PlaceInv == EveryChunkInOnePlace /\ DownInv
IInv == TypeOK /\ PlaceInv /\ QueueInv /\ WritingInv /\ SettledInv

(***************************************************************************)
(* The queue.                                                              *)
(***************************************************************************)

\* A job that joins is the last; the others keep their places.
LEMMA AwaitEffect ==
    ASSUME TypeOK, NEW kind \in Kind, NEW bytes \in SUBSET Chunk, Await(kind, bytes)
    PROVE  /\ queue' \in Seq(Job)
           /\ Len(queue) \in Nat
           /\ DOMAIN queue = 1..Len(queue)
           /\ DOMAIN queue' = 1..(Len(queue) + 1)
           /\ \A i \in 1..Len(queue) : queue'[i] = queue[i]
           /\ queue'[Len(queue) + 1] = [kind |-> kind, bytes |-> bytes]
<1> DEFINE job == [kind |-> kind, bytes |-> bytes]
<1>1. queue \in Seq(Job) /\ job \in Job
  BY DEF TypeOK, Job
<1>2. queue' = Append(queue, job)
  BY DEF Await
<1> HIDE DEF job
<1>3. Append(queue, job) \in Seq(Job) /\ Len(Append(queue, job)) = Len(queue) + 1
  BY <1>1, AppendProperties
<1>4. \A i \in 1..Len(queue) : Append(queue, job)[i] = queue[i]
  BY <1>1, AppendProperties
<1>5. Append(queue, job)[Len(queue) + 1] = job
  BY <1>1, AppendProperties
<1>6. Len(queue) \in Nat /\ DOMAIN queue = 1..Len(queue)
  BY <1>1, LenProperties
<1>7. DOMAIN queue' = 1..(Len(queue) + 1)
  BY <1>2, <1>3, LenProperties
<1> QED BY <1>2, <1>3, <1>4, <1>5, <1>6, <1>7 DEF job

\* When the first job leaves, the others move up by one.
LEMMA LeaveEffect ==
    ASSUME TypeOK, queue # <<>>, Leave
    PROVE  /\ queue' \in Seq(Job)
           /\ Len(queue) \in Nat \ {0}
           /\ DOMAIN queue = 1..Len(queue)
           /\ DOMAIN queue' = 1..(Len(queue) - 1)
           /\ \A i \in 1..(Len(queue) - 1) : queue'[i] = queue[i + 1]
<1>1. queue \in Seq(Job)
  BY DEF TypeOK
<1>2. queue' = Tail(queue)
  BY DEF Leave
<1>3. /\ Tail(queue) \in Seq(Job) /\ Len(Tail(queue)) = Len(queue) - 1
      /\ \A i \in 1..Len(Tail(queue)) : Tail(queue)[i] = queue[i + 1]
  BY <1>1, HeadTailProperties
<1>4. Len(queue) \in Nat \ {0} /\ DOMAIN queue = 1..Len(queue)
  BY <1>1, EmptySeq, LenProperties
<1>5. DOMAIN queue' = 1..(Len(queue) - 1)
  BY <1>2, <1>3, LenProperties
<1> QED BY <1>2, <1>3, <1>4, <1>5

LEMMA FirstJob ==
    ASSUME TypeOK, queue # <<>>
    PROVE  1 \in DOMAIN queue /\ First \in Job
<1>1. queue \in Seq(Job)
  BY DEF TypeOK
<1>2. Len(queue) \in Nat \ {0} /\ DOMAIN queue = 1..Len(queue)
      /\ queue \in [1..Len(queue) -> Job]
  BY <1>1, EmptySeq, LenProperties
<1> QED BY <1>2 DEF First

\* What a fold carries, chunk by chunk.
LEMMA FoldingMember ==
    ASSUME NEW c
    PROVE  c \in Folding <=>
             \E i \in DOMAIN queue : queue[i].kind \in Folds /\ c \in queue[i].bytes
BY DEF Folding

LEMMA FoldingType == ASSUME TypeOK PROVE Folding \subseteq Chunk
<1>1. queue \in Seq(Job)
  BY DEF TypeOK
<1>2. \A i \in DOMAIN queue : queue[i] \in Job
  BY <1>1, LenProperties
<1> QED BY <1>2, FoldingMember DEF Job

LEMMA AwaitFolding ==
    ASSUME TypeOK, NEW kind \in Kind, NEW bytes \in SUBSET Chunk, Await(kind, bytes)
    PROVE  Folding' = IF kind \in Folds THEN Folding \cup bytes ELSE Folding
<1> DEFINE n == Len(queue)
<1>1. /\ n \in Nat /\ DOMAIN queue = 1..n /\ DOMAIN queue' = 1..(n + 1)
      /\ \A i \in 1..n : queue'[i] = queue[i]
      /\ queue'[n + 1] = [kind |-> kind, bytes |-> bytes]
  BY AwaitEffect
<1>2. ASSUME NEW c
      PROVE  c \in Folding' <=> c \in Folding \/ (kind \in Folds /\ c \in bytes)
  <2>1. c \in Folding' <=>
          \E i \in 1..(n + 1) : queue'[i].kind \in Folds /\ c \in queue'[i].bytes
    BY <1>1 DEF Folding
  <2>2. c \in Folding <=>
          \E i \in 1..n : queue[i].kind \in Folds /\ c \in queue[i].bytes
    BY <1>1, FoldingMember
  <2>3. 1..(n + 1) = (1..n) \cup {n + 1}
    BY <1>1
  <2> HIDE DEF n
  <2> QED BY <1>1, <2>1, <2>2, <2>3
<1> QED BY <1>2

LEMMA LeaveFolding ==
    ASSUME TypeOK, queue # <<>>, Leave
    PROVE  Folding = IF First.kind \in Folds THEN Folding' \cup First.bytes ELSE Folding'
<1> DEFINE n == Len(queue)
<1>1. /\ n \in Nat \ {0} /\ DOMAIN queue = 1..n /\ DOMAIN queue' = 1..(n - 1)
      /\ \A i \in 1..(n - 1) : queue'[i] = queue[i + 1]
  BY LeaveEffect
<1>2. ASSUME NEW c
      PROVE  c \in Folding <=>
               c \in Folding' \/ (First.kind \in Folds /\ c \in First.bytes)
  <2>1. c \in Folding' <=>
          \E i \in 1..(n - 1) : queue[i + 1].kind \in Folds /\ c \in queue[i + 1].bytes
    <3>1. c \in Folding' <=>
            \E i \in 1..(n - 1) : queue'[i].kind \in Folds /\ c \in queue'[i].bytes
      BY <1>1 DEF Folding
    <3> HIDE DEF n
    <3> QED BY <1>1, <3>1
  <2>2. c \in Folding <=>
          \E i \in 1..n : queue[i].kind \in Folds /\ c \in queue[i].bytes
    BY <1>1, FoldingMember
  <2> HIDE DEF n
  <2>3. ASSUME NEW i \in 1..n, queue[i].kind \in Folds, c \in queue[i].bytes
        PROVE  \/ First.kind \in Folds /\ c \in First.bytes
               \/ \E j \in 1..(n - 1) : queue[j + 1].kind \in Folds /\ c \in queue[j + 1].bytes
    <3>1. CASE i = 1
      BY <2>3, <3>1 DEF First
    <3>2. CASE i # 1
      <4>1. i - 1 \in 1..(n - 1) /\ (i - 1) + 1 = i
        BY <1>1, <3>2
      <4> QED BY <2>3, <4>1
    <3> QED BY <3>1, <3>2
  <2>4. ASSUME NEW j \in 1..(n - 1) PROVE j + 1 \in 1..n
    BY <1>1
  <2>5. 1 \in 1..n
    BY <1>1
  <2>6. c \in Folding' => c \in Folding
    BY <2>1, <2>2, <2>4
  <2>7. First.kind \in Folds /\ c \in First.bytes => c \in Folding
    BY <2>2, <2>5 DEF First
  <2>8. c \in Folding => c \in Folding' \/ (First.kind \in Folds /\ c \in First.bytes)
    BY <2>1, <2>2, <2>3
  <2> QED BY <2>6, <2>7, <2>8
<1> QED BY <1>2

\* An empty queue folds nothing.
LEMMA StopFolding == ASSUME Stop PROVE Folding' = {} /\ DOMAIN queue' = {}
<1>1. queue' = <<>>
  BY DEF Stop
<1>2. DOMAIN queue' = {}
  BY <1>1
<1> QED BY <1>2 DEF Folding

(***************************************************************************)
(* Type correctness.                                                       *)
(***************************************************************************)
LEMMA InitType == Init => TypeOK
<1> SUFFICES ASSUME Init PROVE TypeOK
  OBVIOUS
<1>1. queue \in Seq(Job)
  <2>1. <<>> \in Seq(Job)
    BY EmptySeq
  <2> QED BY <2>1 DEF Init
<1>2. ops \in 0..MaxOps /\ failures \in 0..MaxFailures
  BY BoundsAssumption DEF Init
<1>3. /\ {relayed, pending, used, total, popped, lost, settled} \subseteq SUBSET Chunk
      /\ {live, writing, forgetting} \subseteq BOOLEAN /\ phase = "up"
  BY DEF Init
<1> QED BY <1>1, <1>2, <1>3 DEF TypeOK

LEMMA NextType == TypeOK /\ [Next]_vars => TypeOK'
<1> SUFFICES ASSUME TypeOK, [Next]_vars PROVE TypeOK'
  OBVIOUS
<1> USE BoundsAssumption
<1>1. ASSUME NEW c \in Chunk, Report(c) PROVE TypeOK'
  BY <1>1 DEF Report, TypeOK, bill
<1>2. CASE Fold
  <2>1. queue' \in Seq(Job) /\ pending' = {}
    BY <1>2, AwaitEffect DEF Fold, TakeBuffers, TypeOK, Kind
  <2> QED BY <1>2, <2>1 DEF Fold, TypeOK, bill
<1>3. CASE Reset
  <2>1. queue' \in Seq(Job)
    BY <1>3, AwaitEffect DEF Reset, TypeOK, Kind
  <2>2. ops' \in 0..MaxOps
    BY <1>3 DEF Reset, Begin, TypeOK
  <2> QED BY <1>3, <2>1, <2>2 DEF Reset, Pop, TypeOK, bill
<1>4. ASSUME NEW kind \in {"renew", "bulk", "delete", "flush"}, Change(kind) PROVE TypeOK'
  <2>1. kind \in Kind /\ {} \in SUBSET Chunk /\ Await(kind, {})
    BY <1>4 DEF Change, Kind
  <2>2. queue' \in Seq(Job)
    BY <2>1, AwaitEffect
  <2>3. ops' \in 0..MaxOps
    BY <1>4 DEF Change, Begin, TypeOK
  <2> QED BY <1>4, <2>2, <2>3 DEF Change, TypeOK, bill
<1>5. CASE Store
  <2>1. queue # <<>> /\ First \in Job
    BY <1>5, FirstJob
       DEF Store, ApplyFold, ApplyReset, ApplyRenew, ApplyBulk, ApplyDelete, Refuse, Return,
           WriteFail, Ready
  <2>2. Leave => queue' \in Seq(Job)
    BY <2>1, LeaveEffect
  <2>3. First.bytes \subseteq Chunk
    BY <2>1 DEF Job
  <2>4. CASE ApplyFold
    BY <2>2, <2>3, <2>4 DEF ApplyFold, TypeOK
  <2>5. CASE ApplyReset
    BY <2>3, <2>5 DEF ApplyReset, TypeOK
  <2>6. CASE ApplyRenew
    BY <2>6 DEF ApplyRenew, Pop, TypeOK
  <2>7. CASE ApplyBulk
    BY <2>7 DEF ApplyBulk, TypeOK
  <2>8. CASE ApplyDelete
    BY <2>8 DEF ApplyDelete, TypeOK
  <2>9. CASE Refuse
    BY <2>2, <2>9 DEF Refuse, TypeOK, bill
  <2>10. CASE Return
    <3>1. /\ pending' \in SUBSET Chunk /\ popped' \in SUBSET Chunk
          /\ settled' \in SUBSET Chunk /\ forgetting' \in BOOLEAN
      BY <2>10 DEF Return, Pop, TypeOK
    <3> QED BY <2>2, <2>10, <3>1 DEF Return, TypeOK
  <2>11. CASE WriteFail
    <3>1. failures' \in 0..MaxFailures
      BY <2>11 DEF WriteFail, TypeOK
    <3> QED BY <2>2, <2>11, <3>1 DEF WriteFail, TypeOK, bill
  <2> QED BY <1>5, <2>4, <2>5, <2>6, <2>7, <2>8, <2>9, <2>10, <2>11 DEF Store
<1>6. CASE Forget
  BY <1>6 DEF Forget, Pop, TypeOK, bill
<1>7. CASE Stop
  <2>1. Folding \subseteq Chunk /\ <<>> \in Seq(Job)
    BY FoldingType, EmptySeq
  <2> QED BY <1>7, <2>1 DEF Stop, TypeOK, bill
<1>8. CASE LastFold
  <2>1. CASE pending = {}
    BY <1>8, <2>1 DEF LastFold, TypeOK, bill
  <2>2. CASE pending # {}
    <3>1. queue' \in Seq(Job) /\ pending' = {}
      BY <1>8, <2>2, AwaitEffect DEF LastFold, TakeBuffers, TypeOK, Kind
    <3> QED BY <1>8, <3>1 DEF LastFold, TypeOK, bill
  <2> QED BY <2>1, <2>2
<1>9. CASE Restart
  BY <1>9 DEF Restart, TypeOK, bill
<1>10. CASE UNCHANGED vars
  BY <1>10 DEF vars, TypeOK
<1> QED BY <1>1, <1>2, <1>3, <1>4, <1>5, <1>6, <1>7, <1>8, <1>9, <1>10 DEF Next

\* Type correctness of the accounting.
THEOREM TypeCorrect == Spec => []TypeOK
<1>1. Init => TypeOK
  BY InitType
<1>2. TypeOK /\ [Next]_vars => TypeOK'
  BY NextType
<1> QED BY <1>1, <1>2, PTL DEF Spec

(***************************************************************************)
(* Places.                                                                 *)
(***************************************************************************)

\* Popping a buffer moves it among the popped chunks.
LEMMA PopMoves ==
    ASSUME PlaceInv, Pop, Folding' = Folding,
           UNCHANGED <<relayed, total, lost, phase>>, used' \subseteq used
    PROVE  PlaceInv'
<1>1. Unsettled' = Folding /\ Accounted' = Accounted \cup pending
  BY DEF Pop, Unsettled, Accounted
<1>2. EveryChunkInOnePlace'
  BY <1>1 DEF PlaceInv, EveryChunkInOnePlace, Pop, Unsettled, Accounted
<1> QED BY <1>2 DEF PlaceInv, DownInv, Pop

\* Steps that move no chunk.
LEMMA NothingMoves ==
    ASSUME PlaceInv, Folding' = Folding,
           UNCHANGED <<relayed, pending, total, popped, lost>>, used' \subseteq used,
           phase' = "down" => phase = "down" \/ pending = {}
    PROVE  PlaceInv'
BY DEF PlaceInv, EveryChunkInOnePlace, DownInv, Unsettled, Accounted

\* Taking the buffers moves them into a fold.
LEMMA TakeMoves ==
    ASSUME TypeOK, PlaceInv, NEW kind \in Folds, TakeBuffers(kind),
           UNCHANGED <<relayed, total, popped, lost, used>>
    PROVE  PlaceInv'
<1>1. Folding' = Folding \cup pending /\ pending' = {}
  <2>1. kind \in Kind /\ pending \in SUBSET Chunk
    BY DEF TypeOK, Folds, Kind
  <2> QED BY <2>1, AwaitFolding DEF TakeBuffers
<1>2. Unsettled' = Unsettled /\ Accounted' = Accounted
  BY <1>1 DEF Unsettled, Accounted
<1> QED BY <1>1, <1>2 DEF PlaceInv, EveryChunkInOnePlace, DownInv

\* The bytes of the first fold are carried by no later one.
LEMMA FirstFold ==
    ASSUME TypeOK, QueueInv, queue # <<>>, First.kind \in Folds, Leave
    PROVE  /\ Folding = Folding' \cup First.bytes
           /\ Folding' \cap First.bytes = {}
<1>1. /\ Len(queue) \in Nat \ {0}
      /\ DOMAIN queue = 1..Len(queue)
      /\ DOMAIN queue' = 1..(Len(queue) - 1)
      /\ \A i \in 1..(Len(queue) - 1) : queue'[i] = queue[i + 1]
  BY LeaveEffect
<1>2. ASSUME NEW c \in Folding' PROVE c \notin First.bytes
  <2>1. PICK i \in DOMAIN queue' : queue'[i].kind \in Folds /\ c \in queue'[i].bytes
    BY <1>2 DEF Folding
  <2>2. /\ 1 \in DOMAIN queue /\ i + 1 \in DOMAIN queue /\ 1 < i + 1
        /\ queue'[i] = queue[i + 1]
    BY <1>1, <2>1
  <2>3. queue[1].bytes \cap queue[i + 1].bytes = {}
    BY <2>1, <2>2 DEF QueueInv, First
  <2> QED BY <2>1, <2>2, <2>3 DEF First
<1> QED BY <1>2, LeaveFolding

LEMMA NextPlaces == IInv /\ [Next]_vars => PlaceInv'
<1> SUFFICES ASSUME TypeOK, PlaceInv, QueueInv, WritingInv, [Next]_vars PROVE PlaceInv'
  BY DEF IInv
<1>0. ASSUME UNCHANGED queue PROVE Folding' = Folding
  BY <1>0 DEF Folding
<1>1. ASSUME NEW c \in Chunk, Report(c) PROVE PlaceInv'
  <2>1. /\ phase = "up" /\ c \notin relayed
        /\ relayed' = relayed \cup {c} /\ pending' = pending \cup {c}
        /\ UNCHANGED <<queue, used, total, popped, lost, phase>>
    BY <1>1 DEF Report, bill
  <2>2. Accounted' = Accounted /\ Folding' = Folding /\ Unsettled' = Unsettled \cup {c}
    BY <1>0, <2>1 DEF Accounted, Unsettled
  <2>3. c \notin Accounted /\ c \notin Folding
    BY <2>1 DEF PlaceInv, EveryChunkInOnePlace, Unsettled
  <2> QED BY <2>1, <2>2, <2>3 DEF PlaceInv, EveryChunkInOnePlace, DownInv
<1>2. CASE Fold
  BY <1>2, TakeMoves DEF Fold, Folds, bill
<1>3. CASE Reset
  <2>1. Folding' = Folding
    BY <1>3, AwaitFolding DEF Reset, TypeOK, Kind, Folds
  <2> QED BY <1>3, <2>1, PopMoves DEF Reset, bill
<1>4. ASSUME NEW kind \in {"renew", "bulk", "delete", "flush"}, Change(kind) PROVE PlaceInv'
  <2>1. kind \in Kind /\ kind \notin Folds /\ {} \in SUBSET Chunk /\ Await(kind, {})
    BY <1>4 DEF Change, Kind, Folds
  <2>2. Folding' = Folding
    BY <2>1, AwaitFolding
  <2> QED BY <1>4, <2>2, NothingMoves DEF Change, Begin, bill
<1>5. CASE ApplyFold
  <2>1. /\ queue # <<>> /\ First.kind \in Folds /\ Leave
        /\ total' = total \cup First.bytes
        /\ used' \subseteq used \cup First.bytes
        /\ UNCHANGED <<relayed, pending, popped, lost, phase>>
    BY <1>5 DEF ApplyFold, Ready
  <2>2. Folding = Folding' \cup First.bytes /\ Folding' \cap First.bytes = {}
    BY <2>1, FirstFold
  <2>3. First.bytes \cap pending = {} /\ First.bytes \cap Accounted = {}
    BY <2>2 DEF PlaceInv, EveryChunkInOnePlace, Unsettled
  <2>4. Accounted' = Accounted \cup First.bytes /\ Unsettled' = pending \cup Folding'
    BY <2>1 DEF Accounted, Unsettled
  <2>5. EveryChunkInOnePlace'
    BY <2>1, <2>2, <2>3, <2>4 DEF PlaceInv, EveryChunkInOnePlace, Unsettled, Accounted
  <2> QED BY <2>1, <2>5 DEF PlaceInv, DownInv
<1>6. CASE ApplyReset \/ ApplyBulk \/ ApplyDelete
  <2>1. /\ UNCHANGED <<relayed, pending, queue, total, popped, lost, phase>>
        /\ used' \subseteq used
    BY <1>6 DEF ApplyReset, ApplyBulk, ApplyDelete
  <2> QED BY <1>0, <2>1, NothingMoves
<1>7. CASE ApplyRenew
  <2>1. UNCHANGED <<relayed, queue, total, lost, phase>> /\ used' \subseteq used /\ Pop
    BY <1>7 DEF ApplyRenew
  <2> QED BY <1>0, <2>1, PopMoves
<1>8. CASE Refuse \/ WriteFail
  <2>1. /\ queue # <<>> /\ First.kind \notin Folds /\ Leave
        /\ UNCHANGED <<relayed, pending, total, popped, lost, phase, used>>
    BY <1>8 DEF Refuse, WriteFail, WritingInv, Ready, Folds, bill
  <2>2. Folding' = Folding
    BY <2>1, LeaveFolding
  <2> QED BY <2>1, <2>2, NothingMoves
<1>9. CASE Return
  <2>1. /\ queue # <<>> /\ First.kind \notin Folds /\ Leave
        /\ UNCHANGED <<relayed, total, lost, phase, used>>
    BY <1>9 DEF Return, WritingInv
  <2>2. Folding' = Folding
    BY <2>1, LeaveFolding
  <2>3. CASE First.kind = "bulk"
    BY <1>9, <2>1, <2>2, <2>3, PopMoves DEF Return
  <2>4. CASE First.kind # "bulk"
    <3>1. UNCHANGED <<pending, popped>>
      BY <1>9, <2>4 DEF Return
    <3> QED BY <2>1, <2>2, <3>1, NothingMoves
  <2> QED BY <2>3, <2>4
<1>10. CASE Forget
  <2>1. UNCHANGED <<relayed, queue, total, lost, phase>> /\ used' = used /\ Pop
    BY <1>10 DEF Forget, bill
  <2> QED BY <1>0, <2>1, PopMoves
<1>11. CASE Stop
  <2>1. /\ lost' = lost \cup Folding /\ Folding' = {} /\ phase' = "stopping"
        /\ UNCHANGED <<relayed, pending, total, popped, used>>
    BY <1>11, StopFolding DEF Stop, bill
  <2>2. Accounted' = Accounted \cup Folding /\ Unsettled' = pending
    BY <2>1 DEF Accounted, Unsettled
  <2>3. EveryChunkInOnePlace'
    BY <2>1, <2>2 DEF PlaceInv, EveryChunkInOnePlace, Unsettled, Accounted
  <2> QED BY <2>1, <2>3 DEF PlaceInv, DownInv
<1>12. CASE LastFold
  <2>1. UNCHANGED <<relayed, total, popped, lost, used>>
    BY <1>12 DEF LastFold, bill
  <2>2. CASE pending = {}
    <3>1. UNCHANGED <<queue, pending>>
      BY <1>12, <2>2 DEF LastFold
    <3> QED BY <1>0, <2>1, <2>2, <3>1, NothingMoves
  <2>3. CASE pending # {}
    BY <1>12, <2>1, <2>3, TakeMoves DEF LastFold, Folds
  <2> QED BY <2>2, <2>3
<1>13. CASE Restart
  <2>1. pending' = pending /\ UNCHANGED <<relayed, queue, total, popped, lost, used>>
        /\ phase' = "up"
    BY <1>13 DEF Restart, bill, PlaceInv, DownInv
  <2> QED BY <1>0, <2>1, NothingMoves
<1>14. CASE UNCHANGED vars
  BY <1>0, <1>14, NothingMoves DEF vars
<1> QED BY <1>1, <1>2, <1>3, <1>4, <1>5, <1>6, <1>7, <1>8, <1>9, <1>10, <1>11, <1>12,
           <1>13, <1>14 DEF Next, Store

(***************************************************************************)
(* Queues.                                                                 *)
(***************************************************************************)

\* A job may join if no job before it carries its bytes, should it be a fold, and
\* the buffer does not hold them, should it be a reset.
LEMMA AwaitQueue ==
    ASSUME TypeOK, QueueInv, NEW kind \in Kind,
           NEW bytes \in SUBSET Chunk, Await(kind, bytes), relayed' = relayed,
           pending' \subseteq pending,
           kind \in Folds =>
             \A i \in DOMAIN queue : queue[i].kind \in Folds \cup {"reset"}
                                       => queue[i].bytes \cap bytes = {},
           kind = "reset" => bytes \subseteq relayed /\ bytes \cap pending' = {}
    PROVE  QueueInv'
<1> DEFINE n == Len(queue)
<1>0. /\ n \in Nat /\ DOMAIN queue = 1..n /\ DOMAIN queue' = 1..(n + 1)
      /\ \A i \in 1..n : queue'[i] = queue[i]
      /\ queue'[n + 1] = [kind |-> kind, bytes |-> bytes]
  BY AwaitEffect
<1> HIDE DEF n
<1>1. /\ n \in Nat /\ DOMAIN queue = 1..n /\ DOMAIN queue' = 1..(n + 1)
      /\ \A i \in 1..n : queue'[i] = queue[i]
      /\ queue'[n + 1].kind = kind /\ queue'[n + 1].bytes = bytes
  BY <1>0
<1>3. ASSUME NEW i \in 1..(n + 1), queue'[i].kind = "reset"
      PROVE  queue'[i].bytes \subseteq relayed' /\ queue'[i].bytes \cap pending' = {}
  <2>1. CASE i = n + 1
    BY <1>1, <1>3, <2>1
  <2>2. CASE i # n + 1
    <3>1. i \in 1..n
      BY <1>1, <2>2
    <3> QED BY <1>1, <1>3, <3>1 DEF QueueInv
  <2> QED BY <2>1, <2>2
<1>4. ASSUME NEW i \in 1..(n + 1), NEW j \in 1..(n + 1), i < j,
             queue'[j].kind \in Folds, queue'[i].kind \in Folds \cup {"reset"}
      PROVE  queue'[i].bytes \cap queue'[j].bytes = {}
  <2>1. i \in 1..n
    BY <1>1, <1>4
  <2>2. CASE j = n + 1
    BY <1>1, <1>4, <2>1, <2>2
  <2>3. CASE j # n + 1
    <3>1. j \in 1..n
      BY <1>1, <2>3
    <3> QED BY <1>1, <1>4, <2>1, <3>1 DEF QueueInv
  <2> QED BY <2>2, <2>3
<1> QED BY <1>1, <1>3, <1>4 DEF QueueInv

LEMMA LeaveQueue ==
    ASSUME TypeOK, QueueInv, queue # <<>>, Leave, relayed' = relayed,
           pending' \subseteq pending
    PROVE  QueueInv'
<1> DEFINE n == Len(queue)
<1>1. /\ n \in Nat \ {0} /\ DOMAIN queue = 1..n /\ DOMAIN queue' = 1..(n - 1)
      /\ \A i \in 1..(n - 1) : queue'[i] = queue[i + 1]
  BY LeaveEffect
<1> HIDE DEF n
<1>2. \A i \in 1..(n - 1) : i + 1 \in 1..n
  BY <1>1
<1>3. \A i, j \in 1..(n - 1) : i < j => i + 1 < j + 1
  BY <1>1
<1>4. ASSUME NEW i \in 1..(n - 1), queue'[i].kind = "reset"
      PROVE  queue'[i].bytes \subseteq relayed' /\ queue'[i].bytes \cap pending' = {}
  <2>1. i + 1 \in DOMAIN queue /\ queue'[i] = queue[i + 1]
    BY <1>1, <1>2
  <2> QED BY <1>4, <2>1 DEF QueueInv
<1>5. ASSUME NEW i \in 1..(n - 1), NEW j \in 1..(n - 1), i < j,
             queue'[j].kind \in Folds, queue'[i].kind \in Folds \cup {"reset"}
      PROVE  queue'[i].bytes \cap queue'[j].bytes = {}
  <2>1. /\ i + 1 \in DOMAIN queue /\ queue'[i] = queue[i + 1]
        /\ j + 1 \in DOMAIN queue /\ queue'[j] = queue[j + 1]
        /\ i + 1 < j + 1
    BY <1>1, <1>2, <1>3, <1>5
  <2> QED BY <1>5, <2>1 DEF QueueInv
<1> QED BY <1>1, <1>4, <1>5 DEF QueueInv

LEMMA SameQueue ==
    ASSUME QueueInv, queue' = queue, relayed' = relayed, pending' \subseteq pending
    PROVE  QueueInv'
BY DEF QueueInv

\* What is in the buffer is in no queued fold and in no queued reset.
LEMMA BufferIsNew ==
    ASSUME PlaceInv, QueueInv, NEW i \in DOMAIN queue,
           queue[i].kind \in Folds \cup {"reset"}
    PROVE  queue[i].bytes \cap pending = {}
<1>1. CASE queue[i].kind = "reset"
  BY <1>1 DEF QueueInv
<1>2. CASE queue[i].kind \in Folds
  <2>1. \A c \in queue[i].bytes : c \in Folding
    BY <1>2, FoldingMember
  <2> QED BY <2>1 DEF PlaceInv, EveryChunkInOnePlace
<1> QED BY <1>1, <1>2

LEMMA TakeQueue ==
    ASSUME TypeOK, PlaceInv, QueueInv, NEW kind \in Folds, TakeBuffers(kind),
           relayed' = relayed
    PROVE  QueueInv'
<1>1. /\ Await(kind, pending) /\ pending \in SUBSET Chunk
      /\ kind \in Kind /\ kind # "reset" /\ pending' \subseteq pending
  BY DEF TakeBuffers, TypeOK, Folds, Kind
<1> QED BY <1>1, BufferIsNew, AwaitQueue

LEMMA NextQueue == IInv /\ [Next]_vars => QueueInv'
<1> SUFFICES ASSUME TypeOK, PlaceInv, QueueInv, [Next]_vars PROVE QueueInv'
  BY DEF IInv
<1>1. ASSUME NEW c \in Chunk, Report(c) PROVE QueueInv'
  BY <1>1 DEF Report, QueueInv
<1>2. CASE Fold
  BY <1>2, TakeQueue DEF Fold, Folds
<1>3. CASE Reset
  <2>1. /\ Await("reset", relayed) /\ relayed' = relayed /\ pending' = {}
        /\ relayed \in SUBSET Chunk /\ "reset" \in Kind /\ "reset" \notin Folds
    BY <1>3 DEF Reset, Pop, TypeOK, Kind, Folds
  <2> QED BY <2>1, AwaitQueue
<1>4. ASSUME NEW kind \in {"renew", "bulk", "delete", "flush"}, Change(kind) PROVE QueueInv'
  <2>1. /\ kind \in Kind /\ kind \notin Folds /\ kind # "reset" /\ {} \in SUBSET Chunk
        /\ Await(kind, {}) /\ UNCHANGED <<relayed, pending>>
    BY <1>4 DEF Change, Kind, Folds
  <2> QED BY <2>1, AwaitQueue
<1>5. CASE ApplyFold \/ Refuse \/ WriteFail
  <2>1. queue # <<>> /\ Leave /\ UNCHANGED <<relayed, pending>>
    BY <1>5 DEF ApplyFold, Refuse, WriteFail, Ready
  <2> QED BY <2>1, LeaveQueue
<1>6. CASE ApplyReset \/ ApplyBulk \/ ApplyDelete
  <2>1. UNCHANGED <<relayed, pending, queue>>
    BY <1>6 DEF ApplyReset, ApplyBulk, ApplyDelete
  <2> QED BY <2>1, SameQueue
<1>7. CASE ApplyRenew \/ Forget
  <2>1. UNCHANGED <<relayed, queue>> /\ pending' = {}
    BY <1>7 DEF ApplyRenew, Forget, Pop
  <2> QED BY <2>1, SameQueue
<1>8. CASE Return
  <2>1. /\ queue # <<>> /\ Leave /\ relayed' = relayed /\ pending' \subseteq pending
    BY <1>8 DEF Return, Pop
  <2> QED BY <2>1, LeaveQueue
<1>9. CASE Stop
  BY <1>9, StopFolding DEF QueueInv
<1>10. CASE LastFold
  <2>1. relayed' = relayed
    BY <1>10 DEF LastFold
  <2>2. CASE pending = {}
    <3>1. UNCHANGED <<queue, pending>>
      BY <1>10, <2>2 DEF LastFold
    <3> QED BY <2>1, <3>1, SameQueue
  <2>3. CASE pending # {}
    BY <1>10, <2>1, <2>3, TakeQueue DEF LastFold, Folds
  <2> QED BY <2>2, <2>3
<1>11. CASE Restart
  <2>1. UNCHANGED <<relayed, queue>> /\ pending' \subseteq pending
    BY <1>11 DEF Restart
  <2> QED BY <2>1, SameQueue
<1>12. CASE UNCHANGED vars
  BY <1>12, SameQueue DEF vars
<1> QED BY <1>1, <1>2, <1>3, <1>4, <1>5, <1>6, <1>7, <1>8, <1>9, <1>10, <1>11, <1>12
        DEF Next, Store

(***************************************************************************)
(* Writes in progress.                                                     *)
(***************************************************************************)

\* A job that joins a queue is not the first.
LEMMA AwaitWriting ==
    ASSUME TypeOK, WritingInv, NEW kind \in Kind, NEW bytes \in SUBSET Chunk,
           Await(kind, bytes), UNCHANGED <<live, used, writing>>
    PROVE  WritingInv'
<1>1. CASE ~writing
  BY <1>1 DEF WritingInv
<1>2. CASE writing
  <2> DEFINE n == Len(queue)
  <2>1. /\ n \in Nat /\ DOMAIN queue = 1..n /\ DOMAIN queue' = 1..(n + 1)
        /\ \A i \in 1..n : queue'[i] = queue[i]
    BY AwaitEffect
  <2>2. 1 \in 1..n
    BY <1>2, <2>1, FirstJob DEF WritingInv
  <2> HIDE DEF n
  <2>3. queue'[1] = queue[1] /\ 1 \in DOMAIN queue'
    BY <2>1, <2>2
  <2>4. queue' # <<>> /\ First' = First
    BY <2>3 DEF First
  <2> QED BY <2>4 DEF WritingInv
<1> QED BY <1>1, <1>2

LEMMA NextWriting == IInv /\ [Next]_vars => WritingInv'
<1> SUFFICES ASSUME TypeOK, PlaceInv, WritingInv, [Next]_vars PROVE WritingInv'
  BY DEF IInv
<1>1. ASSUME NEW c \in Chunk, Report(c) PROVE WritingInv'
  BY <1>1 DEF Report, bill, WritingInv, First
<1>2. CASE Fold \/ (LastFold /\ pending # {})
  <2>1. PICK kind \in Folds : TakeBuffers(kind)
    BY <1>2 DEF Fold, LastFold, Folds
  <2>2. /\ Await(kind, pending) /\ kind \in Kind /\ pending \in SUBSET Chunk
        /\ UNCHANGED <<live, used, writing>>
    BY <1>2, <2>1 DEF Fold, LastFold, TakeBuffers, Folds, Kind, TypeOK, bill
  <2> QED BY <2>2, AwaitWriting
<1>3. CASE Reset
  <2>1. /\ Await("reset", relayed) /\ UNCHANGED <<live, used, writing>>
        /\ "reset" \in Kind /\ relayed \in SUBSET Chunk
    BY <1>3 DEF Reset, bill, Kind, TypeOK
  <2> QED BY <2>1, AwaitWriting
<1>4. ASSUME NEW kind \in {"renew", "bulk", "delete", "flush"}, Change(kind) PROVE WritingInv'
  <2>1. /\ Await(kind, {}) /\ UNCHANGED <<live, used, writing>>
        /\ kind \in Kind /\ {} \in SUBSET Chunk
    BY <1>4 DEF Change, bill, Kind
  <2> QED BY <2>1, AwaitWriting
<1>5. CASE ApplyFold \/ Refuse \/ Return \/ WriteFail \/ Stop
  <2>1. ~writing' /\ (~live' => used' = {})
    BY <1>5 DEF ApplyFold, Refuse, Return, WriteFail, Stop, Ready, WritingInv, bill
  <2> QED BY <2>1 DEF WritingInv
<1>6. CASE ApplyReset \/ ApplyRenew \/ ApplyBulk \/ ApplyDelete
  <2>1. /\ queue # <<>> /\ First.kind \notin Folds /\ queue' = queue
        /\ ~live' => used' = {}
        /\ First.kind = "bulk" => used' = {}
    BY <1>6 DEF ApplyReset, ApplyRenew, ApplyBulk, ApplyDelete, Ready, Folds, WritingInv
  <2> QED BY <2>1 DEF WritingInv, First
<1>7. ASSUME UNCHANGED <<live, used, writing, queue>> PROVE WritingInv'
  BY <1>7 DEF WritingInv, First
<1>8. CASE Forget \/ Restart \/ (LastFold /\ pending = {}) \/ UNCHANGED vars
  BY <1>7, <1>8 DEF Forget, Restart, LastFold, bill, vars
<1> QED BY <1>1, <1>2, <1>3, <1>4, <1>5, <1>6, <1>8 DEF Next, Store

(***************************************************************************)
(* What is settled.                                                        *)
(***************************************************************************)

\* Nothing is settled, and nothing settled comes back.
LEMMA KeepsSettled ==
    ASSUME SettledInv, UNCHANGED <<relayed, settled>>, Unsettled' \subseteq Unsettled,
           used' \subseteq used \cup Unsettled
    PROVE  SettledInv'
BY DEF SettledInv, ResetForgets

\* Chunks are settled that are in no buffer, fold or bill.
LEMMA Settles ==
    ASSUME SettledInv, NEW chunks, settled' = settled \cup chunks, relayed' = relayed,
           chunks \subseteq relayed, Unsettled' \subseteq Unsettled,
           Unsettled' \cap chunks = {}, used' = {}
    PROVE  SettledInv'
BY DEF SettledInv, ResetForgets

\* All but what folds carry is settled, once the buffer is popped.
LEMMA PopSettles ==
    ASSUME SettledInv, Pop, Folding' = Folding, relayed' = relayed, used' = {},
           settled' = settled \cup (relayed \ Folding)
    PROVE  SettledInv'
<1>1. Unsettled' = Folding
  BY DEF Pop, Unsettled
<1> QED BY <1>1, Settles DEF Unsettled

LEMMA TakeSettled ==
    ASSUME TypeOK, SettledInv, NEW kind \in Folds, TakeBuffers(kind),
           UNCHANGED <<relayed, settled, used>>
    PROVE  SettledInv'
<1>1. Await(kind, pending) /\ kind \in Kind /\ pending \in SUBSET Chunk
  BY DEF TakeBuffers, TypeOK, Folds, Kind
<1>2. pending' = {} /\ Folding' = Folding \cup pending
  BY <1>1, AwaitFolding DEF TakeBuffers
<1>3. Unsettled' \subseteq Unsettled
  BY <1>2 DEF Unsettled
<1> QED BY <1>3, KeepsSettled

LEMMA NextSettled == IInv /\ [Next]_vars => SettledInv'
<1> SUFFICES ASSUME TypeOK, PlaceInv, QueueInv, WritingInv, SettledInv, [Next]_vars
             PROVE  SettledInv'
  BY DEF IInv
<1>0. ASSUME UNCHANGED queue PROVE Folding' = Folding
  BY <1>0 DEF Folding
<1>1. ASSUME NEW c \in Chunk, Report(c) PROVE SettledInv'
  <2>1. /\ UNCHANGED <<used, settled, queue>> /\ c \notin relayed
        /\ pending' = pending \cup {c} /\ relayed' = relayed \cup {c}
    BY <1>1 DEF Report, bill
  <2>2. Unsettled' = Unsettled \cup {c}
    BY <1>0, <2>1 DEF Unsettled
  <2> QED BY <2>1, <2>2 DEF SettledInv, ResetForgets
<1>2. CASE Fold
  BY <1>2, TakeSettled DEF Fold, Folds, bill
<1>3. CASE Reset
  <2>1. /\ Await("reset", relayed) /\ relayed \in SUBSET Chunk /\ pending' = {}
        /\ "reset" \in Kind \ Folds /\ UNCHANGED <<relayed, settled, used>>
    BY <1>3 DEF Reset, Pop, bill, TypeOK, Kind, Folds
  <2>2. Unsettled' \subseteq Unsettled
    BY <2>1, AwaitFolding DEF Unsettled
  <2> QED BY <2>1, <2>2, KeepsSettled
<1>4. ASSUME NEW kind \in {"renew", "bulk", "delete", "flush"}, Change(kind) PROVE SettledInv'
  <2>1. /\ kind \in Kind \ Folds /\ {} \in SUBSET Chunk /\ Await(kind, {})
        /\ UNCHANGED <<relayed, settled, used, pending>>
    BY <1>4 DEF Change, bill, Kind, Folds
  <2>2. Unsettled' = Unsettled
    BY <2>1, AwaitFolding DEF Unsettled
  <2> QED BY <2>1, <2>2, KeepsSettled
<1>5. CASE ApplyFold
  <2>1. /\ queue # <<>> /\ First.kind \in Folds /\ Leave
        /\ UNCHANGED <<relayed, pending, settled>>
        /\ used' \subseteq used \cup First.bytes
    BY <1>5 DEF ApplyFold, Ready
  <2>2. First.bytes \subseteq Folding /\ Folding' \subseteq Folding
    BY <2>1, LeaveFolding
  <2> QED BY <2>1, <2>2, KeepsSettled DEF Unsettled
<1>6. CASE ApplyReset
  <2>1. /\ queue # <<>> /\ First.kind = "reset"
        /\ UNCHANGED <<relayed, pending, queue>> /\ used' = {}
        /\ settled' = settled \cup First.bytes
    BY <1>6 DEF ApplyReset, Ready
  <2>2. /\ 1 \in DOMAIN queue /\ First = queue[1] /\ DOMAIN queue = 1..Len(queue)
    BY <2>1, FirstJob, LenProperties DEF First, TypeOK
  <2>3. First.bytes \subseteq relayed /\ First.bytes \cap pending = {}
    BY <2>1, <2>2 DEF QueueInv
  <2>4. ASSUME NEW c \in First.bytes, c \in Folding PROVE FALSE
    <3>1. PICK i \in DOMAIN queue : queue[i].kind \in Folds /\ c \in queue[i].bytes
      BY <2>4, FoldingMember
    <3>2. i # 1
      BY <2>1, <2>2, <3>1 DEF Folds
    <3>3. 1 < i
      BY <2>2, <3>1, <3>2
    <3>4. queue[1].bytes \cap queue[i].bytes = {}
      BY <2>1, <2>2, <3>1, <3>3 DEF QueueInv
    <3> QED BY <2>2, <2>4, <3>1, <3>4
  <2>5. Unsettled' = Unsettled
    BY <1>0, <2>1 DEF Unsettled
  <2>6. Unsettled' \cap First.bytes = {}
    BY <2>3, <2>4, <2>5 DEF Unsettled
  <2> QED BY <2>1, <2>3, <2>5, <2>6, Settles
<1>7. CASE ApplyRenew
  <2>1. /\ Pop /\ UNCHANGED <<relayed, queue>> /\ used' = {}
        /\ settled' = settled \cup (relayed \ Folding)
    BY <1>7 DEF ApplyRenew
  <2> QED BY <1>0, <2>1, PopSettles
<1>8. CASE ApplyBulk \/ ApplyDelete
  <2>1. UNCHANGED <<relayed, pending, queue, settled>> /\ used' \subseteq used
    BY <1>8 DEF ApplyBulk, ApplyDelete
  <2> QED BY <1>0, <2>1, KeepsSettled DEF Unsettled
<1>9. CASE Refuse \/ WriteFail
  <2>1. queue # <<>> /\ Leave /\ UNCHANGED <<relayed, pending, settled, used>>
    BY <1>9 DEF Refuse, WriteFail, Ready, bill
  <2>2. Folding' \subseteq Folding
    BY <2>1, LeaveFolding
  <2> QED BY <2>1, <2>2, KeepsSettled DEF Unsettled
<1>10. CASE Return
  <2>1. /\ queue # <<>> /\ Leave /\ writing /\ UNCHANGED <<relayed, used>>
    BY <1>10 DEF Return
  <2>2. Folding' = Folding
    BY <2>1, LeaveFolding DEF WritingInv
  <2>3. CASE First.kind = "bulk"
    <3>1. Pop /\ settled' = settled \cup (relayed \ Folding)
      BY <1>10, <2>3 DEF Return
    <3>2. used' = {}
      BY <2>1, <2>3 DEF WritingInv
    <3> QED BY <2>1, <2>2, <3>1, <3>2, PopSettles
  <2>4. CASE First.kind # "bulk"
    <3>1. UNCHANGED <<pending, settled>>
      BY <1>10, <2>4 DEF Return
    <3> QED BY <2>1, <2>2, <3>1, KeepsSettled DEF Unsettled
  <2> QED BY <2>3, <2>4
<1>11. CASE Forget \/ Restart
  <2>1. UNCHANGED <<relayed, settled, used, queue>> /\ pending' = {}
    BY <1>11 DEF Forget, Restart, Pop, bill
  <2> QED BY <1>0, <2>1, KeepsSettled DEF Unsettled
<1>12. CASE Stop
  <2>1. UNCHANGED <<relayed, pending, settled, used>> /\ Folding' = {}
    BY <1>12, StopFolding DEF Stop, bill
  <2> QED BY <2>1, KeepsSettled DEF Unsettled
<1>13. CASE LastFold
  <2>1. UNCHANGED <<relayed, settled, used>>
    BY <1>13 DEF LastFold, bill
  <2>2. CASE pending = {}
    <3>1. UNCHANGED <<queue, pending>>
      BY <1>13, <2>2 DEF LastFold
    <3> QED BY <1>0, <2>1, <3>1, KeepsSettled DEF Unsettled
  <2>3. CASE pending # {}
    BY <1>13, <2>1, <2>3, TakeSettled DEF LastFold, Folds
  <2> QED BY <2>2, <2>3
<1>14. CASE UNCHANGED vars
  BY <1>0, <1>14, KeepsSettled DEF vars, Unsettled
<1> QED BY <1>1, <1>2, <1>3, <1>4, <1>5, <1>6, <1>7, <1>8, <1>9, <1>10, <1>11, <1>12,
           <1>13, <1>14 DEF Next, Store

(***************************************************************************)
(* The theorems.                                                           *)
(***************************************************************************)
LEMMA InitInv == Init => IInv
<1> SUFFICES ASSUME Init PROVE IInv
  OBVIOUS
<1>1. DOMAIN queue = {}
  BY DEF Init
<1>2. Folding = {}
  BY <1>1, FoldingMember
<1>3. Unsettled = {} /\ Accounted = {}
  BY <1>2 DEF Init, Unsettled, Accounted
<1>4. PlaceInv
  BY <1>2, <1>3 DEF Init, PlaceInv, EveryChunkInOnePlace, DownInv
<1>5. QueueInv
  BY <1>1 DEF QueueInv
<1>6. WritingInv /\ SettledInv
  BY DEF Init, WritingInv, SettledInv, ResetForgets
<1> QED BY InitType, <1>4, <1>5, <1>6 DEF IInv

\* The inductive invariant: chunks in their places, folds and resets that wait in
\* an order that keeps them apart.
THEOREM Invariance == Spec => []IInv
<1>1. Init => IInv
  BY InitInv
<1>2. IInv /\ [Next]_vars => IInv'
  BY NextType, NextPlaces, NextQueue, NextWriting, NextSettled DEF IInv
<1> QED BY <1>1, <1>2, PTL DEF Spec

\* No traffic is counted twice, and none vanishes without being popped or told lost:
\* _fold_pending_traffic, the resets, deletions, failing writes and shutdowns of the
\* single-process mode.
THEOREM ChunksStayInOnePlace == Spec => []EveryChunkInOnePlace
<1>1. IInv => EveryChunkInOnePlace
  BY DEF IInv, PlaceInv
<1> QED BY <1>1, Invariance, PTL

\* What a reset has settled is never charged to the account again, in whatever order
\* folds, resets, renewals and bulk resets reach the store of the process.
THEOREM ResetsForget == Spec => []ResetForgets
<1>1. IInv => ResetForgets
  BY DEF IInv, SettledInv
<1> QED BY <1>1, Invariance, PTL
=============================================================================
