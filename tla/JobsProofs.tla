----------------------------- MODULE JobsProofs -----------------------------
(***************************************************************************)
(* Jobs: nobody is told a thing twice and no paying customer is cut off,   *)
(* but for what was lost on a way that is named -- for any workers, alerts,*)
(* thresholds and limits.                                                  *)
(***************************************************************************)
EXTENDS Jobs, WellFoundedInduction, TLAPS

(***************************************************************************)
(* The inductive invariant.                                                *)
(***************************************************************************)
\* What a round is at says who leads, which job it belongs to, and what it carries.
RoundFits(w) ==
    /\ round[w].at # "idle" => w \in alive
    /\ round[w].at = "idle" => round[w] = Idle
    /\ round[w].at \in {"nudge", "alert"} => on = "alerts" /\ lock = w
    /\ round[w].at \notin {"nudge", "alert"} => round[w].todo = {} /\ round[w].done = <<>>
    /\ round[w].at = "probe" => on = "health" /\ (round[w].asked \/ lock = w)
    /\ round[w].at = "tell" => /\ on \in {"health", "sharing"} /\ lock = w
                               /\ round[w].what \in {"down", "up"}
    /\ round[w].at = "apply" => on = "cleanup" /\ round[w].what \in {"disable", "delete"}

\* What was told and whose record is not lost; what any worker would find.
Kept == told \ forgotten
Views == {file} \cup {Loaded(v) : v \in alive}

\* What was told is on record with the leader, or is about to be; when nobody leads,
\* whoever takes over finds it.
RecordInv ==
    IF lock = Nobody THEN \A d \in Views : Kept \subseteq ToSet(d.sent)
    ELSE Kept \subseteq ToSet(mem[lock].sent) \cup ToSet(round[lock].done)
TodoInv == \A w \in Worker : round[w].todo \cap Kept = {}

\* The mark is what the seller was last told, and, while a message is under way,
\* what it says.
Agrees(d) == d.marked <=> lastTold = "down"
MarkInv ==
    "state" \in forgotten
    \/ IF lock = Nobody THEN \A d \in Views : Agrees(d)
       ELSE IF round[lock].at # "tell" THEN Agrees(mem[lock])
       ELSE (mem[lock].marked <=> round[lock].what = "down") /\ lastTold # round[lock].what

\* No view of the account is older than the last renewal.
PaidInv == "state" \in forgotten \/ on # "cleanup" \/ \A d \in Views : paid <= d.expiry

\* A plan was made of an account that had lapsed.
Wait(what) == IF what = "delete" THEN DeleteAfter ELSE DisableAfter
PlanInv ==
    \A w \in Worker : round[w].at = "apply" =>
        w \in overtaken \/ "state" \in forgotten \/ now >= paid + Wait(round[w].what)

Inv == /\ TypeOK /\ \A w \in Worker : RoundFits(w)
       /\ RecordInv /\ TodoInv /\ MarkInv /\ PaidInv /\ PlanInv

(***************************************************************************)
(* The table of alerts.                                                    *)
(***************************************************************************)
Table == {s \in Seq(Alert) : IsInjective(s) /\ Len(s) <= MaxRecords}

LEMMA WithoutFacts ==
    ASSUME NEW s \in Seq(Alert), IsInjective(s), NEW k
    PROVE  /\ Without(s, k) \in Seq(Alert) /\ IsInjective(Without(s, k))
           /\ ToSet(Without(s, k)) = ToSet(s) \ {k} /\ Len(Without(s, k)) <= Len(s)
<1>1. CASE k \notin ToSet(s)
  BY <1>1 DEF Without
<1>2. CASE k \in ToSet(s)
  <2> DEFINE i == CHOOSE j \in DOMAIN s : s[j] = k
             t == RemoveAt(s, i)
  <2>1. i \in 1..Len(s) /\ s[i] = k
    BY <1>2 DEF ToSet
  <2>2. Without(s, k) = t
    BY <1>2 DEF Without
  <2> HIDE DEF i
  <2>3. /\ t \in Seq(Alert) /\ Len(t) = Len(s) - 1
        /\ \A j \in 1..Len(t) : t[j] = IF j < i THEN s[j] ELSE s[j + 1]
    <3> DEFINE p == SubSeq(s, 1, i - 1)  q == SubSeq(s, i + 1, Len(s))
    <3>1. p \in Seq(Alert) /\ Len(p) = i - 1 /\ \A j \in 1..(i - 1) : p[j] = s[j]
      BY <2>1
    <3>2. q \in Seq(Alert) /\ Len(q) = Len(s) - i /\ \A j \in 1..(Len(s) - i) : q[j] = s[j + i]
      BY <2>1
    <3>3. t = p \o q
      BY DEF RemoveAt
    <3> HIDE DEF p, q, t
    <3>4. t \in Seq(Alert) /\ Len(t) = Len(p) + Len(q)
      BY <3>1, <3>2, <3>3
    <3>5. ASSUME NEW j \in 1..Len(t) PROVE t[j] = IF j < i THEN s[j] ELSE s[j + 1]
      <4>1. t[j] = IF j <= Len(p) THEN p[j] ELSE q[j - Len(p)]
        BY <3>1, <3>2, <3>3, <3>4
      <4>2. CASE j < i
        BY <2>1, <3>1, <4>1, <4>2
      <4>3. CASE j >= i
        <5>1. j - Len(p) \in 1..(Len(s) - i) /\ (j - Len(p)) + i = j + 1
          BY <2>1, <3>1, <3>2, <3>4, <4>3
        <5> QED BY <2>1, <3>1, <3>2, <4>1, <4>3, <5>1
      <4> QED BY <2>1, <4>2, <4>3
    <3> QED BY <2>1, <3>1, <3>2, <3>4, <3>5
  <2> HIDE DEF t
  <2>4. IsInjective(t)
    <3>1. ASSUME NEW a \in 1..Len(t), NEW b \in 1..Len(t), t[a] = t[b] PROVE a = b
      <4> DEFINE In(j) == IF j < i THEN j ELSE j + 1
      <4>1. \A j \in 1..Len(t) : In(j) \in 1..Len(s) /\ t[j] = s[In(j)]
        BY <2>1, <2>3
      <4>2. In(a) = In(b)
        BY <3>1, <4>1 DEF IsInjective
      <4> QED BY <2>1, <2>3, <4>2
    <3> QED BY <2>3, <3>1 DEF IsInjective
  <2>5. ToSet(t) \subseteq ToSet(s) \ {k}
    <3>1. ASSUME NEW j \in 1..Len(t) PROVE t[j] \in ToSet(s) /\ t[j] # k
      BY <2>1, <2>3 DEF ToSet, IsInjective
    <3> QED BY <2>3, <3>1 DEF ToSet
  <2>6. ToSet(s) \ {k} \subseteq ToSet(t)
    <3>1. ASSUME NEW j \in 1..Len(s), j # i PROVE s[j] \in ToSet(t)
      <4>1. CASE j < i
        <5>1. j \in 1..Len(t) /\ t[j] = s[j]
          BY <2>1, <2>3, <4>1
        <5> QED BY <2>3, <5>1 DEF ToSet
      <4>2. CASE j > i
        <5>1. j - 1 \in 1..Len(t) /\ t[j - 1] = s[j]
          BY <2>1, <2>3, <4>2
        <5> QED BY <2>3, <5>1 DEF ToSet
      <4> QED BY <2>1, <3>1, <4>1, <4>2
    <3> QED BY <2>1, <3>1 DEF ToSet
  <2> QED BY <2>2, <2>3, <2>4, <2>5, <2>6
<1> QED BY <1>1, <1>2

LEMMA WithoutType == ASSUME NEW s \in Table, NEW k PROVE Without(s, k) \in Table
<1>1. Len(Without(s, k)) \in Nat /\ Len(s) \in Nat /\ MaxRecords \in Nat
  BY WithoutFacts, BoundsAssumption DEF Table
<1> QED BY <1>1, WithoutFacts DEF Table

LEMMA RecordType == ASSUME NEW s \in Table, NEW k \in Alert PROVE Record(s, k) \in Table
<1> DEFINE t == Without(s, k)  all == Append(t, k)
           half == SubSeq(all, Len(all) \div 2 + 1, Len(all))
<1>1. t \in Seq(Alert) /\ IsInjective(t) /\ k \notin ToSet(t) /\ Len(t) <= MaxRecords
  <2>1. Len(t) \in Nat /\ Len(s) \in Nat /\ MaxRecords \in Nat
    BY WithoutFacts, BoundsAssumption DEF Table
  <2> QED BY <2>1, WithoutFacts DEF Table
<1> HIDE DEF t
<1>2. /\ all \in Seq(Alert) /\ Len(all) = Len(t) + 1
      /\ \A j \in 1..Len(all) : all[j] = IF j = Len(t) + 1 THEN k ELSE t[j]
  BY <1>1
<1>3. IsInjective(all)
  <2>1. \A j \in 1..Len(t) : t[j] # k
    BY <1>1 DEF ToSet
  <2> QED BY <1>1, <1>2, <2>1 DEF IsInjective
<1>4. Len(all) \in Nat /\ Len(t) \in Nat /\ MaxRecords \in Nat \ {0}
  BY <1>1, <1>2, BoundsAssumption
<1> HIDE DEF all
<1>5. CASE Len(all) > MaxRecords
  <2> DEFINE h == Len(all) \div 2
  <2>1. h \in Nat /\ 1 <= h /\ h <= Len(all)
    BY <1>4, <1>5
  <2> HIDE DEF h
  <2>2. /\ SubSeq(all, h + 1, Len(all)) \in Seq(Alert)
        /\ Len(SubSeq(all, h + 1, Len(all))) = Len(all) - h
        /\ \A j \in 1..(Len(all) - h) : SubSeq(all, h + 1, Len(all))[j] = all[j + h]
    BY <1>2, <1>4, <2>1
  <2>3. IsInjective(SubSeq(all, h + 1, Len(all)))
    BY <1>2, <1>3, <1>4, <2>1, <2>2 DEF IsInjective
  <2>4. Len(all) - h <= MaxRecords
    BY <1>1, <1>2, <1>4, <2>1
  <2>5. SubSeq(all, h + 1, Len(all)) \in Table
    BY <2>2, <2>3, <2>4 DEF Table
  <2> QED BY <1>5, <2>5 DEF Record, all, t, h
<1>6. CASE ~(Len(all) > MaxRecords)
  <2>1. all \in Table
    BY <1>2, <1>3, <1>4, <1>6 DEF Table
  <2> QED BY <1>6, <2>1 DEF Record, all, t
<1> QED BY <1>5, <1>6

\* The recursion of Recorded has a solution, for every length, and gives a table.
LEMMA Least == ASSUME NEW S \in SUBSET Nat, S # {} PROVE \E s \in S : \A t \in S : s <= t
<1>1. PICK s \in S : \A t \in S : ~(<<t, s>> \in OpToRel(<, Nat))
  BY NatLessThanWellFounded, WFMin, Zenon
<1>2. \A t \in S : t < s => <<t, s>> \in OpToRel(<, Nat)
  BY DEF OpToRel
<1>3. \A t \in S : ~(t < s)
  BY <1>1, <1>2, Zenon
<1> QED BY <1>3

Entered(s, done, f, m) == /\ f \in [0..m -> Table] /\ f[0] = s
                          /\ \A n \in 1..m : f[n] = Record(f[n - 1], done[n])
LEMMA EnteredExists ==
    ASSUME NEW s \in Table, NEW done \in Seq(Alert)
    PROVE  \E f : Entered(s, done, f, Len(done))
<1> DEFINE Bad == {m \in 0..Len(done) : ~ \E f : Entered(s, done, f, m)}
<1>1. SUFFICES ASSUME Bad # {} PROVE FALSE
  OBVIOUS
<1>2. PICK m \in Bad : \A k \in Bad : m <= k
  <2>1. Bad \in SUBSET Nat
    OBVIOUS
  <2> HIDE DEF Bad
  <2> QED BY <1>1, <2>1, Least
<1>3. m \in 0..Len(done) /\ Len(done) \in Nat /\ ~ \E f : Entered(s, done, f, m)
  OBVIOUS
<1>4. CASE m = 0
  <2>1. Entered(s, done, [n \in 0..0 |-> s], 0)
    BY DEF Entered
  <2> QED BY <1>3, <1>4, <2>1
<1>5. CASE m # 0
  <2>1. m - 1 \in 0..Len(done) /\ m - 1 \notin Bad /\ m - 1 \in Nat /\ m \in 1..Len(done)
    BY <1>2, <1>3, <1>5
  <2>2. PICK f : Entered(s, done, f, m - 1)
    BY <2>1
  <2> DEFINE last == Record(f[m - 1], done[m])
             g == [n \in 0..m |-> IF n = m THEN last ELSE f[n]]
  <2>3. last \in Table
    <3>1. f[m - 1] \in Table /\ done[m] \in Alert
      BY <2>1, <2>2 DEF Entered
    <3> QED BY <3>1, RecordType
  <2>4. g \in [0..m -> Table] /\ g[0] = s
    <3> HIDE DEF last
    <3> QED BY <1>3, <1>5, <2>1, <2>2, <2>3 DEF Entered
  <2>5. ASSUME NEW n \in 1..m PROVE g[n] = Record(g[n - 1], done[n])
    BY <1>3, <2>1, <2>2 DEF Entered
  <2> HIDE DEF g
  <2> QED BY <1>3, <2>4, <2>5 DEF Entered
<1> QED BY <1>4, <1>5

LEMMA RecordedFacts ==
    ASSUME NEW d \in Db, d.sent \in Table, NEW done \in Seq(Alert)
    PROVE  \E t \in Table : Recorded(d, done) = [d EXCEPT !.sent = t]
<1> DEFINE n == Len(done)
           Solves(f) == f = [i \in 0..n |-> IF i = 0 THEN d.sent ELSE Record(f[i - 1], done[i])]
           g == CHOOSE f : Solves(f)
<1>1. PICK f : Entered(d.sent, done, f, n)
  BY EnteredExists
<1>2. Solves(f)
  <2>1. f = [i \in 0..n |-> f[i]]
    BY <1>1 DEF Entered
  <2>2. \A i \in 0..n : f[i] = IF i = 0 THEN d.sent ELSE Record(f[i - 1], done[i])
    BY <1>1 DEF Entered
  <2> QED BY <2>1, <2>2
<1>3. Solves(g)
  BY <1>2
<1>4. Recorded(d, done) = [d EXCEPT !.sent = g[n]]
  BY DEF Recorded
<1> HIDE DEF g
<1>5. \A i \in 0..n : g[i] = IF i = 0 THEN d.sent ELSE Record(g[i - 1], done[i])
  BY <1>3
<1>6. ASSUME NEW i \in 0..n, g[i] \notin Table PROVE FALSE
  <2> DEFINE Bad == {j \in 0..n : g[j] \notin Table}
  <2>1. PICK j \in Bad : \A k \in Bad : j <= k
    <3>1. Bad \in SUBSET Nat /\ Bad # {}
      BY <1>6
    <3> QED BY <3>1, Least
  <2>2. j # 0
    BY <1>5
  <2>3. j - 1 \in 0..n /\ j - 1 \notin Bad /\ done[j] \in Alert
    BY <2>1, <2>2
  <2>4. g[j - 1] \in Table
    BY <2>3
  <2> QED BY <1>5, <2>2, <2>3, <2>4, RecordType
<1>7. n \in 0..n
  OBVIOUS
<1> QED BY <1>4, <1>6, <1>7

(***************************************************************************)
(* The store.                                                              *)
(***************************************************************************)
Dbs == {d \in Db : d.sent \in Table}
StoreType == /\ file \in Dbs /\ mem \in [Worker -> Dbs]
             /\ fresh \in [Worker -> BOOLEAN] /\ dirty \in [Worker -> BOOLEAN]
             /\ late \in SUBSET Worker
Rounds == [at : {"idle", "nudge", "alert", "probe", "tell", "apply"},
           todo : SUBSET Alert, done : Seq(Alert),
           what : {"none", "down", "up", "disable", "delete"}, asked : BOOLEAN]
RestType ==
    /\ on \in {"alerts", "health", "sharing", "cleanup"} /\ auto \in BOOLEAN
    /\ alive \in SUBSET Worker /\ lock \in alive \cup {Nobody}
    /\ round \in [Worker -> Rounds]
    /\ told \in SUBSET Alert /\ lastTold \in {"none", "down", "up"}
    /\ forgotten \in SUBSET (Alert \cup {"state"})
    /\ paid \in 0..(MaxTime + 1) /\ overtaken \in SUBSET Worker
    /\ now \in 0..MaxTime /\ troubles \in 0..MaxTroubles /\ writes \in 0..MaxWrites

LEMMA DbsInDb == \A d : d \in Dbs <=> d \in Db /\ Len(d.sent) <= MaxRecords /\ IsInjective(d.sent)
BY DEF Dbs, Db, Table

LEMMA TypeSplit == TypeOK <=> StoreType /\ RestType
<1>1. TypeOK => StoreType /\ RestType
  BY DbsInDb DEF TypeOK, StoreType, RestType, Rounds
<1>2. StoreType /\ RestType => TypeOK
  BY DbsInDb DEF TypeOK, StoreType, RestType, Rounds
<1> QED BY <1>1, <1>2

LEMMA DbFacts ==
    ASSUME NEW d \in Dbs
    PROVE  /\ d.sent \in Table /\ d.sent \in Seq(Alert) /\ ToSet(d.sent) \subseteq Alert
           /\ d.fails \in Nat /\ d.marked \in BOOLEAN /\ d.enabled \in BOOLEAN
           /\ d.expiry \in 0..(MaxTime + 1) /\ d.exists \in BOOLEAN
           /\ d = [sent |-> d.sent, fails |-> d.fails, marked |-> d.marked,
                   enabled |-> d.enabled, expiry |-> d.expiry, exists |-> d.exists]
<1>1. d \in Db /\ d.sent \in Table
  BY DEF Dbs
<1>2. d.sent \in Seq(Alert)
  BY <1>1 DEF Table
<1>3. ToSet(d.sent) \subseteq Alert
  BY <1>2 DEF ToSet
<1> QED BY <1>1, <1>2, <1>3 DEF Db

LEMMA LoadedType ==
    ASSUME StoreType, NEW w \in Worker
    PROVE  Loaded(w) \in Dbs /\ mem[w] \in Dbs /\ file \in Dbs
BY DEF StoreType, Loaded

LEMMA LostType ==
    ASSUME NEW a \in Dbs, NEW b \in Dbs PROVE Lost(a, b) \subseteq Alert \cup {"state"}
BY DbFacts DEF Lost

LEMMA LostChain ==
    ASSUME NEW a \in Dbs, NEW b \in Dbs, NEW c \in Dbs
    PROVE  Lost(a, c) \subseteq Lost(a, b) \cup Lost(b, c)
BY DbFacts DEF Lost

LEMMA LostNothing ==
    ASSUME NEW a \in Dbs, NEW b \in Dbs, a.sent = b.sent, a.marked = b.marked,
           a.expiry <= b.expiry
    PROVE  Lost(a, b) = {}
BY DbFacts DEF Lost

\* When nothing is lost, or what is lost is on record as such.
LEMMA NotLost ==
    ASSUME NEW a \in Dbs, NEW b \in Dbs, NEW S, Lost(a, b) \subseteq S
    PROVE  /\ ToSet(a.sent) \ ToSet(b.sent) \subseteq S
           /\ "state" \notin S => a.marked = b.marked /\ a.expiry <= b.expiry
BY DbFacts DEF Lost

\* What a call of worker w that takes the content to d and leaves left in memory does
\* to the views.
Writes(w, d, left) ==
    /\ mem' = [mem EXCEPT ![w] = left] /\ file' \in {file, d, left} /\ Loaded(w)' \in {d, left}
    /\ \A v \in Worker : Loaded(v)' \in {Loaded(v), d, left}

\* What such a call loses is lost, whatever an overlapping get() puts back.
Leaves(w, d, left, lost) ==
    /\ left \in Dbs /\ Writes(w, d, left)
    /\ forgotten' = forgotten \cup lost \cup Lost(d, left)

LEMMA TouchFacts ==
    ASSUME StoreType, NEW w \in Worker, NEW d \in Dbs, NEW lost, Touch(w, d, lost)
    PROVE  \E left \in Dbs : /\ mem' = [mem EXCEPT ![w] = left]
                             /\ forgotten' = forgotten \cup lost \cup Lost(d, left)
BY DEF Touch, StoreType

LEMMA CallFacts ==
    ASSUME StoreType, NEW w \in Worker, NEW d \in Dbs, NEW lost,
           \/ Get(w) /\ d = Loaded(w) /\ lost = Reread(w)
           \/ Save(w, d, lost) \/ Note(w, d, lost)
           \/ /\ Touch(w, d, lost) /\ fresh' = [fresh EXCEPT ![w] = TRUE]
              /\ UNCHANGED <<file, dirty, late>>
    PROVE  StoreType' /\ \E left : Leaves(w, d, left, lost)
<1>1. CASE Get(w) /\ d = Loaded(w) /\ lost = Reread(w)
  <2>1. Lost(d, d) = {}
    BY DbFacts, LostNothing
  <2>2. StoreType' /\ Writes(w, d, d)
    BY <1>1 DEF StoreType, Writes, Get, Loaded
  <2>3. forgotten' = forgotten \cup lost \cup Lost(d, d)
    BY <1>1, <2>1 DEF Get
  <2> QED BY <2>2, <2>3 DEF Leaves
<1>2. CASE Save(w, d, lost)
  <2>1. PICK left \in Dbs : /\ mem' = [mem EXCEPT ![w] = left]
                            /\ forgotten' = forgotten \cup lost \cup Lost(d, left)
    BY <1>2, TouchFacts DEF Save
  <2>2. /\ file' \in {left, d} /\ fresh' = [v \in Worker |-> FALSE]
        /\ dirty' = [dirty EXCEPT ![w] = FALSE] /\ late' = late \cup {w}
    BY <1>2, <2>1 DEF Save, StoreType
  <2>3. StoreType' /\ Writes(w, d, left)
    BY <2>1, <2>2 DEF StoreType, Writes, Loaded
  <2> QED BY <2>1, <2>3 DEF Leaves
<1>3. ASSUME Touch(w, d, lost), fresh' = [fresh EXCEPT ![w] = TRUE], file' = file,
             dirty' \in [Worker -> BOOLEAN], late' = late
      PROVE  StoreType' /\ \E left : Leaves(w, d, left, lost)
  <2>1. PICK left \in Dbs : /\ mem' = [mem EXCEPT ![w] = left]
                            /\ forgotten' = forgotten \cup lost \cup Lost(d, left)
    BY <1>3, TouchFacts
  <2>2. StoreType' /\ Writes(w, d, left)
    BY <1>3, <2>1 DEF StoreType, Writes, Loaded
  <2> QED BY <2>1, <2>2 DEF Leaves
<1>4. CASE Note(w, d, lost)
  BY <1>3, <1>4 DEF Note, StoreType
<1>5. CASE Touch(w, d, lost) /\ fresh' = [fresh EXCEPT ![w] = TRUE] /\ UNCHANGED <<file, dirty, late>>
  BY <1>3, <1>5 DEF StoreType
<1> QED BY <1>1, <1>2, <1>4, <1>5

LEMMA RereadFacts ==
    ASSUME StoreType, NEW w \in Worker
    PROVE  /\ Reread(w) = Lost(mem[w], Loaded(w)) /\ Reread(w) \subseteq Alert \cup {"state"}
BY LoadedType, LostType DEF Reread

\* What is forgotten covers what is lost on the way from the memory, and from what the
\* call found, to d and to what is left.
Covers(w, d, left) ==
    /\ forgotten \subseteq forgotten'
    /\ Lost(mem[w], d) \subseteq forgotten' /\ Lost(Loaded(w), d) \subseteq forgotten'
    /\ Lost(d, left) \subseteq forgotten'

LEMMA LeavesFacts ==
    ASSUME StoreType, RestType, NEW w \in Worker, NEW d \in Dbs, NEW left, NEW lost,
           Leaves(w, d, left, lost), lost \subseteq Alert \cup {"state"}
    PROVE  /\ left \in Dbs /\ Writes(w, d, left) /\ mem'[w] = left
           /\ forgotten' \subseteq Alert \cup {"state"}
           /\ forgotten \cup lost \cup Lost(d, left) \subseteq forgotten'
<1>1. left \in Dbs /\ Writes(w, d, left) /\ forgotten' = forgotten \cup lost \cup Lost(d, left)
  BY DEF Leaves
<1>2. forgotten' \subseteq Alert \cup {"state"}
  BY <1>1, LostType DEF RestType
<1>3. mem'[w] = left
  BY <1>1 DEF Writes, StoreType
<1> QED BY <1>1, <1>2, <1>3

(***************************************************************************)
(* The parts of the invariant that calls of the store leave true.          *)
(***************************************************************************)
RoundsGoOn ==
    \A v \in Worker :
        /\ ToSet(round[v].done) \subseteq ToSet(round'[v].done) \cup forgotten'
        /\ round'[v].at = "tell" <=> round[v].at = "tell"
        /\ round[v].at = "tell" => round'[v].what = round[v].what

LEMMA KeptShrinks ==
    ASSUME told' = told, forgotten \subseteq forgotten'
    PROVE  Kept' \subseteq Kept /\ ("state" \notin forgotten' => "state" \notin forgotten)
BY DEF Kept

LEMMA ViewsOf ==
    ASSUME RestType, NEW w \in alive, NEW d, NEW left, Writes(w, d, left), alive' = alive
    PROVE  /\ Loaded(w) \in Views /\ file \in Views
           /\ \A x \in Views' : x \in Views \/ x \in {d, left}
<1>1. Loaded(w) \in Views /\ file \in Views
  BY DEF Views
<1>2. Views' = {file'} \cup {Loaded(v)' : v \in alive'}
  BY DEF Views
<1>3. \A v \in alive : Loaded(v)' = Loaded(v) \/ Loaded(v)' \in {d, left}
  BY DEF Writes, RestType
<1>4. file' = file \/ file' \in {d, left}
  BY DEF Writes
<1>5. ASSUME NEW x \in Views' PROVE x \in Views \/ x \in {d, left}
  <2>1. CASE x = file'
    BY <1>1, <1>4, <2>1
  <2>2. CASE x # file'
    <3>1. PICK v \in alive : x = Loaded(v)'
      BY <1>2, <2>2
    <3>2. Loaded(v) \in Views
      BY DEF Views
    <3> QED BY <1>3, <3>1, <3>2
  <2> QED BY <2>1, <2>2
<1> QED BY <1>1, <1>5

\* Neither d nor what is left lacks anything but what is forgotten.
LEMMA CoversFacts ==
    ASSUME StoreType, NEW w \in Worker, NEW d \in Dbs, NEW left \in Dbs, Covers(w, d, left),
           NEW x \in {d, left}
    PROVE  /\ ToSet(mem[w].sent) \ ToSet(x.sent) \subseteq forgotten'
           /\ ToSet(Loaded(w).sent) \ ToSet(x.sent) \subseteq forgotten'
           /\ "state" \notin forgotten' => /\ mem[w].marked = x.marked /\ Loaded(w).marked = x.marked
                                           /\ Loaded(w).expiry <= x.expiry
<1>1. x \in Dbs /\ mem[w] \in Dbs /\ Loaded(w) \in Dbs
  BY LoadedType
<1>2. Lost(mem[w], x) \subseteq forgotten' /\ Lost(Loaded(w), x) \subseteq forgotten'
  <2>1. CASE x = d
    BY <2>1 DEF Covers
  <2>2. CASE x = left
    BY <1>1, <2>2, LostChain DEF Covers
  <2> QED BY <2>1, <2>2
<1> QED BY <1>1, <1>2, NotLost

LEMMA CallTells ==
    ASSUME StoreType, RestType, RecordInv, MarkInv, StoreType', RoundsGoOn,
           \A v \in Worker : RoundFits(v),
           NEW w \in alive, NEW d \in Dbs, NEW left \in Dbs,
           Writes(w, d, left), Covers(w, d, left),
           lock' = lock \/ (lock = Nobody /\ lock' = w),
           UNCHANGED <<alive, told, lastTold>>
    PROVE  RecordInv' /\ MarkInv' /\ Kept' \subseteq Kept
<1>1. w \in Worker /\ Nobody \notin Worker /\ mem[w] \in Dbs /\ Loaded(w) \in Dbs
  BY LoadedType, NobodyAssumption DEF RestType
<1>2. Kept' \subseteq Kept /\ ("state" \notin forgotten' => "state" \notin forgotten)
  BY KeptShrinks DEF Covers
<1>3. \A x \in {d, left} :
        /\ ToSet(mem[w].sent) \ ToSet(x.sent) \subseteq forgotten'
        /\ ToSet(Loaded(w).sent) \ ToSet(x.sent) \subseteq forgotten'
        /\ "state" \notin forgotten' => mem[w].marked = x.marked /\ Loaded(w).marked = x.marked
  BY <1>1, CoversFacts
<1>4. Loaded(w) \in Views /\ file \in Views /\ \A x \in Views' : x \in Views \/ x \in {d, left}
  BY ViewsOf
<1>5. Kept' \cap forgotten' = {}
  BY DEF Kept
<1>6. mem'[w] = left /\ \A v \in Worker : v # w => mem'[v] = mem[v]
  BY <1>1 DEF Writes, StoreType
<1>7. lock # Nobody => lock \in Worker
  BY DEF RestType
<1>8. RecordInv'
  <2>1. CASE lock' = Nobody
    <3>1. \A x \in Views : Kept \subseteq ToSet(x.sent)
      BY <1>1, <2>1 DEF RecordInv
    <3>2. \A x \in Views' : Kept' \subseteq ToSet(x.sent)
      BY <1>2, <1>3, <1>4, <1>5, <3>1
    <3> QED BY <2>1, <3>2 DEF RecordInv
  <2>2. CASE lock = Nobody /\ lock' = w
    <3>1. Kept \subseteq ToSet(Loaded(w).sent)
      BY <1>4, <2>2 DEF RecordInv
    <3>2. Kept' \subseteq ToSet(left.sent)
      BY <1>2, <1>3, <1>5, <3>1
    <3> QED BY <1>1, <1>6, <2>2, <3>2 DEF RecordInv
  <2>3. CASE lock' # Nobody /\ lock' = lock
    <3>1. Kept \subseteq ToSet(mem[lock].sent) \cup ToSet(round[lock].done)
      BY <2>3 DEF RecordInv
    <3>2. Kept' \subseteq ToSet(mem'[lock].sent) \cup ToSet(round[lock].done)
      BY <1>2, <1>3, <1>5, <1>6, <1>7, <2>3, <3>1
    <3>3. ToSet(round[lock].done) \subseteq ToSet(round'[lock].done) \cup forgotten'
      BY <1>7, <2>3 DEF RoundsGoOn
    <3> QED BY <1>5, <2>3, <3>2, <3>3 DEF RecordInv
  <2> QED BY <2>1, <2>2, <2>3
<1>9. MarkInv'
  <2>1. SUFFICES ASSUME "state" \notin forgotten' PROVE MarkInv'
    BY DEF MarkInv
  <2>2. CASE lock' = Nobody
    <3>1. \A x \in Views : x.marked <=> lastTold = "down"
      BY <1>1, <1>2, <2>1, <2>2 DEF MarkInv, Agrees
    <3>2. \A x \in Views' : x.marked <=> lastTold' = "down"
      BY <1>3, <1>4, <2>1, <3>1
    <3> QED BY <2>2, <3>2 DEF MarkInv, Agrees
  <2>3. CASE lock = Nobody /\ lock' = w
    <3>1. left.marked <=> lastTold' = "down"
      BY <1>2, <1>3, <1>4, <2>1, <2>3 DEF MarkInv, Agrees
    <3>2. round'[w].at # "tell"
      <4>1. round[w].at # "tell"
        BY <1>1, <2>3 DEF RoundFits
      <4> QED BY <1>1, <4>1 DEF RoundsGoOn
    <3> QED BY <1>1, <1>6, <2>3, <3>1, <3>2 DEF MarkInv, Agrees
  <2>4. CASE lock' # Nobody /\ lock' = lock
    <3>1. mem'[lock].marked = mem[lock].marked
      BY <1>3, <1>6, <1>7, <2>1, <2>4
    <3>2. /\ round'[lock].at = "tell" <=> round[lock].at = "tell"
          /\ round[lock].at = "tell" => round'[lock].what = round[lock].what
      BY <1>7, <2>4 DEF RoundsGoOn
    <3> QED BY <1>2, <2>1, <2>4, <3>1, <3>2 DEF MarkInv, Agrees
  <2> QED BY <2>2, <2>3, <2>4
<1> QED BY <1>2, <1>8, <1>9

LEMMA Call ==
    ASSUME StoreType, RestType, RecordInv, MarkInv, PaidInv, StoreType', RoundsGoOn,
           \A v \in Worker : RoundFits(v),
           NEW w \in alive, NEW d \in Dbs, NEW left \in Dbs,
           Writes(w, d, left), Covers(w, d, left),
           lock' = lock \/ (lock = Nobody /\ lock' = w),
           UNCHANGED <<on, alive, told, lastTold, paid>>
    PROVE  RecordInv' /\ MarkInv' /\ PaidInv' /\ Kept' \subseteq Kept
<1>1. RecordInv' /\ MarkInv' /\ Kept' \subseteq Kept
  BY CallTells
<1>2. w \in Worker /\ Loaded(w) \in Dbs
  BY LoadedType DEF RestType
<1>3. "state" \notin forgotten' => \A x \in {d, left} : Loaded(w).expiry <= x.expiry
  BY <1>2, CoversFacts
<1>4. Loaded(w) \in Views /\ file \in Views /\ \A x \in Views' : x \in Views \/ x \in {d, left}
  BY ViewsOf
<1>5. PaidInv'
  <2>1. SUFFICES ASSUME "state" \notin forgotten', on = "cleanup" PROVE PaidInv'
    BY DEF PaidInv
  <2>2. \A x \in Views : paid <= x.expiry
    BY <2>1 DEF PaidInv, Covers
  <2>3. \A x \in {d, left} : paid <= x.expiry
    <3>1. /\ paid \in Nat /\ Loaded(w).expiry \in Nat
          /\ \A x \in {d, left} : x.expiry \in Nat
      BY <1>2, DbFacts DEF RestType
    <3> QED BY <1>3, <1>4, <2>1, <2>2, <3>1
  <2> QED BY <1>4, <2>2, <2>3 DEF PaidInv
<1> QED BY <1>1, <1>5

\* The same for a step that leaves the store alone, by which workers may go.
LEMMA Aside ==
    ASSUME StoreType, RestType, RecordInv, MarkInv, PaidInv, RoundsGoOn,
           UNCHANGED <<file, mem, fresh>>, alive' \subseteq alive, forgotten \subseteq forgotten',
           UNCHANGED <<on, lock, told, lastTold, paid>>
    PROVE  RecordInv' /\ MarkInv' /\ PaidInv' /\ Kept' \subseteq Kept
<1>1. Kept' \subseteq Kept /\ ("state" \notin forgotten' => "state" \notin forgotten)
  BY KeptShrinks
<1>2. Views' \subseteq Views
  BY DEF Views, Loaded
<1>3. Kept' \cap forgotten' = {}
  BY DEF Kept
<1>4. lock # Nobody => lock \in Worker
  BY DEF RestType
<1>5. RecordInv'
  BY <1>1, <1>2, <1>3, <1>4 DEF RecordInv, RoundsGoOn
<1>6. MarkInv'
  BY <1>1, <1>2, <1>4 DEF MarkInv, Agrees, RoundsGoOn
<1>7. PaidInv'
  BY <1>1, <1>2 DEF PaidInv
<1> QED BY <1>1, <1>5, <1>6, <1>7

LEMMA TodoKeeps ==
    ASSUME TodoInv, Kept' \subseteq Kept,
           \A v \in Worker : round'[v].todo \subseteq round[v].todo
    PROVE  TodoInv'
BY DEF TodoInv

LEMMA PlanKeeps ==
    ASSUME RestType, PlanInv, forgotten \subseteq forgotten', paid' = paid,
           now' \in Nat, now <= now',
           \A v \in Worker : round'[v].at = "apply" =>
               /\ round[v].at = "apply" /\ round'[v].what = round[v].what
               /\ v \in overtaken => v \in overtaken'
    PROVE  PlanInv'
<1>1. DisableAfter \in Nat /\ DeleteAfter \in Nat /\ paid \in Nat /\ now \in Nat
  BY BoundsAssumption DEF RestType
<1>2. ASSUME NEW v \in Worker, round'[v].at = "apply"
      PROVE  v \in overtaken' \/ "state" \in forgotten' \/ now' >= paid' + Wait(round'[v].what)
  <2> DEFINE n == Wait(round[v].what)
  <2>1. n \in Nat
    BY <1>1 DEF Wait
  <2>2. v \in overtaken \/ "state" \in forgotten \/ now >= paid + n
    BY <1>2 DEF PlanInv
  <2>3. n = Wait(round'[v].what)
    BY <1>2
  <2> HIDE DEF n
  <2> QED BY <1>1, <1>2, <2>1, <2>2, <2>3
<1> QED BY <1>2 DEF PlanInv

(***************************************************************************)
(* One lemma per operation.                                                *)
(***************************************************************************)
Fit == \A w \in Worker : RoundFits(w)
Parts == /\ StoreType /\ RestType /\ Fit
         /\ RecordInv /\ TodoInv /\ MarkInv /\ PaidInv /\ PlanInv
LEMMA PartsOf ==
    ASSUME Parts
    PROVE  /\ StoreType /\ RestType /\ Fit /\ \A w \in Worker : RoundFits(w)
           /\ RecordInv /\ TodoInv /\ MarkInv /\ PaidInv /\ PlanInv
BY DEF Parts, Fit

\* A call, or its return, during which every round stays what it is.
LEMMA StoreOnly ==
    ASSUME Parts, NEW w \in alive, NEW d \in Dbs, NEW left \in Dbs, StoreType',
           Writes(w, d, left), Covers(w, d, left), forgotten' \subseteq Alert \cup {"state"},
           writes' \in 0..MaxWrites,
           UNCHANGED <<on, auto, alive, lock, round, told, lastTold, paid, overtaken, now, troubles>>
    PROVE  Parts'
<1>1. w \in Worker /\ StoreType /\ RestType
  BY DEF RestType, Parts
<1>2. forgotten \subseteq forgotten'
  BY DEF Covers
<1>3. RestType' /\ Fit'
  BY DEF RestType, Fit, RoundFits, Parts
<1>4. RoundsGoOn
  BY DEF RoundsGoOn
<1>5. RecordInv' /\ MarkInv' /\ PaidInv' /\ Kept' \subseteq Kept
  BY <1>4, PartsOf, Call
<1>6. TodoInv'
  BY <1>5, PartsOf, TodoKeeps
<1>7. PlanInv'
  <2>1. now \in Nat
    BY <1>1 DEF RestType
  <2> QED BY <1>2, <2>1, PartsOf, PlanKeeps
<1> QED BY <1>3, <1>5, <1>6, <1>7 DEF Parts

LEMMA CallOnly ==
    ASSUME Parts, NEW w \in alive, NEW d \in Dbs, NEW lost \in SUBSET (Alert \cup {"state"}),
           \/ Get(w) /\ d = Loaded(w) /\ lost = Reread(w)
           \/ Save(w, d, lost) \/ Note(w, d, lost),
           Lost(mem[w], d) \subseteq forgotten \cup lost,
           Lost(Loaded(w), d) \subseteq forgotten \cup lost,
           writes' \in 0..MaxWrites,
           UNCHANGED <<on, auto, alive, lock, round, told, lastTold, paid, overtaken, now, troubles>>
    PROVE  Parts'
<1>1. w \in Worker /\ StoreType /\ RestType
  BY DEF RestType, Parts
<1>2. StoreType' /\ \E left : Leaves(w, d, left, lost)
  BY <1>1, CallFacts
<1>3. PICK left : Leaves(w, d, left, lost)
  BY <1>2
<1>4. /\ left \in Dbs /\ Writes(w, d, left) /\ forgotten' \subseteq Alert \cup {"state"}
      /\ forgotten \cup lost \cup Lost(d, left) \subseteq forgotten'
  BY <1>1, <1>3, LeavesFacts
<1>5. Covers(w, d, left)
  BY <1>4 DEF Covers
<1> QED BY <1>2, <1>4, <1>5, StoreOnly

LEMMA WritesMore ==
    ASSUME RestType, Write PROVE writes' \in 0..MaxWrites /\ UNCHANGED <<paid, now, troubles>>
BY BoundsAssumption DEF RestType, Write

LEMMA TroublesMore ==
    ASSUME RestType, Trouble PROVE troubles' \in 0..MaxTroubles /\ UNCHANGED <<paid, now, writes>>
BY BoundsAssumption DEF RestType, Trouble

\* What a re-read loses covers what a call that keeps alerts, mark and expiry loses.
LEMMA RereadCovers ==
    ASSUME StoreType, NEW w \in Worker, NEW d \in Dbs, NEW S, Reread(w) \subseteq S,
           Lost(Loaded(w), d) \subseteq S
    PROVE  Lost(mem[w], d) \subseteq S
BY LoadedType, LostChain DEF Reread

LEMMA OtherCallKeeps == ASSUME Parts, NEW w \in Worker, OtherCall(w) PROVE Parts'
<1>1. w \in alive /\ StoreType /\ RestType
  BY DEF Parts, OtherCall
<1> DEFINE d == Loaded(w)  lost == Reread(w)
<1>2. d \in Dbs
  BY <1>1, LoadedType
<1>3. /\ (Get(w) /\ d = Loaded(w)) \/ Save(w, d, lost) \/ Note(w, d, lost)
      /\ Write /\ UNCHANGED <<on, auto, alive, lock, round, told, lastTold, overtaken>>
  BY DEF OtherCall, settings
<1>4. Lost(Loaded(w), d) = {}
  BY <1>2, DbFacts, LostNothing
<1>5. lost \subseteq Alert \cup {"state"} /\ Lost(mem[w], d) \subseteq forgotten \cup lost
  BY <1>1, RereadFacts
<1>6. writes' \in 0..MaxWrites /\ UNCHANGED <<paid, now, troubles>>
  BY <1>1, <1>3, WritesMore
<1> QED BY <1>1, <1>2, <1>3, <1>4, <1>5, <1>6, CallOnly

LEMMA FlushKeeps == ASSUME Parts, NEW w \in Worker, Flush(w) PROVE Parts'
<1>1. w \in alive /\ StoreType /\ RestType
  BY DEF Parts, Flush
<1> DEFINE d == mem[w]  lost == Lost(file, d)
<1>2. d \in Dbs /\ file \in Dbs /\ lost \subseteq Alert \cup {"state"}
  BY <1>1, LoadedType, LostType
<1>3. /\ Save(w, d, lost)
      /\ UNCHANGED <<on, auto, alive, lock, round, told, lastTold, overtaken>>
      /\ UNCHANGED <<paid, now, troubles, writes>>
  BY DEF Flush, settings, bounds
<1>4. Lost(mem[w], d) = {}
  BY <1>2, DbFacts, LostNothing
<1>5. Lost(Loaded(w), d) \subseteq forgotten \cup lost
  BY <1>4 DEF Loaded
<1>6. writes' \in 0..MaxWrites
  BY <1>1, <1>3 DEF RestType
<1> QED BY <1>1, <1>2, <1>3, <1>4, <1>5, <1>6, CallOnly

\* Back on the loop the worker takes its memory for what the file holds.
LEMMA ReturnKeeps == ASSUME Parts, NEW w \in Worker, Return(w) PROVE Parts'
<1>1. StoreType /\ RestType /\ w \in alive
  BY DEF Parts, Return
<1> DEFINE d == mem[w]
<1>2. d \in Dbs /\ file \in Dbs
  BY <1>1, LoadedType
<1>3. /\ late' = late \ {w} /\ fresh' = [fresh EXCEPT ![w] = TRUE]
      /\ forgotten' = forgotten \cup Lost(file, d)
      /\ UNCHANGED <<on, auto, alive, lock, file, mem, dirty, round, told, lastTold, overtaken>>
      /\ UNCHANGED <<paid, now, troubles, writes>>
  BY DEF Return, settings, bounds
<1>4. StoreType' /\ Writes(w, d, d)
  BY <1>1, <1>2, <1>3 DEF StoreType, Writes, Loaded
<1>5. Lost(d, d) = {}
  BY <1>2, DbFacts, LostNothing
<1>6. Covers(w, d, d)
  BY <1>3, <1>5 DEF Covers, Loaded
<1>7. forgotten' \subseteq Alert \cup {"state"} /\ writes' \in 0..MaxWrites
  BY <1>1, <1>2, <1>3, LostType DEF RestType
<1> HIDE DEF d
<1> QED BY <1>1, <1>2, <1>3, <1>4, <1>6, <1>7, StoreOnly

\* A change of nothing but the entry point's or the account's switches.
LEMMA SwitchesOnly ==
    ASSUME NEW c \in Dbs, NEW e \in BOOLEAN, NEW x \in BOOLEAN,
           NEW d, d = [c EXCEPT !.enabled = e] \/ d = [c EXCEPT !.exists = x]
    PROVE  d \in Dbs /\ Lost(c, d) = {}
<1>1. d \in Dbs /\ d.sent = c.sent /\ d.marked = c.marked /\ d.expiry = c.expiry
  BY DbFacts DEF Dbs, Db
<1>2. c.expiry \in Nat
  BY DbFacts
<1> QED BY <1>1, <1>2, LostNothing

LEMMA SwitchOnKeeps ==
    ASSUME Parts, NEW w \in Worker, Relist(w) \/ Enable(w) PROVE Parts'
<1>1. w \in alive /\ StoreType /\ RestType
  BY DEF Parts, Relist, Enable
<1> DEFINE d == [Loaded(w) EXCEPT !.enabled = TRUE]  lost == Reread(w)
<1>2. Loaded(w) \in Dbs
  BY <1>1, LoadedType
<1>3. /\ Save(w, d, lost) /\ Write
      /\ UNCHANGED <<on, auto, alive, lock, round, told, lastTold, overtaken>>
  BY DEF Relist, Enable, settings
<1>4. d \in Dbs /\ Lost(Loaded(w), d) = {}
  BY <1>2, SwitchesOnly
<1>5. lost \subseteq Alert \cup {"state"} /\ Lost(mem[w], d) \subseteq forgotten \cup lost
  BY <1>1, <1>4, RereadFacts, RereadCovers
<1>6. writes' \in 0..MaxWrites /\ UNCHANGED <<paid, now, troubles>>
  BY <1>1, <1>3, WritesMore
<1> HIDE DEF d
<1> QED BY <1>1, <1>3, <1>4, <1>5, <1>6, CallOnly

\* What a worker reads at the start of a round.
LEMMA Reading ==
    ASSUME StoreType, RestType, NEW w \in Worker, Get(w)
    PROVE  /\ Loaded(w) \in Dbs /\ StoreType' /\ Writes(w, Loaded(w), Loaded(w))
           /\ Covers(w, Loaded(w), Loaded(w)) /\ forgotten' \subseteq Alert \cup {"state"}
           /\ forgotten' = forgotten \cup Lost(mem[w], Loaded(w)) /\ mem'[w] = Loaded(w)
<1>1. Loaded(w) \in Dbs /\ mem[w] \in Dbs
  BY LoadedType
<1>2. StoreType' /\ Writes(w, Loaded(w), Loaded(w)) /\ mem'[w] = Loaded(w)
  BY <1>1 DEF StoreType, Writes, Get, Loaded
<1>3. Lost(Loaded(w), Loaded(w)) = {}
  BY <1>1, DbFacts, LostNothing
<1>4. forgotten' = forgotten \cup Lost(mem[w], Loaded(w))
  BY DEF Get, Reread
<1>5. Covers(w, Loaded(w), Loaded(w))
  BY <1>3, <1>4 DEF Covers
<1>6. forgotten' \subseteq Alert \cup {"state"}
  BY <1>1, <1>4, LostType DEF RestType
<1> QED BY <1>1, <1>2, <1>4, <1>5, <1>6

LEMMA IdleFacts == /\ Idle \in Rounds /\ Idle.at = "idle" /\ Idle.todo = {}
                   /\ Idle.done = <<>> /\ Idle.what = "none" /\ Idle.asked = FALSE
                   /\ ToSet(Idle.done) = {}
<1>1. <<>> \in Seq(Alert)
  OBVIOUS
<1>2. ASSUME NEW s \in Seq(Alert)
      PROVE  [at |-> "idle", todo |-> {}, done |-> s, what |-> "none", asked |-> FALSE] \in Rounds
  BY DEF Rounds
<1>3. Idle \in Rounds
  BY <1>1, <1>2 DEF Idle
<1>4. ToSet(<<>>) = {}
  BY DEF ToSet
<1> QED BY <1>3, <1>4 DEF Idle

\* A round that was idle begins: a scan, a probe, or what a probe, a sweep or a plan
\* found.
Scanning(at, todo) == [Idle EXCEPT !.at = at, !.todo = todo]
Probing(asked) == [Idle EXCEPT !.at = "probe", !.asked = asked]
Found(at, what) == [Idle EXCEPT !.at = at, !.what = what]

LEMMA ScanningFacts ==
    ASSUME NEW at \in {"nudge", "alert"}, NEW todo \in SUBSET Alert
    PROVE  LET r == Scanning(at, todo)
           IN  /\ r \in Rounds /\ r.at = at /\ r.todo = todo
               /\ r.done = <<>> /\ ToSet(r.done) = {}
<1> DEFINE r == Scanning(at, todo)
<1>1. r \in Rounds /\ r.at = at /\ r.todo = todo /\ r.done = Idle.done
  BY IdleFacts DEF Rounds, Scanning
<1> QED BY <1>1, IdleFacts

LEMMA ProbingFacts ==
    ASSUME NEW asked \in BOOLEAN
    PROVE  LET r == Probing(asked)
           IN  /\ r \in Rounds /\ r.at = "probe" /\ r.todo = {} /\ r.asked = asked
               /\ r.done = <<>> /\ ToSet(r.done) = {}
<1> DEFINE r == Probing(asked)
<1>1. /\ r \in Rounds /\ r.at = "probe" /\ r.todo = Idle.todo /\ r.asked = asked
      /\ r.done = Idle.done
  BY IdleFacts DEF Rounds, Probing
<1> QED BY <1>1, IdleFacts

LEMMA FoundFacts ==
    ASSUME NEW at \in {"tell", "apply"}, NEW what \in {"none", "down", "up", "disable", "delete"}
    PROVE  LET r == Found(at, what)
           IN  /\ r \in Rounds /\ r.at = at /\ r.todo = {} /\ r.what = what
               /\ r.done = <<>> /\ ToSet(r.done) = {}
<1> DEFINE r == Found(at, what)
<1>1. r \in Rounds /\ r.at = at /\ r.todo = Idle.todo /\ r.what = what /\ r.done = Idle.done
  BY IdleFacts DEF Rounds, Found
<1> QED BY <1>1, IdleFacts

LEMMA StartRoundKeeps == ASSUME Parts, NEW w \in Worker, StartRound(w) PROVE Parts'
<1> DEFINE r == Scanning("nudge", Nudge \ ToSet(Loaded(w).sent))
<1>1. StoreType /\ RestType /\ Fit /\ w \in alive /\ round[w] = Idle
  BY DEF Parts, Fit, RoundFits, StartRound, Lead
<1>2. /\ on = "alerts" /\ Get(w)
      /\ lock \in {Nobody, w} /\ lock' = w /\ round' = [round EXCEPT ![w] = r]
      /\ UNCHANGED <<on, auto, alive, told, lastTold, overtaken, paid, now, troubles, writes>>
  BY DEF StartRound, Lead, Scanning, Due, settings, bounds
<1>3. /\ Loaded(w) \in Dbs /\ StoreType' /\ Writes(w, Loaded(w), Loaded(w))
      /\ Covers(w, Loaded(w), Loaded(w)) /\ forgotten' \subseteq Alert \cup {"state"}
      /\ forgotten' = forgotten \cup Lost(mem[w], Loaded(w)) /\ mem'[w] = Loaded(w)
  BY <1>1, <1>2, Reading
<1>4. /\ r \in Rounds /\ r.at = "nudge" /\ r.done = <<>>
      /\ r.todo = Nudge \ ToSet(Loaded(w).sent)
  BY ScanningFacts DEF Alert
<1> HIDE DEF r
<1>5. RestType' /\ Fit'
  <2>1. RestType'
    BY <1>1, <1>2, <1>3, <1>4 DEF RestType
  <2>2. \A v \in Worker : round[v].at \in {"nudge", "alert", "tell"} => v = w
    BY <1>1, <1>2, NobodyAssumption DEF Fit, RoundFits
  <2>3. ASSUME NEW v \in Worker PROVE RoundFits(v)'
    <3>1. CASE v = w
      BY <1>1, <1>2, <1>4, <3>1 DEF RestType, RoundFits
    <3>2. CASE v # w
      <4>1. round'[v] = round[v] /\ RoundFits(v)
        BY <1>1, <1>2, <3>2 DEF Fit, RestType
      <4> QED BY <1>1, <1>2, <2>2, <3>2, <4>1 DEF RoundFits
    <3> QED BY <3>1, <3>2
  <2> QED BY <2>1, <2>3 DEF Fit
<1>6. RoundsGoOn
  BY <1>1, <1>2, <1>4 DEF RoundsGoOn, Idle, RestType, ToSet
<1>7. RecordInv' /\ MarkInv' /\ PaidInv' /\ Kept' \subseteq Kept
  BY <1>1, <1>2, <1>3, <1>6, PartsOf, Call
<1>8. TodoInv'
  <2>1. mem'[w] = Loaded(w) /\ round'[w].done = <<>>
    BY <1>1, <1>2, <1>3, <1>4 DEF Writes, StoreType, RestType
  <2>2. Kept' \subseteq ToSet(Loaded(w).sent)
    <3>1. w # Nobody
      BY NobodyAssumption
    <3> QED BY <1>2, <1>7, <2>1, <3>1 DEF RecordInv, ToSet
  <2> QED BY <1>1, <1>2, <1>4, <1>7, <2>2 DEF TodoInv, RestType, Parts
<1>9. PlanInv'
  <2>1. now \in Nat
    BY <1>1 DEF RestType
  <2> QED BY <1>1, <1>2, <1>3, <1>4, <2>1, PartsOf, PlanKeeps DEF RestType
<1> QED BY <1>3, <1>5, <1>7, <1>8, <1>9 DEF Parts

LEMMA StartProbeKeeps == ASSUME Parts, NEW w \in Worker, StartProbe(w) PROVE Parts'
<1>1. PICK asked \in BOOLEAN :
        /\ IF asked THEN w \in alive /\ Write /\ lock' = lock ELSE Lead(w) /\ UNCHANGED bounds
        /\ round' = [round EXCEPT ![w] = [Idle EXCEPT !.at = "probe", !.asked = asked]]
  BY DEF StartProbe
<1> DEFINE r == Probing(asked)
<1>2. StoreType /\ RestType /\ Fit /\ w \in alive /\ round[w] = Idle
  BY <1>1 DEF Parts, Fit, RoundFits, StartProbe, Lead
<1>3. /\ on = "health" /\ Get(w)
      /\ UNCHANGED <<on, auto, alive, told, lastTold, overtaken>>
  BY DEF StartProbe, settings
<1>4. /\ lock' = lock \/ (lock = Nobody /\ lock' = w)
      /\ asked \/ lock' = w
      /\ writes' \in 0..MaxWrites /\ UNCHANGED <<paid, now, troubles>>
  BY <1>1, <1>2, WritesMore DEF Lead, bounds, RestType
<1>5. /\ Loaded(w) \in Dbs /\ StoreType' /\ Writes(w, Loaded(w), Loaded(w))
      /\ Covers(w, Loaded(w), Loaded(w)) /\ forgotten' \subseteq Alert \cup {"state"}
      /\ forgotten' = forgotten \cup Lost(mem[w], Loaded(w)) /\ mem'[w] = Loaded(w)
  BY <1>2, <1>3, Reading
<1>6. /\ r \in Rounds /\ r.at = "probe" /\ r.done = <<>> /\ r.todo = {}
      /\ r.asked = asked
  BY ProbingFacts
<1>7. round' = [round EXCEPT ![w] = r]
  BY <1>1 DEF Probing
<1> HIDE DEF r
<1>8. RestType' /\ Fit'
  <2>1. \A v \in Worker : round[v].at \in {"nudge", "alert", "tell"} => lock = v
    BY <1>2 DEF Fit, RoundFits
  <2>2. \A v \in Worker : lock = v => lock' = v
    BY <1>4, NobodyAssumption
  <2>3. RestType'
    BY <1>2, <1>3, <1>4, <1>5, <1>6, <1>7 DEF RestType
  <2>4. Fit'
    BY <1>2, <1>3, <1>4, <1>6, <1>7, <2>1, <2>2 DEF RestType, Fit, RoundFits
  <2> QED BY <2>3, <2>4
<1>9. RoundsGoOn
  BY <1>2, <1>6, <1>7 DEF RoundsGoOn, Idle, RestType, ToSet
<1>10. RecordInv' /\ MarkInv' /\ PaidInv' /\ Kept' \subseteq Kept
  BY <1>2, <1>3, <1>4, <1>5, <1>9, PartsOf, Call
<1>11. TodoInv'
  BY <1>2, <1>6, <1>7, <1>10 DEF TodoInv, RestType, Parts
<1>12. PlanInv'
  <2>1. now \in Nat
    BY <1>2 DEF RestType
  <2> QED BY <1>2, <1>3, <1>4, <1>5, <1>6, <1>7, <2>1, PartsOf, PlanKeeps DEF RestType
<1> QED BY <1>5, <1>8, <1>10, <1>11, <1>12 DEF Parts

\* The other rounds still fit when one worker's round moves on.
LEMMA FitKeeps ==
    ASSUME RestType, Fit, NEW w \in Worker, NEW r, round' = [round EXCEPT ![w] = r],
           on' = on, alive' = alive, \A v \in Worker : lock = v => lock' = v \/ v = w,
           RoundFits(w)'
    PROVE  Fit'
<1>1. ASSUME NEW v \in Worker, v # w PROVE RoundFits(v)'
  <2>1. round'[v] = round[v] /\ RoundFits(v)
    BY <1>1 DEF Fit, RestType
  <2> QED BY <1>1, <2>1 DEF RoundFits
<1> QED BY <1>1 DEF Fit

LEMMA NoPlans == ASSUME on' # "cleanup", Fit' PROVE PlanInv' /\ PaidInv'
BY DEF Fit, RoundFits, PlanInv, PaidInv

LEMMA ToSetAppend ==
    ASSUME NEW s \in Seq(Alert), NEW k \in Alert
    PROVE  Append(s, k) \in Seq(Alert) /\ ToSet(Append(s, k)) = ToSet(s) \cup {k}
<1> DEFINE t == Append(s, k)
<1>1. /\ t \in Seq(Alert) /\ Len(t) = Len(s) + 1 /\ t[Len(t)] = k
      /\ \A i \in 1..Len(s) : t[i] = s[i]
  OBVIOUS
<1>2. Len(s) \in Nat
  OBVIOUS
<1> HIDE DEF t
<1>3. ToSet(s) \cup {k} \subseteq ToSet(t)
  BY <1>1, <1>2 DEF ToSet
<1>4. ASSUME NEW i \in 1..Len(t) PROVE t[i] \in ToSet(s) \cup {k}
  BY <1>1, <1>2 DEF ToSet
<1>5. ToSet(t) \subseteq ToSet(s) \cup {k}
  BY <1>1, <1>4 DEF ToSet
<1> QED BY <1>1, <1>3, <1>5 DEF t

LEMMA SendKeeps ==
    ASSUME Parts, NEW w \in Worker, NEW k \in Alert, SendNudge(w, k) \/ SendAlert(w, k)
    PROVE  Parts'
<1> DEFINE r == round[w]
           sent == [r EXCEPT !.todo = @ \ {k}, !.done = Append(@, k)]
           cut == [r EXCEPT !.todo = {}]
<1>1. /\ StoreType /\ RestType /\ Fit /\ r \in Rounds /\ k \in r.todo
      /\ r.at \in {"nudge", "alert"} /\ on = "alerts" /\ lock = w /\ w \in alive /\ w # Nobody
  <2>1. StoreType /\ RestType /\ Fit /\ r \in Rounds /\ RoundFits(w)
    BY DEF Parts, RestType, Fit
  <2>2. k \in r.todo /\ r.at \in {"nudge", "alert"}
    BY DEF SendNudge, SendAlert
  <2> QED BY <2>1, <2>2, NobodyAssumption DEF RoundFits
<1>2. /\ UNCHANGED <<on, auto, alive, lock, file, mem, fresh, dirty, late, lastTold, overtaken>>
      /\ UNCHANGED <<paid, now, writes>>
  BY DEF SendNudge, SendAlert, settings, store
<1>3. \/ /\ round' = [round EXCEPT ![w] = sent] /\ troubles' = troubles
         /\ told' = told \cup {k} /\ forgotten' = forgotten \ {k}
      \/ /\ round' = [round EXCEPT ![w] = sent] \/ round' = [round EXCEPT ![w] = cut]
         /\ Trouble /\ told' = told /\ forgotten' = forgotten
  BY <1>1 DEF SendNudge, SendAlert, Deliver, RestType
<1>4. /\ sent \in Rounds /\ sent.at = r.at /\ sent.todo = r.todo \ {k}
      /\ sent.done = Append(r.done, k) /\ sent.what = r.what
      /\ ToSet(sent.done) = ToSet(r.done) \cup {k}
  <2>1. r.done \in Seq(Alert)
    BY <1>1 DEF Rounds
  <2> QED BY <1>1, <2>1, ToSetAppend DEF Rounds
<1>5. cut \in Rounds /\ cut.at = r.at /\ cut.todo = {} /\ cut.done = r.done /\ cut.what = r.what
  BY <1>1 DEF Rounds
<1> HIDE DEF sent, cut
<1>6. PICK new \in Rounds :
        /\ round' = [round EXCEPT ![w] = new] /\ new.at = r.at
        /\ new.todo \subseteq r.todo /\ ToSet(r.done) \subseteq ToSet(new.done)
  BY <1>3, <1>4, <1>5
<1>7. StoreType'
  BY <1>1, <1>2 DEF StoreType
<1>8. RestType'
  <2>1. troubles' \in 0..MaxTroubles
    BY <1>1, <1>3, TroublesMore DEF RestType
  <2> QED BY <1>1, <1>2, <1>3, <1>6, <2>1 DEF RestType
<1>9. round'[w] = new /\ \A v \in Worker : v # w => round'[v] = round[v]
  BY <1>1, <1>6 DEF RestType
<1>10. Fit'
  <2>1. RoundFits(w)'
    BY <1>1, <1>2, <1>6, <1>9 DEF RoundFits
  <2> QED BY <1>1, <1>2, <1>6, <2>1, FitKeeps
<1>11. PlanInv' /\ PaidInv'
  BY <1>1, <1>2, <1>10, NoPlans
<1>12. RecordInv' /\ TodoInv' /\ MarkInv'
  <2>1. \A v \in Worker : v # w => round[v].todo = {}
    BY <1>1 DEF Fit, RoundFits
  <2>2. Kept \subseteq ToSet(mem[w].sent) \cup ToSet(r.done) /\ r.todo \cap Kept = {}
    BY <1>1, PartsOf DEF RecordInv, TodoInv
  <2>3. /\ Kept' \subseteq ToSet(mem[w].sent) \cup ToSet(new.done)
        /\ new.todo \cap Kept' = {}
    <3>1. CASE told' = told /\ forgotten' = forgotten
      BY <1>6, <2>2, <3>1 DEF Kept
    <3>2. CASE /\ round' = [round EXCEPT ![w] = sent]
               /\ told' = told \cup {k} /\ forgotten' = forgotten \ {k}
      <4>1. new = sent
        BY <1>1, <1>9, <3>2 DEF RestType
      <4> QED BY <1>4, <2>2, <3>2, <4>1 DEF Kept
    <3> QED BY <1>3, <3>1, <3>2
  <2>4. RecordInv'
    BY <1>1, <1>2, <1>9, <2>3 DEF RecordInv
  <2>5. TodoInv'
    BY <1>9, <2>1, <2>3 DEF TodoInv
  <2>6. MarkInv'
    <3>1. "state" \in forgotten <=> "state" \in forgotten'
      BY <1>3, KindsAssumption DEF Alert
    <3> QED BY <1>1, <1>2, <1>6, <1>9, <3>1, PartsOf DEF MarkInv, Agrees
  <2> QED BY <2>4, <2>5, <2>6
<1> QED BY <1>7, <1>8, <1>10, <1>11, <1>12 DEF Parts

\* What was delivered is on record with the leader, or counts as forgotten.
LEMMA NoteDoneFacts ==
    ASSUME Parts, NEW w \in Worker, round[w].at \in {"nudge", "alert"}, NoteDone(w)
    PROVE  /\ StoreType' /\ forgotten' \subseteq Alert \cup {"state"}
           /\ forgotten \subseteq forgotten'
           /\ told \ forgotten' \subseteq ToSet(mem'[w].sent)
           /\ "state" \notin forgotten' => mem'[w].marked = mem[w].marked
<1>1. /\ StoreType /\ RestType /\ round[w].done \in Seq(Alert) /\ lock = w /\ w # Nobody
      /\ w \in alive /\ Kept \subseteq ToSet(mem[w].sent) \cup ToSet(round[w].done)
  <2>1. StoreType /\ RestType /\ RoundFits(w) /\ round[w] \in Rounds /\ RecordInv
    BY DEF Parts, Fit, RestType
  <2> QED BY <2>1, NobodyAssumption DEF RoundFits, Rounds, RecordInv
<1> DEFINE old == Loaded(w)  done == round[w].done  new == Recorded(old, done)
<1>2. old \in Dbs /\ mem[w] \in Dbs
  BY <1>1, LoadedType
<1>3. CASE done = <<>>
  <2>1. UNCHANGED <<file, mem, fresh, dirty, late, forgotten>>
    BY <1>3 DEF NoteDone, store
  <2>2. ToSet(done) = {}
    BY <1>3 DEF ToSet
  <2> QED BY <1>1, <2>1, <2>2 DEF StoreType, RestType, Kept
<1>4. CASE done # <<>>
  <2>1. PICK t \in Table : new = [old EXCEPT !.sent = t]
    <3>1. old \in Db /\ old.sent \in Table
      BY <1>2 DEF Dbs
    <3> QED BY <1>1, <3>1, RecordedFacts
  <2> DEFINE lost == Reread(w) \cup (ToSet(old.sent) \ ToSet(new.sent))
                        \cup (ToSet(done) \ ToSet(new.sent))
  <2>2. Note(w, new, lost)
    BY <1>4 DEF NoteDone
  <2>3. new \in Dbs /\ new.marked = old.marked
    BY <1>2, <2>1 DEF Dbs, Db, Table
  <2> HIDE DEF new
  <2>4. ToSet(old.sent) \subseteq Alert /\ ToSet(done) \subseteq Alert
    BY <1>1, <1>2, DbFacts DEF ToSet
  <2>5. lost \subseteq Alert \cup {"state"} /\ Reread(w) = Lost(mem[w], old)
    BY <1>1, <2>4, RereadFacts
  <2>6. /\ Reread(w) \subseteq lost /\ ToSet(old.sent) \ ToSet(new.sent) \subseteq lost
        /\ ToSet(done) \ ToSet(new.sent) \subseteq lost
    OBVIOUS
  <2> HIDE DEF lost
  <2>7. StoreType' /\ \E left : Leaves(w, new, left, lost)
    BY <1>1, <2>2, <2>3, CallFacts
  <2>8. PICK left : Leaves(w, new, left, lost)
    BY <2>7
  <2>9. /\ left \in Dbs /\ mem'[w] = left /\ forgotten' \subseteq Alert \cup {"state"}
        /\ forgotten \cup lost \cup Lost(new, left) \subseteq forgotten'
    BY <1>1, <2>3, <2>5, <2>8, LeavesFacts
  <2>10. /\ ToSet(mem[w].sent) \ ToSet(old.sent) \subseteq forgotten'
         /\ ToSet(new.sent) \ ToSet(left.sent) \subseteq forgotten'
         /\ "state" \notin forgotten' => mem[w].marked = old.marked /\ new.marked = left.marked
    <3>1. Lost(mem[w], old) \subseteq forgotten' /\ Lost(new, left) \subseteq forgotten'
      BY <2>5, <2>6, <2>9
    <3> HIDE DEF old
    <3> QED BY <1>2, <2>3, <2>9, <3>1, NotLost
  <2>11. told \ forgotten' \subseteq ToSet(left.sent)
    BY <1>1, <2>6, <2>9, <2>10 DEF Kept
  <2> QED BY <2>3, <2>7, <2>9, <2>10, <2>11
<1> QED BY <1>3, <1>4

LEMMA EndRoundKeeps ==
    ASSUME Parts, NEW w \in Worker, EndNudges(w) \/ EndAlerts(w) PROVE Parts'
<1> DEFINE scan == Scanning("alert", OwnerAlert \ ToSet(mem'[w].sent))
<1>1. /\ NoteDone(w) /\ round[w].at \in {"nudge", "alert"}
      /\ round' = [round EXCEPT ![w] = Idle] \/ round' = [round EXCEPT ![w] = scan]
      /\ UNCHANGED <<on, auto, alive, lock, told, lastTold, overtaken, paid, now, troubles, writes>>
  BY DEF EndNudges, EndAlerts, Scanning, Due, settings, bounds
<1>2. /\ StoreType /\ RestType /\ Fit /\ on = "alerts" /\ lock = w /\ w \in alive /\ w # Nobody
  <2>1. StoreType /\ RestType /\ Fit /\ RoundFits(w)
    BY DEF Parts, Fit
  <2> QED BY <1>1, <2>1, NobodyAssumption DEF RoundFits
<1>3. /\ StoreType' /\ forgotten' \subseteq Alert \cup {"state"} /\ forgotten \subseteq forgotten'
      /\ told \ forgotten' \subseteq ToSet(mem'[w].sent)
      /\ "state" \notin forgotten' => mem'[w].marked = mem[w].marked
  BY <1>1, NoteDoneFacts
<1>4. /\ scan \in Rounds /\ scan.at = "alert" /\ scan.done = <<>>
      /\ scan.todo = OwnerAlert \ ToSet(mem'[w].sent)
  BY ScanningFacts DEF Alert
<1> HIDE DEF scan
<1>5. PICK new \in Rounds :
        /\ round' = [round EXCEPT ![w] = new]
        /\ new = Idle \/ new = scan
        /\ new.at # "tell" /\ new.todo \cap (told \ forgotten') = {}
  BY <1>1, <1>3, <1>4, IdleFacts
<1>6. round'[w] = new /\ \A v \in Worker : v # w => round'[v] = round[v]
  BY <1>2, <1>5 DEF RestType
<1>7. RestType'
  BY <1>1, <1>2, <1>3, <1>5 DEF RestType
<1>8. Fit'
  <2>1. RoundFits(w)'
    BY <1>1, <1>2, <1>4, <1>5, <1>6, IdleFacts DEF RoundFits
  <2> QED BY <1>1, <1>2, <1>5, <2>1, FitKeeps
<1>9. PlanInv' /\ PaidInv'
  BY <1>1, <1>2, <1>8, NoPlans
<1>10. Kept' = told \ forgotten'
  BY <1>1 DEF Kept
<1>11. RecordInv'
  BY <1>1, <1>2, <1>3, <1>10 DEF RecordInv
<1>12. TodoInv'
  <2>1. \A v \in Worker : v # w => round[v].todo = {}
    BY <1>2 DEF Fit, RoundFits
  <2> QED BY <1>5, <1>6, <1>10, <2>1 DEF TodoInv
<1>13. MarkInv'
  <2>1. SUFFICES ASSUME "state" \notin forgotten' PROVE MarkInv'
    BY DEF MarkInv
  <2>2. mem[w].marked <=> lastTold = "down"
    BY <1>1, <1>2, <1>3, <2>1, PartsOf DEF MarkInv, Agrees
  <2> QED BY <1>1, <1>2, <1>3, <1>5, <1>6, <2>1, <2>2 DEF MarkInv, Agrees
<1> QED BY <1>3, <1>7, <1>8, <1>9, <1>11, <1>12, <1>13 DEF Parts

LEMMA UnrecordedFacts ==
    ASSUME StoreType, RestType, NEW w \in Worker
    PROVE  /\ Unrecorded(w) \subseteq Alert \cup {"state"}
           /\ ToSet(round[w].done) \subseteq Unrecorded(w)
           /\ round[w].at = "tell" => "state" \in Unrecorded(w)
           /\ \A v \in alive : Lost(mem[w], Loaded(v)) \subseteq Unrecorded(w)
<1>1. round[w].done \in Seq(Alert)
  BY DEF RestType, Rounds
<1>2. ToSet(round[w].done) \subseteq Alert
  BY <1>1 DEF ToSet
<1>3. \A v \in alive : Lost(mem[w], Loaded(v)) \subseteq Alert \cup {"state"}
  BY LoadedType, LostType DEF RestType
<1> QED BY <1>2, <1>3 DEF Unrecorded

\* A round that ends in mid-air, while the store stays as it is.
LEMMA LoseRoundKeeps == ASSUME Parts, NEW w \in Worker, LoseRound(w) PROVE Parts'
<1>1. /\ Trouble /\ forgotten' = forgotten \cup Unrecorded(w)
      /\ round' = [round EXCEPT ![w] = Idle] /\ round[w].at \in {"nudge", "alert"}
      /\ UNCHANGED <<on, auto, alive, lock, file, mem, fresh, dirty, late, told, lastTold, overtaken>>
  BY DEF LoseRound, settings, store
<1>2. StoreType /\ RestType /\ Fit /\ round[w] \in Rounds /\ on = "alerts"
  <2>1. StoreType /\ RestType /\ Fit /\ RoundFits(w) /\ round[w] \in Rounds
    BY DEF Parts, Fit, RestType
  <2> QED BY <1>1, <2>1 DEF RoundFits
<1>3. troubles' \in 0..MaxTroubles /\ UNCHANGED <<paid, now, writes>>
  BY <1>1, <1>2, TroublesMore
<1>4. /\ ToSet(round[w].done) \subseteq forgotten' /\ forgotten \subseteq forgotten'
      /\ forgotten' \subseteq Alert \cup {"state"}
  BY <1>1, <1>2, UnrecordedFacts DEF RestType
<1>5. round'[w] = Idle /\ \A v \in Worker : v # w => round'[v] = round[v]
  BY <1>1, <1>2 DEF RestType
<1>6. StoreType' /\ RestType'
  BY <1>1, <1>2, <1>3, <1>4, IdleFacts DEF StoreType, RestType
<1>7. Fit'
  <2>1. RoundFits(w)'
    BY <1>5, IdleFacts DEF RoundFits
  <2> QED BY <1>1, <1>2, <2>1, FitKeeps
<1>8. RoundsGoOn
  BY <1>1, <1>4, <1>5, IdleFacts DEF RoundsGoOn
<1>9. RecordInv' /\ MarkInv' /\ PaidInv' /\ Kept' \subseteq Kept
  BY <1>1, <1>3, <1>4, <1>8, PartsOf, Aside
<1>10. TodoInv'
  BY <1>5, <1>9, IdleFacts, PartsOf, TodoKeeps
<1>11. PlanInv'
  BY <1>1, <1>2, <1>7, NoPlans
<1> QED BY <1>6, <1>7, <1>9, <1>10, <1>11 DEF Parts

(***************************************************************************)
(* Workers come and go.                                                    *)
(***************************************************************************)
\* What a crash and a stop have in common.
Departs(w) ==
    /\ w \in alive /\ alive' = alive \ {w} /\ lock' = IF lock = w THEN Nobody ELSE lock
    /\ round' = [round EXCEPT ![w] = Idle] /\ overtaken' = overtaken \ {w}
    /\ forgotten \cup Unrecorded(w) \subseteq forgotten' /\ Trouble
    /\ UNCHANGED <<on, auto, told, lastTold>>

LEMMA DepartsKeeps ==
    ASSUME Parts, NEW w \in Worker, Departs(w), forgotten' \subseteq Alert \cup {"state"}
    PROVE  RestType' /\ Fit' /\ TodoInv' /\ PlanInv' /\ Kept' \subseteq Kept
<1>1. StoreType /\ RestType /\ Fit
  BY DEF Parts
<1>2. troubles' \in 0..MaxTroubles /\ UNCHANGED <<paid, now, writes>>
  BY <1>1, TroublesMore DEF Departs
<1>3. round'[w] = Idle /\ \A v \in Worker : v # w => round'[v] = round[v]
  BY <1>1 DEF RestType, Departs
<1>4. RestType'
  BY <1>1, <1>2, IdleFacts DEF RestType, Departs
<1>5. Fit'
  <2>1. RoundFits(w)'
    BY <1>3, IdleFacts DEF RoundFits
  <2>2. ASSUME NEW v \in Worker, v # w PROVE RoundFits(v)'
    <3>1. round'[v] = round[v] /\ RoundFits(v)
      BY <1>1, <1>3, <2>2 DEF Fit
    <3> QED BY <2>2, <3>1 DEF RoundFits, Departs
  <2> QED BY <2>1, <2>2 DEF Fit
<1>6. Kept' \subseteq Kept
  BY KeptShrinks DEF Departs
<1>7. TodoInv'
  BY <1>3, <1>6, IdleFacts, PartsOf, TodoKeeps
<1>8. PlanInv'
  <2>1. now \in Nat
    BY <1>1 DEF RestType
  <2>2. \A v \in Worker : round'[v].at = "apply" =>
           /\ round[v].at = "apply" /\ round'[v].what = round[v].what
           /\ v \in overtaken => v \in overtaken'
    BY <1>3, IdleFacts DEF Departs
  <2> QED BY <1>1, <1>2, <2>1, <2>2, PartsOf, PlanKeeps DEF Departs
<1> QED BY <1>4, <1>5, <1>6, <1>7, <1>8

LEMMA CrashKeeps == ASSUME Parts, NEW w \in Worker, Crash(w) PROVE Parts'
<1>1. StoreType /\ RestType /\ Fit /\ w # Nobody /\ Nobody \notin Worker
  BY NobodyAssumption DEF Parts
<1>2. /\ Departs(w) /\ UNCHANGED <<file, mem, fresh, dirty>> /\ late' = late \ {w}
      /\ forgotten' = forgotten \cup Unrecorded(w) \cup Lost(mem[w], file)
  BY DEF Crash, Departs, settings
<1>3. mem[w] \in Dbs /\ file \in Dbs
  BY <1>1, LoadedType
<1>4. forgotten' \subseteq Alert \cup {"state"}
  BY <1>1, <1>2, <1>3, UnrecordedFacts, LostType DEF RestType
<1>5. RestType' /\ Fit' /\ TodoInv' /\ PlanInv' /\ Kept' \subseteq Kept
  BY <1>2, <1>4, DepartsKeeps
<1>6. StoreType'
  BY <1>1, <1>2 DEF StoreType
<1>7. round'[w] = Idle /\ \A v \in Worker : v # w => round'[v] = round[v]
  BY <1>1, <1>2 DEF RestType, Departs
<1>8. paid' = paid
  BY <1>1, <1>2, TroublesMore DEF Departs
<1>9. RecordInv' /\ MarkInv' /\ PaidInv'
  <2>1. CASE lock # w
    <3>1. round[w].at # "tell" /\ lock' = lock
      BY <1>1, <1>2, <2>1 DEF Fit, RoundFits, Departs
    <3>2. RoundsGoOn
      BY <1>1, <1>2, <1>7, <3>1, IdleFacts, UnrecordedFacts DEF RoundsGoOn, Departs
    <3> QED BY <1>2, <1>8, <3>1, <3>2, PartsOf, Aside DEF Departs
  <2>2. CASE lock = w
    <3>1. lock' = Nobody
      BY <1>2, <2>2 DEF Departs
    <3>2. ASSUME NEW x \in Views' PROVE x \in Views /\ x \in Dbs /\ Lost(mem[w], x) \subseteq forgotten'
      <4>1. CASE x = file
        BY <1>2, <1>3, <4>1 DEF Views
      <4>2. CASE x # file
        <5>1. PICK v \in alive' : x = Loaded(v)'
          BY <1>2, <4>2 DEF Views
        <5>2. v \in alive /\ v \in Worker /\ x = Loaded(v)
          BY <1>1, <1>2, <5>1 DEF Departs, RestType, Loaded
        <5> QED BY <1>1, <1>2, <5>2, LoadedType, UnrecordedFacts DEF Views
      <4> QED BY <4>1, <4>2
    <3>3. \A x \in Views' : /\ ToSet(mem[w].sent) \ ToSet(x.sent) \subseteq forgotten'
                            /\ "state" \notin forgotten' => x.marked = mem[w].marked
      BY <1>3, <3>2, NotLost
    <3>4. RecordInv'
      <4>1. Kept \subseteq ToSet(mem[w].sent) \cup ToSet(round[w].done)
        BY <1>1, <2>2, PartsOf DEF RecordInv
      <4>2. Kept' \cap forgotten' = {}
        BY DEF Kept
      <4>3. \A x \in Views' : Kept' \subseteq ToSet(x.sent)
        BY <1>1, <1>2, <1>5, <3>3, <4>1, <4>2, UnrecordedFacts
      <4> QED BY <3>1, <4>3 DEF RecordInv
    <3>5. MarkInv'
      <4>1. SUFFICES ASSUME "state" \notin forgotten' PROVE MarkInv'
        BY DEF MarkInv
      <4>2. round[w].at # "tell" /\ "state" \notin forgotten
        BY <1>1, <1>2, <4>1, UnrecordedFacts
      <4>3. mem[w].marked <=> lastTold = "down"
        BY <1>1, <2>2, <4>2, PartsOf DEF MarkInv, Agrees
      <4>4. \A x \in Views' : x.marked <=> lastTold' = "down"
        BY <1>2, <3>3, <4>1, <4>3 DEF Departs
      <4> QED BY <3>1, <4>4 DEF MarkInv, Agrees
    <3>6. PaidInv'
      BY <1>2, <1>8, <3>2, PartsOf DEF PaidInv, Departs
    <3> QED BY <3>4, <3>5, <3>6
  <2> QED BY <2>1, <2>2
<1> QED BY <1>5, <1>6, <1>9 DEF Parts

LEMMA StopKeeps == ASSUME Parts, NEW w \in Worker, Stop(w) PROVE Parts'
<1>1. StoreType /\ RestType /\ Fit /\ w # Nobody /\ Nobody \notin Worker
  BY NobodyAssumption DEF Parts
<1> DEFINE d == mem[w]
<1>2. /\ Departs(w) /\ file' = d /\ mem' = mem /\ late' = late \ {w}
      /\ fresh' = [v \in Worker |-> FALSE] /\ dirty' = [dirty EXCEPT ![w] = FALSE]
      /\ forgotten' = forgotten \cup Unrecorded(w) \cup Lost(file, d)
  BY DEF Stop, Departs, settings
<1>3. d \in Dbs /\ file \in Dbs
  BY <1>1, LoadedType
<1>4. forgotten' \subseteq Alert \cup {"state"}
  BY <1>1, <1>2, <1>3, UnrecordedFacts, LostType DEF RestType
<1>5. RestType' /\ Fit' /\ TodoInv' /\ PlanInv' /\ Kept' \subseteq Kept
  BY <1>2, <1>4, DepartsKeeps
<1>6. StoreType'
  BY <1>1, <1>2, <1>3 DEF StoreType
<1>7. round'[w] = Idle /\ \A v \in Worker : v # w => round'[v] = round[v] /\ mem'[v] = mem[v]
  BY <1>1, <1>2 DEF RestType, StoreType, Departs
<1>8. paid' = paid
  BY <1>1, <1>2, TroublesMore DEF Departs
<1>9. \A x \in Views' : x = d
  BY <1>1, <1>2 DEF Views, Loaded, Departs, StoreType, RestType
<1>10. /\ ToSet(file.sent) \ ToSet(d.sent) \subseteq forgotten'
       /\ "state" \notin forgotten' => file.marked = d.marked /\ file.expiry <= d.expiry
  BY <1>2, <1>3, NotLost
<1>11. Kept' \cap forgotten' = {} /\ file \in Views /\ forgotten \subseteq forgotten'
  BY <1>2 DEF Kept, Views
<1> HIDE DEF d
<1>12. RecordInv'
  <2>1. CASE lock \in {Nobody, w}
    <3>1. lock' = Nobody
      BY <1>2, <2>1 DEF Departs
    <3>2. Kept' \subseteq ToSet(d.sent)
      BY <1>1, <1>2, <1>5, <1>10, <1>11, <2>1, UnrecordedFacts, PartsOf DEF RecordInv, d
    <3> QED BY <1>9, <3>1, <3>2 DEF RecordInv
  <2>2. CASE lock \notin {Nobody, w}
    <3>1. lock' = lock /\ lock \in Worker
      BY <1>1, <1>2, <2>2 DEF Departs, RestType
    <3> QED BY <1>5, <1>7, <2>2, <3>1, PartsOf DEF RecordInv
  <2> QED BY <2>1, <2>2
<1>13. MarkInv'
  <2>1. SUFFICES ASSUME "state" \notin forgotten' PROVE MarkInv'
    BY DEF MarkInv
  <2>2. CASE lock \in {Nobody, w}
    <3>1. lock' = Nobody /\ lastTold' = lastTold
      BY <1>2, <2>2 DEF Departs
    <3>2. "state" \notin forgotten /\ round[w].at # "tell"
      BY <1>1, <1>2, <2>1, UnrecordedFacts
    <3>3. d.marked <=> lastTold = "down"
      BY <1>1, <1>10, <1>11, <2>1, <2>2, <3>2, PartsOf DEF MarkInv, Agrees, d
    <3> QED BY <1>9, <3>1, <3>3 DEF MarkInv, Agrees
  <2>3. CASE lock \notin {Nobody, w}
    <3>1. lock' = lock /\ lock \in Worker /\ lastTold' = lastTold
      BY <1>1, <1>2, <2>3 DEF Departs, RestType
    <3> QED BY <1>7, <1>11, <2>1, <2>3, <3>1, PartsOf DEF MarkInv, Agrees
  <2> QED BY <2>2, <2>3
<1>14. PaidInv'
  <2>1. SUFFICES ASSUME "state" \notin forgotten', on = "cleanup" PROVE PaidInv'
    BY <1>2 DEF PaidInv, Departs
  <2>2. paid <= file.expiry
    BY <1>11, <2>1, PartsOf DEF PaidInv
  <2>3. paid \in Nat /\ file.expiry \in Nat /\ d.expiry \in Nat
    BY <1>1, <1>3, DbFacts DEF RestType
  <2>4. paid <= d.expiry
    BY <1>10, <2>1, <2>2, <2>3
  <2> QED BY <1>8, <1>9, <2>4 DEF PaidInv
<1> QED BY <1>5, <1>6, <1>12, <1>13, <1>14 DEF Parts

LEMMA RestartKeeps == ASSUME Parts, NEW w \in Worker, Restart(w) PROVE Parts'
<1>1. StoreType /\ RestType /\ Fit /\ Nobody \notin Worker
  BY NobodyAssumption DEF Parts
<1>2. /\ w \notin alive /\ alive' = alive \cup {w} /\ file' = file
      /\ mem' = [mem EXCEPT ![w] = file] /\ fresh' = [fresh EXCEPT ![w] = TRUE]
      /\ dirty' = [dirty EXCEPT ![w] = FALSE] /\ late' = late
      /\ UNCHANGED <<on, auto, lock, round, told, lastTold, forgotten, overtaken>>
      /\ UNCHANGED <<paid, now, troubles, writes>>
  BY DEF Restart, settings, bounds
<1>3. StoreType' /\ RestType'
  BY <1>1, <1>2 DEF StoreType, RestType
<1>4. Fit'
  BY <1>1, <1>2 DEF Fit, RoundFits
<1>5. \A v \in Worker : v # w => mem'[v] = mem[v] /\ Loaded(v)' = Loaded(v)
  BY <1>1, <1>2 DEF StoreType, Loaded
<1>6. Loaded(w)' = file
  BY <1>1, <1>2 DEF StoreType, Loaded
<1>7. Views' \subseteq Views
  BY <1>1, <1>2, <1>5, <1>6 DEF Views, RestType
<1>8. lock # Nobody => lock \in Worker /\ lock # w
  BY <1>1, <1>2 DEF RestType
<1>9. Kept' = Kept
  BY <1>2 DEF Kept
<1>10. RecordInv' /\ TodoInv' /\ MarkInv' /\ PaidInv' /\ PlanInv'
  <2>1. RecordInv'
    BY <1>2, <1>5, <1>7, <1>8, <1>9, PartsOf DEF RecordInv
  <2>2. TodoInv'
    BY <1>2, <1>9, PartsOf DEF TodoInv
  <2>3. MarkInv'
    BY <1>2, <1>5, <1>7, <1>8, PartsOf DEF MarkInv, Agrees
  <2>4. PaidInv' /\ PlanInv'
    BY <1>2, <1>7, PartsOf DEF PaidInv, PlanInv
  <2> QED BY <2>1, <2>2, <2>3, <2>4
<1> QED BY <1>3, <1>4, <1>10 DEF Parts

LEMMA TellKeeps == ASSUME Parts, NEW w \in Worker, Tell(w) PROVE Parts'
<1> DEFINE what == round[w].what
<1>1. StoreType /\ RestType /\ Fit /\ w # Nobody /\ round[w] \in Rounds /\ mem[w] \in Dbs
  BY NobodyAssumption, LoadedType DEF Parts, RestType
<1>2. /\ round[w].at = "tell" /\ round' = [round EXCEPT ![w] = Idle]
      /\ UNCHANGED <<on, auto, alive, lock, file, mem, fresh, dirty, late, told, overtaken>>
  BY DEF Tell, settings, store
<1>3. on # "cleanup" /\ lock = w /\ what \in {"down", "up"}
  BY <1>1, <1>2 DEF Fit, RoundFits
<1>4. \/ /\ lastTold' = what /\ UNCHANGED <<paid, now, troubles, writes>>
         /\ forgotten' = forgotten
            \/ /\ forgotten' = forgotten \ {"state"}
               /\ {mem[w].marked, file.marked} = {what = "down"}
      \/ Trouble /\ forgotten' = forgotten \cup {"state"} /\ lastTold' = lastTold
  BY DEF Tell, bounds
<1>5. RestType' /\ StoreType'
  <2>1. /\ troubles' \in 0..MaxTroubles /\ UNCHANGED <<paid, now, writes>>
        /\ lastTold' \in {"none", "down", "up"} /\ forgotten' \subseteq Alert \cup {"state"}
    BY <1>1, <1>3, <1>4, TroublesMore DEF RestType
  <2> QED BY <1>1, <1>2, <2>1, IdleFacts DEF RestType, StoreType
<1>6. round'[w] = Idle /\ \A v \in Worker : v # w => round'[v] = round[v]
  BY <1>1, <1>2 DEF RestType
<1>7. Fit'
  <2>1. RoundFits(w)'
    BY <1>6, IdleFacts DEF RoundFits
  <2> QED BY <1>1, <1>2, <2>1, FitKeeps
<1>8. PlanInv' /\ PaidInv'
  BY <1>2, <1>3, <1>7, NoPlans
<1>9. Kept' = Kept
  BY <1>1, <1>2, <1>4, KindsAssumption DEF Kept, RestType, Alert
<1>10. RecordInv'
  <2>1. round[w].done = <<>>
    BY <1>1, <1>2 DEF Fit, RoundFits
  <2> QED BY <1>1, <1>2, <1>3, <1>6, <1>9, <2>1, IdleFacts, PartsOf DEF RecordInv
<1>11. TodoInv'
  BY <1>6, <1>9, IdleFacts, PartsOf, TodoKeeps
<1>12. MarkInv'
  <2>1. SUFFICES ASSUME "state" \notin forgotten' PROVE MarkInv'
    BY DEF MarkInv
  <2>2. lastTold' = what
    BY <1>4, <2>1
  <2>3. mem[w].marked <=> what = "down"
    <3>1. CASE "state" \in forgotten
      <4>1. {mem[w].marked, file.marked} = {what = "down"}
        BY <1>4, <2>1, <3>1
      <4>2. mem[w].marked = (what = "down")
        BY <4>1
      <4> QED BY <4>2
    <3>2. CASE "state" \notin forgotten
      BY <1>1, <1>2, <1>3, <3>2, PartsOf DEF MarkInv
    <3> QED BY <3>1, <3>2
  <2> QED BY <1>1, <1>2, <1>3, <1>6, <2>2, <2>3, IdleFacts DEF MarkInv, Agrees
<1> QED BY <1>5, <1>7, <1>8, <1>10, <1>11, <1>12 DEF Parts

LEMMA NextDayKeeps == ASSUME Parts, NextDay PROVE Parts'
<1>1. StoreType /\ RestType /\ Fit
  BY DEF Parts
<1>2. /\ now < MaxTime /\ now' = now + 1
      /\ UNCHANGED <<on, auto, alive, lock, file, mem, fresh, dirty, late, round, told, lastTold>>
      /\ UNCHANGED <<forgotten, overtaken, paid, troubles, writes>>
  BY DEF NextDay, settings, store
<1>3. now \in Nat /\ now' \in 0..MaxTime
  BY <1>1, <1>2, BoundsAssumption DEF RestType
<1>4. StoreType' /\ RestType' /\ Fit'
  BY <1>1, <1>2, <1>3 DEF StoreType, RestType, Fit, RoundFits
<1>5. RoundsGoOn
  BY <1>2 DEF RoundsGoOn
<1>6. RecordInv' /\ MarkInv' /\ PaidInv' /\ Kept' \subseteq Kept
  BY <1>2, <1>5, PartsOf, Aside
<1>7. TodoInv'
  BY <1>2, <1>6, PartsOf, TodoKeeps
<1>8. PlanInv'
  <2>1. now' \in Nat /\ now <= now'
    BY <1>2, <1>3
  <2> QED BY <1>2, <2>1, PartsOf, PlanKeeps
<1> QED BY <1>4, <1>6, <1>7, <1>8 DEF Parts

LEMMA CooldownKeeps == ASSUME Parts, NEW k \in Alert, CooldownPasses(k) PROVE Parts'
<1> DEFINE Older(d) == [d EXCEPT !.sent = Without(@, k)]
<1>1. StoreType /\ RestType /\ Fit /\ k # "state"
  BY KindsAssumption DEF Parts, Alert
<1>2. /\ \A w \in Worker : round[w].at = "idle"
      /\ Write /\ told' = told \ {k} /\ forgotten' = forgotten \ {k}
      /\ file' = Older(file) /\ mem' = [w \in Worker |-> Older(mem[w])]
      /\ UNCHANGED <<on, auto, alive, lock, fresh, dirty, late, round, lastTold, overtaken>>
  BY DEF CooldownPasses, settings
<1>3. ASSUME NEW d \in Dbs
      PROVE  /\ Older(d) \in Dbs /\ Older(d).marked = d.marked /\ Older(d).expiry = d.expiry
             /\ ToSet(Older(d).sent) = ToSet(d.sent) \ {k}
  <2>1. d.sent \in Table /\ d.sent \in Seq(Alert) /\ IsInjective(d.sent)
    BY DbFacts DEF Table
  <2>2. Older(d).sent = Without(d.sent, k) /\ Without(d.sent, k) \in Table
    BY <2>1, WithoutType DEF Dbs, Db
  <2>3. Without(d.sent, k) \in Seq(Alert)
    BY <2>2 DEF Table
  <2>4. Older(d) \in Dbs /\ Older(d).marked = d.marked /\ Older(d).expiry = d.expiry
    BY <2>2, <2>3 DEF Dbs, Db
  <2> QED BY <2>1, <2>2, <2>4, WithoutFacts
<1> HIDE DEF Older
<1>4. \A w \in Worker : round[w] = Idle /\ mem'[w] = Older(mem[w]) /\ Loaded(w)' = Older(Loaded(w))
  BY <1>1, <1>2 DEF Fit, RoundFits, Loaded, StoreType
<1>5. writes' \in 0..MaxWrites /\ UNCHANGED <<paid, now, troubles>>
  BY <1>1, <1>2, WritesMore
<1>6. StoreType' /\ RestType' /\ Fit'
  <2>1. StoreType'
    BY <1>1, <1>2, <1>3 DEF StoreType
  <2>2. RestType'
    BY <1>1, <1>2, <1>5 DEF RestType
  <2>3. Fit'
    BY <1>1, <1>2 DEF Fit, RoundFits
  <2> QED BY <2>1, <2>2, <2>3
<1>7. Kept' = Kept \ {k}
  BY <1>2 DEF Kept
<1>8. \A w \in Worker : mem[w] \in Dbs /\ Loaded(w) \in Dbs /\ file \in Dbs
  BY <1>1, LoadedType
<1>9. ASSUME NEW x \in Views' PROVE \E y \in Views : y \in Dbs /\ x = Older(y)
  <2>1. CASE x = file'
    BY <1>1, <1>2, <2>1 DEF Views, StoreType
  <2>2. CASE x # file'
    <3>1. PICK v \in alive' : x = Loaded(v)'
      BY <2>2 DEF Views
    <3>2. v \in alive /\ v \in Worker
      BY <1>1, <1>2, <3>1 DEF RestType
    <3> QED BY <1>4, <1>8, <3>1, <3>2 DEF Views
  <2> QED BY <2>1, <2>2
<1>10. lock # Nobody => lock \in Worker
  BY <1>1 DEF RestType
<1>11. RecordInv'
  <2>1. CASE lock = Nobody
    BY <1>2, <1>3, <1>7, <1>9, <2>1, PartsOf DEF RecordInv
  <2>2. CASE lock # Nobody
    <3>1. Kept \subseteq ToSet(mem[lock].sent)
      BY <1>4, <1>10, <2>2, IdleFacts, PartsOf DEF RecordInv
    <3>2. Kept' \subseteq ToSet(mem'[lock].sent)
      BY <1>3, <1>4, <1>7, <1>8, <1>10, <2>2, <3>1
    <3> QED BY <1>2, <2>2, <3>2 DEF RecordInv
  <2> QED BY <2>1, <2>2
<1>12. TodoInv' /\ PlanInv'
  BY <1>2, <1>4, IdleFacts DEF TodoInv, PlanInv
<1>13. MarkInv'
  <2>1. SUFFICES ASSUME "state" \notin forgotten' PROVE MarkInv'
    BY DEF MarkInv
  <2>2. "state" \notin forgotten
    BY <1>1, <1>2, <2>1
  <2>3. CASE lock = Nobody
    BY <1>2, <1>3, <1>9, <2>2, <2>3, PartsOf DEF MarkInv, Agrees
  <2>4. CASE lock # Nobody
    <3>1. mem[lock].marked <=> lastTold = "down"
      BY <1>2, <1>10, <2>2, <2>4, PartsOf DEF MarkInv, Agrees
    <3>2. mem'[lock].marked = mem[lock].marked /\ round'[lock].at # "tell"
      BY <1>2, <1>3, <1>4, <1>8, <1>10, <2>4
    <3> QED BY <1>2, <2>4, <3>1, <3>2 DEF MarkInv, Agrees
  <2> QED BY <2>3, <2>4
<1>14. PaidInv'
  <2>1. SUFFICES ASSUME "state" \notin forgotten', on = "cleanup" PROVE PaidInv'
    BY <1>2 DEF PaidInv
  <2>2. \A y \in Views : paid <= y.expiry
    BY <1>1, <1>2, <2>1, PartsOf DEF PaidInv
  <2>3. \A x \in Views' : paid' <= x.expiry
    BY <1>3, <1>5, <1>9, <2>2
  <2> QED BY <2>3 DEF PaidInv
<1> QED BY <1>6, <1>11, <1>12, <1>13, <1>14 DEF Parts

(***************************************************************************)
(* Changes of state.                                                       *)
(***************************************************************************)
\* What the worker that leads finds is what was told, or it was lost.
LEMMA Leads ==
    ASSUME StoreType, RestType, RecordInv, MarkInv, NEW w \in alive, lock \in {Nobody, w},
           round[w].done = <<>>, round[w].at # "tell", told' = told,
           forgotten \cup Lost(mem[w], Loaded(w)) \subseteq forgotten'
    PROVE  /\ Kept' \subseteq ToSet(Loaded(w).sent) /\ Kept' \subseteq Kept
           /\ "state" \notin forgotten' => (Loaded(w).marked <=> lastTold = "down")
<1>1. w \in Worker /\ w # Nobody /\ mem[w] \in Dbs /\ Loaded(w) \in Dbs
  BY LoadedType, NobodyAssumption DEF RestType
<1>2. /\ ToSet(mem[w].sent) \ ToSet(Loaded(w).sent) \subseteq forgotten'
      /\ "state" \notin forgotten' => mem[w].marked = Loaded(w).marked
  BY <1>1, NotLost
<1>3. /\ Kept' \subseteq Kept /\ Kept' \cap forgotten' = {}
      /\ "state" \notin forgotten' => "state" \notin forgotten
  BY DEF Kept
<1>4. Loaded(w) \in Views /\ ToSet(round[w].done) = {}
  BY DEF Views, ToSet
<1>5. CASE lock = Nobody
  BY <1>3, <1>4, <1>5 DEF RecordInv, MarkInv, Agrees
<1>6. CASE lock = w
  <2>1. Kept \subseteq ToSet(mem[w].sent)
    BY <1>1, <1>4, <1>6 DEF RecordInv
  <2>2. Kept' \subseteq ToSet(Loaded(w).sent)
    BY <1>2, <1>3, <2>1
  <2>3. "state" \notin forgotten' => (Loaded(w).marked <=> lastTold = "down")
    BY <1>1, <1>2, <1>3, <1>6 DEF MarkInv, Agrees
  <2> QED BY <1>3, <2>2, <2>3
<1> QED BY <1>5, <1>6

LEMMA ProbedFacts ==
    ASSUME NEW d \in Dbs, NEW ok \in BOOLEAN, auto \in BOOLEAN
    PROVE  LET new == Probed(d, ok)
           IN  new \in Dbs /\ new.sent = d.sent /\ new.expiry = d.expiry /\ new.exists = d.exists
<1> DEFINE fails == IF d.fails < Threshold THEN d.fails + 1 ELSE d.fails
           falls == fails >= Threshold /\ ~d.marked
           marked == d.marked \/ falls
           enabled == d.enabled /\ ~(falls /\ auto)
<1>1. d \in Db /\ d.sent \in Table /\ d.fails \in Nat /\ d.marked \in BOOLEAN /\ d.enabled \in BOOLEAN
  BY DbFacts DEF Dbs
<1>2. fails \in Nat /\ marked \in BOOLEAN /\ enabled \in BOOLEAN
  BY <1>1
<1>3. CASE ok
  <2>1. Probed(d, ok) = [d EXCEPT !.fails = 0, !.marked = FALSE]
    BY <1>3 DEF Probed
  <2>2. ASSUME NEW f \in Nat, NEW m \in BOOLEAN, Probed(d, ok) = [d EXCEPT !.fails = f, !.marked = m]
        PROVE  LET x == Probed(d, ok)
               IN  x \in Dbs /\ x.sent = d.sent /\ x.expiry = d.expiry /\ x.exists = d.exists
    BY <1>1, <2>2 DEF Dbs, Db
  <2> QED BY <2>1, <2>2
<1>4. CASE ~ok
  <2>1. Probed(d, ok) = [d EXCEPT !.fails = fails, !.marked = marked, !.enabled = enabled]
    BY <1>1, <1>4 DEF Probed, Db
  <2> HIDE DEF fails, marked, enabled
  <2> QED BY <1>1, <1>2, <2>1 DEF Dbs, Db
<1> QED BY <1>3, <1>4

LEMMA SweptFacts ==
    ASSUME NEW d \in Dbs, NEW over \in BOOLEAN, auto \in BOOLEAN
    PROVE  LET new == Swept(d, over)
           IN  /\ new \in Dbs /\ new.sent = d.sent /\ new.expiry = d.expiry
               /\ new.exists = d.exists /\ new.marked = over
<1> DEFINE enabled == d.enabled /\ ~(over /\ ~d.marked /\ auto)
<1>1. d \in Db /\ d.sent \in Table /\ d.marked \in BOOLEAN /\ d.enabled \in BOOLEAN
  BY DbFacts DEF Dbs
<1>2. enabled \in BOOLEAN
  BY <1>1
<1>3. Swept(d, over) = [d EXCEPT !.marked = over, !.enabled = enabled]
  BY <1>1 DEF Swept, Db
<1> HIDE DEF enabled
<1> QED BY <1>1, <1>2, <1>3 DEF Dbs, Db

LEMMA TransitionFacts ==
    ASSUME NEW a \in Dbs, NEW b \in Dbs
    PROVE  LET t == Transition(a, b)
           IN  /\ t \in {"none", "down", "up"} /\ (t = "none" <=> a.marked = b.marked)
               /\ t = "down" => b.marked /\ ~a.marked
               /\ t = "up" => a.marked /\ ~b.marked
BY DbFacts DEF Transition

LEMMA EndProbeKeeps == ASSUME Parts, NEW w \in Worker, EndProbe(w) PROVE Parts'
<1> DEFINE old == Loaded(w)
<1>1. PICK ok \in BOOLEAN :
        LET new == Probed(old, ok)  what == Transition(old, new)
        IN  /\ Note(w, new, Reread(w) \cup (IF round[w].asked THEN Lost(old, new) ELSE {}))
            /\ round' = [round EXCEPT ![w] =
                  IF what = "none" \/ round[w].asked THEN Idle ELSE Found("tell", what)]
  BY DEF EndProbe, Found
<1> DEFINE new == Probed(old, ok)  what == Transition(old, new)
<1>2. /\ StoreType /\ RestType /\ Fit /\ Nobody \notin Worker /\ w # Nobody
      /\ round[w] \in Rounds /\ round[w].at = "probe" /\ round[w].done = <<>>
      /\ w \in alive /\ on = "health" /\ (round[w].asked \/ lock = w)
  <2>1. StoreType /\ RestType /\ Fit /\ RoundFits(w) /\ round[w] \in Rounds /\ round[w].at = "probe"
    BY DEF Parts, Fit, RestType, EndProbe
  <2> QED BY <2>1, NobodyAssumption DEF RoundFits
<1>3. UNCHANGED <<on, auto, alive, lock, told, lastTold, overtaken, paid, now, troubles, writes>>
  BY DEF EndProbe, settings, bounds
<1>4. old \in Dbs /\ mem[w] \in Dbs
  BY <1>2, LoadedType
<1>5. new \in Dbs /\ new.sent = old.sent /\ new.expiry = old.expiry
  BY <1>2, <1>4, ProbedFacts DEF RestType
<1>6. /\ what \in {"none", "down", "up"} /\ (what = "none" <=> old.marked = new.marked)
      /\ what = "down" => new.marked /\ ~old.marked
      /\ what = "up" => old.marked /\ ~new.marked
  BY <1>4, <1>5, TransitionFacts
<1> HIDE DEF old, new, what
<1> DEFINE lost == Reread(w) \cup (IF round[w].asked THEN Lost(old, new) ELSE {})
<1>7. /\ Note(w, new, lost) /\ lost \subseteq Alert \cup {"state"}
      /\ Lost(mem[w], old) \subseteq lost /\ (round[w].asked => Lost(old, new) \subseteq lost)
  BY <1>1, <1>2, <1>4, <1>5, RereadFacts, LostType DEF old, new, what
<1> HIDE DEF lost
<1>8. PICK r : /\ round' = [round EXCEPT ![w] = r]
               /\ r = IF what = "none" \/ round[w].asked THEN Idle ELSE Found("tell", what)
  BY <1>1 DEF old, new, what
<1>9. /\ r \in Rounds /\ r.todo = {} /\ r.done = <<>>
      /\ r.at \in {"idle", "tell"} /\ (r.at = "idle" => r = Idle)
      /\ r.at = "tell" => what # "none" /\ ~round[w].asked /\ r.what = what
      /\ r.at # "tell" => what = "none" \/ round[w].asked
  BY <1>6, <1>8, IdleFacts, FoundFacts
<1>10. StoreType' /\ \E left : Leaves(w, new, left, lost)
  BY <1>2, <1>5, <1>7, CallFacts
<1>11. PICK left : Leaves(w, new, left, lost)
  BY <1>10
<1>12. /\ left \in Dbs /\ Writes(w, new, left) /\ mem'[w] = left
       /\ forgotten' \subseteq Alert \cup {"state"}
       /\ forgotten \subseteq forgotten' /\ lost \subseteq forgotten'
       /\ Lost(new, left) \subseteq forgotten'
  BY <1>2, <1>5, <1>7, <1>11, LeavesFacts
<1>13. RestType'
  BY <1>2, <1>3, <1>8, <1>9, <1>12 DEF RestType
<1>14. round'[w] = r /\ \A v \in Worker : v # w => round'[v] = round[v]
  BY <1>2, <1>8 DEF RestType
<1>15. Fit'
  <2>1. RoundFits(w)'
    BY <1>2, <1>3, <1>6, <1>9, <1>14 DEF RoundFits
  <2> QED BY <1>2, <1>3, <1>8, <2>1, FitKeeps
<1>16. PlanInv' /\ PaidInv'
  BY <1>2, <1>3, <1>15, NoPlans
<1>17. RecordInv' /\ MarkInv' /\ Kept' \subseteq Kept
  <2>1. CASE r.at # "tell"
    <3>1. Lost(old, new) \subseteq forgotten'
      <4>1. CASE what = "none"
        BY <1>4, <1>5, <1>6, <4>1, DbFacts, LostNothing
      <4>2. CASE round[w].asked
        BY <1>7, <1>12, <4>2
      <4> QED BY <1>9, <2>1, <4>1, <4>2
    <3>2. Lost(mem[w], new) \subseteq forgotten'
      BY <1>4, <1>5, <1>7, <1>12, <3>1, LostChain
    <3>3. RoundsGoOn
      <4>1. ToSet(round[w].done) = {}
        BY <1>2 DEF ToSet
      <4> QED BY <1>2, <1>14, <2>1, <4>1 DEF RoundsGoOn
    <3>4. lock' = lock /\ UNCHANGED <<on, alive, told, lastTold, paid>>
      BY <1>3
    <3>5. Covers(w, new, left)
      BY <1>12, <3>1, <3>2 DEF old, Covers
    <3> QED BY <1>2, <1>5, <1>10, <1>12, <3>3, <3>4, <3>5, PartsOf, Call
  <2>2. CASE r.at = "tell"
    <3>1. lock = w /\ what \in {"down", "up"} /\ r.what = what
      BY <1>2, <1>6, <1>9, <2>2
    <3>2. /\ Kept' \subseteq ToSet(old.sent) /\ Kept' \subseteq Kept
          /\ "state" \notin forgotten' => (old.marked <=> lastTold = "down")
      BY <1>2, <1>3, <1>7, <1>12, <3>1, PartsOf, Leads DEF old
    <3>3. /\ ToSet(new.sent) \ ToSet(left.sent) \subseteq forgotten'
          /\ "state" \notin forgotten' => new.marked = left.marked
      BY <1>5, <1>12, NotLost
    <3>4. RecordInv'
      <4>1. Kept' \subseteq ToSet(left.sent)
        BY <1>5, <3>2, <3>3 DEF Kept
      <4> QED BY <1>2, <1>3, <1>12, <3>1, <4>1 DEF RecordInv
    <3>5. MarkInv'
      BY <1>2, <1>3, <1>4, <1>5, <1>6, <1>14, <1>12, <2>2, <3>1, <3>2, <3>3, DbFacts DEF MarkInv
    <3> QED BY <3>2, <3>4, <3>5
  <2> QED BY <2>1, <2>2
<1>18. TodoInv'
  BY <1>9, <1>14, <1>17, PartsOf, TodoKeeps
<1> QED BY <1>10, <1>13, <1>15, <1>16, <1>17, <1>18 DEF Parts

LEMMA SweepKeeps == ASSUME Parts, NEW w \in Worker, Sweep(w) PROVE Parts'
<1> DEFINE old == Loaded(w)
<1>1. PICK over \in BOOLEAN :
        LET new == Swept(old, over)
        IN  \/ /\ Save(w, new, Reread(w)) /\ UNCHANGED bounds
               /\ lastTold' = IF Transition(old, new) = "up" THEN "up" ELSE lastTold
               /\ round' = IF Transition(old, new) # "down" THEN round
                           ELSE [round EXCEPT ![w] = Found("tell", "down")]
            \/ /\ Trouble /\ Touch(w, new, Reread(w) \cup Lost(old, new))
               /\ fresh' = [fresh EXCEPT ![w] = TRUE]
               /\ UNCHANGED <<file, dirty, late, lastTold, round>>
  BY DEF Sweep, Found
<1> DEFINE new == Swept(old, over)  what == Transition(old, new)
<1>2. /\ StoreType /\ RestType /\ Fit /\ Nobody \notin Worker /\ w # Nobody
      /\ round[w] = Idle /\ round[w] \in Rounds /\ w \in alive /\ on = "sharing"
      /\ lock \in {Nobody, w} /\ lock' = w
      /\ UNCHANGED <<on, auto, alive, told, overtaken>>
  <2>1. StoreType /\ RestType /\ Fit /\ RoundFits(w) /\ round[w] \in Rounds /\ round[w].at = "idle"
    BY DEF Parts, Fit, RestType, Sweep
  <2> QED BY <2>1, NobodyAssumption DEF RoundFits, Sweep, Lead, settings
<1>3. old \in Dbs /\ mem[w] \in Dbs
  BY <1>2, LoadedType
<1>4. new \in Dbs /\ new.sent = old.sent /\ new.expiry = old.expiry
  BY <1>2, <1>3, SweptFacts DEF RestType
<1>5. /\ what \in {"none", "down", "up"} /\ (what = "none" <=> old.marked = new.marked)
      /\ what = "down" => new.marked /\ ~old.marked
      /\ what = "up" => old.marked /\ ~new.marked
  BY <1>3, <1>4, TransitionFacts
<1> HIDE DEF old, new, what
<1>6. PICK lost : /\ \/ Save(w, new, lost)
                     \/ /\ Touch(w, new, lost) /\ fresh' = [fresh EXCEPT ![w] = TRUE]
                        /\ UNCHANGED <<file, dirty, late>>
                  /\ \/ /\ lost = Reread(w) /\ UNCHANGED <<paid, now, troubles, writes>>
                        /\ lastTold' = IF what = "up" THEN "up" ELSE lastTold
                        /\ round' = IF what # "down" THEN round
                                    ELSE [round EXCEPT ![w] = Found("tell", "down")]
                     \/ /\ lost = Reread(w) \cup Lost(old, new) /\ Trouble
                        /\ UNCHANGED <<lastTold, round>>
  BY <1>1 DEF old, new, what, bounds
<1>7. /\ lost \subseteq Alert \cup {"state"} /\ Lost(mem[w], old) \subseteq lost
      /\ StoreType' /\ \E left : Leaves(w, new, left, lost)
  <2>1. lost \subseteq Alert \cup {"state"} /\ Lost(mem[w], old) \subseteq lost
    BY <1>2, <1>3, <1>4, <1>6, RereadFacts, LostType DEF old
  <2>2. StoreType' /\ \E left : Leaves(w, new, left, lost)
    BY <1>2, <1>4, <1>6, CallFacts
  <2> QED BY <2>1, <2>2
<1>8. PICK left : Leaves(w, new, left, lost)
  BY <1>7
<1>9. /\ left \in Dbs /\ mem'[w] = left /\ forgotten' \subseteq Alert \cup {"state"}
      /\ forgotten \subseteq forgotten' /\ lost \subseteq forgotten'
      /\ Lost(new, left) \subseteq forgotten'
  BY <1>2, <1>4, <1>7, <1>8, LeavesFacts
<1>10. /\ troubles' \in 0..MaxTroubles /\ UNCHANGED <<paid, now, writes>>
      /\ lastTold' \in {"none", "down", "up"}
  BY <1>2, <1>6, TroublesMore DEF RestType
<1>11. PICK r : /\ r \in Rounds /\ r.todo = {} /\ r.done = <<>> /\ round' = [round EXCEPT ![w] = r]
                /\ \/ r = Idle
                   \/ r.at = "tell" /\ r.what = "down" /\ what = "down" /\ lastTold' = lastTold
  <2>1. CASE round' = round
    <3>1. round' = [round EXCEPT ![w] = Idle]
      BY <1>2, <2>1 DEF RestType
    <3> QED BY <3>1, IdleFacts
  <2>2. CASE round' # round
    BY <1>6, <2>2, FoundFacts
  <2> QED BY <2>1, <2>2
<1>12. RestType'
  BY <1>2, <1>9, <1>10, <1>11 DEF RestType
<1>13. round'[w] = r /\ \A v \in Worker : v # w => round'[v] = round[v]
  BY <1>2, <1>11 DEF RestType
<1>14. Fit'
  <2>1. RoundFits(w)'
    BY <1>2, <1>11, <1>13, IdleFacts DEF RoundFits
  <2> QED BY <1>2, <1>11, <2>1, FitKeeps
<1>15. PlanInv' /\ PaidInv'
  BY <1>2, <1>14, NoPlans
<1>16. /\ Kept' \subseteq ToSet(old.sent) /\ Kept' \subseteq Kept
       /\ "state" \notin forgotten' => (old.marked <=> lastTold = "down")
  BY <1>2, <1>7, <1>9, IdleFacts, PartsOf, Leads DEF old
<1>17. /\ ToSet(new.sent) \ ToSet(left.sent) \subseteq forgotten'
       /\ "state" \notin forgotten' => new.marked = left.marked
  BY <1>4, <1>9, NotLost
<1>18. RecordInv'
  <2>1. Kept' \subseteq ToSet(left.sent)
    BY <1>4, <1>16, <1>17 DEF Kept
  <2> QED BY <1>2, <1>9, <2>1 DEF RecordInv
<1>19. TodoInv'
  BY <1>11, <1>13, <1>16, PartsOf, TodoKeeps
<1>20. MarkInv'
  <2>1. SUFFICES ASSUME "state" \notin forgotten' PROVE MarkInv'
    BY DEF MarkInv
  <2>2. new.marked \in BOOLEAN /\ old.marked \in BOOLEAN /\ (old.marked <=> lastTold = "down")
    BY <1>3, <1>4, <1>16, <2>1, DbFacts
  <2>3. CASE r = Idle
    <3>1. new.marked <=> lastTold' = "down"
      <4>1. CASE UNCHANGED <<lastTold, round>> /\ lost = Reread(w) \cup Lost(old, new)
        <5>1. new.marked = old.marked
          <6>1. Lost(old, new) \subseteq forgotten'
            BY <1>9, <4>1
          <6> QED BY <1>3, <1>4, <2>1, <6>1, NotLost
        <5> QED BY <2>2, <4>1, <5>1
      <4>2. CASE /\ lastTold' = IF what = "up" THEN "up" ELSE lastTold
                 /\ what # "down"
        BY <1>5, <2>2, <4>2
      <4>3. CASE what = "down" /\ round' = [round EXCEPT ![w] = Found("tell", "down")]
        <5>1. round'[w].at = "tell"
          BY <1>2, <4>3, FoundFacts DEF RestType
        <5> QED BY <1>13, <2>3, <5>1, IdleFacts
      <4> QED BY <1>6, <4>1, <4>2, <4>3
    <3> QED BY <1>2, <1>9, <1>13, <1>17, <2>1, <2>3, <3>1, IdleFacts DEF MarkInv, Agrees
  <2>4. CASE r.at = "tell" /\ r.what = "down" /\ what = "down" /\ lastTold' = lastTold
    BY <1>2, <1>5, <1>9, <1>13, <1>17, <2>1, <2>2, <2>4 DEF MarkInv, Agrees
  <2> QED BY <1>11, <2>3, <2>4
<1> QED BY <1>7, <1>12, <1>14, <1>15, <1>18, <1>19, <1>20 DEF Parts

(***************************************************************************)
(* The cleanup.                                                            *)
(***************************************************************************)
\* What is planned is due.
LEMMA PlanFacts ==
    ASSUME NEW d \in Dbs, now \in Nat, NEW p \in Nat, p <= d.expiry, Plan(d) # "none"
    PROVE  Plan(d) \in {"disable", "delete"} /\ now >= p + Wait(Plan(d))
<1>1. d.expiry \in Nat /\ DeleteAfter \in Nat /\ DisableAfter \in Nat
  BY DbFacts, BoundsAssumption
<1>2. now >= d.expiry
  BY <1>1 DEF Plan
<1>3. CASE Plan(d) = "delete"
  <2>1. now - d.expiry >= DeleteAfter
    BY <1>3 DEF Plan
  <2> QED BY <1>1, <1>2, <1>3, <2>1 DEF Wait
<1>4. CASE Plan(d) # "delete"
  <2>1. Plan(d) = "disable" /\ now - d.expiry >= DisableAfter
    BY <1>4 DEF Plan
  <2> QED BY <1>1, <1>2, <2>1 DEF Wait
<1> QED BY <1>3, <1>4

LEMMA PlanCleanupKeeps == ASSUME Parts, NEW w \in Worker, PlanCleanup(w) PROVE Parts'
<1> DEFINE what == Plan(Loaded(w))  r == Found("apply", what)
<1>1. /\ Get(w) /\ what # "none"
      /\ round' = [round EXCEPT ![w] = r] /\ overtaken' = overtaken \ {w}
      /\ UNCHANGED <<on, auto, alive, told, lastTold, paid, now, troubles, writes>>
      /\ lock' = lock \/ (lock = Nobody /\ lock' = w)
      /\ w \in alive /\ on = "cleanup" /\ round[w].at = "idle"
  BY DEF PlanCleanup, Lead, Found, settings, bounds
<1>2. /\ StoreType /\ RestType /\ Fit /\ round[w] = Idle /\ Nobody \notin Worker
      /\ now \in Nat /\ paid \in Nat
  BY <1>1, NobodyAssumption DEF Parts, Fit, RoundFits, RestType
<1>3. /\ Loaded(w) \in Dbs /\ StoreType' /\ Writes(w, Loaded(w), Loaded(w))
      /\ Covers(w, Loaded(w), Loaded(w)) /\ forgotten' \subseteq Alert \cup {"state"}
      /\ forgotten' = forgotten \cup Lost(mem[w], Loaded(w)) /\ mem'[w] = Loaded(w)
  BY <1>1, <1>2, Reading
<1>4. what \in {"disable", "delete"}
  BY <1>1 DEF Plan
<1>5. /\ r \in Rounds /\ r.at = "apply" /\ r.todo = {} /\ r.what = what
      /\ r.done = <<>>
  BY <1>4, FoundFacts
<1> HIDE DEF r, what
<1>6. RestType'
  BY <1>1, <1>2, <1>3, <1>5 DEF RestType
<1>7. round'[w] = r /\ \A v \in Worker : v # w => round'[v] = round[v]
  BY <1>1, <1>2 DEF RestType
<1>8. Fit'
  <2>1. RoundFits(w)'
    BY <1>1, <1>4, <1>5, <1>7 DEF RoundFits
  <2> QED BY <1>1, <1>2, <2>1, FitKeeps
<1>9. RoundsGoOn
  BY <1>2, <1>5, <1>7, IdleFacts DEF RoundsGoOn
<1>10. RecordInv' /\ MarkInv' /\ PaidInv' /\ Kept' \subseteq Kept
  BY <1>1, <1>2, <1>3, <1>9, PartsOf, Call
<1>11. TodoInv'
  BY <1>5, <1>7, <1>10, PartsOf, TodoKeeps
<1>12. PlanInv'
  <2>1. "state" \in forgotten' \/ now >= paid + Wait(what)
    <3>1. SUFFICES ASSUME "state" \notin forgotten' PROVE now >= paid + Wait(what)
      OBVIOUS
    <3>2. Loaded(w) \in Views
      BY <1>1 DEF Views
    <3>3. paid <= Loaded(w).expiry
      BY <1>1, <1>3, <3>1, <3>2, PartsOf DEF PaidInv
    <3> QED BY <1>1, <1>2, <1>3, <3>3, PlanFacts DEF what
  <2>2. ASSUME NEW v \in Worker, round'[v].at = "apply"
        PROVE  v \in overtaken' \/ "state" \in forgotten' \/ now' >= paid' + Wait(round'[v].what)
    <3>1. CASE v = w
      BY <1>1, <1>5, <1>7, <2>1, <3>1
    <3>2. CASE v # w
      BY <1>1, <1>3, <1>7, <2>2, <3>2, PartsOf DEF PlanInv
    <3> QED BY <3>1, <3>2
  <2> QED BY <2>2 DEF PlanInv
<1> QED BY <1>3, <1>6, <1>8, <1>10, <1>11, <1>12 DEF Parts

LEMMA ApplyCleanupKeeps == ASSUME Parts, NEW w \in Worker, ApplyCleanup(w) PROVE Parts'
<1> DEFINE d == IF round[w].what = "delete" THEN [Loaded(w) EXCEPT !.exists = FALSE]
                ELSE [Loaded(w) EXCEPT !.enabled = FALSE]
<1>1. /\ Save(w, d, Reread(w))
      /\ round' = [round EXCEPT ![w] = Idle] /\ overtaken' = overtaken \ {w}
      /\ round[w].at = "apply"
      /\ UNCHANGED <<on, auto, alive, lock, told, lastTold, paid, now, troubles, writes>>
  BY DEF ApplyCleanup, settings, bounds
<1>2. StoreType /\ RestType /\ Fit /\ w \in alive /\ on = "cleanup" /\ round[w].done = <<>>
  <2>1. StoreType /\ RestType /\ Fit /\ RoundFits(w)
    BY DEF Parts, Fit
  <2> QED BY <1>1, <2>1 DEF RoundFits
<1>3. Loaded(w) \in Dbs /\ mem[w] \in Dbs
  BY <1>2, LoadedType
<1>4. d \in Dbs /\ Lost(Loaded(w), d) = {}
  BY <1>3, SwitchesOnly
<1> HIDE DEF d
<1>5. PICK left : Leaves(w, d, left, Reread(w))
  BY <1>1, <1>2, <1>4, CallFacts
<1>6. StoreType' /\ left \in Dbs /\ Writes(w, d, left)
  BY <1>1, <1>2, <1>4, <1>5, CallFacts DEF Leaves
<1>7. /\ forgotten' \subseteq Alert \cup {"state"}
      /\ forgotten \cup Reread(w) \cup Lost(d, left) \subseteq forgotten'
  BY <1>2, <1>4, <1>5, RereadFacts, LeavesFacts
<1>8. RestType'
  BY <1>1, <1>2, <1>7, IdleFacts DEF RestType
<1>9. round'[w] = Idle /\ \A v \in Worker : v # w => round'[v] = round[v]
  BY <1>1, <1>2 DEF RestType
<1>10. Fit'
  <2>1. RoundFits(w)'
    BY <1>9, IdleFacts DEF RoundFits
  <2> QED BY <1>1, <1>2, <2>1, FitKeeps
<1>11. RoundsGoOn
  <2>1. ToSet(round[w].done) = {}
    BY <1>2 DEF ToSet
  <2> QED BY <1>1, <1>9, <2>1, IdleFacts DEF RoundsGoOn
<1>12. RecordInv' /\ MarkInv' /\ PaidInv' /\ Kept' \subseteq Kept
  <2>1. Covers(w, d, left)
    BY <1>2, <1>4, <1>7, RereadCovers DEF Covers
  <2> QED BY <1>1, <1>2, <1>4, <1>6, <1>11, <2>1, PartsOf, Call
<1>13. TodoInv'
  BY <1>9, <1>12, IdleFacts, PartsOf, TodoKeeps
<1>14. PlanInv'
  <2>1. now \in Nat
    BY <1>2 DEF RestType
  <2>2. \A v \in Worker : round'[v].at = "apply" =>
           /\ round[v].at = "apply" /\ round'[v].what = round[v].what
           /\ v \in overtaken => v \in overtaken'
    BY <1>1, <1>9, IdleFacts
  <2> QED BY <1>1, <1>2, <1>7, <2>1, <2>2, PartsOf, PlanKeeps
<1> QED BY <1>6, <1>8, <1>10, <1>12, <1>13, <1>14 DEF Parts

LEMMA RenewKeeps == ASSUME Parts, NEW w \in Worker, Renew(w) PROVE Parts'
<1> DEFINE old == Loaded(w)
           until == (IF old.expiry > now THEN old.expiry ELSE now) + 1
           new == [old EXCEPT !.expiry = until]
<1>1. /\ w \in alive /\ on = "cleanup" /\ until <= MaxTime + 1
      /\ Save(w, new, Reread(w)) /\ writes < MaxWrites /\ writes' = writes + 1
      /\ paid' = (IF until > paid THEN until ELSE paid)
      /\ overtaken' = overtaken \cup {v \in Worker : round[v].at = "apply"}
      /\ UNCHANGED <<on, auto, alive, lock, round, told, lastTold, now, troubles>>
  BY DEF Renew, settings
<1>2. /\ StoreType /\ RestType /\ Fit /\ old \in Dbs /\ mem[w] \in Dbs
      /\ now \in Nat /\ paid \in Nat /\ MaxTime \in Nat
  BY LoadedType, BoundsAssumption DEF Parts, RestType
<1>3. until \in 0..(MaxTime + 1) /\ old.expiry < until
  <2>1. old.expiry \in Nat
    BY <1>2, DbFacts
  <2> QED BY <1>1, <1>2, <2>1
<1> HIDE DEF until
<1>4. new \in Dbs /\ new.sent = old.sent /\ new.marked = old.marked /\ new.expiry = until
  BY <1>2, <1>3 DEF Dbs, Db
<1> HIDE DEF new
<1>5. Lost(old, new) = {}
  <2>1. old.expiry \in Nat /\ old.expiry <= new.expiry
    BY <1>2, <1>3, <1>4, DbFacts
  <2> QED BY <1>2, <1>4, <2>1, LostNothing
<1>6. Lost(Loaded(w), new) \subseteq Reread(w) /\ Lost(mem[w], new) \subseteq Reread(w)
  BY <1>2, <1>4, <1>5, RereadCovers DEF old
<1>7. StoreType' /\ \E left : Leaves(w, new, left, Reread(w))
  BY <1>1, <1>2, <1>4, CallFacts
<1>8. PICK left : Leaves(w, new, left, Reread(w))
  BY <1>7
<1>9. /\ left \in Dbs /\ Writes(w, new, left) /\ mem'[w] = left
      /\ forgotten' \subseteq Alert \cup {"state"}
      /\ forgotten \cup Reread(w) \cup Lost(new, left) \subseteq forgotten'
  BY <1>2, <1>4, <1>8, RereadFacts, LeavesFacts
<1>10. RestType' /\ Fit'
  <2>1. /\ paid' \in 0..(MaxTime + 1) /\ overtaken' \in SUBSET Worker
        /\ writes' \in 0..MaxWrites
    BY <1>1, <1>2, <1>3, BoundsAssumption DEF RestType
  <2> QED BY <1>1, <1>2, <1>9, <2>1 DEF RestType, Fit, RoundFits
<1>11. RecordInv' /\ MarkInv' /\ Kept' \subseteq Kept
  <2>1. RoundsGoOn
    BY <1>1 DEF RoundsGoOn
  <2>2. Covers(w, new, left)
    BY <1>6, <1>9 DEF Covers
  <2> QED BY <1>1, <1>2, <1>4, <1>7, <1>9, <2>1, <2>2, PartsOf, CallTells
<1>12. TodoInv'
  BY <1>1, <1>11, PartsOf, TodoKeeps
<1>13. PaidInv'
  <2>1. SUFFICES ASSUME "state" \notin forgotten' PROVE PaidInv'
    BY DEF PaidInv
  <2>2. paid <= old.expiry
    <3>1. old \in Views
      BY <1>1 DEF Views
    <3> QED BY <1>1, <1>9, <2>1, <3>1, PartsOf DEF PaidInv
  <2>3. paid' <= until
    <3>1. old.expiry \in Nat /\ until \in Nat
      BY <1>2, <1>3, DbFacts
    <3> QED BY <1>1, <1>2, <1>3, <2>2, <3>1
  <2>4. until <= left.expiry
    BY <1>4, <1>9, <2>1, NotLost
  <2>5. paid' \in Nat /\ until \in Nat /\ left.expiry \in Nat
    BY <1>1, <1>2, <1>3, <1>9, DbFacts
  <2>6. \A x \in Views' : x = new \/ x = left
    BY <1>1, <1>2, <1>4, <1>9 DEF Views, Loaded, Save, StoreType, RestType
  <2> QED BY <1>4, <2>3, <2>4, <2>5, <2>6 DEF PaidInv
<1>14. PlanInv'
  BY <1>1 DEF PlanInv
<1> QED BY <1>7, <1>10, <1>11, <1>12, <1>13, <1>14 DEF Parts

(***************************************************************************)
(* The invariant, and what follows.                                        *)
(***************************************************************************)
LEMMA InvIsParts == Inv <=> Parts
BY TypeSplit DEF Inv, Parts, Fit

LEMMA InitKeeps == ASSUME Init PROVE Parts
<1> DEFINE d == [sent |-> <<>>, fails |-> 0, marked |-> FALSE, enabled |-> TRUE,
                 expiry |-> 1, exists |-> TRUE]
<1>1. /\ on \in {"alerts", "health", "sharing", "cleanup"} /\ auto \in BOOLEAN
      /\ alive = Worker /\ lock = Nobody /\ file = d /\ mem = [w \in Worker |-> file]
      /\ fresh = [w \in Worker |-> TRUE] /\ dirty = [w \in Worker |-> FALSE]
      /\ late = {}
      /\ round = [w \in Worker |-> Idle] /\ told = {} /\ lastTold = "none"
      /\ forgotten = {} /\ overtaken = {} /\ paid = file.expiry
      /\ now = 0 /\ troubles = 0 /\ writes = 0
  BY DEF Init
<1>2. d.sent = <<>> /\ d.marked = FALSE /\ d.expiry = 1
  OBVIOUS
<1>3. MaxTime \in Nat /\ MaxTroubles \in Nat /\ MaxWrites \in Nat /\ MaxRecords \in Nat
  BY BoundsAssumption
<1>4. d \in Dbs
  <2>1. <<>> \in Seq(Alert) /\ Len(<<>>) = 0 /\ DOMAIN <<>> = {}
    OBVIOUS
  <2>2. <<>> \in Table
    BY <1>3, <2>1 DEF Table, IsInjective
  <2>3. ASSUME NEW s \in Table
        PROVE  [sent |-> s, fails |-> 0, marked |-> FALSE, enabled |-> TRUE,
                expiry |-> 1, exists |-> TRUE] \in Dbs
    <3>1. s \in Seq(Alert) /\ 1 \in 0..(MaxTime + 1)
      BY <1>3 DEF Table
    <3> QED BY <3>1 DEF Dbs, Db
  <2> QED BY <2>2, <2>3
<1> HIDE DEF d
<1>5. StoreType
  BY <1>1, <1>4 DEF StoreType
<1>6. RestType
  BY <1>1, <1>2, <1>3, IdleFacts DEF RestType
<1>7. Fit
  BY <1>1, IdleFacts DEF Fit, RoundFits
<1>8. \A x \in Views : x = d
  BY <1>1 DEF Views, Loaded
<1>9. Kept = {}
  BY <1>1 DEF Kept
<1>10. RecordInv /\ TodoInv
  BY <1>1, <1>9 DEF RecordInv, TodoInv
<1>11. MarkInv
  BY <1>1, <1>2, <1>8 DEF MarkInv, Agrees
<1>12. PaidInv
  BY <1>1, <1>2, <1>8 DEF PaidInv
<1>13. PlanInv
  BY <1>1, IdleFacts DEF PlanInv
<1> QED BY <1>5, <1>6, <1>7, <1>10, <1>11, <1>12, <1>13 DEF Parts

LEMMA NextKeeps == ASSUME Parts, Next PROVE Parts'
<1>1. ASSUME NEW w \in Worker, Alerts(w) PROVE Parts'
  BY <1>1, StartRoundKeeps, EndRoundKeeps, SendKeeps DEF Alerts
<1>2. ASSUME NEW w \in Worker, StartProbe(w) \/ EndProbe(w) \/ Tell(w) \/ Relist(w)
      PROVE  Parts'
  BY <1>2, StartProbeKeeps, EndProbeKeeps, TellKeeps, SwitchOnKeeps
<1>3. ASSUME NEW w \in Worker, PlanCleanup(w) \/ ApplyCleanup(w) \/ Renew(w) \/ Enable(w)
      PROVE  Parts'
  BY <1>3, PlanCleanupKeeps, ApplyCleanupKeeps, RenewKeeps, SwitchOnKeeps
<1>4. ASSUME NEW w \in Worker, LoseRound(w) \/ Sweep(w) \/ OtherCall(w) \/ Flush(w)
      PROVE  Parts'
  BY <1>4, LoseRoundKeeps, SweepKeeps, OtherCallKeeps, FlushKeeps
<1>5. ASSUME NEW w \in Worker, Return(w) \/ Crash(w) \/ Stop(w) \/ Restart(w) PROVE Parts'
  BY <1>5, ReturnKeeps, CrashKeeps, StopKeeps, RestartKeeps
<1>6. ASSUME NEW k \in Alert, CooldownPasses(k) PROVE Parts'
  BY <1>6, CooldownKeeps
<1>7. CASE NextDay
  BY <1>7, NextDayKeeps
<1> QED BY <1>1, <1>2, <1>3, <1>4, <1>5, <1>6, <1>7 DEF Next

LEMMA StutterKeeps == ASSUME Parts, UNCHANGED vars PROVE Parts'
<1>1. /\ UNCHANGED <<on, auto, alive, lock, file, mem, fresh, dirty, late, round, told, lastTold>>
      /\ UNCHANGED <<forgotten, paid, overtaken, now, troubles, writes>>
  BY DEF vars
<1>2. Kept' = Kept /\ Views' = Views
  BY <1>1 DEF Kept, Views, Loaded
<1>3. StoreType' /\ RestType' /\ Fit'
  BY <1>1 DEF Parts, StoreType, RestType, Fit, RoundFits
<1>4. RecordInv' /\ TodoInv' /\ MarkInv' /\ PaidInv' /\ PlanInv'
  BY <1>1, <1>2, PartsOf DEF RecordInv, TodoInv, MarkInv, Agrees, PaidInv, PlanInv
<1> QED BY <1>3, <1>4 DEF Parts

\* What was told is on record with whoever leads or takes over, the mark is what the
\* seller was told, no view of an account is older than its renewal, and what a
\* cleanup plans is due -- or it was lost, or overtaken, on a way that is named.
THEOREM Invariance == Spec => []Inv
<1>1. Init => Inv
  BY InitKeeps, InvIsParts
<1>2. Inv /\ [Next]_vars => Inv'
  <2>1. Parts /\ [Next]_vars => Parts'
    BY NextKeeps, StutterKeeps
  <2>2. Inv' <=> Parts'
    BY InvIsParts, PTL
  <2> QED BY <2>1, <2>2, InvIsParts
<1> QED BY <1>1, <1>2, PTL DEF Spec

\* Every variable keeps its type; the lock's holder runs, and the table of alerts
\* holds at most MAX_ALERT_RECORDS, each once.
THEOREM TypeCorrect == Spec => []TypeOK
<1>1. Inv => TypeOK
  BY DEF Inv
<1> QED BY <1>1, Invariance, PTL

\* When the worker that leads takes an entry point for dead or an account for shared,
\* the last thing the seller was told is that, or the message or the record was lost.
THEOREM SellerIsInformed == Spec => []SellerKnows
<1>1. Inv => SellerKnows
  <2> SUFFICES ASSUME Inv, NEW w \in Worker, lock = w, mem[w].marked, round[w].at # "tell",
                      "state" \notin forgotten
               PROVE  lastTold = "down"
    BY DEF SellerKnows
  <2> QED BY NobodyAssumption DEF Inv, MarkInv, Agrees
<1> QED BY <1>1, Invariance, PTL

\* Whoever leads, nobody is told a thing again within its cooldown, and the seller is
\* not told one change of state twice, unless the record that it was told was lost.
THEOREM NobodyIsToldTwice == Spec => ToldOnce
<1> DEFINE Step == /\ \A w \in Worker, k \in Alert :
                        (SendNudge(w, k) \/ SendAlert(w, k)) /\ k \in told /\ UNCHANGED troubles
                           => k \in forgotten
                   /\ \A w \in Worker :
                        Tell(w) /\ round[w].what = lastTold /\ UNCHANGED troubles
                           => "state" \in forgotten
<1>1. Inv => Step
  <2>1. ASSUME Inv, NEW w \in Worker, NEW k \in Alert, SendNudge(w, k) \/ SendAlert(w, k), k \in told
        PROVE  k \in forgotten
    <3>1. k \in round[w].todo /\ TodoInv
      BY <2>1 DEF Inv, SendNudge, SendAlert
    <3> QED BY <2>1, <3>1 DEF TodoInv, Kept
  <2>2. ASSUME Inv, NEW w \in Worker, Tell(w), round[w].what = lastTold
        PROVE  "state" \in forgotten
    <3>1. round[w].at = "tell" /\ RoundFits(w) /\ MarkInv
      BY <2>2 DEF Inv, Tell
    <3>2. lock = w /\ w # Nobody
      BY <3>1, NobodyAssumption DEF RoundFits
    <3> QED BY <2>2, <3>1, <3>2 DEF MarkInv
  <2> QED BY <2>1, <2>2
<1>2. ToldOnce <=> [][Step]_vars
  BY DEF ToldOnce
<1> HIDE DEF Step
<1>3. Inv => [Step]_vars
  BY <1>1
<1> QED BY <1>2, <1>3, Invariance, PTL

\* A cleanup takes an account from nobody who has paid, unless the renewal came
\* between its plan and its mutation, or was itself lost in the store on a way that
\* forgotten records.
THEOREM ThePaidAreSpared == Spec => CleanupSparesThePaid
<1> DEFINE Step == \A w \in Worker : ApplyCleanup(w) =>
              \/ now >= paid + (IF round[w].what = "delete" THEN DeleteAfter ELSE DisableAfter)
              \/ w \in overtaken \/ "state" \in forgotten
<1>1. Inv => Step
  <2>1. ASSUME Inv, NEW w \in Worker, ApplyCleanup(w)
        PROVE  \/ now >= paid + Wait(round[w].what) \/ w \in overtaken \/ "state" \in forgotten
    <3>1. round[w].at = "apply" /\ PlanInv
      BY <2>1 DEF Inv, ApplyCleanup
    <3> QED BY <3>1 DEF PlanInv
  <2> QED BY <2>1 DEF Wait
<1>2. CleanupSparesThePaid <=> [][Step]_vars
  BY DEF CleanupSparesThePaid
<1> HIDE DEF Step
<1>3. Inv => [Step]_vars
  BY <1>1
<1> QED BY <1>2, <1>3, Invariance, PTL
=============================================================================
