---------------------------- MODULE AccessProofs ----------------------------
(***************************************************************************)
(* Access: sessions follow accounts and passwords, the checks made before  *)
(* an await are exceeded by no more than what is under way at once, and    *)
(* only overlapping requests of named kinds break what one of them has     *)
(* checked -- for any number of requests, resellers and names.             *)
(***************************************************************************)
EXTENDS Access, FiniteSetTheorems, WellFoundedInduction, TLAPS

(***************************************************************************)
(* The inductive invariant.                                                *)
(***************************************************************************)
UnderWay == {r \in Request : req[r] # Free}
Doing(kind) == {r \in Request : req[r].kind = kind}

\* A slot is free, or its request has a kind, and the name or the reseller that
\* its kind is about.
SlotInv ==
    \A r \in Request :
        /\ req[r] # Free <=> req[r].kind # "none"
        /\ req[r].kind \in {"setup", "login", "hire"} => req[r].name \in Name
        /\ req[r].kind = "create" => req[r].who \in Reseller

\* Requests of racing kinds that are under way together have been noted.
RaceInv == \A r, o \in UnderWay :
             r # o /\ {req[r].kind, req[o].kind} \in Races
               => Overlapped(req[r].kind, req[o].kind)

\* Each request still to be applied leaves room for what it may count up.
CountInv ==
    LET left == Cardinality(UnderWay)
    IN  /\ hashes >= 2
        /\ hashes + left <= begun + 2 /\ secrets + left <= begun + 1
        /\ epoch + left <= begun /\ founded + left <= begun /\ tries + left <= begun
        /\ \A s \in Reseller : rows[s] + left <= begun + MaxUsers
        /\ \A c \in Secret : uses[c] + left <= begun

\* Until the address is locked the failures are counted; from then on they are
\* those of the logins already under way.
LockInv ==
    /\ attempts.count < MaxAttempts
    /\ IF attempts.locked
       THEN tries + Cardinality(Doing("login")) < MaxAttempts + Cardinality(Request)
       ELSE tries <= attempts.count

\* The codes in force have not been used, and sets to come are unknown.
Carrying(c) == {r \in Doing("login") : req[r].code = c}
CodeInv ==
    /\ twofa.codes # 0 => uses[twofa.codes] = 0
    /\ twofa.codes <= secrets /\ uses[0] = 0
    /\ \A c \in Secret \ {0} :
         /\ c > secrets => uses[c] = 0 /\ Carrying(c) = {}
         /\ uses[c] + Cardinality(Carrying(c)) <= Cardinality(Request)

CreatingFor(s) == {r \in Doing("create") : req[r].who = s}
QuotaInv ==
    \A s \in Reseller :
        rows[s] + Cardinality(CreatingFor(s)) < MaxUsers + Cardinality(Request)

\* Who works has a password, and was hired by a known owner, before all the ids
\* that are still to be given out.
StaffInv ==
    /\ Doing("hire") # {} => Known
    /\ \A s \in Reseller :
         /\ Works(s) => reseller[s].pw # 0
         /\ reseller[s].state # "none" => Known
         /\ \A t \in Reseller : s <= t /\ reseller[t].state # "none"
                                   => reseller[s].state # "none"

\* A login that succeeds is that of an account whose password was given and has
\* not changed since, and the name still leads to it.
LoginInv ==
    \A r \in Doing("login") :
        req[r].ok /\ ~LoginRaced =>
            /\ req[r].pw = Fingerprint(req[r].who).pw
            /\ req[r].who # Owner =>
                 /\ Named(req[r].name) # {}
                 /\ First(Named(req[r].name)) = req[r].who
CookieInv ==
    cookie.pw # 0 => \/ cookie.by = cookie.role /\ cookie.knew = cookie.pw
                     \/ LoginRaced

\* What each request has checked, and still needs when it is applied.
SecretInv ==
    Doing("enable") # {} => \/ twofa.secret \in confirmed
                            \/ Overlapped("enrol", "enable") \/ Overlapped("enable", "disable")
CreateInv ==
    \A r \in Doing("create") : Works(req[r].who) \/ Overlapped("create", "fire")
NameInv ==
    \/ HireRaced
    \/ /\ \A r \in Doing("hire") : req[r].name # admin.name /\ Named(req[r].name) = {}
       /\ \A r \in Doing("password") :
            req[r].stage = "lock" /\ req[r].who = Owner /\ req[r].name # NoName
              => Named(req[r].name) = {}
       /\ Doing("setup") # {} => \A s \in Reseller : ~Works(s)
SetupInv ==
    \/ Overlapped("setup", "setup")
    \/ founded = 0
    \/ founded = 1 /\ Known /\ Doing("setup") = {}

ChecksInv == LockInv /\ CodeInv /\ QuotaInv
SessionInv == StaffInv /\ LoginInv /\ CookieInv
NeedsInv == SecretInv /\ CreateInv /\ NameInv /\ SetupInv
IInv ==
    /\ TypeOK /\ SlotInv /\ CountInv /\ RaceInv
    /\ ChecksInv /\ SessionInv /\ NeedsInv /\ OnlyOverlapsBreak

Req == [kind : Kind \cup {"none"}, stage : {"none", "kdf", "lock"},
        who : Account, name : Name \cup {NoName}, pw : Hash, ok : BOOLEAN, code : Secret]

(***************************************************************************)
(* What the operators of Access give.                                      *)
(***************************************************************************)

Person == [state : {"none", "on", "off", "gone"}, name : Name, pw : Hash]
Cookie == [role : Account, name : Name, pw : Hash, epoch : 0..MaxRequests,
           by : Account, knew : Hash]
Factor == [enabled : BOOLEAN, secret : Secret, codes : Secret]
Held ==
    /\ admin \in [name : Name, pw : Hash]
    /\ reseller \in [Reseller -> Person]
    /\ twofa \in Factor
    /\ attempts \in [count : 0..MaxAttempts, locked : BOOLEAN]
    /\ cookie \in Cookie

LEMMA Zeros == 0 \in Hash /\ 0 \in Secret /\ 0 \in 0..MaxRequests /\ Owner \in Account
BY BoundsAssumption DEF Hash, Secret, Owner, Account

LEMMA FreeType == Free \in Req /\ Free.kind = "none" /\ Free.stage = "none"
BY Zeros DEF Free, Req

LEMMA PlainFields ==
    ASSUME NEW kind \in Kind, NEW stage \in {"kdf", "lock"}
    PROVE  /\ Plain(kind, stage) \in Req
           /\ Plain(kind, stage).kind = kind /\ Plain(kind, stage).stage = stage
           /\ Plain(kind, stage).who = Owner /\ Plain(kind, stage).name = NoName
           /\ Plain(kind, stage).code = 0
<1>1. Free \in Req
  BY FreeType
<1> QED BY <1>1 DEF Plain, Free, Req

\* reseller_by_username finds the first, if there is any.
LEMMA FirstIsFirst ==
    ASSUME NEW S \in SUBSET Reseller, S # {}
    PROVE  First(S) \in S /\ \A t \in S : First(S) <= t
<1>1. S \subseteq Nat
  BY DEF Reseller
<1>2. PICK s \in S : \A t \in S : ~(<<t, s>> \in OpToRel(<, Nat))
  BY <1>1, NatLessThanWellFounded, WFMin
<1>3. \A t \in S : t < s => <<t, s>> \in OpToRel(<, Nat)
  BY <1>1 DEF OpToRel
<1>4. \A t \in S : ~(t < s)
  BY <1>2, <1>3, Zenon
<1>5. \A t \in S : s <= t
  BY <1>1, <1>4
<1> QED BY <1>5 DEF First

(***************************************************************************)
(* The three kinds of step of a request, and what each may do to its slot. *)
(***************************************************************************)
Begins(r) ==
    \/ \E n \in Name : BeginSetup(r, n) \/ BeginHire(r, n)
                         \/ \E pw \in 0..hashes : BeginLogin(r, n, pw)
    \/ \E kind \in Kind : BeginPlain(r, kind) \/ BeginFactor(r, kind)
    \/ \E who \in Account, n \in Name \cup {NoName} : BeginPassword(r, who, n)
    \/ \E s \in Reseller : BeginCreate(r, s)
    \/ BeginEnrol(r) \/ BeginEnable(r)
Verifies(r) == VerifyLogin(r) \/ VerifyPassword(r) \/ VerifyFactor(r)
Applies(r) ==
    \/ ApplySetup(r) \/ RecordFailure(r) \/ RecordSuccess(r) \/ ApplyLogout(r)
    \/ ApplyPassword(r) \/ ApplyHire(r) \/ ApplyPatch(r) \/ ApplyFire(r) \/ ApplyCreate(r)
    \/ \E kind \in {"enrol", "enable", "disable", "codes"} : ApplyFactor(r, kind)

LEMMA NextIs ==
    Next <=> (\E r \in Request : Begins(r) \/ Verifies(r) \/ Applies(r)) \/ LockEnds
BY DEF Next, Begins, Verifies, Applies

\* A request begins in a free slot, and is noted with those under way.
BeginEffect(r) ==
    /\ req[r] = Free /\ req' \in [Request -> Req]
    /\ \A o \in Request \ {r} : req'[o] = req[o]
    /\ begun < MaxRequests /\ begun' = begun + 1
    /\ overlap' = overlap \cup (Races \cap {{req'[r].kind, req[o].kind} : o \in UnderWay})
    /\ UNCHANGED <<accounts, lockout, cookie, hashes, twofa, secrets, uses>>
    /\ confirmed \subseteq confirmed' /\ confirmed' \subseteq confirmed \cup {twofa.secret}

\* What has been checked of the request q that begins.
Checked(q) ==
    /\ q.kind \in Kind
    /\ q.kind \in {"setup", "login", "hire"} => q.name \in Name
    /\ q.kind = "setup" => ~Known
    /\ q.kind \in {"hire", "password"} => Known
    /\ q.kind = "password" => q.stage = "kdf"
    /\ q.kind = "login" =>
         /\ ~attempts.locked /\ q.code = 0
         /\ q.ok => /\ q.pw = Fingerprint(q.who).pw
                    /\ q.who # Owner => /\ Named(q.name) # {}
                                        /\ First(Named(q.name)) = q.who
    /\ q.kind = "enable" => twofa.secret \in confirmed'
    /\ q.kind = "hire" => q.name # admin.name /\ Named(q.name) = {}
    /\ q.kind = "create" => q.who \in Reseller /\ Works(q.who) /\ rows[q.who] < MaxUsers

LEMMA BeginIs ==
    ASSUME TypeOK, NEW r \in Request, NEW q \in Req, Begin(r, q),
           confirmed \subseteq confirmed', confirmed' \subseteq confirmed \cup {twofa.secret}
    PROVE  BeginEffect(r) /\ req'[r] = q
<1>1. req' = [req EXCEPT ![r] = q] /\ req \in [Request -> Req]
  BY DEF Begin, TypeOK, Req
<1>2. /\ req'[r] = q /\ req' \in [Request -> Req]
      /\ \A o \in Request \ {r} : req'[o] = req[o]
  BY <1>1
<1>3. UnderWay = {o \in Request : req[o] # Free}
  BY DEF UnderWay
<1> QED BY <1>2, <1>3 DEF Begin, BeginEffect

LEMMA BeginFacts ==
    ASSUME TypeOK, NEW r \in Request, Begins(r)
    PROVE  BeginEffect(r) /\ Checked(req'[r])
<1>1. ASSUME NEW n \in Name, BeginSetup(r, n) PROVE BeginEffect(r) /\ Checked(req'[r])
  <2> DEFINE q == [Plain("setup", "lock") EXCEPT !.name = n]
  <2>1. q \in Req /\ q.kind = "setup" /\ q.name = n
    BY PlainFields DEF Kind, Req
  <2>2. ~Known /\ Begin(r, q) /\ confirmed' = confirmed
    BY <1>1 DEF BeginSetup
  <2> HIDE DEF q
  <2>3. BeginEffect(r) /\ req'[r] = q
    BY <2>1, <2>2, BeginIs
  <2> QED BY <2>1, <2>2, <2>3 DEF Checked, Kind
<1>2. ASSUME NEW n \in Name, BeginHire(r, n) PROVE BeginEffect(r) /\ Checked(req'[r])
  <2> DEFINE q == [Plain("hire", "lock") EXCEPT !.name = n]
  <2>1. q \in Req /\ q.kind = "hire" /\ q.name = n
    BY PlainFields DEF Kind, Req
  <2>2. Known /\ n # admin.name /\ Named(n) = {} /\ Begin(r, q) /\ confirmed' = confirmed
    BY <1>2 DEF BeginHire
  <2> HIDE DEF q
  <2>3. BeginEffect(r) /\ req'[r] = q
    BY <2>1, <2>2, BeginIs
  <2> QED BY <2>1, <2>2, <2>3 DEF Checked, Kind
<1>3. ASSUME NEW n \in Name, NEW pw \in 0..hashes, BeginLogin(r, n, pw)
      PROVE  BeginEffect(r) /\ Checked(req'[r])
  <2> DEFINE who == IF Named(n) # {} /\ reseller[First(Named(n))].state = "on"
                    THEN First(Named(n)) ELSE Owner
             ok == pw # 0 /\ pw = Fingerprint(who).pw
             q == [Plain("login", "kdf") EXCEPT !.who = who, !.name = n, !.pw = pw, !.ok = ok]
  <2>1. who \in Account /\ (who # Owner => Named(n) # {} /\ who = First(Named(n)))
    <3>1. Named(n) # {} => First(Named(n)) \in Reseller
      BY FirstIsFirst DEF Named
    <3> QED BY <3>1, Zeros DEF Account, Reseller
  <2>2. pw \in Hash
    BY BoundsAssumption DEF TypeOK, Hash
  <2>3. ok \in BOOLEAN /\ (ok => pw = Fingerprint(who).pw)
    OBVIOUS
  <2>4. ~attempts.locked /\ Begin(r, q) /\ confirmed' = confirmed
    BY <1>3 DEF BeginLogin
  <2> HIDE DEF who, ok
  <2>5. /\ q \in Req /\ q.kind = "login" /\ q.who = who /\ q.name = n /\ q.pw = pw
        /\ q.ok = ok /\ q.code = 0
    <3>1. PICK p \in Req : p = Plain("login", "kdf") /\ p.kind = "login" /\ p.code = 0
      BY PlainFields DEF Kind
    <3>2. q = [p EXCEPT !.who = who, !.name = n, !.pw = pw, !.ok = ok]
      BY <3>1
    <3> HIDE DEF q
    <3> QED BY <2>1, <2>2, <2>3, <3>1, <3>2 DEF Req
  <2> HIDE DEF q
  <2>6. BeginEffect(r) /\ req'[r] = q
    BY <2>4, <2>5, BeginIs
  <2> QED BY <2>1, <2>3, <2>4, <2>5, <2>6 DEF Checked, Kind
<1>4. ASSUME NEW kind \in Kind, BeginPlain(r, kind) \/ BeginFactor(r, kind)
      PROVE  BeginEffect(r) /\ Checked(req'[r])
  <2>1. PICK stage \in {"kdf", "lock"} : Begin(r, Plain(kind, stage))
    BY <1>4 DEF BeginPlain, BeginFactor
  <2>2. confirmed' = confirmed /\ kind \in {"logout", "patch", "fire", "disable", "codes"}
    BY <1>4 DEF BeginPlain, BeginFactor
  <2>3. Plain(kind, stage) \in Req /\ Plain(kind, stage).kind = kind
    BY PlainFields
  <2>4. BeginEffect(r) /\ req'[r] = Plain(kind, stage)
    BY <2>1, <2>2, <2>3, BeginIs
  <2> QED BY <2>2, <2>3, <2>4 DEF Checked
<1>5. ASSUME NEW who \in Account, NEW n \in Name \cup {NoName}, BeginPassword(r, who, n)
      PROVE  BeginEffect(r) /\ Checked(req'[r])
  <2> DEFINE q == [Plain("password", "kdf") EXCEPT !.who = who, !.name = n]
  <2>1. q \in Req /\ q.kind = "password" /\ q.stage = "kdf"
    <3>1. PICK p \in Req : p = Plain("password", "kdf") /\ p.kind = "password" /\ p.stage = "kdf"
      BY PlainFields DEF Kind
    <3>2. q = [p EXCEPT !.who = who, !.name = n]
      BY <3>1
    <3> QED BY <3>1, <3>2 DEF Req
  <2>2. Known /\ Begin(r, q) /\ confirmed' = confirmed
    BY <1>5 DEF BeginPassword
  <2> HIDE DEF q
  <2>3. BeginEffect(r) /\ req'[r] = q
    BY <2>1, <2>2, BeginIs
  <2> QED BY <2>1, <2>2, <2>3 DEF Checked, Kind
<1>6. ASSUME NEW s \in Reseller, BeginCreate(r, s) PROVE BeginEffect(r) /\ Checked(req'[r])
  <2> DEFINE q == [Plain("create", "lock") EXCEPT !.who = s]
  <2>1. q \in Req /\ q.kind = "create" /\ q.who = s
    BY PlainFields DEF Kind, Req, Reseller, Account
  <2>2. Works(s) /\ rows[s] < MaxUsers /\ Begin(r, q) /\ confirmed' = confirmed
    BY <1>6 DEF BeginCreate, Works
  <2> HIDE DEF q
  <2>3. BeginEffect(r) /\ req'[r] = q
    BY <2>1, <2>2, BeginIs
  <2> QED BY <2>1, <2>2, <2>3 DEF Checked, Kind
<1>7. ASSUME BeginEnrol(r) \/ BeginEnable(r) PROVE BeginEffect(r) /\ Checked(req'[r])
  <2>1. PICK kind \in {"enrol", "enable"} :
          /\ Begin(r, Plain(kind, "lock"))
          /\ confirmed' = IF kind = "enable" THEN confirmed \cup {twofa.secret} ELSE confirmed
    BY <1>7 DEF BeginEnrol, BeginEnable
  <2>2. kind \in Kind
    BY DEF Kind
  <2>3. Plain(kind, "lock") \in Req /\ Plain(kind, "lock").kind = kind
    BY <2>2, PlainFields
  <2>4. BeginEffect(r) /\ req'[r] = Plain(kind, "lock")
    BY <2>1, <2>3, BeginIs
  <2> QED BY <2>1, <2>2, <2>3, <2>4 DEF Checked
<1> QED BY <1>1, <1>2, <1>3, <1>4, <1>5, <1>6, <1>7 DEF Begins

\* A verification ends the request, or moves it on with what it has found out.
VerifyEffect(r) ==
    LET q == req[r]
        new == req'[r]
    IN  /\ q # Free /\ req' \in [Request -> Req]
        /\ \A o \in Request \ {r} : req'[o] = req[o]
        /\ UNCHANGED <<accounts, factor, lockout, cookie, hashes, begun, overlap>>
        /\ \/ new = Free
           \/ /\ new.kind = q.kind /\ new.who = q.who /\ new.name = q.name /\ new.pw = q.pw
              /\ new.stage = "lock"
              /\ new.ok => q.ok
              /\ new.code = q.code \/ (new.code = twofa.codes /\ new.code # 0)
              /\ q.kind = "password" => new.name = NoName \/ Named(new.name) = {}

LEMMA GoIs ==
    ASSUME TypeOK, NEW r \in Request, NEW q \in Req, Go(r, q)
    PROVE  /\ req' \in [Request -> Req] /\ req'[r] = q
           /\ \A o \in Request \ {r} : req'[o] = req[o]
           /\ UNCHANGED <<accounts, factor, lockout, cookie, hashes, begun, overlap>>
<1>1. req' = [req EXCEPT ![r] = q] /\ req \in [Request -> Req]
  BY DEF Go, TypeOK, Req
<1> QED BY <1>1 DEF Go

LEMMA VerifyFacts ==
    ASSUME TypeOK, NEW r \in Request, Verifies(r)
    PROVE  VerifyEffect(r)
<1> DEFINE q == req[r]
<1>1. q \in Req
  BY DEF TypeOK, Req
<1>2. ASSUME Go(r, Free), q # Free PROVE VerifyEffect(r)
  BY <1>2, GoIs, FreeType DEF VerifyEffect
<1>3. CASE VerifyLogin(r)
  <2> DEFINE fine == q.ok /\ (q.who = Owner => q.name = admin.name)
  <2>0. q.kind = "login"
    BY <1>3, Zenon DEF VerifyLogin
  <2>1. q.kind = "login" /\ q # Free
    BY <2>0, FreeType
  <2>2. ASSUME NEW b \in BOOLEAN, b => q.ok, Go(r, [q EXCEPT !.stage = "lock", !.ok = b])
        PROVE  VerifyEffect(r)
    <3>1. PICK p \in Req : p = [q EXCEPT !.stage = "lock", !.ok = b]
      BY <1>1 DEF Req
    <3>2. /\ p.kind = q.kind /\ p.who = q.who /\ p.name = q.name /\ p.pw = q.pw
          /\ p.stage = "lock" /\ p.ok = b /\ p.code = q.code
      BY <1>1, <3>1 DEF Req
    <3> QED BY <2>1, <2>2, <3>1, <3>2, GoIs DEF VerifyEffect
  <2>3. ASSUME twofa.codes # 0, q.ok,
               Go(r, [q EXCEPT !.stage = "lock", !.ok = TRUE, !.code = twofa.codes])
        PROVE  VerifyEffect(r)
    <3>1. PICK p \in Req : p = [q EXCEPT !.stage = "lock", !.ok = TRUE, !.code = twofa.codes]
      BY <1>1 DEF Req, TypeOK
    <3>2. /\ p.kind = q.kind /\ p.who = q.who /\ p.name = q.name /\ p.pw = q.pw
          /\ p.stage = "lock" /\ p.code = twofa.codes
      BY <1>1, <3>1 DEF Req
    <3> QED BY <2>1, <2>3, <3>1, <3>2, GoIs DEF VerifyEffect
  <2>4. CASE fine /\ q.who = Owner /\ twofa.enabled /\ twofa.secret # 0
    <3>1. \/ Go(r, Free)
          \/ \E right \in BOOLEAN : Go(r, [q EXCEPT !.stage = "lock", !.ok = right])
          \/ /\ twofa.codes # 0
             /\ Go(r, [q EXCEPT !.stage = "lock", !.ok = TRUE, !.code = twofa.codes])
      BY <1>3, <2>4 DEF VerifyLogin
    <3> QED BY <1>2, <2>1, <2>2, <2>3, <2>4, <3>1
  <2>5. CASE ~(fine /\ q.who = Owner /\ twofa.enabled /\ twofa.secret # 0)
    <3>1. Go(r, [q EXCEPT !.stage = "lock", !.ok = fine])
      BY <1>3, <2>5 DEF VerifyLogin
    <3>2. fine \in BOOLEAN /\ (fine => q.ok)
      BY <1>1 DEF Req
    <3> HIDE DEF fine
    <3> QED BY <2>2, <3>1, <3>2
  <2> QED BY <2>4, <2>5
<1>4. CASE VerifyPassword(r) \/ VerifyFactor(r)
  <2>1. q.kind \in {"password", "disable", "codes"} /\ q # Free
    BY <1>4 DEF VerifyPassword, VerifyFactor, Free
  <2>2. \/ Go(r, Free)
        \/ /\ Go(r, [q EXCEPT !.stage = "lock"])
           /\ q.kind = "password" => q.name = NoName \/ Named(q.name) = {}
    BY <1>4 DEF VerifyPassword, VerifyFactor
  <2>3. PICK p \in Req : p = [q EXCEPT !.stage = "lock"]
    BY <1>1 DEF Req
  <2>4. /\ p.kind = q.kind /\ p.who = q.who /\ p.name = q.name /\ p.pw = q.pw
        /\ p.stage = "lock" /\ p.ok = q.ok /\ p.code = q.code
    BY <1>1, <2>3 DEF Req
  <2>5. ASSUME Go(r, p), q.kind = "password" => q.name = NoName \/ Named(q.name) = {}
        PROVE  VerifyEffect(r)
    BY <2>1, <2>4, <2>5, GoIs DEF VerifyEffect
  <2> QED BY <1>2, <2>1, <2>2, <2>3, <2>5
<1> QED BY <1>3, <1>4 DEF Verifies

\* An applied request leaves its slot.
ApplyEffect(r) ==
    /\ req[r].kind \in Kind /\ req[r].stage = "lock"
    /\ req' \in [Request -> Req] /\ req'[r] = Free
    /\ \A o \in Request \ {r} : req'[o] = req[o]
    /\ UNCHANGED <<begun, overlap, confirmed>>

LEMMA ApplyIs ==
    ASSUME TypeOK, NEW r \in Request, NEW kind \in Kind, Apply(r, kind), UNCHANGED confirmed
    PROVE  ApplyEffect(r) /\ req[r].kind = kind
<1>1. req' = [req EXCEPT ![r] = Free] /\ req \in [Request -> Req] /\ req[r] \in Req
  BY DEF Apply, TypeOK, Req
<1> QED BY <1>1, FreeType DEF Apply, ApplyEffect

\* It counts up by at most one.
Counted(r) ==
    /\ hashes' \in {hashes, hashes + 1} /\ secrets' \in {secrets, secrets + 1}
    /\ epoch' \in {epoch, epoch + 1} /\ founded' \in {founded, founded + 1}
    /\ tries' \in {0, tries, tries + 1}
    /\ rows' \in [Reseller -> Nat] /\ \A s \in Reseller : rows'[s] <= rows[s] + 1
    /\ uses' \in [Secret -> Nat] /\ \A c \in Secret : uses'[c] <= uses[c] + 1

LEMMA ApplyFacts ==
    ASSUME TypeOK, SlotInv, NEW r \in Request, Applies(r)
    PROVE  ApplyEffect(r) /\ Counted(r)
<1>0. /\ rows \in [Reseller -> Nat] /\ uses \in [Secret -> Nat]
      /\ \A s \in Reseller : rows[s] <= rows[s] + 1
      /\ \A c \in Secret : uses[c] <= uses[c] + 1
  BY BoundsAssumption DEF TypeOK
<1>1. ASSUME ApplySetup(r) PROVE ApplyEffect(r) /\ Counted(r)
  <2>1. Apply(r, "setup") /\ UNCHANGED <<epoch, rows, factor, lockout>>
        /\ hashes' = hashes + 1 /\ founded' = founded + 1
    BY <1>1 DEF ApplySetup, NewHash
  <2> QED BY <1>0, <2>1, ApplyIs DEF Counted, factor, lockout, Kind
<1>2. ASSUME RecordFailure(r) PROVE ApplyEffect(r) /\ Counted(r)
  <2>1. Apply(r, "login") /\ UNCHANGED <<accounts, factor, hashes>> /\ tries' = tries + 1
    BY <1>2 DEF RecordFailure
  <2> QED BY <1>0, <2>1, ApplyIs DEF Counted, factor, accounts, Kind
<1>3. ASSUME RecordSuccess(r) PROVE ApplyEffect(r) /\ Counted(r)
  <2>1. /\ Apply(r, "login") /\ UNCHANGED <<accounts, hashes, secrets, confirmed>> /\ tries' = 0
        /\ \/ uses' = uses
           \/ uses' = [uses EXCEPT ![req[r].code] = uses[req[r].code] + 1]
    BY <1>3 DEF RecordSuccess
  <2>0. req[r].code \in Secret
    BY DEF TypeOK
  <2>2. uses' \in [Secret -> Nat] /\ \A c \in Secret : uses'[c] <= uses[c] + 1
    BY <1>0, <2>0, <2>1
  <2> QED BY <1>0, <2>1, <2>2, ApplyIs DEF Counted, accounts, Kind
<1>4. ASSUME ApplyLogout(r) PROVE ApplyEffect(r) /\ Counted(r)
  <2>1. /\ Apply(r, "logout") /\ UNCHANGED <<rows, founded, factor, lockout, hashes>>
        /\ epoch' = epoch + 1
    BY <1>4 DEF ApplyLogout
  <2> QED BY <1>0, <2>1, ApplyIs DEF Counted, factor, lockout, Kind
<1>5. ASSUME ApplyPassword(r) PROVE ApplyEffect(r) /\ Counted(r)
  <2>1. /\ Apply(r, "password") /\ UNCHANGED <<factor, lockout>>
        /\ UNCHANGED <<epoch, rows, founded>>
    BY <1>5 DEF ApplyPassword, accounts
  <2>2. hashes' \in {hashes, hashes + 1}
    BY <1>5 DEF ApplyPassword, NewHash
  <2> QED BY <1>0, <2>1, <2>2, ApplyIs DEF Counted, factor, lockout, Kind
<1>6. ASSUME ApplyHire(r) PROVE ApplyEffect(r) /\ Counted(r)
  <2>1. Apply(r, "hire") /\ UNCHANGED <<epoch, rows, founded, factor, lockout>>
    BY <1>6 DEF ApplyHire
  <2>2. hashes' \in {hashes, hashes + 1}
    BY <1>6 DEF ApplyHire, NewHash
  <2> QED BY <1>0, <2>1, <2>2, ApplyIs DEF Counted, factor, lockout, Kind
<1>7. ASSUME ApplyPatch(r) PROVE ApplyEffect(r) /\ Counted(r)
  <2>1. Apply(r, "patch") /\ UNCHANGED <<epoch, rows, founded, factor, lockout>>
    BY <1>7 DEF ApplyPatch
  <2>2. hashes' \in {hashes, hashes + 1}
    BY <1>7 DEF ApplyPatch, NewHash
  <2> QED BY <1>0, <2>1, <2>2, ApplyIs DEF Counted, factor, lockout, Kind
<1>8. ASSUME ApplyFire(r) PROVE ApplyEffect(r) /\ Counted(r)
  <2>1. Apply(r, "fire") /\ UNCHANGED <<epoch, founded, factor, lockout, hashes>>
    BY <1>8 DEF ApplyFire
  <2>2. rows' = rows \/ \E s \in Reseller : rows' = [rows EXCEPT ![s] = 0]
    BY <1>8 DEF ApplyFire
  <2>3. rows' \in [Reseller -> Nat] /\ \A s \in Reseller : rows'[s] <= rows[s] + 1
    BY <1>0, <2>2
  <2> QED BY <1>0, <2>1, <2>3, ApplyIs DEF Counted, factor, lockout, Kind
<1>9. ASSUME ApplyCreate(r) PROVE ApplyEffect(r) /\ Counted(r)
  <2>1. /\ Apply(r, "create") /\ UNCHANGED <<epoch, founded, factor, lockout, hashes>>
        /\ rows' = [rows EXCEPT ![req[r].who] = rows[req[r].who] + 1]
    BY <1>9 DEF ApplyCreate
  <2>2. req[r].who \in Reseller
    BY <2>1 DEF Apply, SlotInv
  <2>3. rows' \in [Reseller -> Nat] /\ \A s \in Reseller : rows'[s] <= rows[s] + 1
    BY <1>0, <2>1, <2>2
  <2> QED BY <1>0, <2>1, <2>3, ApplyIs DEF Counted, factor, lockout, Kind
<1>10. ASSUME NEW kind \in {"enrol", "enable", "disable", "codes"}, ApplyFactor(r, kind)
       PROVE  ApplyEffect(r) /\ Counted(r)
  <2>1. /\ Apply(r, kind) /\ UNCHANGED <<accounts, lockout, hashes, confirmed, uses>>
        /\ secrets' \in {secrets, secrets + 1}
    BY <1>10 DEF ApplyFactor
  <2> QED BY <1>0, <2>1, ApplyIs DEF Counted, accounts, lockout, Kind
<1> QED BY <1>1, <1>2, <1>3, <1>4, <1>5, <1>6, <1>7, <1>8, <1>9, <1>10 DEF Applies

(***************************************************************************)
(* Requests under way, counted.                                            *)
(***************************************************************************)
LEMMA Counting ==
    ASSUME NEW A \in SUBSET Request
    PROVE  /\ IsFiniteSet(A) /\ Cardinality(A) \in Nat
           /\ Cardinality(A) <= Cardinality(Request) /\ Cardinality(Request) \in Nat
           /\ \A B \in SUBSET A : Cardinality(B) \in Nat /\ Cardinality(B) <= Cardinality(A)
           /\ \A r \in A : Cardinality(A \ {r}) = Cardinality(A) - 1
           /\ \A r \in Request \ A : Cardinality(A \cup {r}) = Cardinality(A) + 1
<1>1. /\ IsFiniteSet(A) /\ Cardinality(A) <= Cardinality(Request)
  BY RequestAssumption, FS_Subset
<1>2. Cardinality(A) \in Nat /\ Cardinality(Request) \in Nat
  BY <1>1, RequestAssumption, FS_CardinalityType
<1>3. ASSUME NEW B \in SUBSET A
      PROVE  Cardinality(B) \in Nat /\ Cardinality(B) <= Cardinality(A)
  BY <1>1, FS_Subset, FS_CardinalityType
<1>4. ASSUME NEW r \in A PROVE Cardinality(A \ {r}) = Cardinality(A) - 1
  BY <1>1, FS_RemoveElement
<1>5. ASSUME NEW r \in Request \ A PROVE Cardinality(A \cup {r}) = Cardinality(A) + 1
  BY <1>1, FS_AddElement
<1> QED BY <1>1, <1>2, <1>3, <1>4, <1>5

LEMMA UnderWayCounts ==
    ASSUME SlotInv, NEW r \in Request
    PROVE  /\ BeginEffect(r) /\ req'[r].kind # "none"
                => Cardinality(UnderWay)' = Cardinality(UnderWay) + 1
           /\ VerifyEffect(r) => Cardinality(UnderWay)' <= Cardinality(UnderWay)
           /\ ApplyEffect(r) => Cardinality(UnderWay)' = Cardinality(UnderWay) - 1
           /\ Cardinality(UnderWay) \in Nat /\ Cardinality(UnderWay)' \in Nat
<1>1. UnderWay \in SUBSET Request /\ UnderWay' \in SUBSET Request
  BY DEF UnderWay
<1>2. ASSUME BeginEffect(r), req'[r].kind # "none"
      PROVE  UnderWay' = UnderWay \cup {r} /\ r \notin UnderWay
  BY <1>2, FreeType DEF BeginEffect, UnderWay
<1>3. ASSUME VerifyEffect(r) PROVE UnderWay' \subseteq UnderWay
  BY <1>3 DEF VerifyEffect, UnderWay
<1>4. ASSUME ApplyEffect(r) PROVE UnderWay' = UnderWay \ {r} /\ r \in UnderWay
  BY <1>4, FreeType DEF ApplyEffect, UnderWay, Kind
<1> QED BY <1>1, <1>2, <1>3, <1>4, Counting

(***************************************************************************)
(* Type correctness.                                                       *)
(***************************************************************************)
Bounded ==
    /\ hashes \in Hash /\ secrets \in Secret /\ epoch \in 0..MaxRequests
    /\ founded \in 0..MaxRequests /\ tries \in 0..MaxRequests
    /\ rows \in [Reseller -> 0..(MaxUsers + MaxRequests)]
    /\ uses \in [Secret -> 0..MaxRequests]

\* What leaves room for the requests under way stays within its bound.
LEMMA Room ==
    ASSUME NEW h \in Nat, NEW n \in Nat, NEW b \in Nat, NEW m \in Nat, NEW k \in Nat,
           h + n <= b + k, b <= m
    PROVE  h <= m + k
OBVIOUS

LEMMA NextCount ==
    ASSUME TypeOK, SlotInv, CountInv, Next
    PROVE  CountInv' /\ Bounded'
<1> DEFINE left == Cardinality(UnderWay)
<1>0. /\ begun \in Nat /\ hashes \in Nat /\ secrets \in Nat /\ epoch \in Nat /\ founded \in Nat
      /\ tries \in Nat /\ MaxUsers \in Nat /\ MaxRequests \in Nat /\ begun <= MaxRequests
      /\ rows \in [Reseller -> Nat] /\ uses \in [Secret -> Nat]
  <2>1. MaxUsers \in Nat /\ MaxRequests \in Nat
    BY BoundsAssumption
  <2>2. /\ begun \in 0..MaxRequests /\ hashes \in Hash /\ secrets \in Secret
        /\ epoch \in 0..MaxRequests /\ founded \in 0..MaxRequests /\ tries \in 0..MaxRequests
        /\ rows \in [Reseller -> 0..(MaxUsers + MaxRequests)] /\ uses \in [Secret -> 0..MaxRequests]
    BY DEF TypeOK
  <2> QED BY <2>1, <2>2 DEF Hash, Secret
<1>1. ASSUME NEW r \in Request, Begins(r) PROVE CountInv' /\ Bounded'
  <2>1. BeginEffect(r) /\ req'[r].kind # "none"
    BY <1>1, BeginFacts DEF Checked, Kind
  <2>2. left' = left + 1 /\ left \in Nat
    BY <2>1, UnderWayCounts
  <2>3. /\ begun' = begun + 1
        /\ UNCHANGED <<epoch, rows, founded, tries, hashes, secrets, uses>>
    BY <2>1 DEF BeginEffect, accounts, lockout
  <2>4. CountInv'
    BY <1>0, <2>2, <2>3 DEF CountInv
  <2>5. Bounded'
    BY <2>3 DEF Bounded, TypeOK
  <2> QED BY <2>4, <2>5
<1>2. ASSUME NEW r \in Request, Verifies(r) PROVE CountInv' /\ Bounded'
  <2>1. VerifyEffect(r)
    BY <1>2, VerifyFacts
  <2>2. left' <= left /\ left \in Nat /\ left' \in Nat
    BY <2>1, UnderWayCounts
  <2>3. UNCHANGED <<epoch, rows, founded, tries, hashes, secrets, uses, begun>>
    BY <2>1 DEF VerifyEffect, accounts, factor, lockout
  <2>4. CountInv'
    BY <1>0, <2>2, <2>3 DEF CountInv
  <2>5. Bounded'
    BY <2>3 DEF Bounded, TypeOK
  <2> QED BY <2>4, <2>5
<1>3. ASSUME NEW r \in Request, Applies(r) PROVE CountInv' /\ Bounded'
  <2>1. ApplyEffect(r) /\ Counted(r)
    BY <1>3, ApplyFacts
  <2>2. left' = left - 1 /\ left \in Nat /\ left' \in Nat
    BY <2>1, UnderWayCounts
  <2>3. begun' = begun
    BY <2>1 DEF ApplyEffect
  <2> HIDE DEF left
  <2>4. /\ hashes' >= 2 /\ hashes' + left' <= begun + 2 /\ secrets' + left' <= begun + 1
        /\ epoch' + left' <= begun /\ founded' + left' <= begun /\ tries' + left' <= begun
    BY <1>0, <2>1, <2>2 DEF CountInv, Counted, left
  <2>5. ASSUME NEW s \in Reseller PROVE rows'[s] \in Nat /\ rows'[s] + left' <= begun + MaxUsers
    <3>1. rows'[s] <= rows[s] + 1 /\ rows'[s] \in Nat /\ rows[s] \in Nat
      BY <1>0, <2>1 DEF Counted
    <3>2. rows[s] + left <= begun + MaxUsers
      BY DEF CountInv, left
    <3> QED BY <1>0, <2>2, <3>1, <3>2
  <2>6. ASSUME NEW c \in Secret PROVE uses'[c] \in Nat /\ uses'[c] + left' <= begun
    <3>1. uses'[c] <= uses[c] + 1 /\ uses'[c] \in Nat /\ uses[c] \in Nat
      BY <1>0, <2>1 DEF Counted
    <3>2. uses[c] + left <= begun
      BY DEF CountInv, left
    <3> QED BY <1>0, <2>2, <3>1, <3>2
  <2>7. CountInv'
    BY <2>3, <2>4, <2>5, <2>6 DEF CountInv, left
  <2>8. rows' \in [Reseller -> 0..(MaxUsers + MaxRequests)]
    <3>1. \A s \in Reseller : rows'[s] \in 0..(MaxUsers + MaxRequests)
      BY <1>0, <2>2, <2>5
    <3> QED BY <2>1, <3>1 DEF Counted
  <2>9. uses' \in [Secret -> 0..MaxRequests]
    <3>1. \A c \in Secret : uses'[c] \in 0..MaxRequests
      BY <1>0, <2>2, <2>6
    <3> QED BY <2>1, <3>1 DEF Counted
  <2>10. /\ hashes' \in Hash /\ secrets' \in Secret /\ epoch' \in 0..MaxRequests
         /\ founded' \in 0..MaxRequests /\ tries' \in 0..MaxRequests
    <3>1. /\ hashes' \in Nat /\ secrets' \in Nat /\ epoch' \in Nat /\ founded' \in Nat
          /\ tries' \in Nat
      BY <1>0, <2>1 DEF Counted
    <3>2. hashes' <= MaxRequests + 2
      BY <1>0, <2>2, <2>4, <3>1, Room
    <3>3. secrets' <= MaxRequests + 1
      BY <1>0, <2>2, <2>4, <3>1, Room
    <3>4. epoch' <= MaxRequests /\ founded' <= MaxRequests /\ tries' <= MaxRequests
      <4>1. \A h \in Nat : h + left' <= begun => h <= MaxRequests
        BY <1>0, <2>2
      <4> QED BY <2>4, <3>1, <4>1
    <3> QED BY <1>0, <3>1, <3>2, <3>3, <3>4 DEF Hash, Secret
  <2> QED BY <2>7, <2>8, <2>9, <2>10 DEF Bounded
<1>4. CASE LockEnds
  <2>1. /\ UNCHANGED <<epoch, rows, founded, hashes, secrets, uses, begun, req>> /\ tries' = 0
    BY <1>4 DEF LockEnds, accounts, factor
  <2>2. left' = left /\ left \in Nat
    BY <2>1, Counting DEF UnderWay
  <2>3. CountInv'
    BY <1>0, <2>1, <2>2 DEF CountInv
  <2>4. Bounded'
    BY <1>0, <2>1 DEF Bounded, TypeOK
  <2> QED BY <2>3, <2>4
<1> QED BY <1>1, <1>2, <1>3, <1>4, NextIs

LEMMA NextSlot ==
    ASSUME TypeOK, SlotInv, Next
    PROVE  SlotInv' /\ req' \in [Request -> Req]
<1>1. ASSUME NEW r \in Request, Begins(r) PROVE SlotInv' /\ req' \in [Request -> Req]
  BY <1>1, BeginFacts, FreeType DEF BeginEffect, Checked, SlotInv, Kind
<1>2. ASSUME NEW r \in Request, Verifies(r) PROVE SlotInv' /\ req' \in [Request -> Req]
  BY <1>2, VerifyFacts, FreeType DEF VerifyEffect, SlotInv
<1>3. ASSUME NEW r \in Request, Applies(r) PROVE SlotInv' /\ req' \in [Request -> Req]
  BY <1>3, ApplyFacts, FreeType DEF ApplyEffect, SlotInv
<1>4. CASE LockEnds
  BY <1>4 DEF LockEnds, SlotInv, TypeOK, Req
<1> QED BY <1>1, <1>2, <1>3, <1>4, NextIs

LEMMA GiveType ==
    ASSUME TypeOK, NEW role \in Account, NEW name \in Name, NEW by \in Account,
           NEW knew \in Hash, NEW pw \in Hash, Give(role, name, by, knew, pw)
    PROVE  cookie' \in Cookie
BY DEF TypeOK, Give, Cookie

LEMMA ApplyType ==
    ASSUME TypeOK, SlotInv, NEW r \in Request, Applies(r), Bounded'
    PROVE  Held'
<1>0. /\ req[r] \in Req /\ hashes' \in Hash /\ secrets' \in Secret /\ hashes \in Hash
      /\ admin \in [name : Name, pw : Hash] /\ reseller \in [Reseller -> Person]
      /\ twofa \in Factor
      /\ attempts \in [count : 0..MaxAttempts, locked : BOOLEAN]
      /\ cookie \in Cookie
  BY DEF TypeOK, Req, Bounded, Person, Cookie, Factor
<1>1. CASE ApplySetup(r)
  <2>1. /\ req[r].name \in Name
        /\ admin' = [name |-> req[r].name, pw |-> hashes']
        /\ Give(Owner, req[r].name, Owner, hashes', hashes')
        /\ UNCHANGED <<reseller, twofa, attempts>>
    BY <1>1 DEF ApplySetup, Apply, SlotInv, factor, lockout
  <2>2. cookie' \in Cookie
    BY <1>0, <2>1, GiveType, Zeros
  <2> QED BY <1>0, <2>1, <2>2 DEF Held
<1>2. CASE RecordFailure(r)
  <2>1. /\ UNCHANGED <<admin, reseller, twofa, cookie>>
        /\ attempts' = IF attempts.count + 1 >= MaxAttempts THEN [count |-> 0, locked |-> TRUE]
                       ELSE [attempts EXCEPT !.count = attempts.count + 1]
    BY <1>2 DEF RecordFailure, accounts, factor
  <2>2. attempts' \in [count : 0..MaxAttempts, locked : BOOLEAN]
    BY <1>0, <2>1, BoundsAssumption
  <2> QED BY <1>0, <2>1, <2>2 DEF Held
<1>3. CASE RecordSuccess(r)
  <2>1. PICK role : /\ role \in Account
                    /\ Give(role, req[r].name, req[r].who, req[r].pw, Fingerprint(role).pw)
    <3>1. Named(req[r].name) # {} => First(Named(req[r].name)) \in Account
      BY FirstIsFirst DEF Named, Account, Reseller
    <3> QED BY <1>3, <3>1, Zeros DEF RecordSuccess
  <2>2. /\ UNCHANGED <<admin, reseller>> /\ attempts' = [count |-> 0, locked |-> FALSE]
        /\ twofa' = [twofa EXCEPT !.codes = IF twofa.codes = req[r].code THEN 0 ELSE twofa.codes]
    BY <1>3 DEF RecordSuccess, accounts
  <2>3. Fingerprint(role).pw \in Hash
    BY <1>0, <2>1 DEF Fingerprint, Account, Reseller, Owner, Person
  <2>4. req[r].name \in Name /\ req[r].who \in Account /\ req[r].pw \in Hash
    BY <1>0, <1>3 DEF RecordSuccess, Apply, SlotInv, Req
  <2>5. cookie' \in Cookie
    BY <2>1, <2>3, <2>4, GiveType
  <2>6. twofa' \in Factor
    BY <1>0, <2>2, Zeros DEF Factor
  <2> QED BY <1>0, <2>2, <2>5, <2>6, BoundsAssumption DEF Held
<1>4. CASE ApplyLogout(r)
  BY <1>0, <1>4 DEF ApplyLogout, factor, lockout, Held
<1>5. CASE ApplyPassword(r)
  <2> DEFINE q == req[r]
  <2>1. UNCHANGED <<twofa, attempts>>
    BY <1>5 DEF ApplyPassword, factor, lockout
  <2>2. CASE q.who # Owner /\ ~Works(q.who)
    BY <1>0, <1>5, <2>1, <2>2 DEF ApplyPassword, accounts, Held
  <2>3. CASE q.who = Owner
    <3>1. /\ UNCHANGED reseller
          /\ admin' = [name |-> IF q.name = NoName THEN admin.name ELSE q.name,
                       pw |-> IF hashes' = hashes THEN admin.pw ELSE hashes']
          /\ Give(Owner, admin'.name, Owner, admin'.pw, admin'.pw)
      BY <1>5, <2>3 DEF ApplyPassword
    <3>2. admin' \in [name : Name, pw : Hash]
      BY <1>0, <3>1 DEF Req
    <3>3. cookie' \in Cookie
      BY <3>1, <3>2, GiveType, Zeros
    <3> QED BY <1>0, <2>1, <3>1, <3>2, <3>3 DEF Held
  <2>4. CASE q.who # Owner /\ Works(q.who)
    <3>1. /\ UNCHANGED admin
          /\ reseller' = [reseller EXCEPT ![q.who].pw =
                            IF hashes' = hashes THEN reseller[q.who].pw ELSE hashes']
          /\ Give(q.who, reseller[q.who].name, q.who, hashes', hashes')
      BY <1>5, <2>4 DEF ApplyPassword
    <3>2. q.who \in Reseller /\ q.who \in Account
      BY <1>0, <2>4 DEF Req, Account, Reseller, Owner
    <3>3. reseller' \in [Reseller -> Person]
      BY <1>0, <3>1, <3>2 DEF Person
    <3>4. cookie' \in Cookie
      BY <1>0, <3>1, <3>2, GiveType DEF Person
    <3> QED BY <1>0, <2>1, <3>1, <3>3, <3>4 DEF Held
  <2> QED BY <2>2, <2>3, <2>4
<1>6. CASE ApplyHire(r)
  <2>1. UNCHANGED <<admin, twofa, attempts, cookie>>
    BY <1>6 DEF ApplyHire, factor, lockout
  <2>2. \/ reseller' = reseller
        \/ \E s \in Reseller, st \in {"on", "off"} :
             reseller' = [reseller EXCEPT ![s] = [state |-> st, name |-> req[r].name, pw |-> hashes']]
    BY <1>6 DEF ApplyHire
  <2>3. req[r].name \in Name
    BY <1>6 DEF ApplyHire, Apply, SlotInv
  <2>4. reseller' \in [Reseller -> Person]
    BY <1>0, <2>2, <2>3 DEF Person
  <2> QED BY <1>0, <2>1, <2>4 DEF Held
<1>7. CASE ApplyPatch(r)
  <2>1. UNCHANGED <<admin, twofa, attempts, cookie>>
    BY <1>7 DEF ApplyPatch, factor, lockout
  <2>2. PICK s \in Reseller :
          \/ reseller' = reseller
          \/ reseller' = [reseller EXCEPT ![s].pw = hashes']
          \/ reseller' = [reseller EXCEPT ![s].state =
                            IF reseller[s].state = "on" THEN "off" ELSE "on"]
    BY <1>7 DEF ApplyPatch
  <2>3. reseller' \in [Reseller -> Person]
    BY <1>0, <2>2 DEF Person
  <2> QED BY <1>0, <2>1, <2>3 DEF Held
<1>8. CASE ApplyFire(r)
  <2>1. UNCHANGED <<admin, twofa, attempts, cookie>>
    BY <1>8 DEF ApplyFire, factor, lockout
  <2>2. PICK s \in Reseller :
          reseller' = reseller \/ reseller' = [reseller EXCEPT ![s].state = "gone"]
    BY <1>8 DEF ApplyFire
  <2>3. reseller' \in [Reseller -> Person]
    BY <1>0, <2>2 DEF Person
  <2> QED BY <1>0, <2>1, <2>3 DEF Held
<1>9. CASE ApplyCreate(r)
  BY <1>0, <1>9 DEF ApplyCreate, factor, lockout, Held
<1>10. ASSUME NEW kind \in {"enrol", "enable", "disable", "codes"}, ApplyFactor(r, kind)
       PROVE  Held'
  <2>1. UNCHANGED <<admin, reseller, attempts, cookie>>
    BY <1>10 DEF ApplyFactor, accounts, lockout
  <2>2. twofa' \in Factor
    <3>1. CASE kind = "enrol"
      BY <1>0, <1>10, <3>1 DEF ApplyFactor, Factor
    <3>2. CASE kind = "enable"
      BY <1>0, <1>10, <3>2 DEF ApplyFactor, Factor
    <3>3. CASE kind = "codes"
      BY <1>0, <1>10, <3>3 DEF ApplyFactor, Factor
    <3>4. CASE kind = "disable"
      BY <1>0, <1>10, <3>4, Zeros DEF ApplyFactor, Factor
    <3> QED BY <3>1, <3>2, <3>3, <3>4
  <2> QED BY <1>0, <2>1, <2>2 DEF Held
<1> QED BY <1>1, <1>2, <1>3, <1>4, <1>5, <1>6, <1>7, <1>8, <1>9, <1>10 DEF Applies

\* The state outside the counters and slots in which Access begins.
InitState(n, m, known, hired, second) ==
    /\ m # n /\ ((hired \/ second) => known)
    /\ admin = [name |-> n, pw |-> IF known THEN 1 ELSE 0]
    /\ reseller = [r \in Reseller |->
                     IF hired /\ r = 1 THEN [state |-> "on", name |-> m, pw |-> 2]
                     ELSE [state |-> "none", name |-> n, pw |-> 0]]
    /\ rows = [r \in Reseller |-> IF hired /\ r = 1 THEN MaxUsers - 1 ELSE 0]
    /\ twofa = IF second THEN [enabled |-> TRUE, secret |-> 1, codes |-> 1]
                         ELSE [enabled |-> FALSE, secret |-> 0, codes |-> 0]
    /\ secrets = IF second THEN 1 ELSE 0
    /\ confirmed = IF second THEN {1} ELSE {}
    /\ cookie = [role |-> Owner, name |-> n, pw |-> 0, epoch |-> 0, by |-> Owner, knew |-> 0]
    /\ epoch = 0 /\ attempts = [count |-> 0, locked |-> FALSE]
    /\ req = [r \in Request |-> Free]
    /\ hashes = 2 /\ begun = 0 /\ overlap = {} /\ founded = 0 /\ tries = 0 /\ uses = [c \in Secret |-> 0]

LEMMA InitIs ==
    ASSUME Init
    PROVE  \E n, m \in Name, known, hired, second \in BOOLEAN :
             InitState(n, m, known, hired, second)
<1>1. PICK n : n = CHOOSE x \in Name : TRUE
  OBVIOUS
<1>2. PICK m \in Name \ {n}, known \in BOOLEAN, hired \in BOOLEAN, second \in BOOLEAN :
        InitState(n, m, known, hired, second)
  BY <1>1 DEF Init, InitState
<1>3. n \in Name
  BY <1>1, <1>2
<1> QED BY <1>2, <1>3

LEMMA InitType == Init => TypeOK /\ SlotInv
<1> SUFFICES ASSUME Init PROVE TypeOK /\ SlotInv
  OBVIOUS
<1>1. PICK n \in Name, m \in Name, known \in BOOLEAN, hired \in BOOLEAN,
           second \in BOOLEAN : InitState(n, m, known, hired, second)
  BY InitIs
<1>2. MaxUsers \in Nat \ {0} /\ MaxAttempts \in Nat /\ MaxRequests \in Nat
  BY BoundsAssumption
<1>3. {0, 1, 2} \subseteq Hash /\ {0, 1} \subseteq Secret /\ Owner \in Account
  BY <1>2, Zeros DEF Hash, Secret
<1>4. admin \in [name : Name, pw : Hash] /\ reseller \in [Reseller -> Person]
  BY <1>1, <1>3 DEF InitState, Person
<1>5. twofa \in Factor /\ attempts \in [count : 0..MaxAttempts, locked : BOOLEAN]
  BY <1>1, <1>2, <1>3 DEF InitState, Factor
<1>6. rows \in [Reseller -> 0..(MaxUsers + MaxRequests)]
  BY <1>1, <1>2 DEF InitState
<1>7. req \in [Request -> Req] /\ SlotInv
  BY <1>1, FreeType DEF InitState, SlotInv
<1>8. cookie \in Cookie
  BY <1>1, <1>3, Zeros DEF InitState, Cookie
<1>9. /\ hashes \in Hash /\ secrets \in Secret /\ begun \in 0..MaxRequests
      /\ overlap \subseteq Races /\ confirmed \subseteq Secret /\ founded \in 0..MaxRequests
      /\ tries \in 0..MaxRequests /\ uses \in [Secret -> 0..MaxRequests]
      /\ epoch \in 0..MaxRequests
  BY <1>1, <1>2, <1>3, Zeros DEF InitState
<1> QED
  BY <1>4, <1>5, <1>6, <1>7, <1>8, <1>9 DEF TypeOK, Person, Factor, Cookie, Req

LEMMA InitCount == ASSUME Init PROVE CountInv
<1>1. PICK n \in Name, m \in Name, known \in BOOLEAN, hired \in BOOLEAN,
           second \in BOOLEAN : InitState(n, m, known, hired, second)
  BY InitIs
<1>2. UnderWay = {}
  BY <1>1 DEF UnderWay, InitState
<1>3. Cardinality(UnderWay) = 0
  BY <1>2, FS_EmptySet
<1>4. MaxUsers \in Nat \ {0}
  BY BoundsAssumption
<1>5. \A s \in Reseller : rows[s] + 0 <= 0 + MaxUsers
  BY <1>1, <1>4 DEF InitState
<1> QED BY <1>1, <1>3, <1>5 DEF CountInv, InitState

LEMMA NextType ==
    ASSUME TypeOK, SlotInv, CountInv, Next
    PROVE  TypeOK' /\ SlotInv' /\ CountInv'
<1>1. CountInv' /\ Bounded'
  BY NextCount
<1>2. SlotInv' /\ req' \in [Request -> Req]
  BY NextSlot
<1>3. Held'
  <2>0. Held
    BY DEF TypeOK, Held, Person, Factor, Cookie
  <2>1. ASSUME NEW r \in Request, Begins(r) \/ Verifies(r) PROVE Held'
    <3>1. UNCHANGED <<admin, reseller, twofa, attempts, cookie>>
      BY <2>1, BeginFacts, VerifyFacts DEF BeginEffect, VerifyEffect, accounts, factor, lockout
    <3> QED BY <2>0, <3>1 DEF Held
  <2>2. ASSUME NEW r \in Request, Applies(r) PROVE Held'
    BY <1>1, <2>2, ApplyType
  <2>3. CASE LockEnds
    <3>1. /\ UNCHANGED <<admin, reseller, twofa, cookie>>
          /\ attempts' = [locked |-> FALSE,
                          count |-> IF attempts.locked THEN attempts.count ELSE 0]
      BY <2>3 DEF LockEnds, accounts, factor
    <3>2. attempts' \in [count : 0..MaxAttempts, locked : BOOLEAN]
      BY <2>0, <3>1, BoundsAssumption DEF Held
    <3> QED BY <2>0, <3>1, <3>2 DEF Held
  <2> QED BY <2>1, <2>2, <2>3, NextIs
<1>4. begun' \in 0..MaxRequests /\ overlap' \subseteq Races /\ confirmed' \subseteq Secret
  <2>0. /\ begun \in 0..MaxRequests /\ overlap \subseteq Races /\ confirmed \subseteq Secret
        /\ twofa.secret \in Secret /\ MaxRequests \in Nat
    BY BoundsAssumption DEF TypeOK
  <2>1. ASSUME NEW r \in Request, Begins(r)
        PROVE  begun' \in 0..MaxRequests /\ overlap' \subseteq Races /\ confirmed' \subseteq Secret
    <3>1. BeginEffect(r)
      BY <2>1, BeginFacts
    <3>2. begun' \in 0..MaxRequests
      BY <2>0, <3>1 DEF BeginEffect
    <3> QED BY <2>0, <3>1, <3>2 DEF BeginEffect
  <2>2. ASSUME NEW r \in Request, Verifies(r) PROVE UNCHANGED <<begun, overlap, confirmed>>
    BY <2>2, VerifyFacts DEF VerifyEffect, factor
  <2>3. ASSUME NEW r \in Request, Applies(r) PROVE UNCHANGED <<begun, overlap, confirmed>>
    BY <2>3, ApplyFacts DEF ApplyEffect
  <2>4. CASE LockEnds
    BY <2>0, <2>4 DEF LockEnds, factor
  <2> QED BY <2>0, <2>1, <2>2, <2>3, <2>4, NextIs
<1> QED
  BY <1>1, <1>2, <1>3, <1>4 DEF TypeOK, Bounded, Held, Person, Factor, Cookie, Req

LEMMA SameVars == ASSUME UNCHANGED vars PROVE UNCHANGED <<accounts, factor, lockout, req, cookie, hashes, begun, overlap>>
BY DEF vars, accounts, factor, lockout

LEMMA StutterType ==
    ASSUME TypeOK, SlotInv, CountInv, UNCHANGED vars
    PROVE  TypeOK' /\ SlotInv' /\ CountInv'
BY DEF vars, TypeOK, SlotInv, CountInv, UnderWay

\* Every variable keeps its type: no count of requests, accounts, hashes, secrets
\* or codes passes its bound, since each request still under way has room for what
\* it may add.
THEOREM TypeCorrect == Spec => []TypeOK
<1> DEFINE TInv == TypeOK /\ SlotInv /\ CountInv
<1>1. Init => TInv
  BY InitType, InitCount
<1>2. TInv /\ [Next]_vars => TInv'
  <2>1. ASSUME TInv, Next PROVE TInv'
    BY <2>1, NextType
  <2>2. ASSUME TInv, UNCHANGED vars PROVE TInv'
    BY <2>2, StutterType
  <2> QED BY <2>1, <2>2
<1> QED BY <1>1, <1>2, PTL DEF Spec

(***************************************************************************)
(* What is under way together has been noted.                              *)
(***************************************************************************)
LEMMA NextRace == ASSUME TypeOK, SlotInv, RaceInv, Next PROVE RaceInv'
<1> SUFFICES ASSUME NEW a \in UnderWay', NEW b \in UnderWay', a # b,
                    {req'[a].kind, req'[b].kind} \in Races
             PROVE  {req'[a].kind, req'[b].kind} \in overlap'
  BY DEF RaceInv, Overlapped
<1>0. ASSUME a \in UnderWay, b \in UnderWay, req'[a].kind = req[a].kind,
             req'[b].kind = req[b].kind, overlap \subseteq overlap'
      PROVE  {req'[a].kind, req'[b].kind} \in overlap'
  BY <1>0 DEF RaceInv, Overlapped
<1>1. ASSUME NEW r \in Request, Begins(r) PROVE {req'[a].kind, req'[b].kind} \in overlap'
  <2>1. /\ \A o \in Request \ {r} : req'[o] = req[o]
        /\ overlap' = overlap \cup (Races \cap {{req'[r].kind, req[o].kind} : o \in UnderWay})
    BY <1>1, BeginFacts DEF BeginEffect
  <2>2. CASE a # r /\ b # r
    BY <1>0, <2>1, <2>2 DEF UnderWay
  <2>3. CASE a = r
    <3>1. b \in UnderWay /\ req'[b] = req[b]
      BY <2>1, <2>3 DEF UnderWay
    <3> QED BY <2>1, <2>3, <3>1
  <2>4. CASE b = r
    <3>1. a \in UnderWay /\ req'[a] = req[a]
      BY <2>1, <2>4 DEF UnderWay
    <3>2. {req'[a].kind, req'[b].kind} = {req'[r].kind, req[a].kind}
      BY <2>4, <3>1
    <3> QED BY <2>1, <3>1, <3>2
  <2> QED BY <2>2, <2>3, <2>4
<1>2. ASSUME NEW r \in Request, Verifies(r) PROVE {req'[a].kind, req'[b].kind} \in overlap'
  <2>1. VerifyEffect(r)
    BY <1>2, VerifyFacts
  <2>2. /\ a \in UnderWay /\ req'[a].kind = req[a].kind
        /\ b \in UnderWay /\ req'[b].kind = req[b].kind
    BY <2>1 DEF VerifyEffect, UnderWay
  <2> QED BY <1>0, <2>1, <2>2 DEF VerifyEffect
<1>3. ASSUME NEW r \in Request, Applies(r) PROVE {req'[a].kind, req'[b].kind} \in overlap'
  <2>1. ApplyEffect(r)
    BY <1>3, ApplyFacts
  <2>2. /\ a \in UnderWay /\ req'[a].kind = req[a].kind
        /\ b \in UnderWay /\ req'[b].kind = req[b].kind
    BY <2>1 DEF ApplyEffect, UnderWay
  <2> QED BY <1>0, <2>1, <2>2 DEF ApplyEffect
<1>4. CASE LockEnds
  BY <1>0, <1>4 DEF LockEnds, UnderWay
<1> QED BY <1>1, <1>2, <1>3, <1>4, NextIs

\* What has overlapped stays noted.
LEMMA OverlapGrows == ASSUME TypeOK, SlotInv, Next PROVE overlap \subseteq overlap'
<1>1. ASSUME NEW r \in Request, Begins(r) PROVE overlap \subseteq overlap'
  BY <1>1, BeginFacts DEF BeginEffect
<1>2. ASSUME NEW r \in Request, Verifies(r) PROVE overlap \subseteq overlap'
  BY <1>2, VerifyFacts DEF VerifyEffect
<1>3. ASSUME NEW r \in Request, Applies(r) PROVE overlap \subseteq overlap'
  BY <1>3, ApplyFacts DEF ApplyEffect
<1> QED BY <1>1, <1>2, <1>3, NextIs DEF LockEnds

(***************************************************************************)
(* What a request leaves alone when it is applied.                         *)
(***************************************************************************)
LEMMA AppliesByKind ==
    ASSUME NEW r \in Request, Applies(r)
    PROVE  \/ req[r].kind = "setup" /\ ApplySetup(r)
           \/ req[r].kind = "login" /\ (RecordFailure(r) \/ RecordSuccess(r))
           \/ req[r].kind = "logout" /\ ApplyLogout(r)
           \/ req[r].kind = "password" /\ ApplyPassword(r)
           \/ req[r].kind = "hire" /\ ApplyHire(r)
           \/ req[r].kind = "patch" /\ ApplyPatch(r)
           \/ req[r].kind = "fire" /\ ApplyFire(r)
           \/ req[r].kind = "create" /\ ApplyCreate(r)
           \/ req[r].kind \in {"enrol", "enable", "disable", "codes"} /\ ApplyFactor(r, req[r].kind)
<1>1. ASSUME NEW kind, Apply(r, kind) PROVE req[r].kind = kind
  BY <1>1 DEF Apply
<1>2. ApplySetup(r) => req[r].kind = "setup"
  BY <1>1 DEF ApplySetup
<1>3. RecordFailure(r) \/ RecordSuccess(r) => req[r].kind = "login"
  BY <1>1 DEF RecordFailure, RecordSuccess
<1>4. ApplyLogout(r) => req[r].kind = "logout"
  BY <1>1 DEF ApplyLogout
<1>5. ApplyPassword(r) => req[r].kind = "password"
  BY <1>1 DEF ApplyPassword
<1>6. ApplyHire(r) => req[r].kind = "hire"
  BY <1>1 DEF ApplyHire
<1>7. ApplyPatch(r) => req[r].kind = "patch"
  BY <1>1 DEF ApplyPatch
<1>8. ApplyFire(r) => req[r].kind = "fire"
  BY <1>1 DEF ApplyFire
<1>9. ApplyCreate(r) => req[r].kind = "create"
  BY <1>1 DEF ApplyCreate
<1>10. \A kind : ApplyFactor(r, kind) => req[r].kind = kind
  BY <1>1 DEF ApplyFactor
<1> QED BY <1>2, <1>3, <1>4, <1>5, <1>6, <1>7, <1>8, <1>9, <1>10, Zenon DEF Applies

LEMMA Untouched ==
    ASSUME NEW r \in Request, Applies(r)
    PROVE  /\ req[r].kind # "login" => UNCHANGED <<lockout, uses>>
           /\ req[r].kind \notin {"login", "enrol", "enable", "disable", "codes"}
                => UNCHANGED <<twofa, secrets>>
           /\ req[r].kind \notin {"create", "fire"} => UNCHANGED rows
           /\ req[r].kind \notin {"password", "hire", "patch", "fire"} => UNCHANGED reseller
           /\ req[r].kind \notin {"setup", "password"} => UNCHANGED admin
           /\ req[r].kind # "setup" => UNCHANGED founded
           /\ req[r].kind # "logout" => UNCHANGED epoch
           /\ req[r].kind \notin {"setup", "password", "hire", "patch"} => UNCHANGED hashes
           /\ req[r].kind \notin {"setup", "login", "password"} => UNCHANGED cookie
<1>1. ApplySetup(r) => UNCHANGED <<reseller, epoch, rows, factor, lockout>>
  BY DEF ApplySetup
<1>2. RecordFailure(r) => UNCHANGED <<accounts, factor, cookie, hashes>>
  BY DEF RecordFailure
<1>3. RecordSuccess(r) => UNCHANGED <<accounts, hashes, secrets, confirmed>>
  BY DEF RecordSuccess
<1>4. ApplyLogout(r) =>
        UNCHANGED <<admin, reseller, rows, founded, factor, lockout, cookie, hashes>>
  BY DEF ApplyLogout
<1>5. ApplyPassword(r) => UNCHANGED <<epoch, rows, founded, factor, lockout>>
  BY DEF ApplyPassword, accounts
<1>6. ApplyHire(r) => UNCHANGED <<admin, epoch, rows, founded, factor, lockout, cookie>>
  BY DEF ApplyHire
<1>7. ApplyPatch(r) => UNCHANGED <<admin, epoch, rows, founded, factor, lockout, cookie>>
  BY DEF ApplyPatch
<1>8. ApplyFire(r) => UNCHANGED <<admin, epoch, founded, factor, lockout, cookie, hashes>>
  BY DEF ApplyFire
<1>9. ApplyCreate(r) =>
        UNCHANGED <<admin, reseller, epoch, founded, factor, lockout, cookie, hashes>>
  BY DEF ApplyCreate
<1>10. \A kind : ApplyFactor(r, kind) =>
         UNCHANGED <<accounts, lockout, cookie, hashes, confirmed, uses>>
  BY DEF ApplyFactor
<1> QED
  BY <1>1, <1>2, <1>3, <1>4, <1>5, <1>6, <1>7, <1>8, <1>9, <1>10, AppliesByKind
  DEF accounts, factor, lockout

\* How the set of the requests of a kind changes.
LEMMA DoingChanges ==
    ASSUME NEW r \in Request, NEW kind \in Kind
    PROVE  /\ BeginEffect(r) => /\ r \notin Doing(kind)
                                /\ req'[r].kind = kind => Doing(kind)' = Doing(kind) \cup {r}
                                /\ req'[r].kind # kind => Doing(kind)' = Doing(kind)
           /\ VerifyEffect(r) => Doing(kind)' \subseteq Doing(kind)
           /\ ApplyEffect(r) => Doing(kind)' = Doing(kind) \ {r}
           /\ UNCHANGED req => Doing(kind)' = Doing(kind)
<1>0. Free.kind # kind
  BY FreeType DEF Kind
<1>1. ASSUME BeginEffect(r)
      PROVE  /\ r \notin Doing(kind)
             /\ req'[r].kind = kind => Doing(kind)' = Doing(kind) \cup {r}
             /\ req'[r].kind # kind => Doing(kind)' = Doing(kind)
  BY <1>0, <1>1 DEF BeginEffect, Doing
<1>2. ASSUME VerifyEffect(r) PROVE Doing(kind)' \subseteq Doing(kind)
  BY <1>0, <1>2 DEF VerifyEffect, Doing
<1>3. ASSUME ApplyEffect(r) PROVE Doing(kind)' = Doing(kind) \ {r}
  BY <1>0, <1>3 DEF ApplyEffect, Doing
<1> QED BY <1>1, <1>2, <1>3 DEF Doing

(***************************************************************************)
(* The checks made before an await.                                        *)
(***************************************************************************)
LEMMA NextLock == ASSUME TypeOK, SlotInv, CountInv, LockInv, Next PROVE LockInv'
<1> DEFINE d == Cardinality(Doing("login"))
           max == Cardinality(Request)
<1>0. /\ Doing("login") \in SUBSET Request /\ Doing("login")' \in SUBSET Request
      /\ "login" \in Kind
  BY DEF Doing, Kind
<1>1. /\ d \in Nat /\ d' \in Nat /\ max \in Nat /\ d <= max /\ d' <= max
  BY <1>0, Counting
<1>2. /\ MaxAttempts \in Nat \ {0} /\ tries \in Nat /\ attempts.count \in Nat
      /\ attempts.locked \in BOOLEAN
      /\ attempts \in [count : 0..MaxAttempts, locked : BOOLEAN]
  BY BoundsAssumption DEF TypeOK
<1>3. ASSUME UNCHANGED lockout, d' <= d PROVE LockInv'
  <2>1. UNCHANGED <<attempts, tries>>
    BY <1>3 DEF lockout
  <2>2. CASE attempts.locked
    BY <1>1, <1>2, <1>3, <2>1, <2>2 DEF LockInv
  <2>3. CASE ~attempts.locked
    BY <1>1, <1>2, <2>1, <2>3 DEF LockInv
  <2> QED BY <2>2, <2>3
<1>4. ASSUME UNCHANGED lockout, ~attempts.locked PROVE LockInv'
  BY <1>4 DEF LockInv, lockout
<1>5. ASSUME NEW r \in Request, Begins(r) PROVE LockInv'
  <2>1. BeginEffect(r) /\ Checked(req'[r])
    BY <1>5, BeginFacts
  <2>2. UNCHANGED lockout
    BY <2>1 DEF BeginEffect
  <2>3. CASE req'[r].kind = "login"
    BY <1>4, <2>1, <2>2, <2>3 DEF Checked
  <2>4. CASE req'[r].kind # "login"
    <3>1. Doing("login")' = Doing("login")
      BY <1>0, <2>1, <2>4, DoingChanges
    <3> QED BY <1>1, <1>3, <2>2, <3>1
  <2> QED BY <2>3, <2>4
<1>6. ASSUME NEW r \in Request, Verifies(r) PROVE LockInv'
  <2>1. VerifyEffect(r)
    BY <1>6, VerifyFacts
  <2>2. Doing("login")' \subseteq Doing("login")
    BY <1>0, <2>1, DoingChanges
  <2>3. d' <= d
    BY <1>0, <2>2, Counting
  <2> QED BY <1>3, <2>1, <2>3 DEF VerifyEffect
<1>7. ASSUME NEW r \in Request, Applies(r) PROVE LockInv'
  <2>1. ApplyEffect(r)
    BY <1>7, ApplyFacts
  <2>2. Doing("login")' = Doing("login") \ {r}
    BY <1>0, <2>1, DoingChanges
  <2>3. d' <= d
    BY <1>0, <2>2, Counting
  <2>4. CASE req[r].kind # "login"
    BY <1>3, <1>7, <2>3, <2>4, Untouched
  <2>5. CASE RecordFailure(r)
    <3>1. r \in Doing("login")
      BY <2>5 DEF RecordFailure, Apply, Doing
    <3>2. d' = d - 1
      BY <1>0, <2>2, <3>1, Counting
    <3>3. /\ tries' = tries + 1
          /\ attempts' = IF attempts.count + 1 >= MaxAttempts
                         THEN [count |-> 0, locked |-> TRUE]
                         ELSE [attempts EXCEPT !.count = attempts.count + 1]
      BY <2>5 DEF RecordFailure
    <3>4. CASE attempts.count + 1 >= MaxAttempts
      <4>1. attempts'.count = 0 /\ attempts'.locked
        BY <3>3, <3>4
      <4>2. tries + d <= MaxAttempts - 1 + max
        <5>1. CASE attempts.locked
          BY <1>1, <1>2, <5>1 DEF LockInv
        <5>2. CASE ~attempts.locked
          <6>1. tries <= attempts.count /\ attempts.count < MaxAttempts
            BY <5>2 DEF LockInv
          <6> QED BY <1>1, <1>2, <6>1
        <5> QED BY <5>1, <5>2
      <4>3. tries' + d' < MaxAttempts + max
        BY <1>1, <1>2, <3>2, <3>3, <4>2
      <4> QED BY <1>2, <4>1, <4>3 DEF LockInv
    <3>5. CASE ~(attempts.count + 1 >= MaxAttempts)
      <4>1. attempts'.count = attempts.count + 1 /\ attempts'.locked = attempts.locked
        BY <1>2, <3>3, <3>5
      <4>2. attempts'.count < MaxAttempts
        BY <1>2, <3>5, <4>1
      <4>3. CASE attempts.locked
        <5>1. tries' + d' < MaxAttempts + max
          BY <1>1, <1>2, <3>2, <3>3, <4>3 DEF LockInv
        <5> QED BY <4>1, <4>2, <4>3, <5>1 DEF LockInv
      <4>4. CASE ~attempts.locked
        <5>1. tries' <= attempts'.count
          BY <1>2, <3>3, <4>1, <4>4 DEF LockInv
        <5> QED BY <4>1, <4>2, <4>4, <5>1 DEF LockInv
      <4> QED BY <4>3, <4>4
    <3> QED BY <3>4, <3>5
  <2>6. CASE RecordSuccess(r)
    <3>1. attempts' = [count |-> 0, locked |-> FALSE] /\ tries' = 0
      BY <2>6 DEF RecordSuccess
    <3> QED BY <1>2, <3>1 DEF LockInv
  <2> QED BY <1>7, <2>4, <2>5, <2>6, AppliesByKind
<1>8. CASE LockEnds
  <2>1. /\ attempts' = [locked |-> FALSE,
                        count |-> IF attempts.locked THEN attempts.count ELSE 0]
        /\ tries' = 0
    BY <1>8 DEF LockEnds
  <2> QED BY <1>2, <2>1 DEF LockInv
<1> QED BY <1>5, <1>6, <1>7, <1>8, NextIs

LEMMA NextCode == ASSUME TypeOK, TypeOK', SlotInv, CodeInv, Next PROVE CodeInv'
<1> DEFINE max == Cardinality(Request)
<1>0. /\ twofa.codes \in Secret /\ secrets \in Nat /\ Secret \subseteq Nat /\ 0 \in Secret
      /\ uses \in [Secret -> Nat]
  <2>1. Secret \subseteq Nat /\ 0 \in Secret
    BY BoundsAssumption DEF Secret
  <2>2. twofa.codes \in Secret /\ secrets \in Secret /\ uses \in [Secret -> 0..MaxRequests]
    BY DEF TypeOK
  <2>3. uses \in [Secret -> Nat]
    BY <2>2, BoundsAssumption
  <2> QED BY <2>1, <2>2, <2>3
<1>a. ASSUME NEW c \in Secret
      PROVE  /\ Carrying(c) \in SUBSET Request /\ Carrying(c)' \in SUBSET Request
             /\ Cardinality(Carrying(c)) \in Nat /\ Cardinality(Carrying(c)') \in Nat
             /\ Cardinality(Carrying(c)') <= max /\ max \in Nat
             /\ Carrying(c)' \subseteq Carrying(c)
                  => Cardinality(Carrying(c)') <= Cardinality(Carrying(c))
  <2>1. Carrying(c) \in SUBSET Request /\ Carrying(c)' \in SUBSET Request
    BY DEF Carrying, Doing
  <2> QED BY <2>1, Counting
\* The sets in use are unchanged.
<1>b. ASSUME UNCHANGED <<twofa, secrets, uses>>,
             \A c \in Secret \ {0} :
                Carrying(c)' \subseteq Carrying(c) \/ (c = twofa.codes /\ twofa.codes # 0)
      PROVE  CodeInv'
  <2>1. ASSUME NEW c \in Secret \ {0}
        PROVE  /\ c > secrets' => uses'[c] = 0 /\ Carrying(c)' = {}
               /\ uses'[c] + Cardinality(Carrying(c)') <= max
    <3>1. CASE Carrying(c)' \subseteq Carrying(c)
      <4>1. Cardinality(Carrying(c)') <= Cardinality(Carrying(c))
        BY <1>a, <3>1
      <4>2. uses[c] + Cardinality(Carrying(c)) <= max /\ uses[c] \in Nat
        BY <1>0 DEF CodeInv
      <4>3. uses[c] + Cardinality(Carrying(c)') <= max
        BY <1>a, <4>1, <4>2
      <4>4. c > secrets => uses[c] = 0 /\ Carrying(c) = {}
        BY DEF CodeInv
      <4> QED BY <1>b, <3>1, <4>3, <4>4
    <3>2. CASE c = twofa.codes /\ twofa.codes # 0
      <4>1. uses[c] = 0 /\ c <= secrets
        BY <3>2 DEF CodeInv
      <4> QED BY <1>0, <1>a, <1>b, <4>1
    <3> QED BY <1>b, <3>1, <3>2
  <2> QED BY <1>b, <2>1 DEF CodeInv
<1>1. ASSUME NEW r \in Request, Begins(r) PROVE CodeInv'
  <2>1. BeginEffect(r) /\ Checked(req'[r])
    BY <1>1, BeginFacts
  <2>2. ASSUME NEW c \in Secret \ {0} PROVE Carrying(c)' \subseteq Carrying(c)
    BY <2>1 DEF BeginEffect, Checked, Carrying, Doing
  <2> QED BY <1>b, <2>1, <2>2 DEF BeginEffect
<1>2. ASSUME NEW r \in Request, Verifies(r) PROVE CodeInv'
  <2>1. VerifyEffect(r)
    BY <1>2, VerifyFacts
  <2>2. ASSUME NEW c \in Secret \ {0}
        PROVE  Carrying(c)' \subseteq Carrying(c) \/ (c = twofa.codes /\ twofa.codes # 0)
    BY <2>1, FreeType DEF VerifyEffect, Carrying, Doing
  <2> QED BY <1>b, <2>1, <2>2 DEF VerifyEffect, factor
<1>3. ASSUME NEW r \in Request, Applies(r) PROVE CodeInv'
  <2>1. ApplyEffect(r)
    BY <1>3, ApplyFacts
  <2>2. ASSUME NEW c \in Secret \ {0} PROVE Carrying(c)' = Carrying(c) \ {r}
    BY <2>1, FreeType DEF ApplyEffect, Carrying, Doing
  <2>3. CASE UNCHANGED <<twofa, secrets, uses>>
    BY <1>b, <2>2, <2>3
  <2>4. CASE RecordSuccess(r)
    <3> DEFINE k == req[r].code
    <3>1. k \in Secret /\ r \in Doing("login")
      BY <2>4 DEF RecordSuccess, Apply, Doing, TypeOK
    <3>2. /\ secrets' = secrets
          /\ twofa' = [twofa EXCEPT !.codes = IF twofa.codes = k THEN 0 ELSE twofa.codes]
          /\ uses' = IF k = 0 THEN uses ELSE [uses EXCEPT ![k] = uses[k] + 1]
      BY <2>4 DEF RecordSuccess
    <3> HIDE DEF k
    <3>3. twofa'.codes = IF twofa.codes = k THEN 0 ELSE twofa.codes
      BY <3>2 DEF TypeOK
    <3>4. ASSUME NEW c \in Secret PROVE uses'[c] = IF c = k /\ k # 0 THEN uses[c] + 1 ELSE uses[c]
      BY <1>0, <3>1, <3>2
    <3>5. ASSUME NEW c \in Secret \ {0}
          PROVE  /\ c > secrets' => uses'[c] = 0 /\ Carrying(c)' = {}
                 /\ uses'[c] + Cardinality(Carrying(c)') <= max
      <4>1. CASE c = k
        <5>1. r \in Carrying(c)
          BY <3>1, <4>1 DEF Carrying, k
        <5>2. ~(c > secrets)
          BY <5>1 DEF CodeInv
        <5>3. Cardinality(Carrying(c)') = Cardinality(Carrying(c)) - 1
          BY <1>a, <2>2, <5>1, Counting
        <5>4. uses[c] + Cardinality(Carrying(c)) <= max /\ uses[c] \in Nat
          BY <1>0 DEF CodeInv
        <5>5. uses'[c] = uses[c] + 1
          BY <3>4, <4>1
        <5>6. uses'[c] + Cardinality(Carrying(c)') <= max
          BY <1>a, <5>3, <5>4, <5>5
        <5> QED BY <3>2, <5>2, <5>6
      <4>2. CASE c # k
        <5>1. uses'[c] = uses[c]
          BY <3>4, <4>2
        <5>2. Carrying(c)' \subseteq Carrying(c)
          BY <2>2
        <5>3. uses[c] + Cardinality(Carrying(c)) <= max /\ uses[c] \in Nat
          BY <1>0 DEF CodeInv
        <5>4. uses[c] + Cardinality(Carrying(c)') <= max
          BY <1>a, <5>2, <5>3
        <5>5. c > secrets => uses[c] = 0 /\ Carrying(c) = {}
          BY DEF CodeInv
        <5> QED BY <3>2, <5>1, <5>2, <5>4, <5>5
      <4> QED BY <4>1, <4>2
    <3>6. twofa'.codes # 0 => uses'[twofa'.codes] = 0
      BY <1>0, <3>3, <3>4 DEF CodeInv
    <3>7. twofa'.codes <= secrets' /\ uses'[0] = 0
      BY <1>0, <3>2, <3>3, <3>4 DEF CodeInv
    <3> QED BY <3>5, <3>6, <3>7 DEF CodeInv
  <2>5. CASE RecordFailure(r)
    BY <2>3, <2>5 DEF RecordFailure, factor
  <2>6. CASE req[r].kind \in {"enrol", "enable", "disable", "codes"} /\ ApplyFactor(r, req[r].kind)
    <3>1. UNCHANGED uses /\ secrets' \in {secrets, secrets + 1}
      BY <2>6 DEF ApplyFactor
    <3>2. \/ twofa'.codes = twofa.codes \/ twofa'.codes = 0
          \/ twofa'.codes = secrets' /\ secrets' = secrets + 1
      BY <2>6 DEF ApplyFactor, TypeOK
    <3>3. \A c \in Secret : c > secrets => uses[c] = 0
      BY DEF CodeInv, Secret
    <3>4. secrets' \in Secret /\ secrets + 1 > secrets /\ twofa'.codes \in Secret
      BY <1>0 DEF TypeOK
    <3>5. ASSUME NEW c \in Secret \ {0}
          PROVE  /\ c > secrets' => uses'[c] = 0 /\ Carrying(c)' = {}
                 /\ uses'[c] + Cardinality(Carrying(c)') <= max
      <4>1. c > secrets' => c > secrets
        BY <1>0, <3>1
      <4>2. Carrying(c)' \subseteq Carrying(c)
        BY <2>2
      <4>3. uses[c] + Cardinality(Carrying(c)) <= max /\ uses[c] \in Nat
        BY <1>0 DEF CodeInv
      <4>4. uses[c] + Cardinality(Carrying(c)') <= max
        BY <1>a, <4>2, <4>3
      <4>5. c > secrets => uses[c] = 0 /\ Carrying(c) = {}
        BY DEF CodeInv
      <4> QED BY <3>1, <4>1, <4>2, <4>4, <4>5
    <3>6. twofa'.codes # 0 => uses'[twofa'.codes] = 0
      BY <3>1, <3>2, <3>3, <3>4 DEF CodeInv
    <3>7. twofa'.codes <= secrets' /\ uses'[0] = 0
      <4>1. twofa.codes <= secrets /\ uses[0] = 0 /\ twofa.codes \in Nat
        BY <1>0 DEF CodeInv
      <4>2. secrets' \in Nat /\ twofa.codes <= secrets'
        BY <1>0, <3>1, <4>1
      <4> QED BY <3>1, <3>2, <4>1, <4>2
    <3> QED BY <3>5, <3>6, <3>7 DEF CodeInv
  <2>7. CASE req[r].kind \notin {"login", "enrol", "enable", "disable", "codes"}
    BY <1>3, <2>3, <2>7, Untouched
  <2> QED BY <1>3, <2>4, <2>5, <2>6, <2>7, AppliesByKind
<1>4. CASE LockEnds
  <2>1. UNCHANGED <<twofa, secrets, uses, req>>
    BY <1>4 DEF LockEnds, factor
  <2>2. \A c \in Secret \ {0} : Carrying(c)' = Carrying(c)
    BY <2>1 DEF Carrying, Doing
  <2> QED BY <1>b, <2>1, <2>2
<1> QED BY <1>1, <1>2, <1>3, <1>4, NextIs

LEMMA NextQuota == ASSUME TypeOK, SlotInv, QuotaInv, Next PROVE QuotaInv'
<1> DEFINE max == Cardinality(Request)
<1> SUFFICES ASSUME NEW s \in Reseller
             PROVE  rows'[s] + Cardinality(CreatingFor(s)') < MaxUsers + max
  BY DEF QuotaInv
<1>0. rows[s] \in Nat /\ MaxUsers \in Nat /\ rows \in [Reseller -> Nat]
  <2>1. MaxUsers \in Nat /\ rows \in [Reseller -> 0..(MaxUsers + MaxRequests)]
    BY BoundsAssumption DEF TypeOK
  <2> QED BY <2>1, BoundsAssumption
<1>1. /\ CreatingFor(s) \in SUBSET Request /\ CreatingFor(s)' \in SUBSET Request
  BY DEF CreatingFor, Doing
<1>2. /\ Cardinality(CreatingFor(s)) \in Nat /\ Cardinality(CreatingFor(s)') \in Nat
      /\ Cardinality(CreatingFor(s)') <= max /\ max \in Nat
      /\ CreatingFor(s)' \subseteq CreatingFor(s)
           => Cardinality(CreatingFor(s)') <= Cardinality(CreatingFor(s))
  BY <1>1, Counting
<1>3. rows[s] + Cardinality(CreatingFor(s)) < MaxUsers + max
  BY DEF QuotaInv
<1>4. ASSUME rows'[s] = rows[s] \/ rows'[s] = 0, CreatingFor(s)' \subseteq CreatingFor(s)
      PROVE  rows'[s] + Cardinality(CreatingFor(s)') < MaxUsers + max
  <2>1. Cardinality(CreatingFor(s)') <= Cardinality(CreatingFor(s))
    BY <1>2, <1>4
  <2> QED BY <1>0, <1>2, <1>3, <1>4, <2>1
<1>5. ASSUME NEW r \in Request, Begins(r)
      PROVE  rows'[s] + Cardinality(CreatingFor(s)') < MaxUsers + max
  <2>1. BeginEffect(r) /\ Checked(req'[r])
    BY <1>5, BeginFacts
  <2>2. rows' = rows
    BY <2>1 DEF BeginEffect, accounts
  <2>3. CASE req'[r].kind = "create" /\ req'[r].who = s
    <3>1. rows[s] < MaxUsers
      BY <2>1, <2>3 DEF Checked
    <3> QED BY <1>0, <1>2, <2>2, <3>1
  <2>4. CASE ~(req'[r].kind = "create" /\ req'[r].who = s)
    <3>1. CreatingFor(s)' \subseteq CreatingFor(s)
      BY <2>1, <2>4 DEF BeginEffect, CreatingFor, Doing
    <3> QED BY <1>4, <2>2, <3>1
  <2> QED BY <2>3, <2>4
<1>6. ASSUME NEW r \in Request, Verifies(r)
      PROVE  rows'[s] + Cardinality(CreatingFor(s)') < MaxUsers + max
  <2>1. VerifyEffect(r)
    BY <1>6, VerifyFacts
  <2>2. rows' = rows
    BY <2>1 DEF VerifyEffect, accounts
  <2>3. CreatingFor(s)' \subseteq CreatingFor(s)
    BY <2>1, FreeType DEF VerifyEffect, CreatingFor, Doing
  <2> QED BY <1>4, <2>2, <2>3
<1>7. ASSUME NEW r \in Request, Applies(r)
      PROVE  rows'[s] + Cardinality(CreatingFor(s)') < MaxUsers + max
  <2>1. ApplyEffect(r)
    BY <1>7, ApplyFacts
  <2>2. CreatingFor(s)' = CreatingFor(s) \ {r}
    BY <2>1, FreeType DEF ApplyEffect, CreatingFor, Doing
  <2>3. CASE ApplyCreate(r)
    <3>1. req[r].kind = "create" /\ rows' = [rows EXCEPT ![req[r].who] = rows[req[r].who] + 1]
      BY <2>3 DEF ApplyCreate, Apply
    <3>2. CASE req[r].who = s
      <4>1. r \in CreatingFor(s)
        BY <3>1, <3>2 DEF CreatingFor, Doing
      <4>2. Cardinality(CreatingFor(s)') = Cardinality(CreatingFor(s)) - 1
        BY <1>1, <2>2, <4>1, Counting
      <4>3. rows'[s] = rows[s] + 1
        BY <1>0, <3>1, <3>2
      <4> QED BY <1>0, <1>2, <1>3, <4>2, <4>3
    <3>3. CASE req[r].who # s
      <4>1. rows'[s] = rows[s]
        BY <1>0, <3>1, <3>3
      <4> QED BY <1>4, <2>2, <4>1
    <3> QED BY <3>2, <3>3
  <2>4. CASE ApplyFire(r)
    <3>1. rows' = rows \/ \E t \in Reseller : rows' = [rows EXCEPT ![t] = 0]
      BY <2>4 DEF ApplyFire
    <3>2. rows'[s] = rows[s] \/ rows'[s] = 0
      BY <1>0, <3>1
    <3> QED BY <1>4, <2>2, <3>2
  <2>5. CASE req[r].kind \notin {"create", "fire"}
    <3>1. rows' = rows
      BY <1>7, <2>5, Untouched
    <3> QED BY <1>4, <2>2, <3>1
  <2> QED BY <1>7, <2>3, <2>4, <2>5, AppliesByKind
<1>8. CASE LockEnds
  <2>1. UNCHANGED <<rows, req>>
    BY <1>8 DEF LockEnds, accounts
  <2>2. CreatingFor(s)' = CreatingFor(s)
    BY <2>1 DEF CreatingFor, Doing
  <2> QED BY <1>4, <2>1, <2>2
<1> QED BY <1>5, <1>6, <1>7, <1>8, NextIs

LEMMA InitChecks == ASSUME Init PROVE ChecksInv
<1>1. PICK n \in Name, m \in Name, known \in BOOLEAN, hired \in BOOLEAN,
           second \in BOOLEAN : InitState(n, m, known, hired, second)
  BY InitIs
<1>2. \A kind \in Kind : Doing(kind) = {}
  BY <1>1, FreeType DEF Doing, InitState, Kind
<1>3. \A c : Carrying(c) = {}
  BY <1>2 DEF Carrying, Kind
<1>4. \A s : CreatingFor(s) = {}
  BY <1>2 DEF CreatingFor, Kind
<1>5. Cardinality({}) = 0 /\ Cardinality(Request) \in Nat
  BY Counting, FS_EmptySet
<1>6. MaxAttempts \in Nat \ {0} /\ MaxUsers \in Nat \ {0} /\ MaxRequests \in Nat
  BY BoundsAssumption
<1>7. LockInv
  BY <1>1, <1>6 DEF InitState, LockInv
<1>8. CodeInv
  <2>1. {0, 1} \subseteq Secret
    BY <1>6 DEF Secret
  <2>2. \A c \in Secret : uses[c] = 0
    BY <1>1 DEF InitState
  <2>3. twofa.codes <= secrets /\ twofa.codes \in {0, 1}
    BY <1>1 DEF InitState
  <2>4. \A c \in Secret : uses[c] + Cardinality(Carrying(c)) <= Cardinality(Request)
    BY <1>3, <1>5, <2>2
  <2> QED BY <1>3, <2>1, <2>2, <2>3, <2>4 DEF CodeInv
<1>9. QuotaInv
  <2>1. ASSUME NEW s \in Reseller PROVE rows[s] \in Nat /\ rows[s] < MaxUsers
    BY <1>1, <1>6 DEF InitState
  <2> QED BY <1>4, <1>5, <1>6, <2>1 DEF QuotaInv
<1> QED BY <1>7, <1>8, <1>9 DEF ChecksInv

LEMMA StutterChecks == ASSUME ChecksInv, UNCHANGED vars PROVE ChecksInv'
BY DEF vars, ChecksInv, LockInv, CodeInv, QuotaInv, Carrying, CreatingFor, Doing

LEMMA ChecksFollow == ASSUME TypeOK, ChecksInv PROVE ChecksHold
<1>1. \A c \in Secret : Carrying(c) \in SUBSET Request
  BY DEF Carrying, Doing
<1>2. \A s \in Reseller : CreatingFor(s) \in SUBSET Request
  BY DEF CreatingFor, Doing
<1>3. LockoutHolds
  <2>1. Doing("login") \in SUBSET Request
    BY DEF Doing
  <2>2. /\ Cardinality(Doing("login")) \in Nat /\ Cardinality(Request) \in Nat
        /\ MaxAttempts \in Nat /\ tries \in Nat /\ attempts.count \in Nat
    BY <2>1, Counting, BoundsAssumption DEF TypeOK
  <2>3. CASE attempts.locked
    BY <2>2, <2>3 DEF ChecksInv, LockInv, LockoutHolds
  <2>4. CASE ~attempts.locked
    BY <2>2, <2>4 DEF ChecksInv, LockInv, LockoutHolds
  <2> QED BY <2>3, <2>4
<1>4. CodesBurn
  <2> SUFFICES ASSUME NEW c \in Secret PROVE uses[c] <= Cardinality(Request)
    BY DEF CodesBurn
  <2>1. uses[c] \in Nat /\ Cardinality(Carrying(c)) \in Nat /\ Cardinality(Request) \in Nat
    BY <1>1, Counting, BoundsAssumption DEF TypeOK
  <2>2. CASE c = 0
    BY <2>1, <2>2 DEF ChecksInv, CodeInv
  <2>3. CASE c # 0
    BY <2>1, <2>3 DEF ChecksInv, CodeInv
  <2> QED BY <2>2, <2>3
<1>5. QuotasHold
  <2> SUFFICES ASSUME NEW s \in Reseller PROVE rows[s] < MaxUsers + Cardinality(Request)
    BY DEF QuotasHold
  <2>1. /\ rows[s] \in Nat /\ Cardinality(CreatingFor(s)) \in Nat
        /\ Cardinality(Request) \in Nat /\ MaxUsers \in Nat
    BY <1>2, Counting, BoundsAssumption DEF TypeOK
  <2> QED BY <2>1 DEF ChecksInv, QuotaInv
<1> QED BY <1>3, <1>4, <1>5 DEF ChecksHold

\* The checks that api_login (LOGIN_MAX_ATTEMPTS), the recovery codes ("single use")
\* and assert_can_create make before an await let through at most as many requests
\* too many as are handled at once.
THEOREM ChecksHoldAlways == Spec => []ChecksHold
<1> DEFINE CInv == TypeOK /\ SlotInv /\ CountInv /\ ChecksInv
<1>1. Init => CInv
  BY InitType, InitCount, InitChecks
<1>2. CInv /\ [Next]_vars => CInv'
  <2>1. ASSUME CInv, Next PROVE CInv'
    <3>1. TypeOK' /\ SlotInv' /\ CountInv'
      BY <2>1, NextType
    <3>2. LockInv' /\ CodeInv' /\ QuotaInv'
      BY <2>1, <3>1, NextLock, NextCode, NextQuota DEF ChecksInv
    <3> QED BY <3>1, <3>2 DEF ChecksInv
  <2>2. ASSUME CInv, UNCHANGED vars PROVE CInv'
    BY <2>2, StutterType, StutterChecks
  <2> QED BY <2>1, <2>2
<1>3. CInv => ChecksHold
  BY ChecksFollow
<1> QED BY <1>1, <1>2, <1>3, PTL DEF Spec

(***************************************************************************)
(* What becomes of the accounts.                                           *)
(***************************************************************************)
LEMMA NewHashes ==
    ASSUME TypeOK, SlotInv, CountInv, NEW r \in Request, Applies(r)
    PROVE  hashes \in Nat /\ hashes' \in Nat /\ hashes' >= 2 /\ hashes' # 0
<1>1. hashes \in Nat /\ hashes >= 2
  BY BoundsAssumption DEF TypeOK, Hash, CountInv
<1>2. hashes' \in {hashes, hashes + 1}
  BY ApplyFacts DEF Counted
<1> QED BY <1>1, <1>2

\* api_change_password finds no account, or changes that of the owner or of a reseller.
LEMMA PasswordIs ==
    ASSUME TypeOK, NEW r \in Request, ApplyPassword(r)
    PROVE  \/ UNCHANGED <<accounts, cookie>>
           \/ /\ req[r].who = Owner /\ UNCHANGED reseller
              /\ admin'.name = IF req[r].name = NoName THEN admin.name ELSE req[r].name
              /\ admin'.pw = IF hashes' = hashes THEN admin.pw ELSE hashes'
              /\ Give(Owner, admin'.name, Owner, admin'.pw, admin'.pw)
           \/ /\ req[r].who \in Reseller /\ Works(req[r].who) /\ UNCHANGED admin
              /\ reseller' = [reseller EXCEPT ![req[r].who].pw =
                                IF hashes' = hashes THEN reseller[req[r].who].pw ELSE hashes']
              /\ Give(req[r].who, reseller[req[r].who].name, req[r].who, hashes', hashes')
<1> DEFINE q == req[r]
<1>1. q.who \in Account
  BY DEF TypeOK
<1>2. CASE q.who # Owner /\ ~Works(q.who)
  BY <1>2 DEF ApplyPassword
<1>3. CASE q.who = Owner
  <2>1. /\ UNCHANGED reseller
        /\ admin' = [name |-> IF q.name = NoName THEN admin.name ELSE q.name,
                     pw |-> IF hashes' = hashes THEN admin.pw ELSE hashes']
        /\ Give(Owner, admin'.name, Owner, admin'.pw, admin'.pw)
    BY <1>3 DEF ApplyPassword
  <2> QED BY <1>3, <2>1
<1>4. CASE q.who # Owner /\ Works(q.who)
  <2>1. /\ UNCHANGED admin
        /\ reseller' = [reseller EXCEPT ![q.who].pw =
                          IF hashes' = hashes THEN reseller[q.who].pw ELSE hashes']
        /\ Give(q.who, reseller[q.who].name, q.who, hashes', hashes')
    BY <1>4 DEF ApplyPassword
  <2>2. q.who \in Reseller
    BY <1>1, <1>4 DEF Account, Reseller, Owner
  <2> QED BY <1>4, <2>1, <2>2
<1> QED BY <1>2, <1>3, <1>4

\* api_create_reseller appends a reseller with the least id not given out yet.
LEMMA HireIs ==
    ASSUME TypeOK, NEW r \in Request, ApplyHire(r)
    PROVE  \/ UNCHANGED reseller
           \/ \E s \in Reseller :
                /\ \A t \in Reseller : reseller[t].state = "none" <=> t >= s
                /\ \A t \in Reseller \ {s} : reseller'[t] = reseller[t]
                /\ reseller'[s].state \in {"on", "off"} /\ reseller'[s].name = req[r].name
                /\ reseller'[s].pw = hashes'
<1>1. reseller \in [Reseller -> Person]
  BY DEF TypeOK, Person
<1>2. \/ UNCHANGED reseller
      \/ \E s \in Reseller, st \in {"on", "off"} :
           /\ \A t \in Reseller : reseller[t].state = "none" <=> t >= s
           /\ reseller' = [reseller EXCEPT ![s] = [state |-> st, name |-> req[r].name, pw |-> hashes']]
  BY DEF ApplyHire
<1>3. ASSUME NEW s \in Reseller, NEW st \in {"on", "off"},
             reseller' = [reseller EXCEPT ![s] = [state |-> st, name |-> req[r].name, pw |-> hashes']]
      PROVE  /\ \A t \in Reseller \ {s} : reseller'[t] = reseller[t]
             /\ reseller'[s].state \in {"on", "off"} /\ reseller'[s].name = req[r].name
             /\ reseller'[s].pw = hashes'
  BY <1>1, <1>3
<1> QED BY <1>2, <1>3

\* No other request hires, renames a reseller, or takes his password away.
LEMMA StaffKept ==
    ASSUME TypeOK, SlotInv, CountInv, NEW r \in Request, Applies(r), req[r].kind # "hire",
           NEW t \in Reseller
    PROVE  /\ reseller'[t].name = reseller[t].name
           /\ reseller'[t].state = "none" <=> reseller[t].state = "none"
           /\ Works(t)' => Works(t)
           /\ reseller'[t].pw = reseller[t].pw \/ reseller'[t].pw # 0
           /\ req[r].kind # "fire" => (Works(t)' <=> Works(t))
<1>0. hashes' # 0
  BY NewHashes
<1>1. reseller \in [Reseller -> Person]
  BY DEF TypeOK, Person
<1>2. CASE UNCHANGED reseller
  BY <1>2 DEF Works
<1>3. CASE req[r].kind = "password" /\ ApplyPassword(r)
  <2>1. \/ UNCHANGED reseller
        \/ \E s \in Reseller : \E h \in {reseller[s].pw, hashes'} :
             reseller' = [reseller EXCEPT ![s].pw = h]
    BY <1>3, PasswordIs DEF accounts
  <2> QED BY <1>0, <1>1, <1>2, <1>3, <2>1 DEF Works, Person
<1>4. CASE req[r].kind = "patch" /\ ApplyPatch(r)
  <2>1. \E s \in Reseller :
          \/ UNCHANGED reseller
          \/ reseller' = [reseller EXCEPT ![s].pw = hashes']
          \/ Works(s) /\ reseller' = [reseller EXCEPT ![s].state =
                                        IF reseller[s].state = "on" THEN "off" ELSE "on"]
    BY <1>4 DEF ApplyPatch
  <2> QED BY <1>0, <1>1, <1>2, <1>4, <2>1 DEF Works, Person
<1>5. CASE req[r].kind = "fire" /\ ApplyFire(r)
  <2>1. \E s \in Reseller :
          \/ UNCHANGED reseller
          \/ Works(s) /\ reseller' = [reseller EXCEPT ![s].state = "gone"]
    BY <1>5 DEF ApplyFire
  <2> QED BY <1>0, <1>1, <1>2, <1>5, <2>1 DEF Works, Person
<1>6. CASE req[r].kind \notin {"password", "hire", "patch", "fire"}
  BY <1>2, <1>6, Untouched
<1> QED BY <1>3, <1>4, <1>5, <1>6, AppliesByKind

\* Once there is an admin there is always one.
LEMMA KnownStays == ASSUME TypeOK, SlotInv, CountInv, Known, Next PROVE Known'
<1>1. ASSUME NEW r \in Request, Begins(r) \/ Verifies(r) PROVE Known'
  BY <1>1, BeginFacts, VerifyFacts DEF BeginEffect, VerifyEffect, accounts, Known
<1>2. ASSUME NEW r \in Request, Applies(r) PROVE Known'
  <2>0. hashes' # 0
    BY <1>2, NewHashes
  <2>1. CASE ApplySetup(r)
    BY <2>0, <2>1 DEF ApplySetup, Known
  <2>2. CASE ApplyPassword(r)
    BY <2>0, <2>2, PasswordIs DEF accounts, Known
  <2>3. CASE req[r].kind \notin {"setup", "password"}
    BY <1>2, <2>3, Untouched DEF Known
  <2> QED BY <1>2, <2>1, <2>2, <2>3, AppliesByKind
<1>3. CASE LockEnds
  BY <1>3 DEF LockEnds, accounts, Known
<1> QED BY <1>1, <1>2, <1>3, NextIs

LEMMA NextStaff == ASSUME TypeOK, SlotInv, CountInv, StaffInv, Next PROVE StaffInv'
<1> DEFINE Sound(s) ==
             /\ Works(s)' => reseller'[s].pw # 0
             /\ reseller'[s].state # "none" => Known'
             /\ \A t \in Reseller : s <= t /\ reseller'[t].state # "none"
                                       => reseller'[s].state # "none"
<1>a. Known => Known'
  BY KnownStays
<1>b. Doing("hire")' # {} => Known'
  <2>0. "hire" \in Kind
    BY DEF Kind
  <2>1. Doing("hire") # {} => Known
    BY DEF StaffInv
  <2>2. ASSUME NEW r \in Request, Begins(r) PROVE Doing("hire")' = Doing("hire") \/ Known
    BY <2>0, <2>2, BeginFacts, DoingChanges DEF Checked
  <2>3. ASSUME NEW r \in Request, Verifies(r) \/ Applies(r)
        PROVE  Doing("hire")' \subseteq Doing("hire")
    BY <2>0, <2>3, VerifyFacts, ApplyFacts, DoingChanges
  <2>4. CASE LockEnds
    BY <1>a, <2>1, <2>4 DEF LockEnds, Doing
  <2> QED BY <1>a, <2>1, <2>2, <2>3, <2>4, NextIs
<1>1. ASSUME UNCHANGED reseller, NEW s \in Reseller PROVE Sound(s)
  BY <1>a, <1>1 DEF StaffInv, Works
<1>2. ASSUME NEW r \in Request, Begins(r) \/ Verifies(r) PROVE UNCHANGED reseller
  BY <1>2, BeginFacts, VerifyFacts DEF BeginEffect, VerifyEffect, accounts
<1>3. ASSUME NEW r \in Request, Applies(r), req[r].kind # "hire", NEW s \in Reseller
      PROVE  Sound(s)
  BY <1>a, <1>3, StaffKept DEF StaffInv
<1>4. ASSUME NEW r \in Request, ApplyHire(r), Applies(r), NEW s \in Reseller
      PROVE  Sound(s)
  <2>1. CASE UNCHANGED reseller
    BY <1>1, <2>1
  <2>2. CASE ~UNCHANGED reseller
    <3>1. PICK n \in Reseller :
            /\ \A t \in Reseller : reseller[t].state = "none" <=> t >= n
            /\ \A t \in Reseller \ {n} : reseller'[t] = reseller[t]
            /\ reseller'[n].state \in {"on", "off"}
            /\ reseller'[n].pw = hashes'
      BY <1>4, <2>2, HireIs
    <3>2. Known'
      <4>1. r \in Doing("hire")
        BY <1>4 DEF ApplyHire, Apply, Doing
      <4> QED BY <1>a, <4>1 DEF StaffInv
    <3>3. Works(s)' => reseller'[s].pw # 0
      <4>1. hashes' # 0
        BY <1>4, NewHashes
      <4> QED BY <3>1, <4>1 DEF StaffInv, Works
    <3>4. ASSUME NEW t \in Reseller, s <= t, reseller'[t].state # "none"
          PROVE  reseller'[s].state # "none"
      <4>1. s \in Int /\ t \in Int /\ n \in Int
        BY DEF Reseller
      <4>2. t <= n
        BY <3>1, <3>4, <4>1
      <4>3. s = n \/ ~(s >= n)
        BY <3>4, <4>1, <4>2
      <4> QED BY <3>1, <4>3
    <3> QED BY <3>2, <3>3, <3>4
  <2> QED BY <2>1, <2>2
<1>5. ASSUME LockEnds PROVE UNCHANGED reseller
  BY <1>5 DEF LockEnds, accounts
<1>6. ASSUME NEW r \in Request, Applies(r) PROVE req[r].kind # "hire" \/ ApplyHire(r)
  BY <1>6, AppliesByKind
<1>7. ASSUME NEW s \in Reseller PROVE Sound(s)
  <2> HIDE DEF Sound
  <2> QED BY <1>1, <1>2, <1>3, <1>4, <1>5, <1>6, NextIs
<1> QED BY <1>b, <1>7 DEF StaffInv

(***************************************************************************)
(* Whose a session is.                                                     *)
(***************************************************************************)

\* What LoginInv says of one request that logs in.
Fits(w, n, pw) ==
    /\ pw = Fingerprint(w).pw
    /\ w # Owner => Named(n) # {} /\ First(Named(n)) = w

\* A reseller who is hired comes after those who answer to the name already.
LEMMA HireKeepsFits ==
    ASSUME TypeOK, NEW r \in Request, ApplyHire(r), UNCHANGED admin,
           NEW w \in Account, NEW n, NEW pw, Fits(w, n, pw)
    PROVE  Fits(w, n, pw)'
<1>1. CASE w = Owner
  BY <1>1 DEF Fits, Fingerprint
<1>2. CASE w # Owner /\ UNCHANGED reseller
  BY <1>2 DEF Fits, Fingerprint, Named, Works
<1>3. CASE w # Owner /\ ~UNCHANGED reseller
  <2>1. PICK s \in Reseller :
          /\ \A t \in Reseller : reseller[t].state = "none" <=> t >= s
          /\ \A t \in Reseller \ {s} : reseller'[t] = reseller[t]
    BY <1>3, HireIs
  <2>2. Named(n) \in SUBSET Reseller /\ Named(n)' \in SUBSET Reseller
    BY DEF Named
  <2>3. w \in Named(n) /\ \A t \in Named(n) : w <= t
    BY <1>3, <2>2, FirstIsFirst DEF Fits
  <2>4. ASSUME NEW t \in Named(n) PROVE t # s /\ ~(t >= s)
    <3>1. t \in Reseller /\ reseller[t].state # "none"
      BY DEF Named, Works
    <3>2. ~(t >= s)
      BY <2>1, <3>1
    <3> QED BY <3>2 DEF Reseller
  <2>5. Named(n)' \subseteq Named(n) \cup {s} /\ w \in Named(n)'
    BY <2>1, <2>3, <2>4 DEF Named, Works
  <2>6. w \in Reseller /\ s \in Reseller /\ w < s
    <3>1. w \in Reseller /\ ~(w >= s)
      BY <2>2, <2>3, <2>4
    <3> QED BY <3>1 DEF Reseller
  <2>7. w \in Nat /\ s \in Nat
    BY <2>6 DEF Reseller
  <2>8. \A t \in Named(n)' : w <= t
    BY <2>3, <2>5, <2>6, <2>7
  <2>9. First(Named(n)') = w
    <3>1. First(Named(n)') \in Named(n)' /\ First(Named(n)') <= w
      BY <2>2, <2>5, FirstIsFirst
    <3>2. First(Named(n)') \in Nat /\ w <= First(Named(n)')
      BY <2>2, <2>8, <3>1 DEF Reseller
    <3> QED BY <2>7, <3>1, <3>2
  <2>10. reseller'[w].pw = reseller[w].pw
    BY <2>1, <2>3, <2>4, <2>6
  <2>11. pw = reseller'[w].pw
    BY <1>3, <2>10 DEF Fits, Fingerprint
  <2> QED BY <1>3, <2>5, <2>9, <2>11 DEF Fits, Fingerprint, First
<1> QED BY <1>1, <1>2, <1>3

LoginFit(r) == Fits(req[r].who, req[r].name, req[r].pw)

LEMMA LoginFits ==
    LoginInv <=> \A r \in Doing("login") : req[r].ok /\ ~LoginRaced => LoginFit(r)
BY DEF LoginInv, LoginFit, Fits

LEMMA NextLogin == ASSUME TypeOK, SlotInv, RaceInv, LoginInv, Next PROVE LoginInv'
<1> SUFFICES ASSUME NEW a \in Doing("login")', req'[a].ok, ~LoginRaced'
             PROVE  LoginFit(a)'
  BY DEF LoginInv, LoginFit, Fits
<1>0. ~LoginRaced
  BY OverlapGrows DEF LoginRaced, Overlapped
<1>a. a \in Request /\ req'[a].kind = "login" /\ "login" \in Kind
  BY DEF Doing, Kind
<1>q. PICK q \in Req : q = req'[a]
  BY <1>a, NextSlot
<1>z. SUFFICES Fits(q.who, q.name, q.pw)'
  BY <1>q DEF Fits, LoginFit
<1>b. ASSUME NEW w, NEW n, NEW pw, UNCHANGED <<admin, reseller>>, Fits(w, n, pw)
      PROVE  Fits(w, n, pw)'
  BY <1>b DEF Fits, Fingerprint, Named, Works
\* The request stays as it is, or is not yet answered.
<1>c. ASSUME a \in Doing("login"), q.ok => req[a].ok, q.who = req[a].who,
             q.name = req[a].name, q.pw = req[a].pw
      PROVE  Fits(q.who, q.name, q.pw)
  BY <1>0, <1>q, <1>c, LoginFits DEF LoginFit
<1>1. ASSUME NEW r \in Request, Begins(r)
      PROVE  Fits(q.who, q.name, q.pw)'
  <2>1. BeginEffect(r) /\ Checked(req'[r])
    BY <1>1, BeginFacts
  <2>2. UNCHANGED <<admin, reseller>>
    BY <2>1 DEF BeginEffect, accounts
  <2>3. CASE a = r
    <3>1. Fits(q.who, q.name, q.pw)
      BY <1>a, <1>q, <2>1, <2>3 DEF Checked, Fits
    <3> QED BY <1>b, <2>2, <3>1
  <2>4. CASE a # r
    <3>1. q = req[a] /\ a \in Doing("login")
      BY <1>a, <1>q, <2>1, <2>4 DEF BeginEffect, Doing
    <3>2. Fits(q.who, q.name, q.pw)
      BY <1>c, <3>1
    <3> QED BY <1>b, <2>2, <3>2
  <2> QED BY <2>3, <2>4
<1>2. ASSUME NEW r \in Request, Verifies(r)
      PROVE  Fits(q.who, q.name, q.pw)'
  <2>1. VerifyEffect(r)
    BY <1>2, VerifyFacts
  <2>2. UNCHANGED <<admin, reseller>>
    BY <2>1 DEF VerifyEffect, accounts
  <2>3. /\ a \in Doing("login") /\ (q.ok => req[a].ok) /\ q.who = req[a].who
        /\ q.name = req[a].name /\ q.pw = req[a].pw
    BY <1>a, <1>q, <2>1, FreeType DEF VerifyEffect, Doing
  <2>4. Fits(q.who, q.name, q.pw)
    BY <1>c, <2>3
  <2> QED BY <1>b, <2>2, <2>4
<1>3. ASSUME NEW r \in Request, Applies(r)
      PROVE  Fits(q.who, q.name, q.pw)'
  <2>1. ApplyEffect(r)
    BY <1>3, ApplyFacts
  <2>2. a # r /\ q = req[a] /\ a \in Doing("login")
    BY <1>a, <1>q, <2>1, FreeType DEF ApplyEffect, Doing
  <2>3. Fits(q.who, q.name, q.pw)
    BY <1>c, <2>2
  <2>4. req[r].kind \notin {"setup", "password", "patch", "fire"}
    <3>1. r \in UnderWay /\ a \in UnderWay
      BY <1>a, <1>q, <2>1, <2>2, FreeType DEF ApplyEffect, UnderWay, Kind
    <3>2. \A k \in {"setup", "password", "patch", "fire"} : {"login", k} \in Races
      BY DEF Races
    <3>3. req[a].kind = "login"
      BY <1>a, <1>q, <2>2
    <3>4. \A k \in {"setup", "password", "patch", "fire"} :
            req[r].kind = k => Overlapped("login", k)
      BY <2>2, <3>1, <3>2, <3>3 DEF RaceInv
    <3> QED BY <1>0, <3>4 DEF LoginRaced
  <2>5. UNCHANGED admin
    BY <1>3, <2>4, Untouched
  <2>6. CASE req[r].kind # "hire"
    <3>1. UNCHANGED reseller
      BY <1>3, <2>4, <2>6, Untouched
    <3> QED BY <1>b, <2>3, <2>5, <3>1
  <2>7. CASE req[r].kind = "hire"
    <3>1. ApplyHire(r)
      BY <1>3, <2>7, AppliesByKind
    <3>2. q.who \in Account
      BY DEF Req
    <3> QED BY <2>3, <2>5, <3>1, <3>2, HireKeepsFits
  <2> QED BY <2>6, <2>7
<1>4. ASSUME LockEnds PROVE Fits(q.who, q.name, q.pw)'
  <2>1. UNCHANGED <<admin, reseller, req>>
    BY <1>4 DEF LockEnds, accounts
  <2>2. Fits(q.who, q.name, q.pw)
    BY <1>a, <1>c, <1>q, <2>1 DEF Doing
  <2> QED BY <1>b, <2>1, <2>2
<1> QED BY <1>1, <1>2, <1>3, <1>4, NextIs

\* A cookie that is given out is the one given before, or the one of this answer.
LEMMA GiveIs ==
    ASSUME NEW role, NEW name, NEW by, NEW knew, NEW pw, Give(role, name, by, knew, pw),
           CookieInv, (by = role /\ knew = pw) \/ LoginRaced, overlap' = overlap
    PROVE  CookieInv'
<1>1. CASE cookie' = cookie
  BY <1>1 DEF CookieInv, LoginRaced, Overlapped
<1>2. CASE cookie' # cookie
  <2>1. cookie'.by = by /\ cookie'.role = role /\ cookie'.knew = knew /\ cookie'.pw = pw
    BY <1>2 DEF Give
  <2> QED BY <2>1 DEF CookieInv, LoginRaced, Overlapped
<1> QED BY <1>1, <1>2

LEMMA NextCookie ==
    ASSUME TypeOK, SlotInv, CountInv, LoginInv, CookieInv, Next PROVE CookieInv'
<1>0. ASSUME UNCHANGED cookie PROVE CookieInv'
  BY <1>0, OverlapGrows DEF CookieInv, LoginRaced, Overlapped
<1>1. ASSUME NEW r \in Request, Begins(r) \/ Verifies(r) PROVE UNCHANGED cookie
  BY <1>1, BeginFacts, VerifyFacts DEF BeginEffect, VerifyEffect
<1>2. ASSUME NEW r \in Request, Applies(r) PROVE CookieInv'
  <2>0. overlap' = overlap
    BY <1>2, ApplyFacts DEF ApplyEffect
  <2>1. CASE ApplySetup(r)
    <3>1. Give(Owner, req[r].name, Owner, hashes', hashes')
      BY <2>1 DEF ApplySetup
    <3>2. PICK h : h = hashes'
      OBVIOUS
    <3> QED BY <2>0, <3>1, <3>2, GiveIs
  <2>2. CASE ApplyPassword(r)
    <3>1. \/ UNCHANGED cookie
          \/ \E role, name, h : Give(role, name, role, h, h)
      BY <2>2, PasswordIs
    <3> QED BY <1>0, <2>0, <3>1, GiveIs
  <2>3. CASE RecordFailure(r)
    BY <1>0, <2>3 DEF RecordFailure
  <2>4. CASE RecordSuccess(r)
    <3> DEFINE q == req[r]
               role == IF q.who # Owner /\ Named(q.name) # {} THEN First(Named(q.name)) ELSE Owner
    <3>1. /\ Give(role, q.name, q.who, q.pw, Fingerprint(role).pw)
          /\ r \in Doing("login") /\ q.ok
      BY <2>4 DEF RecordSuccess, Apply, Doing
    <3>2. ~LoginRaced => q.who = role /\ q.pw = Fingerprint(role).pw
      BY <3>1 DEF LoginInv
    <3> HIDE DEF q, role
    <3> QED BY <2>0, <3>1, <3>2, GiveIs
  <2>5. CASE req[r].kind \notin {"setup", "login", "password"}
    BY <1>0, <1>2, <2>5, Untouched
  <2> QED BY <1>2, <2>1, <2>2, <2>3, <2>4, <2>5, AppliesByKind
<1>3. ASSUME LockEnds PROVE UNCHANGED cookie
  BY <1>3 DEF LockEnds
<1> QED BY <1>0, <1>1, <1>2, <1>3, NextIs

LEMMA InitSession == ASSUME Init PROVE RaceInv /\ SessionInv
<1>1. PICK n \in Name, m \in Name, known \in BOOLEAN, hired \in BOOLEAN,
           second \in BOOLEAN : InitState(n, m, known, hired, second)
  BY InitIs
<1>2. UnderWay = {} /\ Doing("login") = {} /\ Doing("hire") = {}
  BY <1>1, FreeType DEF InitState, UnderWay, Doing
<1>3. StaffInv
  <2>1. ASSUME NEW s \in Reseller
        PROVE  /\ Works(s) => reseller[s].pw # 0
               /\ reseller[s].state # "none" => Known
               /\ \A t \in Reseller : s <= t /\ reseller[t].state # "none"
                                         => reseller[s].state # "none"
    BY <1>1 DEF InitState, Works, Known, Reseller
  <2> QED BY <1>2, <2>1 DEF StaffInv
<1>4. CookieInv
  BY <1>1 DEF InitState, CookieInv
<1> QED BY <1>2, <1>3, <1>4 DEF RaceInv, SessionInv, LoginInv

LEMMA StutterSession ==
    ASSUME RaceInv, SessionInv, UNCHANGED vars PROVE RaceInv' /\ SessionInv'
<1>1. RaceInv'
  BY DEF vars, RaceInv, UnderWay, Overlapped
<1>2. StaffInv' /\ CookieInv'
  BY DEF vars, SessionInv, StaffInv, CookieInv, LoginRaced, Overlapped, Works, Known, Doing
<1>3. LoginInv'
  BY DEF vars, SessionInv, LoginInv, LoginRaced, Overlapped, Works, Doing, Fingerprint, Named
<1> QED BY <1>1, <1>2, <1>3 DEF SessionInv

LEMMA SessionsFollow == ASSUME TypeOK, SessionInv PROVE SessionsAreTheirs
<1> SUFFICES ASSUME Accepted(cookie)
             PROVE  \/ cookie.by = cookie.role /\ cookie.knew = Fingerprint(cookie.role).pw
                    \/ LoginRaced
  BY DEF SessionsAreTheirs
<1>1. cookie.pw = Fingerprint(cookie.role).pw /\ Known
  BY DEF Accepted, Fingerprint
<1>2. Fingerprint(cookie.role).pw # 0
  <2>1. CASE cookie.role = Owner
    BY <1>1, <2>1 DEF Fingerprint, Known
  <2>2. CASE cookie.role # Owner
    <3>1. cookie.role \in Reseller /\ reseller[cookie.role].state = "on"
      BY <2>2 DEF TypeOK, Account, Reseller, Owner, Accepted
    <3> QED BY <2>2, <3>1 DEF SessionInv, StaffInv, Works, Fingerprint
  <2> QED BY <2>1, <2>2
<1> QED BY <1>1, <1>2 DEF SessionInv, CookieInv

\* A session that is accepted is that of the account whose password was given when
\* it was opened, and that is still the account's password -- unless a login was
\* under way together with a setup, a change of a password, or the change or the
\* deletion of a reseller.
THEOREM SessionsFollowAccounts == Spec => []SessionsAreTheirs
<1> DEFINE SInv == TypeOK /\ SlotInv /\ CountInv /\ RaceInv /\ SessionInv
<1>1. Init => SInv
  BY InitType, InitCount, InitSession
<1>2. SInv /\ [Next]_vars => SInv'
  <2>1. ASSUME SInv, Next PROVE SInv'
    <3>1. TypeOK' /\ SlotInv' /\ CountInv'
      BY <2>1, NextType
    <3>2. RaceInv' /\ StaffInv' /\ LoginInv' /\ CookieInv'
      BY <2>1, NextRace, NextStaff, NextLogin, NextCookie DEF SessionInv
    <3> QED BY <3>1, <3>2 DEF SessionInv
  <2>2. ASSUME SInv, UNCHANGED vars PROVE SInv'
    BY <2>2, StutterType, StutterSession
  <2> QED BY <2>1, <2>2
<1>3. SInv => SessionsAreTheirs
  BY SessionsFollow
<1> QED BY <1>1, <1>2, <1>3, PTL DEF Spec

(***************************************************************************)
(* What only overlapping requests break.                                   *)
(***************************************************************************)
\* Two requests of racing kinds are under way: it has been noted.
LEMMA Noted ==
    ASSUME SlotInv, RaceInv, NEW r \in Request, NEW a \in Request, a # r,
           req[r].kind # "none", req[a].kind # "none", {req[r].kind, req[a].kind} \in Races
    PROVE  Overlapped(req[r].kind, req[a].kind)
<1>1. r \in UnderWay /\ a \in UnderWay
  BY DEF SlotInv, UnderWay
<1> QED BY <1>1 DEF RaceInv

\* Who else is at work once r has been applied was at work before.
LEMMA OthersWere ==
    ASSUME TypeOK, NEW r \in Request, ApplyEffect(r), NEW kind \in Kind, NEW a \in Doing(kind)'
    PROVE  a \in Doing(kind) /\ a # r /\ req'[a] = req[a] /\ req[a].kind = kind
BY FreeType DEF ApplyEffect, Doing, Kind

SecretFine == \/ twofa.secret \in confirmed
              \/ Overlapped("enrol", "enable") \/ Overlapped("enable", "disable")

LEMMA NextSecret ==
    ASSUME TypeOK, SlotInv, RaceInv, SecretInv, SecretIsConfirmed, Next
    PROVE  SecretInv' /\ SecretIsConfirmed'
<1>0. twofa.enabled \/ Doing("enable") # {} => SecretFine
  BY DEF SecretInv, SecretIsConfirmed, SecretFine
<1> SUFFICES ASSUME twofa'.enabled \/ Doing("enable")' # {} PROVE SecretFine'
  BY DEF SecretInv, SecretIsConfirmed, SecretFine
<1>1. "enable" \in Kind /\ {"enrol", "enable"} \in Races /\ {"disable", "enable"} \in Races
  BY DEF Kind, Races
<1>2. ASSUME SecretFine, twofa'.secret = twofa.secret, confirmed \subseteq confirmed'
      PROVE  SecretFine'
  BY <1>2, OverlapGrows DEF SecretFine, Overlapped
<1>3. ASSUME NEW r \in Request, Begins(r) PROVE SecretFine'
  <2>1. BeginEffect(r) /\ Checked(req'[r])
    BY <1>3, BeginFacts
  <2>2. CASE req'[r].kind = "enable"
    BY <2>1, <2>2 DEF BeginEffect, Checked, SecretFine
  <2>3. CASE req'[r].kind # "enable"
    <3>1. Doing("enable")' = Doing("enable")
      BY <1>1, <2>1, <2>3, DoingChanges
    <3> QED BY <1>0, <1>2, <2>1, <3>1 DEF BeginEffect
  <2> QED BY <2>2, <2>3
<1>4. ASSUME NEW r \in Request, Verifies(r) PROVE SecretFine'
  <2>1. VerifyEffect(r)
    BY <1>4, VerifyFacts
  <2>2. Doing("enable")' \subseteq Doing("enable")
    BY <1>1, <2>1, DoingChanges
  <2> QED BY <1>0, <1>2, <2>1, <2>2 DEF VerifyEffect, factor
<1>5. ASSUME NEW r \in Request, Applies(r) PROVE SecretFine'
  <2>1. ApplyEffect(r)
    BY <1>5, ApplyFacts
  <2>2. Doing("enable")' = Doing("enable") \ {r} /\ confirmed' = confirmed /\ overlap' = overlap
    BY <1>1, <2>1, DoingChanges DEF ApplyEffect
  <2>3. ASSUME twofa'.secret = twofa.secret, twofa'.enabled => twofa.enabled PROVE SecretFine'
    BY <1>0, <1>2, <2>2, <2>3
  <2>4. CASE RecordSuccess(r)
    BY <2>3, <2>4 DEF RecordSuccess, TypeOK
  <2>5. CASE RecordFailure(r)
    BY <2>3, <2>5 DEF RecordFailure, factor
  <2>6. ASSUME NEW kind \in {"enrol", "enable", "disable", "codes"}, ApplyFactor(r, kind)
        PROVE  SecretFine'
    <3>1. req[r].kind = kind
      BY <2>6 DEF ApplyFactor, Apply
    <3>2. CASE kind = "codes"
      BY <2>3, <2>6, <3>2 DEF ApplyFactor, TypeOK
    <3>3. CASE kind = "enable"
      <4>1. r \in Doing("enable") /\ twofa'.secret = twofa.secret
        BY <2>6, <3>1, <3>3 DEF ApplyFactor, TypeOK, Doing
      <4> QED BY <1>0, <1>2, <2>2, <4>1
    <3>4. CASE kind \in {"enrol", "disable"}
      <4>1. ~twofa'.enabled
        BY <2>6, <3>4 DEF ApplyFactor, TypeOK
      <4>2. PICK a : a \in Doing("enable") /\ a # r
        BY <2>2, <4>1
      <4>3. a \in Request /\ req[a].kind = "enable"
        BY <4>2 DEF Doing
      <4>4. {req[r].kind, req[a].kind} \in Races
        BY <1>1, <3>1, <3>4, <4>3
      <4>5. Overlapped(req[r].kind, req[a].kind)
        BY <3>1, <3>4, <4>2, <4>3, <4>4, Noted
      <4>6. {req[r].kind, "enable"} \in overlap
        BY <4>3, <4>5 DEF Overlapped
      <4>7. {"enable", "disable"} = {"disable", "enable"}
        OBVIOUS
      <4> QED BY <2>2, <3>1, <3>4, <4>6, <4>7 DEF SecretFine, Overlapped
    <3> QED BY <3>2, <3>3, <3>4
  <2>7. CASE req[r].kind \notin {"login", "enrol", "enable", "disable", "codes"}
    BY <1>5, <2>3, <2>7, Untouched
  <2> QED BY <1>5, <2>4, <2>5, <2>6, <2>7, AppliesByKind
<1>6. CASE LockEnds
  <2>1. UNCHANGED <<twofa, confirmed, req>>
    BY <1>6 DEF LockEnds, factor
  <2>2. Doing("enable")' = Doing("enable")
    BY <2>1 DEF Doing
  <2> QED BY <1>0, <1>2, <2>1, <2>2
<1> QED BY <1>3, <1>4, <1>5, <1>6, NextIs

\* Only api_delete_reseller ends a reseller's work.
LEMMA WorksStays ==
    ASSUME TypeOK, SlotInv, CountInv, NEW r \in Request, Applies(r), req[r].kind # "fire",
           NEW t \in Reseller, Works(t)
    PROVE  Works(t)'
<1>1. CASE req[r].kind # "hire"
  BY <1>1, StaffKept
<1>2. CASE req[r].kind = "hire"
  <2>1. ApplyHire(r)
    BY <1>2, AppliesByKind
  <2>2. CASE UNCHANGED reseller
    BY <2>2 DEF Works
  <2>3. CASE ~UNCHANGED reseller
    <3>1. PICK s \in Reseller :
            /\ \A u \in Reseller \ {s} : reseller'[u] = reseller[u]
            /\ reseller'[s].state \in {"on", "off"}
      BY <2>1, <2>3, HireIs
    <3> QED BY <3>1 DEF Works
  <2> QED BY <2>2, <2>3
<1> QED BY <1>1, <1>2

OwnerWorks(a) == Works(req[a].who)

LEMMA NextCreate ==
    ASSUME TypeOK, SlotInv, CountInv, RaceInv, CreateInv, Next PROVE CreateInv'
<1> SUFFICES ASSUME NEW a \in Doing("create")', ~Overlapped("create", "fire")'
             PROVE  OwnerWorks(a)'
  BY DEF CreateInv, OwnerWorks
<1>0. ~Overlapped("create", "fire") /\ "create" \in Kind
  BY OverlapGrows DEF Overlapped, Kind
<1>1. a \in Request /\ req'[a].kind = "create"
  BY DEF Doing
<1>2. PICK w \in Reseller : w = req'[a].who
  BY <1>1, NextSlot DEF SlotInv
<1> SUFFICES Works(w)'
  BY <1>2 DEF OwnerWorks, Works
<1>3. a \in Doing("create") /\ w = req[a].who => Works(w)
  BY <1>0 DEF CreateInv
<1>4. ASSUME NEW r \in Request, Begins(r) PROVE Works(w)'
  <2>1. BeginEffect(r) /\ Checked(req'[r])
    BY <1>4, BeginFacts
  <2>2. Works(w)
    <3>1. CASE a = r
      BY <1>1, <1>2, <2>1, <3>1 DEF Checked
    <3>2. CASE a # r
      BY <1>1, <1>2, <1>3, <2>1, <3>2 DEF BeginEffect, Doing
    <3> QED BY <3>1, <3>2
  <2> QED BY <2>1, <2>2 DEF BeginEffect, accounts, Works
<1>5. ASSUME NEW r \in Request, Verifies(r) PROVE Works(w)'
  <2>1. VerifyEffect(r)
    BY <1>5, VerifyFacts
  <2>2. req[a].kind = "create" /\ req[a].who = w
    BY <1>1, <1>2, <2>1, FreeType DEF VerifyEffect
  <2> QED BY <1>1, <1>3, <2>1, <2>2 DEF VerifyEffect, accounts, Works, Doing
<1>6. ASSUME NEW r \in Request, Applies(r) PROVE Works(w)'
  <2>1. ApplyEffect(r)
    BY <1>6, ApplyFacts
  <2>2. a \in Doing("create") /\ a # r /\ req'[a] = req[a] /\ req[a].kind = "create"
    BY <1>0, <2>1, OthersWere
  <2>3. Works(w)
    BY <1>2, <1>3, <2>2
  <2>4. req[r].kind # "fire"
    <3>1. SUFFICES ASSUME req[r].kind = "fire" PROVE FALSE
      OBVIOUS
    <3>2. {req[a].kind, req[r].kind} \in Races
      BY <2>2, <3>1 DEF Races
    <3>3. Overlapped(req[a].kind, req[r].kind)
      BY <1>1, <2>2, <3>1, <3>2, Noted
    <3> QED BY <1>0, <2>2, <3>1, <3>3
  <2> QED BY <1>6, <2>3, <2>4, WorksStays
<1>7. CASE LockEnds
  BY <1>1, <1>2, <1>3, <1>7 DEF LockEnds, accounts, Works, Doing
<1> QED BY <1>4, <1>5, <1>6, <1>7, NextIs

LEMMA NextRows ==
    ASSUME TypeOK, SlotInv, CountInv, RaceInv, CreateInv, RowsHaveOwners, Next
    PROVE  RowsHaveOwners'
<1> SUFFICES ASSUME NEW s \in Reseller, rows'[s] > 0, ~Overlapped("create", "fire")'
             PROVE  Works(s)'
  BY DEF RowsHaveOwners
<1>0. ~Overlapped("create", "fire")
  BY OverlapGrows DEF Overlapped
<1>1. rows \in [Reseller -> Nat]
  <2>1. rows \in [Reseller -> 0..(MaxUsers + MaxRequests)]
    BY DEF TypeOK
  <2> QED BY <2>1, BoundsAssumption
<1>2. rows[s] > 0 => Works(s)
  BY <1>0 DEF RowsHaveOwners
<1>3. ASSUME NEW r \in Request, Begins(r) \/ Verifies(r) PROVE Works(s)'
  <2>1. UNCHANGED <<rows, reseller>>
    BY <1>3, BeginFacts, VerifyFacts DEF BeginEffect, VerifyEffect, accounts
  <2> QED BY <1>2, <2>1 DEF Works
<1>4. ASSUME NEW r \in Request, Applies(r) PROVE Works(s)'
  <2>1. CASE req[r].kind = "create"
    <3>1. ApplyCreate(r)
      BY <1>4, <2>1, AppliesByKind
    <3>2. /\ UNCHANGED reseller
          /\ rows' = [rows EXCEPT ![req[r].who] = rows[req[r].who] + 1]
      BY <3>1 DEF ApplyCreate
    <3>3. CASE req[r].who = s
      BY <1>0, <2>1, <3>2, <3>3 DEF CreateInv, Doing, Works
    <3>4. CASE req[r].who # s
      BY <1>1, <1>2, <3>2, <3>4 DEF Works
    <3> QED BY <3>3, <3>4
  <2>2. CASE req[r].kind = "fire"
    <3>1. ApplyFire(r)
      BY <1>4, <2>2, AppliesByKind
    <3>2. \/ UNCHANGED <<reseller, rows>>
          \/ \E t \in Reseller : /\ reseller' = [reseller EXCEPT ![t].state = "gone"]
                                 /\ rows' = [rows EXCEPT ![t] = 0]
      BY <3>1 DEF ApplyFire
    <3> QED BY <1>1, <1>2, <3>2 DEF Works, TypeOK
  <2>3. CASE req[r].kind \notin {"create", "fire"}
    <3>1. UNCHANGED rows
      BY <1>4, <2>3, Untouched
    <3> QED BY <1>2, <1>4, <2>3, <3>1, WorksStays
  <2> QED BY <2>1, <2>2, <2>3
<1>5. CASE LockEnds
  BY <1>2, <1>5 DEF LockEnds, accounts, Works
<1> QED BY <1>3, <1>4, <1>5, NextIs

LEMMA NextSetup ==
    ASSUME TypeOK, SlotInv, CountInv, RaceInv, SetupInv, Next PROVE SetupInv'
<1> SUFFICES ASSUME ~Overlapped("setup", "setup")'
             PROVE  founded' = 0 \/ (founded' = 1 /\ Known' /\ Doing("setup")' = {})
  BY DEF SetupInv
<1>0. /\ ~Overlapped("setup", "setup") /\ "setup" \in Kind
      /\ founded = 0 \/ (founded = 1 /\ Known /\ Doing("setup") = {})
  BY OverlapGrows DEF Overlapped, SetupInv, Kind
<1>1. Known => Known'
  BY KnownStays
<1>2. ASSUME founded' = founded, founded = 1 => Doing("setup")' \subseteq Doing("setup")
      PROVE  founded' = 0 \/ (founded' = 1 /\ Known' /\ Doing("setup")' = {})
  BY <1>0, <1>1, <1>2
<1>3. ASSUME NEW r \in Request, Begins(r)
      PROVE  founded' = founded /\ (founded = 1 => Doing("setup")' \subseteq Doing("setup"))
  <2>1. BeginEffect(r) /\ Checked(req'[r])
    BY <1>3, BeginFacts
  <2>2. founded = 1 => req'[r].kind # "setup"
    BY <1>0, <2>1 DEF Checked
  <2>3. req'[r].kind # "setup" => Doing("setup")' = Doing("setup")
    BY <1>0, <2>1, DoingChanges
  <2> QED BY <2>1, <2>2, <2>3 DEF BeginEffect, accounts
<1>4. ASSUME NEW r \in Request, Verifies(r)
      PROVE  founded' = founded /\ Doing("setup")' \subseteq Doing("setup")
  BY <1>0, <1>4, VerifyFacts, DoingChanges DEF VerifyEffect, accounts
<1>5. ASSUME NEW r \in Request, Applies(r)
      PROVE  founded' = 0 \/ (founded' = 1 /\ Known' /\ Doing("setup")' = {})
  <2>1. ApplyEffect(r)
    BY <1>5, ApplyFacts
  <2>2. CASE req[r].kind # "setup"
    <3>1. founded' = founded
      BY <1>5, <2>2, Untouched
    <3>2. Doing("setup")' \subseteq Doing("setup")
      BY <1>0, <2>1, DoingChanges
    <3> QED BY <1>2, <3>1, <3>2
  <2>3. CASE req[r].kind = "setup"
    <3>1. founded = 0
      BY <1>0, <2>3 DEF Doing
    <3>2. founded' = 1 /\ Known'
      <4>1. ApplySetup(r) /\ hashes' # 0
        BY <1>5, <2>3, AppliesByKind, NewHashes
      <4> QED BY <3>1, <4>1 DEF ApplySetup, Known
    <3>3. ASSUME NEW a \in Doing("setup")' PROVE FALSE
      <4>1. a \in Request /\ a # r /\ req[a].kind = "setup"
        BY <1>0, <2>1, OthersWere DEF Doing
      <4>2. {req[a].kind, req[r].kind} \in Races
        BY <2>3, <4>1 DEF Races
      <4>3. Overlapped(req[a].kind, req[r].kind)
        BY <2>3, <4>1, <4>2, Noted
      <4> QED BY <1>0, <2>3, <4>1, <4>3
    <3> QED BY <3>2, <3>3
  <2> QED BY <2>2, <2>3
<1>6. ASSUME LockEnds PROVE founded' = founded /\ Doing("setup")' = Doing("setup")
  BY <1>6 DEF LockEnds, accounts, Doing
<1> QED BY <1>2, <1>3, <1>4, <1>5, <1>6, NextIs

\* What NameInv says of one request, and of the resellers.
HireFit(a) == req[a].name # admin.name /\ Named(req[a].name) = {}
RenameFit(a) == req[a].stage = "lock" /\ req[a].who = Owner /\ req[a].name # NoName
                  => Named(req[a].name) = {}
NobodyWorks == \A s \in Reseller : ~Works(s)
Unique(s) == Works(s) => reseller[s].name # admin.name /\ Named(reseller[s].name) = {s}

LEMMA NameParts ==
    /\ NameInv <=> \/ HireRaced
                   \/ /\ \A a \in Doing("hire") : HireFit(a)
                      /\ \A a \in Doing("password") : RenameFit(a)
                      /\ Doing("setup") # {} => NobodyWorks
    /\ NamesAreUnique <=> HireRaced \/ \A s \in Reseller : Unique(s)
BY DEF NameInv, HireFit, RenameFit, NobodyWorks, NamesAreUnique, Unique

LEMMA NameParts2 ==
    /\ NameInv' <=> \/ HireRaced'
                    \/ /\ \A a \in Doing("hire")' : HireFit(a)'
                       /\ \A a \in Doing("password")' : RenameFit(a)'
                       /\ Doing("setup")' # {} => NobodyWorks'
    /\ NamesAreUnique' <=> HireRaced' \/ \A s \in Reseller : Unique(s)'
BY DEF NameInv, HireFit, RenameFit, NobodyWorks, NamesAreUnique, Unique

LEMMA NextNames ==
    ASSUME TypeOK, SlotInv, CountInv, RaceInv, StaffInv, NameInv, NamesAreUnique, Next
    PROVE  NameInv' /\ NamesAreUnique'
<1> DEFINE Goal == /\ \A a \in Doing("hire")' : HireFit(a)'
                   /\ \A a \in Doing("password")' : RenameFit(a)'
                   /\ Doing("setup")' # {} => NobodyWorks'
                   /\ \A s \in Reseller : Unique(s)'
<1> SUFFICES ASSUME ~HireRaced' PROVE Goal
  BY NameParts2
<1>0. ~HireRaced
  BY OverlapGrows DEF HireRaced, Overlapped
<1>1. /\ \A a \in Doing("hire") : HireFit(a)
      /\ \A a \in Doing("password") : RenameFit(a)
      /\ Doing("setup") # {} => NobodyWorks
      /\ \A s \in Reseller : Unique(s)
  BY <1>0, NameParts
<1>2. {"hire", "password", "setup"} \subseteq Kind
  BY DEF Kind
\* While nobody's name or state changes, only the request that moves on matters.
<1>3. ASSUME UNCHANGED <<admin, reseller>>
      PROVE  /\ \A n : Named(n)' = Named(n)
             /\ NobodyWorks' <=> NobodyWorks
             /\ \A s \in Reseller : Unique(s)'
             /\ \A a : req'[a] = req[a] /\ HireFit(a) => HireFit(a)'
             /\ \A a : req'[a] = req[a] /\ RenameFit(a) => RenameFit(a)'
  <2>1. \A n : Named(n)' = Named(n)
    BY <1>3 DEF Named, Works
  <2>2. \A s \in Reseller : Unique(s)'
    BY <1>1, <1>3 DEF Unique, Named, Works
  <2>3. NobodyWorks' <=> NobodyWorks
    BY <1>3 DEF NobodyWorks, Works
  <2> QED BY <1>3, <2>1, <2>2, <2>3 DEF HireFit, RenameFit, Named, Works
<1>4. ASSUME NEW r \in Request, Begins(r) PROVE Goal
  <2>1. BeginEffect(r) /\ Checked(req'[r])
    BY <1>4, BeginFacts
  <2>2. UNCHANGED <<admin, reseller>> /\ \A o \in Request \ {r} : req'[o] = req[o]
    BY <2>1 DEF BeginEffect, accounts
  <2>3. ASSUME NEW a \in Doing("hire")' PROVE HireFit(a)'
    <3>1. CASE a = r
      <4>1. PICK n : n = req'[r].name
        OBVIOUS
      <4>2. n # admin.name /\ Named(n) = {}
        BY <2>1, <3>1, <4>1 DEF Checked, Doing
      <4> QED BY <1>3, <2>2, <3>1, <4>1, <4>2 DEF HireFit, Named, Works
    <3>2. CASE a # r
      <4>1. a \in Doing("hire") /\ req'[a] = req[a]
        BY <2>2, <3>2 DEF Doing
      <4> QED BY <1>1, <1>3, <2>2, <4>1
    <3> QED BY <3>1, <3>2
  <2>4. ASSUME NEW a \in Doing("password")' PROVE RenameFit(a)'
    <3>1. CASE a = r
      BY <2>1, <3>1 DEF Checked, Doing, RenameFit
    <3>2. CASE a # r
      <4>1. a \in Doing("password") /\ req'[a] = req[a]
        BY <2>2, <3>2 DEF Doing
      <4> QED BY <1>1, <1>3, <2>2, <4>1
    <3> QED BY <3>1, <3>2
  <2>5. ASSUME Doing("setup")' # {} PROVE NobodyWorks'
    <3>1. CASE req'[r].kind = "setup"
      BY <1>3, <2>1, <2>2, <3>1 DEF Checked, StaffInv, NobodyWorks, Works
    <3>2. CASE req'[r].kind # "setup"
      <4>1. Doing("setup")' = Doing("setup")
        BY <1>2, <2>1, <3>2, DoingChanges
      <4> QED BY <1>1, <1>3, <2>2, <2>5, <4>1
    <3> QED BY <3>1, <3>2
  <2> QED BY <1>3, <2>2, <2>3, <2>4, <2>5
<1>5. ASSUME NEW r \in Request, Verifies(r) PROVE Goal
  <2>1. VerifyEffect(r)
    BY <1>5, VerifyFacts
  <2>2. UNCHANGED <<admin, reseller>> /\ \A o \in Request \ {r} : req'[o] = req[o]
    BY <2>1 DEF VerifyEffect, accounts
  <2>3. ASSUME NEW a \in Doing("hire")' PROVE HireFit(a)'
    <3>1. a \in Doing("hire") /\ req'[a].name = req[a].name
      BY <2>1, FreeType DEF VerifyEffect, Doing
    <3> QED BY <1>1, <2>2, <3>1 DEF HireFit, Named, Works
  <2>4. ASSUME NEW a \in Doing("password")' PROVE RenameFit(a)'
    <3>1. CASE a = r
      <4>1. PICK n : n = req'[r].name
        OBVIOUS
      <4>2. n = NoName \/ Named(n) = {}
        BY <2>1, <3>1, <4>1, FreeType DEF VerifyEffect, Doing
      <4> QED BY <2>2, <3>1, <4>1, <4>2 DEF RenameFit, Named, Works
    <3>2. CASE a # r
      <4>1. a \in Doing("password") /\ req'[a] = req[a]
        BY <2>2, <3>2 DEF Doing
      <4> QED BY <1>1, <1>3, <2>2, <4>1
    <3> QED BY <3>1, <3>2
  <2>5. Doing("setup")' \subseteq Doing("setup")
    BY <1>2, <2>1, DoingChanges
  <2> QED BY <1>1, <1>3, <2>2, <2>3, <2>4, <2>5
<1>6. ASSUME NEW r \in Request, Applies(r) PROVE Goal
  <2>1. ApplyEffect(r)
    BY <1>6, ApplyFacts
  <2>2. Doing("setup")' \subseteq Doing("setup")
    BY <1>2, <2>1, DoingChanges
  <2>3. ASSUME NEW a \in Doing("hire")' PROVE HireFit(a) /\ req'[a] = req[a]
    BY <1>1, <1>2, <2>1, OthersWere
  <2>4. ASSUME NEW a \in Doing("password")' PROVE RenameFit(a) /\ req'[a] = req[a]
    BY <1>1, <1>2, <2>1, OthersWere
  <2>5. CASE UNCHANGED <<admin, reseller>>
    BY <1>1, <1>3, <2>2, <2>3, <2>4, <2>5
  \* With a request that changes names no hire is under way, and the other way round.
  <2>6. ASSUME req[r].kind \in {"setup", "password"} PROVE Doing("hire")' = {}
    <3> SUFFICES ASSUME NEW a \in Doing("hire")' PROVE FALSE
      OBVIOUS
    <3>1. a \in Request /\ a # r /\ req[a].kind = "hire"
      BY <1>2, <2>1, OthersWere DEF Doing
    <3>2. {req[a].kind, req[r].kind} \in Races
      BY <2>6, <3>1 DEF Races
    <3>3. Overlapped("hire", req[r].kind)
      BY <2>6, <3>1, <3>2, Noted
    <3> QED BY <1>0, <2>6, <3>3 DEF HireRaced
  <2>7. ASSUME req[r].kind = "hire", NEW kind \in {"setup", "password", "hire"}
        PROVE  Doing(kind)' = {}
    <3> SUFFICES ASSUME NEW a \in Doing(kind)' PROVE FALSE
      OBVIOUS
    <3>1. a \in Request /\ a # r /\ req[a].kind = kind
      BY <1>2, <2>1, OthersWere DEF Doing
    <3>2. {req[r].kind, req[a].kind} \in Races
      BY <2>7, <3>1 DEF Races
    <3>3. Overlapped("hire", kind)
      BY <2>7, <3>1, <3>2, Noted
    <3> QED BY <1>0, <2>7, <3>3 DEF HireRaced
  \* Unless somebody is hired, nobody answers to a name he did not answer to.
  <2>8. ASSUME req[r].kind # "hire"
        PROVE  /\ \A s \in Reseller : Works(s)' => Works(s)
               /\ \A s \in Reseller : reseller'[s].name = reseller[s].name
               /\ \A n : Named(n)' \subseteq Named(n)
               /\ NobodyWorks => NobodyWorks'
    <3>1. ASSUME NEW s \in Reseller
          PROVE  (Works(s)' => Works(s)) /\ reseller'[s].name = reseller[s].name
      BY <1>6, <2>8, StaffKept
    <3>2. \A n : Named(n)' \subseteq Named(n)
      BY <3>1 DEF Named
    <3>3. NobodyWorks => NobodyWorks'
      BY <3>1 DEF NobodyWorks
    <3> QED BY <3>1, <3>2, <3>3
  <2>9. ASSUME req[r].kind # "hire", UNCHANGED admin \/ Doing("hire")' = {},
               \A s \in Reseller : Works(s)' => reseller[s].name # admin'.name
        PROVE  Goal
    <3>1. ASSUME NEW s \in Reseller PROVE Unique(s)'
      <4>1. PICK k : k = reseller[s].name /\ k = reseller'[s].name
        BY <2>8, <2>9
      <4>2. SUFFICES ASSUME Works(s)' PROVE k # admin'.name /\ Named(k)' = {s}
        BY <4>1 DEF Unique, Named
      <4>3. Named(k) = {s}
        BY <1>1, <2>8, <2>9, <4>1, <4>2 DEF Unique
      <4>4. s \in Named(k)' /\ Named(k)' \subseteq Named(k)
        BY <2>8, <2>9, <4>1, <4>2 DEF Named
      <4> QED BY <2>9, <4>1, <4>2, <4>3, <4>4
    <3>2. ASSUME NEW a \in Doing("hire")' PROVE HireFit(a)'
      BY <2>3, <2>8, <2>9, <3>2 DEF HireFit
    <3>3. ASSUME NEW a \in Doing("password")' PROVE RenameFit(a)'
      BY <2>4, <2>8, <2>9, <3>3 DEF RenameFit
    <3> QED BY <1>1, <2>2, <2>8, <2>9, <3>1, <3>2, <3>3
  <2>10. CASE req[r].kind \in {"patch", "fire"}
    <3>1. UNCHANGED admin
      BY <1>6, <2>10, Untouched
    <3>2. \A s \in Reseller : Works(s)' => reseller[s].name # admin'.name
      BY <1>1, <2>8, <2>10, <3>1 DEF Unique
    <3> QED BY <2>9, <2>10, <3>1, <3>2
  <2>11. CASE req[r].kind = "setup"
    <3>1. NobodyWorks
      BY <1>1, <2>11 DEF Doing
    <3>2. \A s \in Reseller : ~Works(s)'
      BY <2>8, <2>11, <3>1 DEF NobodyWorks
    <3> QED BY <2>6, <2>9, <2>11, <3>2
  <2>12. CASE req[r].kind = "password"
    <3>1. ApplyPassword(r)
      BY <1>6, <2>12, AppliesByKind
    <3>2. CASE req[r].who = Owner /\ UNCHANGED reseller /\
               admin'.name = IF req[r].name = NoName THEN admin.name ELSE req[r].name
      <4>1. RenameFit(r) /\ req[r].stage = "lock"
        BY <1>1, <2>1, <2>12 DEF Doing, ApplyEffect
      <4>2. ASSUME NEW s \in Reseller, Works(s) PROVE reseller[s].name # admin'.name
        <5>1. reseller[s].name # admin.name
          BY <1>1, <4>2 DEF Unique
        <5>2. s \in Named(reseller[s].name)
          BY <4>2 DEF Named
        <5> QED BY <3>2, <4>1, <5>1, <5>2 DEF RenameFit
      <4> QED BY <2>6, <2>8, <2>9, <2>12, <4>2
    <3>3. CASE UNCHANGED admin
      <4>1. \A s \in Reseller : Works(s)' => reseller[s].name # admin'.name
        BY <1>1, <2>8, <2>12, <3>3 DEF Unique
      <4> QED BY <2>9, <2>12, <3>3, <4>1
    <3> QED BY <3>1, <3>2, <3>3, PasswordIs DEF accounts
  <2>13. CASE req[r].kind = "hire"
    <3> DEFINE n == req[r].name
    <3>1. ApplyHire(r) /\ UNCHANGED admin
      BY <1>6, <2>13, AppliesByKind, Untouched
    <3>2. n # admin.name /\ Named(n) = {}
      BY <1>1, <2>13 DEF HireFit, Doing
    <3> HIDE DEF n
    <3>3. CASE ~UNCHANGED reseller
      <4>1. PICK s \in Reseller :
              /\ \A t \in Reseller : reseller[t].state = "none" <=> t >= s
              /\ \A t \in Reseller \ {s} : reseller'[t] = reseller[t]
              /\ reseller'[s].name = n
        BY <3>1, <3>3, HireIs DEF n
      <4>2. ASSUME NEW t \in Reseller, Works(t)' PROVE Unique(t)'
        <5>1. PICK k : k = reseller'[t].name
          OBVIOUS
        <5>2. SUFFICES k # admin'.name /\ Named(k)' = {t}
          BY <5>1 DEF Unique, Named
        <5>3. t \in Named(k)'
          BY <4>2, <5>1 DEF Named
        <5>4. \A u \in Reseller \ {s} : Works(u)' <=> Works(u)
          BY <4>1 DEF Works
        <5>5. CASE t = s
          <6>1. k = n
            BY <4>1, <5>1, <5>5
          <6>2. \A u \in Named(k)' : u \in Reseller /\ (u # s => u \in Named(n))
            BY <4>1, <5>4, <6>1 DEF Named
          <6> QED BY <3>1, <3>2, <5>3, <5>5, <6>1, <6>2
        <5>6. CASE t # s
          <6>1. k = reseller[t].name /\ Works(t)
            BY <4>1, <4>2, <5>1, <5>4, <5>6
          <6>2. k # admin.name /\ Named(k) = {t}
            BY <1>1, <6>1 DEF Unique
          <6>3. k # n
            BY <3>2, <6>2
          <6>4. \A u \in Named(k)' : u \in Named(k)
            BY <4>1, <5>4, <6>3 DEF Named
          <6> QED BY <3>1, <5>3, <6>2, <6>4
        <5> QED BY <5>5, <5>6
      <4>3. \A t \in Reseller : Unique(t)'
        BY <4>2 DEF Unique
      <4> QED BY <2>7, <2>13, <4>3
    <3> QED BY <2>5, <3>1, <3>3
  <2>14. CASE req[r].kind \notin {"setup", "password", "hire", "patch", "fire"}
    BY <1>6, <2>5, <2>14, Untouched
  <2> QED BY <2>10, <2>11, <2>12, <2>13, <2>14
<1>7. CASE LockEnds
  <2>1. UNCHANGED <<admin, reseller, req>>
    BY <1>7 DEF LockEnds, accounts
  <2> QED BY <1>1, <1>3, <2>1 DEF Doing
<1> QED BY <1>4, <1>5, <1>6, <1>7, NextIs

LEMMA InitNeeds == ASSUME Init PROVE NeedsInv /\ OnlyOverlapsBreak
<1>1. PICK n \in Name, m \in Name, known \in BOOLEAN, hired \in BOOLEAN,
           second \in BOOLEAN : InitState(n, m, known, hired, second)
  BY InitIs
<1>2. \A kind \in Kind : Doing(kind) = {}
  BY <1>1, FreeType DEF InitState, Doing, Kind
<1>3. NeedsInv
  BY <1>1, <1>2 DEF InitState, NeedsInv, SecretInv, CreateInv, NameInv, SetupInv, Kind
<1>4. SecretIsConfirmed /\ SetupIsFinal
  BY <1>1 DEF InitState, SecretIsConfirmed, SetupIsFinal
<1>5. RowsHaveOwners
  BY <1>1 DEF InitState, RowsHaveOwners, Works
<1>6. NamesAreUnique
  <2>1. ASSUME NEW s \in Reseller, Works(s)
        PROVE  reseller[s].name # admin.name /\ Named(reseller[s].name) = {s}
    <3>1. \A t \in Reseller : Works(t) => t = 1 /\ reseller[t].name = m
      BY <1>1 DEF InitState, Works
    <3>2. Named(reseller[s].name) = {s}
      BY <2>1, <3>1 DEF Named
    <3> QED BY <1>1, <2>1, <3>1, <3>2 DEF InitState
  <2> QED BY <2>1 DEF NamesAreUnique
<1> QED BY <1>3, <1>4, <1>5, <1>6 DEF OnlyOverlapsBreak

LEMMA StutterNeeds ==
    ASSUME NeedsInv, OnlyOverlapsBreak, UNCHANGED vars PROVE NeedsInv' /\ OnlyOverlapsBreak'
<1>1. SecretInv' /\ SecretIsConfirmed'
  BY DEF vars, NeedsInv, OnlyOverlapsBreak, SecretInv, SecretIsConfirmed, Doing, Overlapped
<1>2. CreateInv' /\ RowsHaveOwners'
  BY DEF vars, NeedsInv, OnlyOverlapsBreak, CreateInv, RowsHaveOwners, Doing, Overlapped, Works
<1>3. NameInv' /\ NamesAreUnique'
  BY DEF vars, NeedsInv, OnlyOverlapsBreak, NameInv, NamesAreUnique, Doing, HireRaced,
         Overlapped, Works, Named
<1>4. SetupInv' /\ SetupIsFinal'
  BY DEF vars, NeedsInv, OnlyOverlapsBreak, SetupInv, SetupIsFinal, Doing, Overlapped, Known
<1> QED BY <1>1, <1>2, <1>3, <1>4 DEF NeedsInv, OnlyOverlapsBreak

LEMMA NextInv == ASSUME IInv, Next PROVE IInv'
<1>1. TypeOK' /\ SlotInv' /\ CountInv' /\ RaceInv'
  BY NextType, NextRace DEF IInv
<1>2. ChecksInv'
  BY <1>1, NextLock, NextCode, NextQuota DEF IInv, ChecksInv
<1>3. SessionInv'
  BY NextStaff, NextLogin, NextCookie DEF IInv, SessionInv
<1>4. SecretInv' /\ SecretIsConfirmed'
  BY NextSecret DEF IInv, NeedsInv, OnlyOverlapsBreak
<1>5. CreateInv' /\ RowsHaveOwners'
  BY NextCreate, NextRows DEF IInv, NeedsInv, OnlyOverlapsBreak
<1>6. NameInv' /\ NamesAreUnique'
  BY NextNames DEF IInv, SessionInv, NeedsInv, OnlyOverlapsBreak
<1>7. SetupInv' /\ SetupIsFinal'
  <2>1. SetupInv'
    BY NextSetup DEF IInv, NeedsInv
  <2> QED BY <2>1 DEF SetupInv, SetupIsFinal
<1> QED
  BY <1>1, <1>2, <1>3, <1>4, <1>5, <1>6, <1>7 DEF IInv, NeedsInv, OnlyOverlapsBreak

\* The conjunction of everything above is an invariant.
THEOREM Invariance == Spec => []IInv
<1>1. Init => IInv
  BY InitType, InitCount, InitChecks, InitSession, InitNeeds DEF IInv
<1>2. IInv /\ [Next]_vars => IInv'
  <2>1. ASSUME IInv, UNCHANGED vars PROVE IInv'
    BY <2>1, StutterType, StutterChecks, StutterSession, StutterNeeds DEF IInv
  <2> QED BY <2>1, NextInv
<1> QED BY <1>1, <1>2, PTL DEF Spec

\* What one request has checked stays true until it is applied, unless two requests
\* of the named kinds are under way together: a second factor in force was confirmed
\* with a code, no account is without an owner, no two accounts answer to one name,
\* and the panel is set up once.
THEOREM OverlapsAlone == Spec => []OnlyOverlapsBreak
<1>1. IInv => OnlyOverlapsBreak
  BY DEF IInv
<1> QED BY <1>1, Invariance, PTL
=============================================================================
