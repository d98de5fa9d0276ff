------------------------------- MODULE Access -------------------------------
(***************************************************************************)
(* Who may use the panel: the owner, the resellers, their sessions, the    *)
(* lockout of failed logins, the second factor, and what a reseller may    *)
(* create (main.py, totp.py).                                              *)
(*                                                                         *)
(* A request reads the database, awaits a password hash or the store's      *)
(* lock, and then applies its mutation; what it read may have changed.      *)
(* overlap records which kinds of request were ever under way at the same   *)
(* time, so that a property can say which of them it takes to break it.     *)
(***************************************************************************)
EXTENDS Naturals, FiniteSets

CONSTANTS
    Request,        \* as many requests as are handled at once
    MaxResellers,   \* bound: resellers that are ever hired
    Name,           \* user names
    NoName,         \* "the username is left as it is"
    MaxAttempts,    \* LOGIN_MAX_ATTEMPTS
    MaxUsers,       \* the resellers' max_users, at least 1
    MaxRequests     \* bound: requests in all

ASSUME NamesAssumption == NoName \notin Name
ASSUME RequestAssumption == IsFiniteSet(Request)
ASSUME BoundsAssumption ==
    /\ MaxAttempts \in Nat \ {0} /\ MaxUsers \in Nat \ {0}
    /\ MaxResellers \in Nat /\ MaxRequests \in Nat

\* Resellers, numbered as they are hired: each id is given out once, and
\* db["resellers"] keeps the order in which they were appended.
Reseller == 1..MaxResellers
Owner == 0
Account == 0..MaxResellers

VARIABLES
    admin,      \* db["admin"]; pw 0 when there is none
    reseller,   \* db["resellers"]
    epoch,      \* sessions_epoch
    twofa,      \* db["twofa"]; a secret or a set of codes is known by its number, 0
                \* for none; codes is that of the set one of whose codes is followed
    attempts,   \* login_attempts of one address
    rows,       \* how many accounts each reseller has in db["inbounds"]
    req,        \* what each request is doing
    cookie,     \* some session cookie that was given out
    hashes,     \* passwords ever set: each has a salt, and so a hash, of its own
    secrets,    \* secrets and sets of recovery codes ever generated
    begun,      \* requests so far
    overlap,    \* the Races whose two kinds of request were under way together
    confirmed,  \* secrets a valid code has confirmed
    founded,    \* how many setups were applied
    tries,      \* failed logins since the last success or the end of a lock
    uses        \* uses[c]: logins with the recovery code of set c that is followed here

vars == <<admin, reseller, epoch, twofa, attempts, rows, req, cookie, hashes, secrets,
          begun, overlap, confirmed, founded, tries, uses>>
accounts == <<admin, reseller, epoch, rows, founded>>
factor == <<twofa, secrets, confirmed, uses>>
lockout == <<attempts, tries>>

Kind == {"setup", "login", "logout", "password", "enrol", "enable", "disable",
         "codes", "hire", "patch", "fire", "create"}
\* One of the two kinds checks what the other changes.
Races == {{"login", k} : k \in {"setup", "password", "patch", "fire"}} \cup
         {{"hire", k} : k \in {"setup", "password", "hire"}} \cup
         {{"setup"}, {"enrol", "enable"}, {"disable", "enable"}, {"create", "fire"}}
Hash == 0..(MaxRequests + 2)
Secret == 0..(MaxRequests + 1)
Free == [kind |-> "none", stage |-> "none", who |-> Owner, name |-> NoName, pw |-> 0,
         ok |-> FALSE, code |-> 0]

TypeOK ==
    /\ admin \in [name : Name, pw : Hash]
    /\ reseller \in [Reseller -> [state : {"none", "on", "off", "gone"}, name : Name, pw : Hash]]
    /\ epoch \in 0..MaxRequests
    /\ twofa \in [enabled : BOOLEAN, secret : Secret, codes : Secret]
    /\ attempts \in [count : 0..MaxAttempts, locked : BOOLEAN]
    /\ rows \in [Reseller -> 0..(MaxUsers + MaxRequests)]
    /\ req \in [Request -> [kind : Kind \cup {"none"}, stage : {"none", "kdf", "lock"},
                            who : Account, name : Name \cup {NoName}, pw : Hash,
                            ok : BOOLEAN, code : Secret]]
    /\ cookie \in [role : Account, name : Name, pw : Hash, epoch : 0..MaxRequests,
                   by : Account, knew : Hash]
    /\ hashes \in Hash /\ secrets \in Secret /\ begun \in 0..MaxRequests
    /\ overlap \subseteq Races
    /\ confirmed \subseteq Secret /\ founded \in 0..MaxRequests
    /\ tries \in 0..MaxRequests /\ uses \in [Secret -> 0..MaxRequests]

\* A panel without an admin, or one with an admin, at most one reseller who has
\* used up all but one of his accounts, and a second factor or none.  No cookie
\* has a password numbered 0.
Init ==
    /\ LET n == CHOOSE n \in Name : TRUE
       IN  \E m \in Name \ {n}, known, hired, second \in BOOLEAN :
             /\ (hired \/ second) => known
             /\ admin = [name |-> n, pw |-> IF known THEN 1 ELSE 0]
             /\ reseller = [r \in Reseller |->
                              IF hired /\ r = 1 THEN [state |-> "on", name |-> m, pw |-> 2]
                              ELSE [state |-> "none", name |-> n, pw |-> 0]]
             /\ rows = [r \in Reseller |-> IF hired /\ r = 1 THEN MaxUsers - 1 ELSE 0]
             /\ twofa = IF second THEN [enabled |-> TRUE, secret |-> 1, codes |-> 1]
                                  ELSE [enabled |-> FALSE, secret |-> 0, codes |-> 0]
             /\ secrets = IF second THEN 1 ELSE 0
             /\ confirmed = IF second THEN {1} ELSE {}
             /\ cookie = [role |-> Owner, name |-> n, pw |-> 0, epoch |-> 0, by |-> Owner, knew |-> 0]
    /\ epoch = 0 /\ attempts = [count |-> 0, locked |-> FALSE]
    /\ req = [r \in Request |-> Free]
    /\ hashes = 2 /\ begun = 0 /\ overlap = {} /\ founded = 0 /\ tries = 0 /\ uses = [c \in Secret |-> 0]

Known == admin.pw # 0
Works(s) == reseller[s].state \in {"on", "off"}

\* reseller_by_username: the first in the list with that name.
Named(n) == {s \in Reseller : Works(s) /\ reseller[s].name = n}
First(S) == CHOOSE s \in S : \A t \in S : s <= t

\* _session_fingerprint, _reseller_fingerprint
Fingerprint(a) ==
    [pw |-> IF a = Owner THEN admin.pw ELSE reseller[a].pw, epoch |-> epoch]

\* Mutant of Accepted: the password is not part of the fingerprint.
MutantAcceptedByEpoch(c) ==
    /\ Known
    /\ IF c.role = Owner THEN c.name = admin.name ELSE reseller[c.role].state = "on"
    /\ c.epoch = epoch /\ c.pw # 0

\* current_identity: is the cookie accepted.
Accepted(c) ==
    /\ Known
    /\ IF c.role = Owner THEN c.name = admin.name ELSE reseller[c.role].state = "on"
    /\ [pw |-> c.pw, epoch |-> c.epoch] = Fingerprint(c.role)

(***************************************************************************)
(* A request begins: it is given a slot, and what it reads is read.        *)
(***************************************************************************)
Begin(r, q) ==
    /\ req[r] = Free
    /\ begun < MaxRequests /\ begun' = begun + 1
    /\ req' = [req EXCEPT ![r] = q]
    /\ overlap' = overlap \cup
         (Races \cap {{q.kind, req[o].kind} : o \in {o \in Request : req[o] # Free}})
    /\ UNCHANGED <<accounts, lockout, cookie, hashes, twofa, secrets, uses>>

Plain(kind, stage) == [Free EXCEPT !.kind = kind, !.stage = stage]

\* api_setup, up to the hash of the new password.
BeginSetup(r, n) ==
    /\ ~Known
    /\ Begin(r, [Plain("setup", "lock") EXCEPT !.name = n])
    /\ UNCHANGED confirmed

\* api_login, up to the password hash: refused while the address is locked; the
\* name decides whose hash is compared.  A disabled reseller's name is compared
\* with the owner's.
BeginLogin(r, n, pw) ==
    /\ ~attempts.locked
    /\ LET who == IF Named(n) # {} /\ reseller[First(Named(n))].state = "on"
                  THEN First(Named(n)) ELSE Owner
       IN  Begin(r, [Plain("login", "kdf") EXCEPT
                       !.who = who, !.name = n, !.pw = pw,
                       !.ok = pw # 0 /\ pw = Fingerprint(who).pw])
    /\ UNCHANGED confirmed

\* The requests of a logged-in owner that verify nothing before their mutation,
\* or that first hash a new password.
BeginPlain(r, kind) ==
    /\ Known /\ kind \in {"logout", "patch", "fire"}
    /\ Begin(r, Plain(kind, "lock"))
    /\ UNCHANGED confirmed

\* api_change_password, with the old password right; only the owner may rename.
BeginPassword(r, who, n) ==
    /\ Known
    /\ IF who = Owner THEN TRUE ELSE reseller[who].state = "on" /\ n = NoName
    /\ Begin(r, [Plain("password", "kdf") EXCEPT !.who = who, !.name = n])
    /\ UNCHANGED confirmed

\* api_2fa_setup
BeginEnrol(r) ==
    /\ Known /\ ~twofa.enabled
    /\ Begin(r, Plain("enrol", "lock"))
    /\ UNCHANGED confirmed

\* api_2fa_enable: the code is verified against the secret as it is now.
BeginEnable(r) ==
    /\ Known /\ ~twofa.enabled /\ twofa.secret # 0
    /\ Begin(r, Plain("enable", "lock"))
    /\ confirmed' = confirmed \cup {twofa.secret}

\* api_2fa_disable and api_2fa_regen_recovery, with the password right.
BeginFactor(r, kind) ==
    /\ Known /\ kind \in {"disable", "codes"}
    /\ Begin(r, Plain(kind, "kdf"))
    /\ UNCHANGED confirmed

\* api_create_reseller, up to the hash: the name must not be taken.
BeginHire(r, n) ==
    /\ Known /\ n # admin.name /\ Named(n) = {}
    /\ Begin(r, [Plain("hire", "lock") EXCEPT !.name = n])
    /\ UNCHANGED confirmed

\* Mutant of BeginCreate: the last account is allowed once too often.
MutantCreateOneMore(r, s) ==
    /\ Known /\ reseller[s].state = "on" /\ rows[s] <= MaxUsers
    /\ Begin(r, [Plain("create", "lock") EXCEPT !.who = s])
    /\ UNCHANGED confirmed

\* api_create_inbound of a reseller: assert_can_create.
BeginCreate(r, s) ==
    /\ Known /\ reseller[s].state = "on" /\ rows[s] < MaxUsers
    /\ Begin(r, [Plain("create", "lock") EXCEPT !.who = s])
    /\ UNCHANGED confirmed

(***************************************************************************)
(* After the password hash.                                                *)
(***************************************************************************)
Go(r, q) == /\ req' = [req EXCEPT ![r] = q]
            /\ UNCHANGED <<accounts, factor, lockout, cookie, hashes, begun, overlap>>

\* The owner's name is compared, and if a second factor is set up a code is asked
\* for: none given ends the request uncounted, else it is right, is an unused
\* recovery code, or is wrong.
VerifyLogin(r) ==
    LET q == req[r]
        ok == q.ok /\ (q.who = Owner => q.name = admin.name)
    IN  /\ q.kind = "login" /\ q.stage = "kdf"
        /\ IF ok /\ q.who = Owner /\ twofa.enabled /\ twofa.secret # 0
           THEN \/ Go(r, Free)
                \/ \E right \in BOOLEAN : Go(r, [q EXCEPT !.stage = "lock", !.ok = right])
                \/ /\ twofa.codes # 0
                   /\ Go(r, [q EXCEPT !.stage = "lock", !.ok = TRUE, !.code = twofa.codes])
           ELSE Go(r, [q EXCEPT !.stage = "lock", !.ok = ok])

\* api_change_password checks the new name and hashes the new password.
VerifyPassword(r) ==
    LET q == req[r]
    IN  /\ q.kind = "password" /\ q.stage = "kdf"
        /\ IF q.name # NoName /\ Named(q.name) # {} THEN Go(r, Free)
           ELSE Go(r, [q EXCEPT !.stage = "lock"])

\* api_2fa_regen_recovery needs an enabled second factor.
VerifyFactor(r) ==
    LET q == req[r]
    IN  /\ q.kind \in {"disable", "codes"} /\ q.stage = "kdf"
        /\ IF q.kind = "codes" /\ ~twofa.enabled THEN Go(r, Free)
           ELSE Go(r, [q EXCEPT !.stage = "lock"])

(***************************************************************************)
(* The mutations, and the answer, which follows without an await.          *)
(***************************************************************************)
Apply(r, kind) ==
    /\ req[r].kind = kind /\ req[r].stage = "lock"
    /\ req' = [req EXCEPT ![r] = Free]
    /\ UNCHANGED <<begun, overlap>>

\* set_session_cookie, with the hash the account has by then; any one of the
\* cookies is the one that is followed.
Give(role, name, by, knew, pw) ==
    cookie' \in {cookie, [role |-> role, name |-> name, epoch |-> epoch,
                          by |-> by, knew |-> knew, pw |-> pw]}

NewHash == hashes' = hashes + 1

\* There is no second check for an admin.
ApplySetup(r) ==
    LET n == req[r].name
    IN  /\ Apply(r, "setup")
        /\ NewHash
        /\ admin' = [name |-> n, pw |-> hashes']
        /\ Give(Owner, n, Owner, hashes', hashes')
        /\ founded' = founded + 1
        /\ UNCHANGED <<reseller, epoch, rows, factor, lockout>>

\* Mutant of RecordFailure: the count goes on after the lock.
MutantRecordOn(r) ==
    /\ Apply(r, "login") /\ ~req[r].ok
    /\ attempts' = [count |-> attempts.count + 1,
                    locked |-> attempts.locked \/ attempts.count + 1 >= MaxAttempts]
    /\ tries' = tries + 1
    /\ UNCHANGED <<accounts, factor, cookie, hashes>>

\* _record of a failed login.
RecordFailure(r) ==
    /\ Apply(r, "login") /\ ~req[r].ok
    /\ attempts' = IF attempts.count + 1 >= MaxAttempts THEN [count |-> 0, locked |-> TRUE]
                   ELSE [attempts EXCEPT !.count = @ + 1]
    /\ tries' = tries + 1
    /\ UNCHANGED <<accounts, factor, cookie, hashes>>

\* _record of a successful one: the address is cleared, the code is burnt, and
\* the cookie is that of the reseller who has the name by now, if any.
RecordSuccess(r) ==
    LET q == req[r]
        role == IF q.who # Owner /\ Named(q.name) # {}
                THEN First(Named(q.name)) ELSE Owner
    IN  /\ Apply(r, "login") /\ q.ok
        /\ attempts' = [count |-> 0, locked |-> FALSE] /\ tries' = 0
        /\ twofa' = [twofa EXCEPT !.codes = IF @ = q.code THEN 0 ELSE @]
        /\ uses' = IF q.code = 0 THEN uses ELSE [uses EXCEPT ![q.code] = @ + 1]
        /\ Give(role, q.name, q.who, q.pw, Fingerprint(role).pw)
        /\ UNCHANGED <<accounts, hashes, secrets, confirmed>>

\* The lock of an address ends, or prune_login_attempts drops an old count.
LockEnds ==
    /\ attempts.locked \/ attempts.count > 0
    /\ attempts' = [locked |-> FALSE, count |-> IF attempts.locked THEN attempts.count ELSE 0]
    /\ tries' = 0
    /\ UNCHANGED <<accounts, factor, req, cookie, hashes, begun, overlap>>

\* api_logout_all
ApplyLogout(r) ==
    /\ Apply(r, "logout")
    /\ epoch' = epoch + 1
    /\ UNCHANGED <<admin, reseller, rows, founded, factor, lockout, cookie, hashes>>

\* api_change_password: the account is looked up again, its old password is not
\* compared again.
ApplyPassword(r) ==
    LET q == req[r]
        named(a) == IF q.name = NoName THEN a.name ELSE q.name
    IN  /\ Apply(r, "password")
        /\ IF q.who # Owner /\ ~Works(q.who) THEN UNCHANGED <<accounts, cookie, hashes>>
           ELSE /\ NewHash \/ (q.name # NoName /\ UNCHANGED hashes)
                /\ LET pw(a) == IF hashes' = hashes THEN a.pw ELSE hashes' IN
                   IF q.who = Owner
                   THEN /\ admin' = [name |-> named(admin), pw |-> pw(admin)]
                        /\ Give(Owner, admin'.name, Owner, admin'.pw, admin'.pw)
                        /\ UNCHANGED reseller
                   ELSE /\ reseller' = [reseller EXCEPT ![q.who].pw = pw(reseller[q.who])]
                        /\ Give(q.who, reseller[q.who].name, q.who, hashes', hashes')
                        /\ UNCHANGED admin
                /\ UNCHANGED <<epoch, rows, founded>>
        /\ UNCHANGED <<factor, lockout>>

\* The second factor: a new secret, not yet in force; in force, with new recovery
\* codes; none; new recovery codes.
ApplyFactor(r, kind) ==
    /\ Apply(r, kind)
    /\ secrets' = IF kind = "disable" THEN secrets ELSE secrets + 1
    /\ twofa' = CASE kind = "enrol" -> [twofa EXCEPT !.secret = secrets', !.enabled = FALSE]
                  [] kind = "enable" -> [twofa EXCEPT !.enabled = TRUE, !.codes = secrets']
                  [] kind = "codes" -> [twofa EXCEPT !.codes = secrets']
                  [] kind = "disable" -> [enabled |-> FALSE, secret |-> 0, codes |-> 0]
    /\ UNCHANGED <<accounts, lockout, cookie, hashes, confirmed, uses>>

\* api_create_reseller
ApplyHire(r) ==
    /\ Apply(r, "hire")
    /\ \/ \E s \in Reseller :
            /\ \A t \in Reseller : reseller[t].state = "none" <=> t >= s
            /\ NewHash
            /\ \E st \in {"on", "off"} :
                 reseller' = [reseller EXCEPT
                                ![s] = [state |-> st, name |-> req[r].name, pw |-> hashes']]
       \/ (\A s \in Reseller : reseller[s].state # "none") /\ UNCHANGED <<reseller, hashes>>
    /\ UNCHANGED <<admin, epoch, rows, founded, factor, lockout, cookie>>

\* api_update_reseller: a new password, or enabled or disabled.
ApplyPatch(r) ==
    /\ Apply(r, "patch")
    /\ \E s \in Reseller :
         \/ /\ Works(s) /\ NewHash
            /\ reseller' = [reseller EXCEPT ![s].pw = hashes']
         \/ /\ Works(s) /\ UNCHANGED hashes
            /\ reseller' = [reseller EXCEPT ![s].state = IF @ = "on" THEN "off" ELSE "on"]
         \/ ~Works(s) /\ UNCHANGED <<reseller, hashes>>
    /\ UNCHANGED <<admin, epoch, rows, founded, factor, lockout, cookie>>

\* Mutant of ApplyFire: the accounts stay with the reseller.
MutantFireKeepsRows(r) ==
    /\ Apply(r, "fire")
    /\ \E s \in Reseller :
         \/ /\ Works(s)
            /\ reseller' = [reseller EXCEPT ![s].state = "gone"]
         \/ ~Works(s) /\ UNCHANGED reseller
    /\ UNCHANGED <<admin, epoch, rows, founded, factor, lockout, cookie, hashes>>

\* api_delete_reseller: the accounts go, or pass to the owner.
ApplyFire(r) ==
    /\ Apply(r, "fire")
    /\ \E s \in Reseller :
         \/ /\ Works(s)
            /\ reseller' = [reseller EXCEPT ![s].state = "gone"]
            /\ rows' = [rows EXCEPT ![s] = 0]
         \/ ~Works(s) /\ UNCHANGED <<reseller, rows>>
    /\ UNCHANGED <<admin, epoch, founded, factor, lockout, cookie, hashes>>

\* api_create_inbound: the row is appended whatever has become of its owner.
ApplyCreate(r) ==
    /\ Apply(r, "create")
    /\ rows' = [rows EXCEPT ![req[r].who] = @ + 1]
    /\ UNCHANGED <<admin, reseller, epoch, founded, factor, lockout, cookie, hashes>>

Next ==
    \/ \E r \in Request :
         \/ \E n \in Name : BeginSetup(r, n) \/ BeginHire(r, n)
                              \/ \E pw \in 0..hashes : BeginLogin(r, n, pw)
         \/ \E kind \in Kind : BeginPlain(r, kind) \/ BeginFactor(r, kind)
         \/ \E who \in Account, n \in Name \cup {NoName} : BeginPassword(r, who, n)
         \/ \E s \in Reseller : BeginCreate(r, s)
         \/ BeginEnrol(r) \/ BeginEnable(r)
         \/ VerifyLogin(r) \/ VerifyPassword(r) \/ VerifyFactor(r)
         \/ ApplySetup(r) \/ RecordFailure(r) \/ RecordSuccess(r) \/ ApplyLogout(r)
         \/ ApplyPassword(r) \/ ApplyHire(r) \/ ApplyPatch(r) \/ ApplyFire(r) \/ ApplyCreate(r)
         \/ \E kind \in {"enrol", "enable", "disable", "codes"} : ApplyFactor(r, kind)
    \/ LockEnds

Spec == Init /\ [][Next]_vars

(***************************************************************************)
(* Properties.                                                             *)
(***************************************************************************)
Overlapped(a, b) == {a, b} \in overlap
LoginRaced == \E kind \in {"setup", "password", "patch", "fire"} : Overlapped("login", kind)
HireRaced == \E kind \in {"hire", "password", "setup"} : Overlapped("hire", kind)

\* A session is that of the account that logged in, and whoever opened it knew
\* the password the account has now: a changed password ends the sessions opened
\* with the old one, whichever request changed it, and a name that passes from
\* one account to another carries no session along (current_identity,
\* _session_fingerprint).  A login under way while the account's password is
\* changed, or while the reseller is deleted, is not so bound.
SessionsAreTheirs ==
    Accepted(cookie) =>
      \/ cookie.by = cookie.role /\ cookie.knew = Fingerprint(cookie.role).pw
      \/ LoginRaced

\* The checks made before an await let through at most as many requests too many
\* as are handled at once: failed logins before the address is locked
\* (LOGIN_MAX_ATTEMPTS), uses of one recovery code ("Recovery codes are single
\* use"), accounts of a reseller (assert_can_create).
LockoutHolds == tries < MaxAttempts + Cardinality(Request)
CodesBurn == \A c \in Secret : uses[c] <= Cardinality(Request)
QuotasHold == \A s \in Reseller : rows[s] < MaxUsers + Cardinality(Request)
ChecksHold == LockoutHolds /\ CodesBurn /\ QuotasHold

\* What one request checks stays true when it applies its mutation, unless a
\* request that changes it is under way as well.  A second factor in force has a
\* secret that a valid code has confirmed (api_2fa_setup, "a half-finished
\* enrolment can never lock the admin out").
SecretIsConfirmed ==
    twofa.enabled => \/ twofa.secret \in confirmed
                     \/ Overlapped("enrol", "enable") \/ Overlapped("enable", "disable")
\* Every account of a reseller has an owner who can see it (api_delete_reseller, "a
\* row whose owner no longer exists would be invisible to everyone").
RowsHaveOwners ==
    \A s \in Reseller : rows[s] > 0 => Works(s) \/ Overlapped("create", "fire")
\* "two accounts answering to one username would make the login ambiguous"
\* (api_create_reseller).
NamesAreUnique ==
    \A s \in Reseller :
        Works(s) => \/ reseller[s].name # admin.name /\ Named(reseller[s].name) = {s}
                    \/ HireRaced
\* The panel is set up once.
SetupIsFinal == founded > 1 => Overlapped("setup", "setup")
OnlyOverlapsBreak == SecretIsConfirmed /\ RowsHaveOwners /\ NamesAreUnique /\ SetupIsFinal
=============================================================================
