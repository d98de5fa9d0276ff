-------------------------- MODULE FulfilmentProofs --------------------------
(***************************************************************************)
(* Fulfilment: everything that is sold or given is delivered at most once, *)
(* nobody is paid or asked to pay twice, and what a customer was told is   *)
(* saved -- for any number of customers, codes, updates and incidents.     *)
(***************************************************************************)
EXTENDS Fulfilment, FiniteSetTheorems, TLAPS

(***************************************************************************)
(* The inductive invariant.                                                *)
(***************************************************************************)
\* What was delivered agrees with what says so: the code, the claim, the answer to the
\* ask, the invitation.
Booked(d) ==
    /\ \A v \in Voucher : d.made[v] = IF d.code[v] = "used" THEN 1 ELSE 0
    /\ \A c \in Chat : d.made[c] = IF c \in d.claimed THEN 1 ELSE 0
    /\ \A n \in Update : \/ d.made[n] = 0
                         \/ d.made[n] = 1 /\ d.ask[n] \notin {"none", "pending"}
    /\ \A c \in Chat : d.bonuses[c] = IF d.invited[c] = "paid" THEN 1 ELSE 0

\* An ask is stored together with an offset beyond it.
Dated(d) == d.offset <= Len(sent) /\ \A n \in Update : d.ask[n] # "none" => n <= d.offset

BooksInv == \A d \in {db, saved} : Booked(d) /\ Dated(d)

\* What memory has that db.json may not have yet is no sale: at most a request for a
\* renewal that was rejected because its account is gone.
AheadInv ==
    /\ db.made = saved.made /\ db.code = saved.code /\ db.claimed = saved.claimed
    /\ \A n \in Update : \/ db.ask[n] = saved.ask[n]
                         \/ /\ saved.ask[n] = "pending" /\ db.ask[n] = "rejected"
                            /\ sent[n].kind = "renew"

\* A batch is all that Telegram has; between two of them nothing is pending.
BatchInv ==
    /\ confirmed <= Len(sent)
    /\ pc = "poll" => batch = {} /\ left = {} /\ ctx = NewContext
    /\ pc # "poll" => batch = (confirmed + 1)..Len(sent) /\ batch # {}
    /\ left \subseteq batch /\ ctx.asks \subseteq batch

\* Until the batch is applied, its asks are new, and a chat's order is its only one.
\* From then on they are in db.json, but for those of the menu.
AskInv ==
    /\ pc = "messages" =>
        /\ \A n \in batch : db.ask[n] = "none"
        /\ \A n \in ctx.asks : sent[n].kind \in Asks
        /\ \A m, n \in Kinds(ctx.asks, {"photo"}) : sent[m].chat = sent[n].chat => m = n
        /\ \A n \in Kinds(ctx.asks, {"photo"}) : AskOf(db, sent[n].chat, "photo") = {}
    /\ pc # "messages" => \A n \in Kinds(ctx.asks, Asks) : saved.ask[n] # "none"

OrderInv == \A c \in Chat : \A m, n \in AskOf(db, c, "photo") : m = n

\* What was told or shown was sent, and so was what a tap answers.
SentInv ==
    /\ told \subseteq 1..Len(sent) /\ shown \subseteq 1..Len(sent)
    /\ \A n \in 1..Len(sent) :
        sent[n].kind \in {"approve", "reject"} => sent[n].arg \in 1..Len(sent)

IInv == TypeOK /\ BooksInv /\ AheadInv /\ BatchInv /\ AskInv /\ OrderInv /\ SentInv /\ ToldIsSaved

LEMMA Disjoint ==
    /\ Update \subseteq Nat
    /\ \A v \in Voucher : v \notin Chat /\ v \notin Update /\ v \in Offer
    /\ \A c \in Chat : c \notin Voucher /\ c \notin Update /\ c \in Offer
    /\ \A n \in Update : n \notin Voucher /\ n \notin Chat /\ n \in Offer
    /\ \A n \in 1..MaxUpdates : n \in Update
<1>1. Update \subseteq Nat
  BY BoundsAssumption DEF Update
<1> QED BY <1>1, NamesAssumption DEF Update, Offer

(***************************************************************************)
(* One offer, from one database to the next.                               *)
(***************************************************************************)
\* Nothing about the offer has changed.
Like(d, e, o) ==
    /\ e.made[o] = d.made[o]
    /\ o \in Voucher => e.code[o] = d.code[o]
    /\ o \in Chat => (o \in e.claimed <=> o \in d.claimed)
    /\ o \in Update => e.ask[o] = d.ask[o]

\* The offer has taken no step or one of Sales.
Moved(d, e, o) ==
    /\ Life(e, o) = Life(d, o) \/ <<Life(d, o), Life(e, o)>> \in Sold!Moves
    /\ e.made[o] = IF Life(d, o) # "delivered" /\ Life(e, o) = "delivered"
                   THEN d.made[o] + 1 ELSE d.made[o]
Leads(d, e) == \A o \in Offer : Moved(d, e, o)

LEMMA LikeMoves == ASSUME NEW d, NEW e, NEW o \in Offer, Like(d, e, o)
                   PROVE  Moved(d, e, o) /\ Life(e, o) = Life(d, o)
<1>1. o \in Voucher \/ o \in Chat \/ o \in Update
  BY DEF Offer
<1>2. Life(e, o) = Life(d, o)
  BY <1>1, Disjoint DEF Like, Life
<1> QED BY <1>2 DEF Like, Moved

LEMMA LikeLeads == ASSUME NEW d, NEW e, \A o \in Offer : Like(d, e, o) PROVE Leads(d, e)
BY LikeMoves DEF Leads

LEMMA VoucherSold ==
    ASSUME NEW d, NEW e, NEW v \in Voucher, d.made[v] = 0, d.code[v] = "unused",
           e.made[v] = 1 \/ (e.made[v] = 0 /\ e.code[v] = "revoked")
    PROVE  Moved(d, e, v)
BY DEF Moved, Life, Sold!Moves

LEMMA TrialGiven ==
    ASSUME NEW d, NEW e, NEW c \in Chat, d.made[c] = 0, c \notin d.claimed, e.made[c] = 1
    PROVE  Moved(d, e, c)
BY Disjoint DEF Moved, Life, Sold!Moves

LEMMA AskMoves ==
    ASSUME NEW d, NEW e, NEW n \in Update, d.made[n] = 0,
           \/ d.ask[n] = "none" /\ e.made[n] = 0 /\ e.ask[n] = "pending"
           \/ d.ask[n] = "pending" /\ e.made[n] \in {0, 1} /\ e.ask[n] \notin {"none", "pending"}
    PROVE  Moved(d, e, n)
BY Disjoint DEF Moved, Life, Sold!Moves

\* What was delivered, or is no longer pending, may be pruned.
LEMMA AskPruned ==
    ASSUME NEW d, NEW e, NEW n \in Update, e.made[n] = d.made[n], d.made[n] \in {0, 1},
           d.ask[n] \notin {"none", "pending"}, e.ask[n] \notin {"none", "pending"}
    PROVE  Moved(d, e, n)
BY Disjoint DEF Moved, Life, Sold!Moves

(***************************************************************************)
(* The databases that the mutations make.                                  *)
(***************************************************************************)
\* e may follow d: it has its type, agrees with itself, and no offer took two steps.
Fine(d, e) == e \in Database /\ Booked(e) /\ Leads(d, e)

\* Asks are answered, if anything: none is new, none is asked again.
Settles(d, e) ==
    /\ e.offset = d.offset
    /\ \A n \in Update : \/ e.ask[n] = d.ask[n]
                         \/ d.ask[n] = "pending" /\ e.ask[n] \in {"approved", "rejected"}

LEMMA FineAfter ==
    ASSUME NEW d \in Database, NEW e \in Database, Booked(d), NEW f, Fine(d, e), f \in Database,
           Booked(f), \A o \in Offer : Like(e, f, o)
    PROVE  Fine(d, f)
<1>1. ASSUME NEW o \in Offer PROVE Moved(d, f, o)
  <2>1. Life(f, o) = Life(e, o) /\ f.made[o] = e.made[o] /\ Moved(d, e, o)
    BY <1>1, LikeMoves DEF Fine, Leads, Like
  <2> QED BY <2>1 DEF Moved
<1> QED BY <1>1 DEF Fine, Leads

\* Changes that touch neither offers nor bonuses.
LEMMA OtherFields ==
    ASSUME NEW d \in Database, Booked(d), NEW e \in Database,
           e.made = d.made, e.code = d.code, e.claimed = d.claimed, e.ask = d.ask,
           e.invited = d.invited, e.bonuses = d.bonuses
    PROVE  Booked(e) /\ Fine(d, e) /\ \A o \in Offer : Like(d, e, o)
<1>1. Booked(e) /\ \A o \in Offer : Like(d, e, o)
  BY DEF Booked, Like
<1> QED BY <1>1, LikeLeads DEF Fine

LEMMA SettleIs ==
    ASSUME NEW d \in Database, Booked(d), NEW c \in Chat, NEW e, e = Settle(d, c)
    PROVE  /\ e \in Database /\ Booked(e) /\ \A o \in Offer : Like(d, e, o)
           /\ e.ask = d.ask /\ e.offset = d.offset
<1>1. CASE d.invited[c] # "yes"
  BY <1>1 DEF Settle, Like
<1>2. CASE d.invited[c] = "yes"
  <2>1. e = [d EXCEPT !.invited[c] = "paid", !.bonuses[c] = d.bonuses[c] + 1]
    BY <1>2 DEF Settle
  <2>2. e \in Database
    <3>1. d.bonuses[c] + 1 \in Nat /\ d.invited \in [Chat -> {"no", "yes", "paid"}] /\ d.bonuses \in [Chat -> Nat]
      BY DEF Database
    <3>2. [d.invited EXCEPT ![c] = "paid"] \in [Chat -> {"no", "yes", "paid"}]
      BY <3>1
    <3>3. [d.bonuses EXCEPT ![c] = d.bonuses[c] + 1] \in [Chat -> Nat]
      BY <3>1
    <3> QED BY <2>1, <3>2, <3>3 DEF Database
  <2>3. /\ e.made = d.made /\ e.code = d.code /\ e.claimed = d.claimed /\ e.ask = d.ask
        /\ e.offset = d.offset
    BY <2>1 DEF Database
  <2>4. /\ e.invited = [d.invited EXCEPT ![c] = "paid"]
        /\ e.bonuses = [d.bonuses EXCEPT ![c] = d.bonuses[c] + 1]
    BY <2>1 DEF Database
  <2>5. d.invited \in [Chat -> {"no", "yes", "paid"}] /\ d.bonuses \in [Chat -> Nat]
    BY DEF Database
  <2>6. \A a \in Chat : e.bonuses[a] = IF e.invited[a] = "paid" THEN 1 ELSE 0
    BY <1>2, <2>4, <2>5 DEF Booked
  <2> QED BY <2>2, <2>3, <2>6 DEF Booked, Like
<1> QED BY <1>1, <1>2

LEMMA RedeemedIs ==
    ASSUME NEW d \in Database, Booked(d), NEW v \in Voucher, d.code[v] = "unused",
           NEW e, e = Redeemed(d, v)
    PROVE  Fine(d, e) /\ e.ask = d.ask /\ e.offset = d.offset
<1>1. /\ e.made = [d.made EXCEPT ![v] = d.made[v] + 1] /\ e.code = [d.code EXCEPT ![v] = "used"]
      /\ e.live = d.live \cup {v} /\ e.offset = d.offset /\ e.claimed = d.claimed /\ e.ask = d.ask
      /\ e.invited = d.invited /\ e.bonuses = d.bonuses
  BY DEF Redeemed, NewAccount, Database
<1>2. d.made \in [Offer -> Nat] /\ d.code \in [Voucher -> {"unused", "used", "revoked"}] /\ d.live \in SUBSET (Offer \cup {Own})
  BY DEF Database
<1>3. e \in Database
  <2> DEFINE m == [d.made EXCEPT ![v] = d.made[v] + 1]
             l == d.live \cup {v}
             k == [d.code EXCEPT ![v] = "used"]
  <2>1. e = [d EXCEPT !.made = m, !.live = l, !.code = k]
    BY DEF Redeemed, NewAccount, Database
  <2>2. m \in [Offer -> Nat] /\ l \in SUBSET (Offer \cup {Own})
        /\ k \in [Voucher -> {"unused", "used", "revoked"}]
    BY <1>2, Disjoint
  <2> HIDE DEF m, l, k
  <2> QED BY <2>1, <2>2 DEF Database
<1>4. d.made[v] = 0
  BY DEF Booked
<1>5. \A o \in Offer : o # v => Like(d, e, o)
  BY <1>1, <1>2 DEF Like
<1>6. Moved(d, e, v)
  BY <1>1, <1>2, <1>4, Disjoint, VoucherSold
<1>7. Booked(e)
  BY <1>1, <1>2, <1>4, Disjoint DEF Booked
<1>8. Leads(d, e)
  BY <1>5, <1>6, LikeMoves DEF Leads
<1> QED BY <1>1, <1>3, <1>7, <1>8 DEF Fine

LEMMA RevokedIs ==
    ASSUME NEW d \in Database, Booked(d), NEW v \in Voucher, d.code[v] = "unused",
           NEW e, e = [d EXCEPT !.code[v] = "revoked"]
    PROVE  Fine(d, e) /\ e.ask = d.ask /\ e.offset = d.offset
<1>1. d.made \in [Offer -> Nat] /\ d.code \in [Voucher -> {"unused", "used", "revoked"}] /\ d.made[v] = 0
  BY DEF Database, Booked
<1>2. /\ e.code = [d.code EXCEPT ![v] = "revoked"] /\ e.made = d.made /\ e.offset = d.offset
      /\ e.claimed = d.claimed /\ e.ask = d.ask /\ e.invited = d.invited /\ e.bonuses = d.bonuses
  BY DEF Database
<1>3. e \in Database
  <2> DEFINE k == [d.code EXCEPT ![v] = "revoked"]
  <2>1. e = [d EXCEPT !.code = k] /\ k \in [Voucher -> {"unused", "used", "revoked"}]
    BY <1>1
  <2> HIDE DEF k
  <2> QED BY <2>1 DEF Database
<1>4. \A o \in Offer : o # v => Like(d, e, o)
  BY <1>1, <1>2 DEF Like
<1>5. Moved(d, e, v)
  BY <1>1, <1>2, VoucherSold
<1>6. Booked(e)
  BY <1>1, <1>2, Disjoint DEF Booked
<1>7. Leads(d, e)
  BY <1>4, <1>5, LikeMoves DEF Leads
<1> QED BY <1>2, <1>3, <1>6, <1>7 DEF Fine

LEMMA TriedIs ==
    ASSUME NEW d \in Database, Booked(d), NEW c \in Chat, MayTry(d, c), NEW e, e = Tried(d, c)
    PROVE  Fine(d, e) /\ e.ask = d.ask /\ e.offset = d.offset
<1>1. /\ d.made \in [Offer -> Nat] /\ d.live \in SUBSET (Offer \cup {Own}) /\ d.claimed \in SUBSET Chat
      /\ d.bound \in [Chat -> Offer \cup {Own, None}] /\ d.made[c] = 0 /\ c \notin d.claimed
  BY DEF Database, Booked, MayTry
<1> DEFINE m == [d.made EXCEPT ![c] = d.made[c] + 1]
           l == d.live \cup {c}
           k == d.claimed \cup {c}
           b == [d.bound EXCEPT ![c] = c]
<1>2. e = [d EXCEPT !.made = m, !.live = l, !.claimed = k, !.bound = b]
  BY DEF Tried, NewAccount, Database
<1>3. /\ m \in [Offer -> Nat] /\ l \in SUBSET (Offer \cup {Own}) /\ k \in SUBSET Chat
      /\ b \in [Chat -> Offer \cup {Own, None}]
  BY <1>1, Disjoint
<1>4. m[c] = 1 /\ (\A o \in Offer : o # c => m[o] = d.made[o]) /\ (\A a \in Chat : a \in k <=> a = c \/ a \in d.claimed)
  BY <1>1, Disjoint
<1> HIDE DEF m, l, k, b
<1>5. /\ e \in Database /\ e.made = m /\ e.claimed = k /\ e.code = d.code /\ e.ask = d.ask
      /\ e.offset = d.offset /\ e.invited = d.invited /\ e.bonuses = d.bonuses
  BY <1>2, <1>3 DEF Database
<1>6. \A o \in Offer : o # c => Like(d, e, o)
  BY <1>4, <1>5 DEF Like
<1>7. Moved(d, e, c)
  BY <1>1, <1>4, <1>5, TrialGiven
<1>8. Booked(e)
  BY <1>1, <1>4, <1>5, Disjoint DEF Booked
<1>9. Leads(d, e)
  BY <1>6, <1>7, LikeMoves DEF Leads
<1> QED BY <1>5, <1>8, <1>9 DEF Fine

\* An answer to an ask, with a delivery or without.
LEMMA AnsweredIs ==
    ASSUME NEW d \in Database, Booked(d), NEW o \in Update, d.ask[o] = "pending",
           NEW e \in Database, e.made[o] \in {0, 1}, e.ask[o] \in {"approved", "rejected"},
           \A x \in Offer : x # o => e.made[x] = d.made[x],
           \A x \in Update : x # o => e.ask[x] = d.ask[x],
           e.code = d.code, e.claimed = d.claimed, e.offset = d.offset,
           e.invited = d.invited, e.bonuses = d.bonuses
    PROVE  Fine(d, e) /\ Settles(d, e)
<1>1. d.made[o] = 0
  BY DEF Booked
<1>2. \A x \in Offer : x # o => Like(d, e, x)
  BY DEF Like
<1>3. Moved(d, e, o)
  BY <1>1, AskMoves
<1>4. Booked(e)
  BY Disjoint DEF Booked
<1>5. Leads(d, e)
  BY <1>2, <1>3, LikeMoves DEF Leads
<1>6. Settles(d, e)
  BY DEF Settles
<1> QED BY <1>4, <1>5, <1>6 DEF Fine

LEMMA RejectedIs ==
    ASSUME NEW d \in Database, Booked(d), NEW o \in Update, d.ask[o] = "pending",
           NEW e, e = [d EXCEPT !.ask[o] = "rejected"]
    PROVE  Fine(d, e) /\ Settles(d, e) /\ e.made = d.made /\ e.code = d.code /\ e.claimed = d.claimed
<1>1. d.made[o] = 0 /\ d.ask \in [Update -> {"none", "pending", "approved", "rejected", "pruned"}]
  BY DEF Database, Booked
<1> DEFINE a == [d.ask EXCEPT ![o] = "rejected"]
<1>2. /\ e = [d EXCEPT !.ask = a] /\ a \in [Update -> {"none", "pending", "approved", "rejected", "pruned"}]
      /\ a[o] = "rejected" /\ \A x \in Update : x # o => a[x] = d.ask[x]
  BY <1>1
<1> HIDE DEF a
<1>3. /\ e \in Database /\ e.ask = a /\ e.made = d.made /\ e.claimed = d.claimed /\ e.code = d.code
      /\ e.offset = d.offset /\ e.invited = d.invited /\ e.bonuses = d.bonuses
  BY <1>2 DEF Database
<1>4. /\ e.made[o] \in {0, 1} /\ (\A x \in Offer : x # o => e.made[x] = d.made[x])
      /\ e.ask[o] \in {"approved", "rejected"} /\ (\A x \in Update : x # o => e.ask[x] = d.ask[x])
  BY <1>1, <1>2, <1>3
<1>5. Fine(d, e) /\ Settles(d, e)
  BY <1>3, <1>4, AnsweredIs
<1> QED BY <1>3, <1>5

LEMMA RenewedIs ==
    ASSUME NEW d \in Database, Booked(d), NEW o \in Update, d.ask[o] = "pending",
           NEW e, e = Renewed(d, o)
    PROVE  Fine(d, e) /\ Settles(d, e)
<1>1. /\ d.made \in [Offer -> Nat] /\ d.made[o] = 0
      /\ d.ask \in [Update -> {"none", "pending", "approved", "rejected", "pruned"}]
  BY DEF Database, Booked
<1> DEFINE a == [d.ask EXCEPT ![o] = "approved"]
           m == [d.made EXCEPT ![o] = IF d.target[o] \in d.live THEN d.made[o] + 1 ELSE d.made[o]]
<1>2. e = [d EXCEPT !.ask = a, !.made = m]
  BY <1>1 DEF Renewed, Database
<1>3. /\ a \in [Update -> {"none", "pending", "approved", "rejected", "pruned"}]
      /\ a[o] = "approved" /\ \A x \in Update : x # o => a[x] = d.ask[x]
  BY <1>1
<1>4. m \in [Offer -> Nat] /\ m[o] \in {0, 1} /\ \A x \in Offer : x # o => m[x] = d.made[x]
  BY <1>1, Disjoint
<1> HIDE DEF a, m
<1>5. /\ e \in Database /\ e.ask = a /\ e.made = m /\ e.claimed = d.claimed /\ e.code = d.code
      /\ e.offset = d.offset /\ e.invited = d.invited /\ e.bonuses = d.bonuses
  BY <1>2, <1>3, <1>4 DEF Database
<1> QED BY <1>3, <1>4, <1>5, AnsweredIs

\* An order becomes an account of its customer, whose pick and invitation are settled.
LEMMA FilledIs ==
    ASSUME NEW d \in Database, Booked(d), NEW o \in Update, d.ask[o] = "pending", NEW c \in Chat,
           NEW e, e = Settle(Unpick([NewAccount(d, o) EXCEPT !.ask[o] = "approved", !.bound[c] = o], c), c)
    PROVE  Fine(d, e) /\ Settles(d, e)
<1>1. /\ d.made \in [Offer -> Nat] /\ d.made[o] = 0 /\ d.live \in SUBSET (Offer \cup {Own})
      /\ d.ask \in [Update -> {"none", "pending", "approved", "rejected", "pruned"}]
      /\ d.bound \in [Chat -> Offer \cup {Own, None}] /\ d.picked \in SUBSET Chat
  BY DEF Database, Booked
<1> DEFINE a == [d.ask EXCEPT ![o] = "approved"]
           m == [d.made EXCEPT ![o] = d.made[o] + 1]
           l == d.live \cup {o}
           b == [d.bound EXCEPT ![c] = o]
           p == d.picked \ {c}
           f == Unpick([NewAccount(d, o) EXCEPT !.ask[o] = "approved", !.bound[c] = o], c)
<1>2. f = [d EXCEPT !.made = m, !.live = l, !.ask = a, !.bound = b, !.picked = p]
  BY DEF NewAccount, Unpick, Database
<1>3. /\ a \in [Update -> {"none", "pending", "approved", "rejected", "pruned"}]
      /\ a[o] = "approved" /\ \A x \in Update : x # o => a[x] = d.ask[x]
  BY <1>1
<1>4. m \in [Offer -> Nat] /\ m[o] \in {0, 1} /\ \A x \in Offer : x # o => m[x] = d.made[x]
  BY <1>1, Disjoint
<1>5. l \in SUBSET (Offer \cup {Own}) /\ b \in [Chat -> Offer \cup {Own, None}] /\ p \in SUBSET Chat
  BY <1>1, Disjoint
<1> HIDE DEF a, m, l, b, p
<1>6. PICK g : g = f
  OBVIOUS
<1>7. e = Settle(g, c)
  BY <1>6
<1> HIDE DEF f
<1>8. /\ g \in Database /\ g.ask = a /\ g.made = m /\ g.claimed = d.claimed /\ g.code = d.code
      /\ g.offset = d.offset /\ g.invited = d.invited /\ g.bonuses = d.bonuses
  BY <1>2, <1>3, <1>4, <1>5, <1>6 DEF Database
<1>9. Fine(d, g) /\ Settles(d, g)
  BY <1>3, <1>4, <1>8, AnsweredIs
<1>10. /\ e \in Database /\ Booked(e) /\ (\A x \in Offer : Like(g, e, x))
       /\ e.ask = g.ask /\ e.offset = g.offset
  BY <1>7, <1>8, <1>9, SettleIs DEF Fine
<1>11. Fine(d, e)
  BY <1>8, <1>9, <1>10, FineAfter
<1> QED BY <1>9, <1>10, <1>11 DEF Settles

\* A plan that is picked, an account that is deleted.
LEMMA PlainIs ==
    ASSUME NEW d \in Database, Booked(d), NEW e,
           \/ \E p \in SUBSET Chat : e = [d EXCEPT !.picked = p]
           \/ \E l \in SUBSET (Offer \cup {Own}) : e = [d EXCEPT !.live = l]
    PROVE  /\ Fine(d, e) /\ e.ask = d.ask /\ e.offset = d.offset
           /\ e.made = d.made /\ e.code = d.code /\ e.claimed = d.claimed
           /\ e.invited = d.invited /\ e.bonuses = d.bonuses
<1>1. /\ e \in Database /\ e.ask = d.ask /\ e.made = d.made /\ e.claimed = d.claimed /\ e.code = d.code
      /\ e.offset = d.offset /\ e.invited = d.invited /\ e.bonuses = d.bonuses
  <2>1. CASE \E p \in SUBSET Chat : e = [d EXCEPT !.picked = p]
    BY <2>1 DEF Database
  <2>2. CASE \E l \in SUBSET (Offer \cup {Own}) : e = [d EXCEPT !.live = l]
    BY <2>2 DEF Database
  <2> QED BY <2>1, <2>2
<1> QED BY <1>1, OtherFields

LEMMA RejectedOrderIs ==
    ASSUME NEW d \in Database, Booked(d), NEW o \in Update, d.ask[o] = "pending", NEW c \in Chat,
           NEW e, e = Unpick([d EXCEPT !.ask[o] = "rejected"], c)
    PROVE  Fine(d, e) /\ Settles(d, e)
<1>1. PICK g : g = [d EXCEPT !.ask[o] = "rejected"]
  OBVIOUS
<1>2. Fine(d, g) /\ Settles(d, g)
  BY <1>1, RejectedIs
<1>3. \E p \in SUBSET Chat : e = [g EXCEPT !.picked = p]
  <2>1. e = [g EXCEPT !.picked = g.picked \ {c}] /\ g.picked \ {c} \in SUBSET Chat
    BY <1>1, <1>2 DEF Fine, Unpick, Database
  <2> QED BY <2>1
<1>4. g \in Database /\ Booked(g)
  BY <1>2 DEF Fine
<1>5. /\ e.ask = g.ask /\ e.offset = g.offset /\ e.made = g.made /\ e.code = g.code
      /\ e.claimed = g.claimed /\ Booked(e) /\ e \in Database
  BY <1>3, <1>4, PlainIs DEF Fine
<1>6. \A x \in Offer : Like(g, e, x)
  BY <1>5 DEF Like
<1>7. Fine(d, e)
  BY <1>2, <1>4, <1>5, <1>6, FineAfter
<1> QED BY <1>2, <1>5, <1>7 DEF Settles

LEMMA FollowIs ==
    ASSUME ctx \in Context, NEW d \in Database, Booked(d), NEW e, e = Follow(d)
    PROVE  /\ Fine(d, e) /\ e.ask = d.ask /\ e.offset = d.offset
           /\ e.made = d.made /\ e.code = d.code /\ e.claimed = d.claimed
           /\ e.invited = d.invited /\ e.bonuses = d.bonuses
<1>1. /\ d.bound \in [Chat -> Offer \cup {Own, None}] /\ d.picked \in SUBSET Chat
      /\ ctx.binds \in [Chat -> Offer \cup {Own, None}] /\ ctx.picks \in SUBSET Chat
  BY DEF Database, Context
<1> DEFINE b == [c \in Chat |-> IF ctx.binds[c] = None THEN d.bound[c] ELSE ctx.binds[c]]
           p == d.picked \cup ctx.picks
<1>2. e = [d EXCEPT !.bound = b, !.picked = p]
  BY DEF Follow, Database
<1>3. b \in [Chat -> Offer \cup {Own, None}] /\ p \in SUBSET Chat
  BY <1>1
<1> HIDE DEF b, p
<1>4. /\ e \in Database /\ e.ask = d.ask /\ e.made = d.made /\ e.claimed = d.claimed /\ e.code = d.code
      /\ e.offset = d.offset /\ e.invited = d.invited /\ e.bonuses = d.bonuses
  BY <1>2, <1>3 DEF Database
<1> QED BY <1>4, OtherFields

LEMMA InviteIs ==
    ASSUME NEW d \in Database, Booked(d), NEW chats, NEW e, e = Invite(d, chats)
    PROVE  /\ e \in Database /\ Booked(e) /\ e.ask = d.ask /\ e.offset = d.offset
           /\ e.made = d.made /\ e.code = d.code /\ e.claimed = d.claimed
<1>1. d.invited \in [Chat -> {"no", "yes", "paid"}]
  BY DEF Database
<1> DEFINE i == [c \in Chat |->
                   IF c \in chats /\ Own \in d.live /\ d.bound[c] = None /\ d.invited[c] = "no"
                   THEN "yes" ELSE d.invited[c]]
<1>2. e = [d EXCEPT !.invited = i]
  BY DEF Invite
<1>3. i \in [Chat -> {"no", "yes", "paid"}] /\ \A c \in Chat : i[c] = "paid" <=> d.invited[c] = "paid"
  BY <1>1
<1> HIDE DEF i
<1>4. /\ e \in Database /\ e.ask = d.ask /\ e.offset = d.offset /\ e.made = d.made
      /\ e.code = d.code /\ e.claimed = d.claimed /\ e.invited = i /\ e.bonuses = d.bonuses
  BY <1>2, <1>3 DEF Database
<1>5. Booked(e)
  BY <1>3, <1>4 DEF Booked
<1> QED BY <1>4, <1>5

LEMMA PruneIs ==
    ASSUME NEW d \in Database, NEW e, e = PruneOrders(d)
    PROVE  /\ e \in Database /\ e.offset = d.offset /\ e.made = d.made /\ e.code = d.code
           /\ e.claimed = d.claimed /\ e.invited = d.invited /\ e.bonuses = d.bonuses
           /\ \A n \in Update : \/ e.ask[n] = d.ask[n]
                                \/ e.ask[n] = "pruned" /\ d.ask[n] \notin {"none", "pending"}
           /\ ctx.asks = {} => \A n \in Update : e.ask[n] = d.ask[n]
<1>1. d.ask \in [Update -> {"none", "pending", "approved", "rejected", "pruned"}]
  BY DEF Database
<1> DEFINE orders == {n \in Kinds(1..Len(sent), {"photo"}) : d.ask[n] \notin {"none", "pruned"}}
           settled == {n \in orders : d.ask[n] # "pending"}
           Goes(n) == /\ n \in settled /\ Kinds(ctx.asks, {"photo"}) # {}
                      /\ Cardinality({m \in settled : m <= n}) + MaxOrders <= Cardinality(orders)
           a == [n \in Update |-> IF Goes(n) THEN "pruned" ELSE d.ask[n]]
<1>2. e = [d EXCEPT !.ask = a]
  BY DEF PruneOrders
<1>3. \A n : Goes(n) => d.ask[n] \notin {"none", "pending"}
  OBVIOUS
<1>4. ctx.asks = {} => \A n : ~Goes(n)
  BY DEF Kinds
<1> HIDE DEF Goes
<1>5. /\ a \in [Update -> {"none", "pending", "approved", "rejected", "pruned"}]
      /\ \A n \in Update : a[n] = d.ask[n] \/ (a[n] = "pruned" /\ d.ask[n] \notin {"none", "pending"})
  BY <1>1, <1>3
<1>6. ctx.asks = {} => \A n \in Update : a[n] = d.ask[n]
  BY <1>4
<1> HIDE DEF a
<1>7. /\ e \in Database /\ e.ask = a /\ e.offset = d.offset /\ e.made = d.made /\ e.code = d.code
      /\ e.claimed = d.claimed /\ e.invited = d.invited /\ e.bonuses = d.bonuses
  BY <1>2, <1>5 DEF Database
<1> QED BY <1>5, <1>6, <1>7

\* The batch in one mutation: its asks are new, what is pruned was not, or was stale.
LEMMA AppliedIs ==
    ASSUME ctx \in Context, NEW d \in Database, Booked(d), NEW stale \in SUBSET Update,
           \A n \in stale : d.ask[n] # "none", \A n \in ctx.asks : d.ask[n] = "none",
           Latest(batch) \in Nat, NEW e, e = Applied(d, stale)
    PROVE  /\ Fine(d, e) /\ e.offset = Latest(batch)
           /\ e.made = d.made /\ e.code = d.code /\ e.claimed = d.claimed
           /\ \A n \in Update :
                \/ n \in ctx.asks /\ e.ask[n] = "pending"
                \/ n \notin ctx.asks /\ e.ask[n] = d.ask[n]
                \/ /\ n \notin ctx.asks /\ e.ask[n] = "pruned" /\ d.ask[n] # "none"
                   /\ d.ask[n] = "pending" => n \in stale
           /\ ctx.asks = {} /\ stale = {} => \A n \in Update : e.ask[n] = d.ask[n]
<1>1. /\ d.ask \in [Update -> {"none", "pending", "approved", "rejected", "pruned"}]
      /\ d.target \in [Update -> Offer \cup {Own, None}]
      /\ ctx.target \in [Update -> Offer \cup {Own, None}] /\ ctx.asks \in SUBSET Update
  BY DEF Database, Context
<1> DEFINE a == [n \in Update |-> IF n \in ctx.asks THEN "pending"
                                  ELSE IF n \in stale THEN "pruned" ELSE d.ask[n]]
           t == [n \in Update |-> IF n \in ctx.asks THEN ctx.target[n] ELSE d.target[n]]
<1>2. /\ a \in [Update -> {"none", "pending", "approved", "rejected", "pruned"}]
      /\ t \in [Update -> Offer \cup {Own, None}]
      /\ \A n \in Update : a[n] = IF n \in ctx.asks THEN "pending"
                                  ELSE IF n \in stale THEN "pruned" ELSE d.ask[n]
  BY <1>1
<1>3. PICK f : f = [d EXCEPT !.ask = a, !.target = t]
  OBVIOUS
<1>4. PICK g : g = Follow(f)
  OBVIOUS
<1>5. PICK h : h = Invite(g, ctx.invites)
  OBVIOUS
<1>6. PICK k : k = PruneOrders(h)
  OBVIOUS
<1>7. e = [k EXCEPT !.offset = Latest(batch)]
  BY <1>3, <1>4, <1>5, <1>6 DEF Applied
<1> HIDE DEF a, t
<1>8. /\ f \in Database /\ f.ask = a /\ f.offset = d.offset /\ f.made = d.made /\ f.code = d.code
      /\ f.claimed = d.claimed /\ f.invited = d.invited /\ f.bonuses = d.bonuses
  BY <1>2, <1>3 DEF Database
<1>9. Booked(f)
  <2>1. ASSUME NEW n \in Update PROVE f.made[n] = 0 \/ (f.made[n] = 1 /\ f.ask[n] \notin {"none", "pending"})
    BY <1>2, <1>8 DEF Booked
  <2> QED BY <1>8, <2>1 DEF Booked
<1>10. /\ g \in Database /\ Booked(g) /\ g.ask = a /\ g.made = d.made /\ g.code = d.code /\ g.claimed = d.claimed
  BY <1>4, <1>8, <1>9, FollowIs DEF Fine
<1>11. /\ h \in Database /\ Booked(h) /\ h.ask = a /\ h.made = d.made /\ h.code = d.code /\ h.claimed = d.claimed
  BY <1>5, <1>10, InviteIs
<1>12. /\ k \in Database /\ k.made = d.made /\ k.code = d.code /\ k.claimed = d.claimed
       /\ k.invited = h.invited /\ k.bonuses = h.bonuses
       /\ \A n \in Update : k.ask[n] = a[n] \/ (k.ask[n] = "pruned" /\ a[n] \notin {"none", "pending"})
       /\ ctx.asks = {} => \A n \in Update : k.ask[n] = a[n]
  BY <1>6, <1>11, PruneIs
<1>13. /\ e \in Database /\ e.offset = Latest(batch) /\ e.made = d.made /\ e.code = d.code
       /\ e.claimed = d.claimed /\ e.invited = h.invited /\ e.bonuses = h.bonuses /\ e.ask = k.ask
  <2>1. PICK o \in Nat : o = Latest(batch)
    OBVIOUS
  <2>2. e = [k EXCEPT !.offset = o]
    BY <1>7, <2>1
  <2> QED BY <1>12, <2>1, <2>2 DEF Database
<1>14. \A n \in Update :
         \/ n \in ctx.asks /\ e.ask[n] = "pending"
         \/ n \notin ctx.asks /\ e.ask[n] = d.ask[n]
         \/ /\ n \notin ctx.asks /\ e.ask[n] = "pruned" /\ d.ask[n] # "none"
            /\ d.ask[n] = "pending" => n \in stale
  BY <1>2, <1>12, <1>13
<1>14a. ctx.asks = {} /\ stale = {} => \A n \in Update : e.ask[n] = d.ask[n]
  BY <1>2, <1>12, <1>13
<1>15. Booked(e)
  <2>1. \A n \in Update : e.made[n] = 0 \/ (e.made[n] = 1 /\ e.ask[n] \notin {"none", "pending"})
    BY <1>13, <1>14 DEF Booked
  <2>2. \A c \in Chat : e.bonuses[c] = IF e.invited[c] = "paid" THEN 1 ELSE 0
    BY <1>11, <1>13 DEF Booked
  <2> QED BY <1>13, <2>1, <2>2 DEF Booked
<1>16. Leads(d, e)
  <2> SUFFICES ASSUME NEW o \in Offer PROVE Moved(d, e, o)
    BY DEF Leads
  <2>1. CASE o \notin Update \/ e.ask[o] = d.ask[o]
    <3>1. Like(d, e, o)
      BY <1>13, <2>1 DEF Like
    <3> QED BY <3>1, LikeMoves
  <2>2. CASE o \in Update /\ o \in ctx.asks
    <3>1. d.ask[o] = "none" /\ d.made[o] = 0 /\ e.made[o] = 0 /\ e.ask[o] = "pending"
      BY <1>13, <1>14, <2>2 DEF Booked
    <3> QED BY <3>1, <2>2, AskMoves
  <2>3. CASE o \in Update /\ o \notin ctx.asks /\ e.ask[o] # d.ask[o]
    <3>1. /\ e.ask[o] = "pruned" /\ d.ask[o] # "none" /\ e.made[o] = d.made[o] /\ d.made[o] \in {0, 1}
          /\ (d.ask[o] = "pending" => d.made[o] = 0)
      BY <1>13, <1>14, <2>3 DEF Booked
    <3>2. CASE d.ask[o] = "pending"
      BY <3>1, <3>2, <2>3, AskMoves
    <3>3. CASE d.ask[o] # "pending"
      BY <3>1, <3>3, <2>3, AskPruned
    <3> QED BY <3>2, <3>3
  <2> QED BY <2>1, <2>2, <2>3
<1> QED BY <1>13, <1>14, <1>15, <1>16, <1>14a DEF Fine

(***************************************************************************)
(* What a step does to the two databases together.                         *)
(***************************************************************************)
Kept ==
    /\ BooksInv' /\ AheadInv' /\ OrderInv' /\ db' \in Database /\ saved' \in Database
    /\ \A n \in Update : /\ db'.ask[n] = "none" <=> db.ask[n] = "none"
                         /\ saved'.ask[n] = "none" <=> saved.ask[n] = "none"
                         /\ sent[n].kind = "photo" /\ db'.ask[n] = "pending" => db.ask[n] = "pending"
    /\ Leads(saved, saved')

\* A step of what memory has is one of what db.json has.
LEMMA Compose ==
    ASSUME AheadInv, Booked(saved), NEW e, Leads(db, e) PROVE Leads(saved, e)
<1> SUFFICES ASSUME NEW o \in Offer PROVE Moved(saved, e, o)
  BY DEF Leads
<1>1. Moved(db, e, o)
  BY DEF Leads
<1>2. CASE o \notin Update \/ db.ask[o] = saved.ask[o]
  <2>1. Like(saved, db, o)
    BY <1>2 DEF AheadInv, Like
  <2>2. Life(db, o) = Life(saved, o) /\ db.made[o] = saved.made[o]
    BY <2>1, LikeMoves DEF Like
  <2> QED BY <1>1, <2>2 DEF Moved
<1>3. CASE o \in Update /\ db.ask[o] # saved.ask[o]
  <2>1. saved.ask[o] = "pending" /\ db.ask[o] = "rejected" /\ db.made[o] = saved.made[o]
    BY <1>3 DEF AheadInv
  <2>2. saved.made[o] = 0
    BY <1>3, <2>1 DEF Booked
  <2>3. Life(saved, o) = "open" /\ Life(db, o) = "withdrawn"
    BY <1>3, <2>1, <2>2, Disjoint DEF Life
  <2>4. Life(e, o) = "withdrawn" /\ e.made[o] = saved.made[o]
    BY <1>1, <2>1, <2>3 DEF Moved, Sold!Moves
  <2> QED BY <2>3, <2>4 DEF Moved, Sold!Moves
<1> QED BY <1>2, <1>3

LEMMA Fields == ASSUME IInv
    PROVE  /\ db \in Database /\ saved \in Database /\ Booked(db) /\ Booked(saved)
           /\ Dated(db) /\ Dated(saved) /\ AheadInv /\ OrderInv /\ ctx \in Context
           /\ Len(sent) \in Nat /\ Len(sent) <= MaxUpdates /\ 1..Len(sent) \subseteq Update
           /\ confirmed \in Nat /\ confirmed <= Len(sent) /\ db.offset \in Nat /\ saved.offset \in Nat
           /\ left \subseteq batch /\ batch \subseteq 1..Len(sent) /\ ctx.asks \subseteq batch
<1>1. db \in Database /\ saved \in Database /\ ctx \in Context /\ confirmed \in Nat
  BY BoundsAssumption DEF IInv, TypeOK
<1>2. Len(sent) \in Nat /\ Len(sent) <= MaxUpdates
  BY DEF IInv, TypeOK
<1>3. 1..Len(sent) \subseteq Update
  BY <1>2, BoundsAssumption DEF Update
<1>4. batch \subseteq 1..Len(sent)
  BY <1>1, <1>2 DEF IInv, BatchInv
<1> QED BY <1>1, <1>2, <1>3, <1>4 DEF IInv, BooksInv, BatchInv, Database

LEMMA Elements == ASSUME IInv, NEW n \in 1..Len(sent)
    PROVE  /\ sent[n] \in FromCustomer \cup FromSeller \cup {Forgotten}
           /\ sent[n].kind \in Messages \cup {"pick", "menu trial", "menu renew"} => sent[n].chat \in Chat
           /\ sent[n].kind = "redeem" => sent[n].arg \in Voucher
           /\ sent[n].kind = "bind" => sent[n].arg = Own
           /\ sent[n].kind \in {"approve", "reject"} => sent[n].arg \in 1..Len(sent)
<1>1. sent[n] \in FromCustomer \cup FromSeller \cup {Forgotten}
  BY DEF IInv, TypeOK
<1>2. PICK u : u = sent[n]
  OBVIOUS
<1>3. sent[n].kind \in {"approve", "reject"} => sent[n].arg \in 1..Len(sent)
  BY DEF IInv, SentInv
<1>4. CASE u \in FromCustomer
  BY <1>1, <1>2, <1>3, <1>4 DEF FromCustomer, Messages
<1>5. CASE u \in FromSeller
  <2>1. u.kind \in {"approve", "reject"}
    BY <1>5 DEF FromSeller
  <2> QED BY <1>1, <1>2, <1>3, <2>1 DEF Messages
<1>6. CASE u = Forgotten
  BY <1>1, <1>2, <1>3, <1>6 DEF Forgotten, Messages
<1> QED BY <1>1, <1>2, <1>4, <1>5, <1>6

LEMMA PersistIs ==
    ASSUME IInv, NEW d \in {db, saved}, NEW e, Fine(d, e), Settles(d, e), Persist(e), sent' = sent
    PROVE  Kept
<1>1. /\ e \in Database /\ Booked(e) /\ Leads(d, e) /\ db' = e /\ saved' = e
  BY DEF Fine, Persist
<1>2. \A n \in Update : /\ e.ask[n] = "none" <=> db.ask[n] = "none"
                        /\ e.ask[n] = "none" <=> saved.ask[n] = "none"
                        /\ sent[n].kind = "photo" /\ e.ask[n] = "pending" => db.ask[n] = "pending"
  BY Fields DEF Settles, AheadInv
<1>3. BooksInv'
  <2>1. Dated(d) /\ e.offset = d.offset /\ \A n \in Update : e.ask[n] # "none" => d.ask[n] # "none"
    BY Fields DEF Settles
  <2>2. Dated(e)'
    BY <2>1 DEF Dated
  <2>3. Booked(e)'
    BY <1>1 DEF Booked
  <2> QED BY <1>1, <2>2, <2>3 DEF BooksInv, Booked, Dated
<1>4. AheadInv'
  BY <1>1 DEF AheadInv
<1>5. OrderInv'
  <2> SUFFICES ASSUME NEW c \in Chat, NEW m \in AskOf(e, c, "photo"), NEW n \in AskOf(e, c, "photo") PROVE m = n
    BY <1>1 DEF OrderInv, AskOf, Kinds
  <2>1. m \in AskOf(db, c, "photo") /\ n \in AskOf(db, c, "photo")
    BY <1>2, Fields DEF AskOf, Kinds
  <2> QED BY <2>1, Fields DEF OrderInv
<1>6. Leads(saved, e)
  BY <1>1, Compose, Fields
<1> QED BY <1>1, <1>2, <1>3, <1>4, <1>5, <1>6 DEF Kept

LEMMA NoteIs ==
    ASSUME IInv, NEW e \in Database, Booked(e), Note(e), sent' = sent,
           e.made = db.made, e.code = db.code, e.claimed = db.claimed, e.offset = db.offset,
           \A n \in Update : \/ e.ask[n] = db.ask[n]
                             \/ db.ask[n] = "pending" /\ e.ask[n] = "rejected" /\ sent[n].kind = "renew"
    PROVE  Kept
<1>1. db' = e /\ saved' = saved
  BY DEF Note
<1>2. \A n \in Update : /\ e.ask[n] = "none" <=> db.ask[n] = "none"
                        /\ sent[n].kind = "photo" /\ e.ask[n] = "pending" => db.ask[n] = "pending"
  OBVIOUS
<1>3. BooksInv'
  <2>1. Dated(e)' /\ Dated(saved)'
    BY <1>1, <1>2, Fields DEF Dated
  <2>2. Booked(e)' /\ Booked(saved)'
    BY <1>1, Fields DEF Booked
  <2> QED BY <1>1, <2>1, <2>2 DEF BooksInv, Booked, Dated
<1>4. AheadInv'
  BY <1>1, Fields DEF AheadInv
<1>5. OrderInv'
  <2> SUFFICES ASSUME NEW c \in Chat, NEW m \in AskOf(e, c, "photo"), NEW n \in AskOf(e, c, "photo") PROVE m = n
    BY <1>1 DEF OrderInv, AskOf, Kinds
  <2>1. m \in AskOf(db, c, "photo") /\ n \in AskOf(db, c, "photo")
    BY <1>2, Fields DEF AskOf, Kinds
  <2> QED BY <2>1, Fields DEF OrderInv
<1>6. Leads(saved, saved)
  BY LikeLeads DEF Like
<1> QED BY <1>1, <1>2, <1>3, <1>4, <1>5, <1>6, Fields DEF Kept

LEMMA SameIs == ASSUME IInv, UNCHANGED <<db, saved, sent>> PROVE Kept
<1>1. Note(db)
  BY DEF Note
<1> QED BY <1>1, NoteIs, Fields

(***************************************************************************)
(* Each action keeps the invariant, and takes no offer two steps.          *)
(***************************************************************************)
Safe == IInv' /\ Leads(saved, saved')

\* An update has been handled; the batch has the asks it had.
LEMMA TurnDone ==
    ASSUME IInv, NEW n, pc \in {"messages", "taps"}, Done(n), Kept, ctx' \in Context, ctx'.asks = ctx.asks
    PROVE  Safe
<1> USE DEF Done, telegram
<1>1. TypeOK'
  BY DEF IInv, TypeOK, Kept
<1>2. BatchInv'
  BY DEF IInv, BatchInv
<1>3. AskInv'
  <2>1. \A k \in batch : k \in Update /\ k \in 1..Len(sent)
    BY Fields
  <2>2. CASE pc = "messages"
    <3>1. \A k \in batch : db'.ask[k] = "none"
      BY <2>1, <2>2 DEF IInv, AskInv, Kept
    <3>2. ASSUME NEW k \in Kinds(ctx.asks, {"photo"}) PROVE AskOf(db', sent[k].chat, "photo") = {}
      <4>1. k \in ctx.asks /\ AskOf(db, sent[k].chat, "photo") = {}
        BY <2>2, <3>2 DEF IInv, AskInv, Kinds
      <4>2. \A m \in 1..Len(sent) : m \in Update
        BY Fields
      <4>3. \A m : m \notin AskOf(db', sent[k].chat, "photo")
        BY <4>1, <4>2 DEF AskOf, Kinds, Kept
      <4> QED BY <4>3
    <3> QED BY <2>2, <3>1, <3>2 DEF IInv, AskInv, Kinds, AskOf
  <2>3. CASE pc = "taps"
    <3>1. \A k \in Kinds(ctx.asks, Asks) : k \in Update /\ saved'.ask[k] # "none"
      BY <2>1, <2>3, Fields DEF IInv, AskInv, Kept, Kinds
    <3> QED BY <2>3, <3>1 DEF AskInv, Kinds
  <2> QED BY <2>2, <2>3
<1>4. SentInv'
  BY DEF IInv, SentInv
<1>5. ToldIsSaved'
  <2>1. \A k \in told : IsAsk(k) => k \in Update /\ saved'.ask[k] # "none"
    BY Fields DEF IInv, ToldIsSaved, IsAsk, Kept
  <2> QED BY <2>1 DEF ToldIsSaved, IsAsk
<1> QED BY <1>1, <1>2, <1>3, <1>4, <1>5 DEF Safe, Kept, IInv

LEMMA IgnoreKeeps == ASSUME IInv, NEW n \in left, Ignore(n) PROVE Safe
<1>1. pc = "messages" /\ Done(n) /\ UNCHANGED <<ctx, db, saved>>
  BY DEF Ignore, Turn
<1>2. Kept
  BY <1>1, SameIs DEF Done, telegram
<1> QED BY <1>1, <1>2, TurnDone, Fields

LEMMA RedeemKeeps == ASSUME IInv, NEW n \in left, Redeem(n) PROVE Safe
<1>1. n \in 1..Len(sent) /\ sent[n].arg \in Voucher /\ sent[n].chat \in Chat
  BY Fields, Elements DEF Redeem, Turn, Messages
<1>2. PICK v \in Voucher, c \in Chat : v = sent[n].arg /\ c = sent[n].chat
  BY <1>1
<1>3. /\ pc = "messages" /\ Done(n) /\ db.code[v] = "unused" /\ Persist(Settle(Redeemed(db, v), c))
      /\ ctx' = [ctx EXCEPT !.binds[c] = v]
  BY <1>2 DEF Redeem, Turn
<1>4. PICK f : f = Redeemed(db, v)
  OBVIOUS
<1>5. PICK e : e = Settle(f, c)
  OBVIOUS
<1>6. Fine(db, f) /\ f.ask = db.ask /\ f.offset = db.offset
  BY <1>3, <1>4, RedeemedIs, Fields
<1>7. /\ e \in Database /\ Booked(e) /\ (\A o \in Offer : Like(f, e, o))
      /\ e.ask = f.ask /\ e.offset = f.offset
  BY <1>5, <1>6, SettleIs DEF Fine
<1>8. Fine(db, e) /\ Settles(db, e)
  BY <1>6, <1>7, FineAfter, Fields DEF Fine, Settles
<1>9. Kept
  BY <1>3, <1>4, <1>5, <1>8, PersistIs DEF Done, telegram
<1>10. ctx' \in Context /\ ctx'.asks = ctx.asks
  BY <1>3, Fields, Disjoint DEF Context
<1> QED BY <1>3, <1>9, <1>10, TurnDone

LEMMA TryKeeps == ASSUME IInv, NEW n \in left, Try(n) PROVE Safe
<1>1. n \in 1..Len(sent) /\ sent[n].chat \in Chat
  BY Fields, Elements DEF Try, Turn, Messages
<1>2. PICK c \in Chat : c = sent[n].chat
  BY <1>1
<1>3. pc = "messages" /\ Done(n) /\ UNCHANGED ctx /\ MayTry(db, c) /\ Persist(Tried(db, c))
  BY <1>2 DEF Try, Turn
<1>4. PICK e : e = Tried(db, c)
  OBVIOUS
<1>5. Fine(db, e) /\ Settles(db, e)
  BY <1>3, <1>4, TriedIs, Fields DEF Settles
<1>6. Kept
  BY <1>3, <1>4, <1>5, PersistIs DEF Done, telegram
<1> QED BY <1>3, <1>6, TurnDone, Fields

LEMMA StartKeeps == ASSUME IInv, NEW n \in left, Start(n) PROVE Safe
<1>1. n \in 1..Len(sent) /\ sent[n].chat \in Chat
  BY Fields, Elements DEF Start, Turn, Messages
<1>2. pc = "messages" /\ Done(n) /\ UNCHANGED <<db, saved>> /\ ctx' = [ctx EXCEPT !.invites = ctx.invites \cup {sent[n].chat}]
  BY DEF Start, Turn
<1>3. Kept
  BY <1>2, SameIs DEF Done, telegram
<1>4. ctx' \in Context /\ ctx'.asks = ctx.asks
  BY <1>1, <1>2, Fields DEF Context
<1> QED BY <1>2, <1>3, <1>4, TurnDone

LEMMA BindKeeps == ASSUME IInv, NEW n \in left, Bind(n) PROVE Safe
<1>1. n \in 1..Len(sent) /\ sent[n].chat \in Chat /\ sent[n].arg = Own
  BY Fields, Elements DEF Bind, Turn, Messages
<1>2. pc = "messages" /\ Done(n) /\ UNCHANGED <<db, saved>> /\ ctx' = [ctx EXCEPT !.binds[sent[n].chat] = Own]
  BY <1>1 DEF Bind, Turn
<1>3. Kept
  BY <1>2, SameIs DEF Done, telegram
<1>4. ctx' \in Context /\ ctx'.asks = ctx.asks
  BY <1>1, <1>2, Fields DEF Context
<1> QED BY <1>2, <1>3, <1>4, TurnDone

\* A new ask joins the batch; an order is the only one of its chat.
LEMMA AskDone ==
    ASSUME IInv, NEW n \in left, pc = "messages", Done(n), UNCHANGED <<db, saved>>,
           ctx' \in Context, ctx'.asks = ctx.asks \cup {n}, sent[n].kind \in Asks,
           sent[n].kind = "photo" => /\ AskOf(db, sent[n].chat, "photo") = {}
                                     /\ \A m \in Kinds(ctx.asks, {"photo"}) : sent[m].chat # sent[n].chat
    PROVE  Safe
<1> USE DEF Done, telegram
<1>1. Kept
  BY SameIs
<1>2. TypeOK'
  BY DEF IInv, TypeOK, Kept
<1>3. BatchInv'
  BY Fields DEF IInv, BatchInv
<1>4. AskInv'
  BY DEF IInv, AskInv, Kinds, AskOf
<1>5. SentInv' /\ ToldIsSaved'
  BY DEF IInv, SentInv, ToldIsSaved, IsAsk
<1> QED BY <1>1, <1>2, <1>3, <1>4, <1>5 DEF Safe, Kept, IInv

LEMMA PhotoKeeps == ASSUME IInv, NEW n \in left, Photo(n) PROVE Safe
<1>1. /\ pc = "messages" /\ Done(n) /\ UNCHANGED <<db, saved>> /\ sent[n].kind = "photo"
      /\ ctx' = [ctx EXCEPT !.asks = ctx.asks \cup {n}]
      /\ AskOf(db, sent[n].chat, "photo") = {}
      /\ \A m \in Kinds(ctx.asks, {"photo"}) : sent[m].chat # sent[n].chat
  BY DEF Photo, Turn
<1>2. n \in Update
  BY Fields
<1>3. ctx' \in Context /\ ctx'.asks = ctx.asks \cup {n}
  BY <1>1, <1>2, Fields DEF Context
<1> QED BY <1>1, <1>3, AskDone DEF Asks

LEMMA AskedIs ==
    ASSUME IInv, NEW n \in Update, sent[n].chat \in Chat, ctx' = Asked(n)
    PROVE  ctx' \in Context /\ ctx'.asks = ctx.asks \cup {n} /\ ctx'.binds = ctx.binds /\ ctx'.picks = ctx.picks
<1>1. PICK t : t = db.bound[sent[n].chat]
  OBVIOUS
<1>2. t \in Offer \cup {Own, None}
  BY <1>1, Fields DEF Database
<1>3. ctx' = [ctx EXCEPT !.asks = ctx.asks \cup {n}, !.target = [ctx.target EXCEPT ![n] = t]]
  BY <1>1, Fields DEF Asked, Context
<1>4. ctx.target \in [Update -> Offer \cup {Own, None}]
  BY Fields DEF Context
<1> DEFINE g == [ctx.target EXCEPT ![n] = t]
<1>5. g \in [Update -> Offer \cup {Own, None}] /\ ctx' = [ctx EXCEPT !.asks = ctx.asks \cup {n}, !.target = g]
  BY <1>2, <1>3, <1>4
<1> HIDE DEF g
<1> QED BY <1>5, Fields DEF Context

LEMMA RenewKeeps == ASSUME IInv, NEW n \in left, Renew(n) PROVE Safe
<1>1. /\ pc = "messages" /\ Done(n) /\ UNCHANGED <<db, saved>> /\ sent[n].kind = "renew" /\ ctx' = Asked(n)
  BY DEF Renew, Turn
<1>2. n \in Update /\ sent[n].chat \in Chat
  BY <1>1, Fields, Elements DEF Messages
<1>3. ctx' \in Context /\ ctx'.asks = ctx.asks \cup {n}
  BY <1>1, <1>2, AskedIs
<1> QED BY <1>1, <1>3, AskDone DEF Asks

LEMMA LatestIs == ASSUME IInv, pc # "poll" PROVE Latest(batch) = Len(sent)
<1>1. batch = (confirmed + 1)..Len(sent) /\ batch # {} /\ confirmed \in Nat /\ Len(sent) \in Nat
  BY Fields DEF IInv, BatchInv
<1>2. Len(sent) \in batch /\ \A m \in batch : m <= Len(sent) /\ m \in Nat
  BY <1>1
<1>3. \A n \in batch : (\A m \in batch : m <= n) => n = Len(sent)
  BY <1>1, <1>2
<1> QED BY <1>2, <1>3 DEF Latest

LEMMA ApplyKeeps == ASSUME IInv, Apply PROVE Safe
<1> DEFINE known == Kinds({n \in 1..Len(sent) : db.ask[n] # "none"}, {"renew"})
           any == (\E c \in Chat : ctx.binds[c] # None) \/ ctx.asks # {} \/ ctx.invites # {} \/ ctx.picks # {}
<1>1. PICK stale \in SUBSET known :
        /\ stale # {} => Kinds(ctx.asks, {"renew"}) # {}
        /\ IF any THEN Persist(Applied(db, stale)) ELSE Note(Applied(db, stale))
  BY DEF Apply
<1>2. /\ pc = "messages" /\ left = {} /\ pc' = "dispatch"
      /\ UNCHANGED <<sent, confirmed, batch, left, ctx, told, shown, incidents>>
  BY DEF Apply, telegram
<1>3. PICK e : e = Applied(db, stale)
  OBVIOUS
<1>4. /\ stale \in SUBSET Update /\ (\A n \in stale : db.ask[n] # "none" /\ sent[n].kind = "renew")
      /\ (\A n \in ctx.asks : db.ask[n] = "none" /\ n \in Update /\ sent[n].kind \in Asks)
      /\ Latest(batch) = Len(sent) /\ Len(sent) \in Nat
  BY <1>2, Fields, LatestIs DEF Kinds, IInv, AskInv
<1>5. /\ Fine(db, e) /\ e.offset = Len(sent)
      /\ e.made = db.made /\ e.code = db.code /\ e.claimed = db.claimed
      /\ \A n \in Update :
           \/ n \in ctx.asks /\ e.ask[n] = "pending"
           \/ n \notin ctx.asks /\ e.ask[n] = db.ask[n]
           \/ /\ n \notin ctx.asks /\ e.ask[n] = "pruned" /\ db.ask[n] # "none"
              /\ db.ask[n] = "pending" => n \in stale
      /\ ctx.asks = {} /\ stale = {} => \A n \in Update : e.ask[n] = db.ask[n]
  BY <1>3, <1>4, Fields, AppliedIs
<1>6. db' = e /\ (saved' = e \/ (saved' = saved /\ ctx.asks = {} /\ stale = {}))
  BY <1>1, <1>3 DEF Persist, Note, Kinds
<1>7. e \in Database /\ Booked(e) /\ Leads(saved, e) /\ Leads(saved, saved)
  BY <1>5, Compose, Fields, LikeLeads DEF Fine, Like
<1>8. Dated(e)'
  <2>1. ASSUME NEW n \in Update, e.ask[n] # "none" PROVE n <= Len(sent)
    <3>1. n \in ctx.asks \/ db.ask[n] # "none"
      BY <1>5, <2>1
    <3>2. db.ask[n] # "none" => n <= db.offset /\ db.offset <= Len(sent) /\ db.offset \in Nat /\ n \in Nat
      BY Fields, Disjoint DEF Dated
    <3>3. n \in ctx.asks => n <= Len(sent)
      BY Fields
    <3> QED BY <3>1, <3>2, <3>3, <1>4
  <2> QED BY <1>2, <1>4, <1>5, <2>1 DEF Dated
<1>9. BooksInv'
  <2>1. Dated(saved)' \/ saved' = e
    BY <1>2, <1>6, Fields DEF Dated
  <2>2. Booked(saved)' /\ Booked(db)'
    BY <1>6, <1>7, Fields DEF Booked
  <2> QED BY <1>6, <1>8, <2>1, <2>2 DEF BooksInv, Dated, Booked
<1>10. AheadInv'
  <2>1. CASE saved' = e
    BY <1>6, <2>1 DEF AheadInv
  <2>2. CASE saved' = saved /\ ctx.asks = {} /\ stale = {}
    <3>1. \A n \in Update : e.ask[n] = db.ask[n]
      BY <1>5, <2>2
    <3> QED BY <1>2, <1>5, <1>6, <2>2, <3>1, Fields DEF AheadInv
  <2> QED BY <1>6, <2>1, <2>2
<1>11. OrderInv'
  <2> SUFFICES ASSUME NEW c \in Chat, NEW m \in AskOf(e, c, "photo"), NEW n \in AskOf(e, c, "photo") PROVE m = n
    BY <1>2, <1>6 DEF OrderInv, AskOf, Kinds
  <2>1. /\ m \in Update /\ n \in Update /\ m \in 1..Len(sent) /\ n \in 1..Len(sent)
        /\ sent[m].kind = "photo" /\ sent[n].kind = "photo" /\ sent[m].chat = c /\ sent[n].chat = c
        /\ e.ask[m] = "pending" /\ e.ask[n] = "pending"
    BY Fields DEF AskOf, Kinds
  <2>2. \A k \in {m, n} : k \in Kinds(ctx.asks, {"photo"}) \/ k \in AskOf(db, c, "photo")
    BY <1>5, <2>1 DEF AskOf, Kinds
  <2>3. \A k \in {m, n} : k \in Kinds(ctx.asks, {"photo"}) => AskOf(db, c, "photo") = {}
    BY <1>2, <2>1 DEF IInv, AskInv
  <2>4. CASE m \in Kinds(ctx.asks, {"photo"}) /\ n \in Kinds(ctx.asks, {"photo"})
    BY <1>2, <2>1, <2>4 DEF IInv, AskInv
  <2>5. CASE m \in AskOf(db, c, "photo") /\ n \in AskOf(db, c, "photo")
    BY <2>5, Fields DEF OrderInv
  <2> QED BY <2>2, <2>3, <2>4, <2>5
<1>12. \A n \in Update : /\ saved.ask[n] # "none" => saved'.ask[n] # "none"
                         /\ n \in ctx.asks => saved'.ask[n] # "none"
  BY <1>5, <1>6, Fields DEF AheadInv
<1>13. AskInv'
  BY <1>2, <1>12, Fields DEF AskInv, Kinds
<1>14. ToldIsSaved'
  <2>1. \A k \in told : IsAsk(k) => k \in Update /\ saved'.ask[k] # "none"
    BY <1>12, Fields DEF IInv, ToldIsSaved, IsAsk
  <2> QED BY <1>2, <2>1 DEF ToldIsSaved, IsAsk
<1>15. TypeOK' /\ BatchInv' /\ SentInv'
  BY <1>2, <1>6, <1>7 DEF IInv, TypeOK, BatchInv, SentInv
<1> QED BY <1>6, <1>7, <1>9, <1>10, <1>11, <1>13, <1>14, <1>15 DEF Safe, IInv

LEMMA DispatchKeeps == ASSUME IInv, Dispatch PROVE Safe
<1>1. /\ pc = "dispatch" /\ shown' = shown \cup ctx.asks /\ pc' = "taps" /\ left' = Kinds(batch, Taps)
      /\ UNCHANGED <<sent, confirmed, batch, ctx, told, db, saved, incidents>>
  BY DEF Dispatch, telegram
<1>2. Kept
  BY <1>1, SameIs
<1>3. TypeOK'
  BY <1>1, <1>2, Fields DEF IInv, TypeOK, Kept, Kinds
<1>4. BatchInv' /\ AskInv'
  BY <1>1 DEF IInv, BatchInv, AskInv, Kinds
<1>5. SentInv' /\ ToldIsSaved'
  BY <1>1, Fields DEF IInv, SentInv, ToldIsSaved, IsAsk
<1> QED BY <1>2, <1>3, <1>4, <1>5 DEF Safe, Kept, IInv

\* A menu button runs its command, in two steps.
LEMMA MenuDone ==
    ASSUME IInv, Kept, pc \in {"taps", "follow"}, pc' \in {"taps", "follow"}, left' \in SUBSET left,
           UNCHANGED <<sent, confirmed, batch, shown, incidents>>,
           ctx' \in Context, ctx'.asks \subseteq batch,
           \A k \in Kinds(ctx'.asks, Asks) : k \in ctx.asks,
           told' \in SUBSET (1..Len(sent)), \A k \in told' : k \in told \/ k \in ctx.asks
    PROVE  Safe
<1>1. TypeOK'
  BY Fields DEF IInv, TypeOK, Kept
<1>2. BatchInv'
  BY DEF IInv, BatchInv
<1>3. \A k \in Kinds(ctx.asks, Asks) : k \in Update /\ saved'.ask[k] # "none"
  BY Fields DEF IInv, AskInv, Kept, Kinds
<1>4. AskInv'
  BY <1>3 DEF AskInv, Kinds
<1>5. SentInv'
  BY DEF IInv, SentInv
<1>6. ToldIsSaved'
  <2>1. \A k \in told : IsAsk(k) => k \in Update /\ saved'.ask[k] # "none"
    BY Fields DEF IInv, ToldIsSaved, IsAsk, Kept
  <2>2. \A k \in ctx.asks : IsAsk(k) => k \in Kinds(ctx.asks, Asks)
    BY DEF IsAsk, Kinds
  <2> QED BY <1>3, <2>1, <2>2 DEF ToldIsSaved, IsAsk
<1> QED BY <1>1, <1>2, <1>4, <1>5, <1>6 DEF Safe, Kept, IInv

LEMMA PickKeeps == ASSUME IInv, NEW n \in left, Pick(n) PROVE Safe
<1>1. n \in 1..Len(sent) /\ sent[n].chat \in Chat
  BY Fields, Elements DEF Pick, Turn, Messages
<1>2. PICK c \in Chat : c = sent[n].chat
  BY <1>1
<1>3. /\ pc = "taps" /\ Done(n) /\ Note([db EXCEPT !.picked = db.picked \cup {c}])
      /\ ctx' = [ctx EXCEPT !.picks = ctx.picks \cup {c}]
  BY <1>2 DEF Pick, Turn
<1>4. PICK p \in SUBSET Chat : p = db.picked \cup {c}
  <2>1. db.picked \in SUBSET Chat
    BY Fields DEF Database
  <2>2. db.picked \cup {c} \in SUBSET Chat
    BY <2>1
  <2> QED BY <2>2
<1>5. PICK e : e = [db EXCEPT !.picked = p]
  OBVIOUS
<1>6. \E q \in SUBSET Chat : e = [db EXCEPT !.picked = q]
  BY <1>5
<1>7. /\ Fine(db, e) /\ e.ask = db.ask /\ e.offset = db.offset
      /\ e.made = db.made /\ e.code = db.code /\ e.claimed = db.claimed
  BY <1>6, PlainIs, Fields
<1>8. Kept
  BY <1>3, <1>4, <1>5, <1>7, NoteIs DEF Fine, Done, telegram
<1>9. ctx' \in Context /\ ctx'.asks = ctx.asks
  BY <1>3, Fields DEF Context
<1> QED BY <1>3, <1>8, <1>9, TurnDone

LEMMA MenuTrialKeeps == ASSUME IInv, NEW n \in left, MenuTrial(n) PROVE Safe
<1>1. n \in 1..Len(sent) /\ sent[n].chat \in Chat
  BY Fields, Elements DEF MenuTrial, Turn
<1>2. PICK c \in Chat : c = sent[n].chat
  BY <1>1
<1>3. /\ pc = "taps" /\ pc' = "follow" /\ UNCHANGED <<sent, confirmed, batch, left, ctx, told, shown, incidents>>
      /\ IF MayTry(db, c) THEN Persist(Tried(db, c)) ELSE UNCHANGED <<db, saved>>
  BY <1>2 DEF MenuTrial, Turn, telegram
<1>4. ASSUME MayTry(db, c) PROVE Kept
  <2>1. PICK e : e = Tried(db, c)
    OBVIOUS
  <2>2. Fine(db, e) /\ Settles(db, e)
    BY <1>4, <2>1, TriedIs, Fields DEF Settles
  <2> QED BY <1>3, <1>4, <2>1, <2>2, PersistIs
<1>5. ASSUME ~MayTry(db, c) PROVE Kept
  BY <1>3, <1>5, SameIs
<1>6. Kept
  BY <1>4, <1>5
<1>7. told \in SUBSET (1..Len(sent)) /\ \A k \in Kinds(ctx.asks, Asks) : k \in ctx.asks
  BY DEF IInv, SentInv, Kinds
<1> QED BY <1>3, <1>6, <1>7, MenuDone, Fields

LEMMA MenuRenewKeeps == ASSUME IInv, NEW n \in left, MenuRenew(n) PROVE Safe
<1>1. /\ n \in 1..Len(sent) /\ sent[n].chat \in Chat /\ n \in Update /\ n \in batch
      /\ sent[n].kind = "menu renew" /\ sent[n].kind \notin Asks
  BY Fields, Elements DEF MenuRenew, Turn, Asks
<1>2. /\ pc = "taps" /\ pc' = "follow" /\ UNCHANGED <<sent, confirmed, batch, left, told, shown, incidents, db, saved>>
      /\ ctx' = Asked(n) \/ ctx' = ctx
  BY DEF MenuRenew, Turn, telegram
<1>3. ctx' \in Context /\ (ctx'.asks = ctx.asks \cup {n} \/ ctx'.asks = ctx.asks)
  BY <1>1, <1>2, AskedIs, Fields
<1>4. Kept
  BY <1>2, SameIs
<1>5. \A k \in Kinds(ctx'.asks, Asks) : k \in ctx.asks
  BY <1>1, <1>3 DEF Kinds
<1>6. told \in SUBSET (1..Len(sent)) /\ ctx'.asks \subseteq batch
  BY <1>1, <1>3, Fields DEF IInv, SentInv
<1> QED BY <1>2, <1>3, <1>4, <1>5, <1>6, MenuDone

LEMMA FollowThroughKeeps == ASSUME IInv, NEW n \in left, FollowThrough(n) PROVE Safe
<1>1. /\ pc = "follow" /\ pc' = "taps" /\ left' = left \ {n}
      /\ UNCHANGED <<sent, confirmed, batch, shown, incidents>>
      /\ told' = told \cup ({n} \cap ctx.asks)
      /\ ctx' = [ctx EXCEPT !.binds = NewContext.binds, !.picks = {}]
      /\ IF (\E c \in Chat : ctx.binds[c] # None) \/ ctx.picks # {}
         THEN Persist(Follow(db)) ELSE UNCHANGED <<db, saved>>
  BY DEF FollowThrough, Turn, telegram
<1>2. PICK e : e = Follow(db)
  OBVIOUS
<1>3. Fine(db, e) /\ Settles(db, e)
  BY <1>2, FollowIs, Fields DEF Settles
<1>4. Persist(e) => Kept
  BY <1>1, <1>3, PersistIs
<1>5. Kept
  BY <1>1, <1>2, <1>4, SameIs
<1>6. ctx' \in Context /\ ctx'.asks = ctx.asks
  <2>1. [c \in Chat |-> None] \in [Chat -> Offer \cup {Own, None}]
    OBVIOUS
  <2> QED BY <1>1, <2>1, Fields DEF Context, NewContext
<1>7. /\ told' \in SUBSET (1..Len(sent)) /\ (\A k \in told' : k \in told \/ k \in ctx.asks)
      /\ ctx.asks \subseteq batch /\ \A k \in Kinds(ctx.asks, Asks) : k \in ctx.asks
  BY <1>1, Fields DEF IInv, SentInv, Kinds
<1> QED BY <1>1, <1>5, <1>6, <1>7, MenuDone

LEMMA IgnoreTapKeeps == ASSUME IInv, NEW n \in left, IgnoreTap(n) PROVE Safe
<1>1. pc = "taps" /\ Done(n) /\ UNCHANGED <<ctx, db, saved>>
  BY DEF IgnoreTap, Turn
<1>2. Kept
  BY <1>1, SameIs DEF Done, telegram
<1> QED BY <1>1, <1>2, TurnDone, Fields

\* A tap answers an ask that was sent, by a customer.
LEMMA TapIs ==
    ASSUME IInv, NEW n \in left, sent[n].kind \in {"approve", "reject"}
    PROVE  /\ sent[n].arg \in Update
           /\ sent[sent[n].arg].kind \in {"photo", "renew"} => sent[sent[n].arg].chat \in Chat
<1>1. n \in 1..Len(sent) /\ sent[n].arg \in 1..Len(sent)
  BY Fields, Elements
<1> QED BY <1>1, Fields, Elements DEF Messages

LEMMA ApproveOrderKeeps == ASSUME IInv, NEW n \in left, ApproveOrder(n) PROVE Safe
<1>1. sent[n].arg \in Update /\ sent[sent[n].arg].chat \in Chat
  BY TapIs DEF ApproveOrder, Turn
<1>2. PICK o \in Update, c \in Chat : o = sent[n].arg /\ c = sent[o].chat
  BY <1>1
<1>3. PICK e : e = Settle(Unpick([NewAccount(db, o) EXCEPT !.ask[o] = "approved", !.bound[c] = o], c), c)
  OBVIOUS
<1>4. pc = "taps" /\ Done(n) /\ UNCHANGED ctx /\ db.ask[o] = "pending" /\ Persist(e)
  BY <1>2, <1>3 DEF ApproveOrder, Turn
<1>5. Fine(db, e) /\ Settles(db, e)
  BY <1>3, <1>4, FilledIs, Fields
<1>6. Kept
  BY <1>4, <1>5, PersistIs DEF Done, telegram
<1> QED BY <1>4, <1>6, TurnDone, Fields

LEMMA RejectOrderKeeps == ASSUME IInv, NEW n \in left, RejectOrder(n) PROVE Safe
<1>1. sent[n].arg \in Update /\ sent[sent[n].arg].chat \in Chat
  BY TapIs DEF RejectOrder, Turn
<1>2. PICK o \in Update, c \in Chat : o = sent[n].arg /\ c = sent[o].chat
  BY <1>1
<1>3. PICK e : e = Unpick([db EXCEPT !.ask[o] = "rejected"], c)
  OBVIOUS
<1>4. pc = "taps" /\ Done(n) /\ UNCHANGED ctx /\ db.ask[o] = "pending" /\ Persist(e)
  BY <1>2, <1>3 DEF RejectOrder, Turn
<1>5. Fine(db, e) /\ Settles(db, e)
  BY <1>3, <1>4, RejectedOrderIs, Fields
<1>6. Kept
  BY <1>4, <1>5, PersistIs DEF Done, telegram
<1> QED BY <1>4, <1>6, TurnDone, Fields

LEMMA ApproveRenewalKeeps == ASSUME IInv, NEW n \in left, ApproveRenewal(n) PROVE Safe
<1>1. PICK o \in Update : o = sent[n].arg
  BY TapIs DEF ApproveRenewal, Turn
<1>2. PICK e : e = Renewed(db, o)
  OBVIOUS
<1>3. pc = "taps" /\ Done(n) /\ UNCHANGED ctx /\ db.ask[o] = "pending" /\ Persist(e)
  BY <1>1, <1>2 DEF ApproveRenewal, Turn
<1>4. Fine(db, e) /\ Settles(db, e)
  BY <1>2, <1>3, RenewedIs, Fields
<1>5. Kept
  BY <1>3, <1>4, PersistIs DEF Done, telegram
<1> QED BY <1>3, <1>5, TurnDone, Fields

LEMMA RejectRenewalKeeps == ASSUME IInv, NEW n \in left, RejectRenewal(n) PROVE Safe
<1>1. PICK o \in Update : o = sent[n].arg
  BY TapIs DEF RejectRenewal, Turn
<1>2. PICK e : e = [db EXCEPT !.ask[o] = "rejected"]
  OBVIOUS
<1>3. pc = "taps" /\ Done(n) /\ UNCHANGED ctx /\ db.ask[o] = "pending" /\ Persist(e)
  BY <1>1, <1>2 DEF RejectRenewal, Turn
<1>4. Fine(db, e) /\ Settles(db, e)
  BY <1>2, <1>3, RejectedIs, Fields
<1>5. Kept
  BY <1>3, <1>4, PersistIs DEF Done, telegram
<1> QED BY <1>3, <1>5, TurnDone, Fields

LEMMA RenewalGoneKeeps == ASSUME IInv, NEW n \in left, RenewalGone(n) PROVE Safe
<1>1. PICK o \in Update : o = sent[n].arg
  BY TapIs DEF RenewalGone, Turn
<1>2. PICK e : e = [db EXCEPT !.ask[o] = "rejected"]
  OBVIOUS
<1>3. /\ pc = "taps" /\ Done(n) /\ UNCHANGED ctx /\ db.ask[o] = "pending" /\ sent[o].kind = "renew" /\ Note(e)
  BY <1>1, <1>2 DEF RenewalGone, Turn
<1>4. Fine(db, e) /\ Settles(db, e) /\ e.made = db.made /\ e.code = db.code /\ e.claimed = db.claimed
  BY <1>2, <1>3, RejectedIs, Fields
<1>5. e.ask = [db.ask EXCEPT ![o] = "rejected"] /\ db.ask \in [Update -> {"none", "pending", "approved", "rejected", "pruned"}]
  BY <1>2, Fields DEF Database
<1>6. \A k \in Update : \/ e.ask[k] = db.ask[k]
                        \/ db.ask[k] = "pending" /\ e.ask[k] = "rejected" /\ sent[k].kind = "renew"
  BY <1>3, <1>5
<1>7. Kept
  BY <1>3, <1>4, <1>6, NoteIs DEF Fine, Settles, Done, telegram
<1> QED BY <1>3, <1>7, TurnDone, Fields

LEMMA EmptyContext == NewContext \in Context /\ NewContext.asks = {}
<1>1. /\ [c \in Chat |-> None] \in [Chat -> Offer \cup {Own, None}]
      /\ [n \in Update |-> None] \in [Update -> Offer \cup {Own, None}]
      /\ {} \in SUBSET Chat /\ {} \in SUBSET Update
  OBVIOUS
<1> QED BY <1>1 DEF NewContext, Context

\* The batch is over: with its replies, or with the process.
LEMMA BatchDone ==
    ASSUME IInv, Kept, UNCHANGED <<sent, confirmed, shown>>, incidents' \in 0..MaxIncidents,
           pc' = "poll", batch' = {}, left' = {}, ctx' = NewContext,
           \A k \in told' : k \in told \/ (k \in ctx.asks /\ pc # "messages")
    PROVE  Safe
<1>1. told' \in SUBSET (1..Len(sent))
  BY Fields DEF IInv, SentInv
<1>2. TypeOK'
  BY <1>1, EmptyContext, Fields DEF IInv, TypeOK, Kept
<1>3. BatchInv' /\ AskInv' /\ SentInv'
  BY <1>1, EmptyContext DEF IInv, BatchInv, AskInv, SentInv, Kinds
<1>4. ToldIsSaved'
  <2>1. \A k \in told : IsAsk(k) => k \in Update /\ saved'.ask[k] # "none"
    BY Fields DEF IInv, ToldIsSaved, IsAsk, Kept
  <2>2. pc # "messages" => \A k \in ctx.asks : IsAsk(k) => k \in Update /\ saved'.ask[k] # "none"
    BY Fields DEF IInv, AskInv, IsAsk, Kinds, Kept
  <2> QED BY <2>1, <2>2 DEF ToldIsSaved, IsAsk
<1> QED BY <1>2, <1>3, <1>4 DEF Safe, Kept, IInv

LEMMA ReplyKeeps == ASSUME IInv, Reply PROVE Safe
<1>1. /\ pc = "taps" /\ left = {} /\ told' = told \cup Kinds(ctx.asks, Asks)
      /\ pc' = "poll" /\ batch' = {} /\ ctx' = NewContext
      /\ UNCHANGED <<sent, confirmed, left, shown, db, saved, incidents>>
  BY DEF Reply, telegram
<1>2. Kept
  BY <1>1, SameIs
<1>3. incidents' \in 0..MaxIncidents
  BY <1>1 DEF IInv, TypeOK
<1> QED BY <1>1, <1>2, <1>3, BatchDone DEF Kinds

\* Memory and db.json become the same, be it what was in the one or in the other.
LEMMA EvenIs == ASSUME IInv, NEW d \in {db, saved}, Persist(d), sent' = sent PROVE Kept
<1>1. Fine(d, d) /\ Settles(d, d)
  BY Fields, LikeLeads DEF Fine, Like, Settles
<1> QED BY <1>1, PersistIs

LEMMA CrashKeeps == ASSUME IInv, Crash PROVE Safe
<1>1. /\ pc' = "poll" /\ batch' = {} /\ left' = {} /\ ctx' = NewContext
      /\ UNCHANGED <<sent, confirmed, told, shown>> /\ Persist(saved)
  BY DEF Crash, telegram, Persist
<1>2. Kept
  BY <1>1, EvenIs
<1>3. incidents' \in 0..MaxIncidents
  BY BoundsAssumption DEF Crash, IInv, TypeOK
<1> QED BY <1>1, <1>2, <1>3, BatchDone

\* The database alone moves, under whatever the bot is doing.
LEMMA OutsideDone ==
    ASSUME IInv, Kept, UNCHANGED <<sent, confirmed, pc, batch, left, ctx, told, shown>>,
           incidents' \in 0..MaxIncidents
    PROVE  Safe
<1>1. TypeOK' /\ BatchInv' /\ SentInv'
  BY DEF IInv, TypeOK, BatchInv, SentInv, Kept
<1>2. AskInv'
  <2>1. \A k \in batch : k \in Update /\ k \in 1..Len(sent)
    BY Fields
  <2>2. CASE pc = "messages"
    <3>1. \A k \in batch : db'.ask[k] = "none"
      BY <2>1, <2>2 DEF IInv, AskInv, Kept
    <3>2. ASSUME NEW k \in Kinds(ctx.asks, {"photo"}) PROVE AskOf(db', sent[k].chat, "photo") = {}
      <4>1. k \in ctx.asks /\ AskOf(db, sent[k].chat, "photo") = {}
        BY <2>2, <3>2 DEF IInv, AskInv, Kinds
      <4>2. \A m \in 1..Len(sent) : m \in Update
        BY Fields
      <4>3. \A m : m \notin AskOf(db', sent[k].chat, "photo")
        BY <4>1, <4>2 DEF AskOf, Kinds, Kept
      <4> QED BY <4>3
    <3> QED BY <2>2, <3>1, <3>2 DEF IInv, AskInv, Kinds, AskOf
  <2>3. CASE pc # "messages"
    <3>1. \A k \in Kinds(ctx.asks, Asks) : k \in Update /\ saved'.ask[k] # "none"
      BY <2>1, <2>3, Fields DEF IInv, AskInv, Kept, Kinds
    <3> QED BY <2>3, <3>1 DEF AskInv, Kinds
  <2> QED BY <2>2, <2>3
<1>3. ToldIsSaved'
  <2>1. \A k \in told : IsAsk(k) => k \in Update /\ saved'.ask[k] # "none"
    BY Fields DEF IInv, ToldIsSaved, IsAsk, Kept
  <2> QED BY <2>1 DEF ToldIsSaved, IsAsk
<1> QED BY <1>1, <1>2, <1>3 DEF Safe, Kept, IInv

LEMMA PanelRequestKeeps == ASSUME IInv, PanelRequest PROVE Safe
<1>0. UNCHANGED <<sent, confirmed, pc, batch, left, ctx, told, shown>> /\ incidents' \in 0..MaxIncidents
  <2>1. UNCHANGED <<sent, confirmed, pc, batch, left, ctx, told, shown>>
    BY DEF PanelRequest, telegram
  <2>2. incidents < MaxIncidents /\ incidents' = incidents + 1
    BY DEF PanelRequest
  <2> QED BY <2>1, <2>2, BoundsAssumption DEF IInv, TypeOK
<1>1. \/ \E v \in Voucher : db.code[v] = "unused"
            /\ (Persist(Redeemed(db, v)) \/ Persist([db EXCEPT !.code[v] = "revoked"]))
      \/ \E a \in db.live : Persist([db EXCEPT !.live = db.live \ {a}])
  BY Zenon DEF PanelRequest
<1>2. db \in Database /\ Booked(db)
  BY Fields
<1>3. ASSUME NEW v \in Voucher, db.code[v] = "unused", NEW e, e = Redeemed(db, v), Persist(e) PROVE Kept
  <2>1. Fine(db, e) /\ Settles(db, e)
    BY <1>2, <1>3, RedeemedIs DEF Settles
  <2> QED BY <1>0, <1>3, <2>1, PersistIs
<1>4. ASSUME NEW v \in Voucher, db.code[v] = "unused", NEW e, e = [db EXCEPT !.code[v] = "revoked"], Persist(e) PROVE Kept
  <2>1. Fine(db, e) /\ Settles(db, e)
    BY <1>2, <1>4, RevokedIs DEF Settles
  <2> QED BY <1>0, <1>4, <2>1, PersistIs
<1>5. ASSUME NEW a \in db.live, NEW e, e = [db EXCEPT !.live = db.live \ {a}], Persist(e) PROVE Kept
  <2>1. db.live \in SUBSET (Offer \cup {Own})
    BY <1>2 DEF Database
  <2>2. db.live \ {a} \in SUBSET (Offer \cup {Own})
    BY <2>1
  <2>3. \E l \in SUBSET (Offer \cup {Own}) : e = [db EXCEPT !.live = l]
    BY <1>5, <2>2
  <2>4. Fine(db, e) /\ Settles(db, e)
    BY <1>2, <2>3, PlainIs DEF Settles
  <2> QED BY <1>0, <1>5, <2>4, PersistIs
<1>6. Kept
  BY <1>1, <1>3, <1>4, <1>5
<1> QED BY <1>0, <1>6, OutsideDone

LEMMA FlushKeeps == ASSUME IInv, Flush PROVE Safe
<1>1. UNCHANGED <<sent, confirmed, pc, batch, left, ctx, told, shown, incidents>> /\ Persist(db)
  BY DEF Flush, telegram, Persist
<1>2. Kept
  BY <1>1, EvenIs
<1>3. incidents' \in 0..MaxIncidents
  BY <1>1 DEF IInv, TypeOK
<1> QED BY <1>1, <1>2, <1>3, OutsideDone

LEMMA StutterKeeps == ASSUME IInv, UNCHANGED vars PROVE Safe
<1>1. UNCHANGED <<sent, confirmed, pc, batch, left, ctx, told, shown, db, saved, incidents>>
  BY DEF vars
<1>2. Kept
  BY <1>1, SameIs
<1>3. incidents' \in 0..MaxIncidents
  BY <1>1 DEF IInv, TypeOK
<1> QED BY <1>1, <1>2, <1>3, OutsideDone


(***************************************************************************)
(* Telegram.                                                               *)
(***************************************************************************)
LEMMA SendKeeps == ASSUME IInv, NEW u \in FromCustomer \cup FromSeller, Send(u) PROVE Safe
<1>1. /\ pc = "poll" /\ Len(sent) < MaxUpdates /\ sent' = Append(sent, u)
      /\ u.kind \in {"approve", "reject"} => u.arg \in shown
      /\ UNCHANGED <<confirmed, pc, batch, left, ctx, told, shown, db, saved, incidents>>
  BY DEF Send
<1>2. sent \in Seq(FromCustomer \cup FromSeller \cup {Forgotten})
  BY DEF IInv, TypeOK
<1>3. /\ Len(sent') = Len(sent) + 1 /\ sent' \in Seq(FromCustomer \cup FromSeller \cup {Forgotten})
      /\ sent'[Len(sent) + 1] = u /\ \A n \in 1..Len(sent) : sent'[n] = sent[n]
  BY <1>1, <1>2
<1> DEFINE k == Len(sent)
<1>4. k \in Nat /\ k < MaxUpdates /\ MaxUpdates \in Nat
  BY <1>1, Fields, BoundsAssumption
<1>5. \A n \in Update : n > k => db.ask[n] = "none" /\ saved.ask[n] = "none"
  BY <1>4, Fields DEF Dated, Update
<1>6. \A n \in Update : db.ask[n] # "none" \/ saved.ask[n] # "none" => n \in 1..k
  BY <1>4, <1>5 DEF Update
<1> HIDE DEF k
<1>7. BooksInv'
  BY <1>1, <1>3, <1>4, Fields DEF BooksInv, Booked, Dated, k
<1>8. AheadInv'
  <2>1. ASSUME NEW n \in Update
        PROVE  db.ask[n] = saved.ask[n]
               \/ (saved.ask[n] = "pending" /\ db.ask[n] = "rejected" /\ sent'[n].kind = "renew")
    BY <1>3, <1>6, Fields DEF AheadInv, k
  <2> QED BY <1>1, <2>1, Fields DEF AheadInv
<1>9. OrderInv'
  <2>1. ASSUME NEW c \in Chat, NEW m \in AskOf(db, c, "photo")', NEW n \in AskOf(db, c, "photo")' PROVE m = n
    <3>1. m \in Update /\ n \in Update
      BY <1>1, <1>3, <1>4 DEF AskOf, Kinds, Update, k
    <3>2. m \in AskOf(db, c, "photo") /\ n \in AskOf(db, c, "photo")
      BY <1>1, <1>3, <1>6, <3>1 DEF AskOf, Kinds, k
    <3> QED BY <3>2, Fields DEF OrderInv
  <2> QED BY <2>1 DEF OrderInv
<1>10. TypeOK'
  BY <1>1, <1>3, <1>4 DEF IInv, TypeOK, k
<1>11. BatchInv' /\ AskInv'
  BY <1>1, <1>3, <1>4, Fields, EmptyContext DEF IInv, BatchInv, AskInv, Kinds, k
<1>12. SentInv'
  <2>1. told \subseteq 1..k /\ shown \subseteq 1..k
    BY DEF IInv, SentInv, k
  <2>2. 1..k \subseteq 1..(k + 1)
    BY <1>4
  <2>3. ASSUME NEW n \in 1..(k + 1), sent'[n].kind \in {"approve", "reject"} PROVE sent'[n].arg \in 1..(k + 1)
    <3>1. CASE n \in 1..k
      BY <1>3, <2>2, <2>3, <3>1 DEF IInv, SentInv, k
    <3>2. CASE n = k + 1
      BY <1>1, <1>3, <2>1, <2>2, <2>3, <3>2 DEF k
    <3> QED BY <1>4, <3>1, <3>2
  <2> QED BY <1>1, <1>3, <2>1, <2>2, <2>3 DEF SentInv, k
<1>13. ToldIsSaved'
  <2>1. \A n \in told : n \in 1..k
    BY DEF IInv, SentInv, k
  <2> QED BY <1>1, <1>3, <2>1 DEF IInv, ToldIsSaved, IsAsk, k
<1>14. Leads(saved, saved')
  BY <1>1, LikeLeads DEF Like
<1> QED BY <1>7, <1>8, <1>9, <1>10, <1>11, <1>12, <1>13, <1>14 DEF Safe, IInv

\* Telegram forgets what nothing refers to: neither an ask that is stored, nor one
\* that a customer was told about.
LEMMA PollKeeps == ASSUME IInv, Poll PROVE Safe
<1>1. /\ pc = "poll" /\ ctx' = NewContext /\ UNCHANGED <<told, shown, db, saved, incidents>>
      /\ confirmed' = IF db.offset > confirmed THEN db.offset ELSE confirmed
      /\ batch' = (confirmed' + 1)..Len(sent) /\ left' \subseteq batch'
      /\ pc' = IF batch' = {} THEN "poll" ELSE "messages"
  BY DEF Poll, Kinds
<1>2. sent' = [n \in 1..Len(sent) |->
                 IF n <= confirmed' /\ db.ask[n] = "none" /\ n \notin told
                 THEN Forgotten ELSE sent[n]]
  BY DEF Poll
<1>3. sent \in Seq(FromCustomer \cup FromSeller \cup {Forgotten}) /\ Len(sent) \in Nat
  BY DEF IInv, TypeOK
<1>4. PICK k \in Nat : k = Len(sent)
  BY <1>3
<1>5. PICK p \in Nat : p = confirmed' /\ p <= k /\ db.offset <= p
  BY <1>1, <1>4, Fields DEF Dated
<1>6. /\ sent' \in Seq(FromCustomer \cup FromSeller \cup {Forgotten}) /\ Len(sent') = k
      /\ \A n \in 1..k : \/ sent'[n] = sent[n]
                         \/ sent'[n] = Forgotten /\ n <= p /\ db.ask[n] = "none" /\ n \notin told
  <2>1. \A n \in 1..k : sent[n] \in FromCustomer \cup FromSeller \cup {Forgotten}
    BY <1>3, <1>4
  <2>2. sent' \in [1..k -> FromCustomer \cup FromSeller \cup {Forgotten}]
    BY <1>2, <1>4, <2>1
  <2>3. sent' \in Seq(FromCustomer \cup FromSeller \cup {Forgotten}) /\ Len(sent') = k
    BY <1>4, <2>2, <1>2
  <2> QED BY <1>2, <1>4, <1>5, <2>3
<1>7. 1..k \subseteq Update /\ k <= MaxUpdates /\ MaxUpdates \in Nat
  BY <1>4, Fields, BoundsAssumption
<1>8. \A n \in Update : db.ask[n] # "none" => n \in 1..p
  BY <1>5, Fields DEF Dated, Update
<1>9. \A n \in 1..k : db.ask[n] # "none" \/ n \in told => sent'[n] = sent[n]
  BY <1>6
<1>10. batch' = (p + 1)..k /\ batch' \subseteq 1..k /\ \A n \in batch' : db.ask[n] = "none"
  <2>1. batch' = (p + 1)..k
    BY <1>1, <1>4, <1>5
  <2>2. ASSUME NEW n \in (p + 1)..k PROVE n \in 1..k /\ n \notin 1..p
    <3>1. k \in Nat /\ p \in Nat /\ n \in Int /\ p + 1 <= n /\ n <= k
      BY <2>2
    <3> QED BY <3>1
  <2> QED BY <1>7, <1>8, <2>1, <2>2
<1>11. BooksInv'
  BY <1>1, <1>4, <1>6, Fields DEF BooksInv, Booked, Dated
<1>12. AheadInv'
  <2>1. ASSUME NEW n \in Update
        PROVE  db.ask[n] = saved.ask[n]
               \/ (saved.ask[n] = "pending" /\ db.ask[n] = "rejected" /\ sent'[n].kind = "renew")
    <3>1. CASE db.ask[n] = saved.ask[n]
      BY <3>1
    <3>2. CASE db.ask[n] # saved.ask[n]
      <4>1. saved.ask[n] = "pending" /\ db.ask[n] = "rejected" /\ sent[n].kind = "renew"
        BY <3>2, Fields DEF AheadInv
      <4>2. n \in 1..k
        BY <1>5, <1>8, <4>1
      <4> QED BY <1>9, <4>1, <4>2
    <3> QED BY <3>1, <3>2
  <2> QED BY <1>1, <2>1, Fields DEF AheadInv
<1>13. OrderInv'
  <2>1. ASSUME NEW c \in Chat, NEW n \in AskOf(db, c, "photo")' PROVE n \in AskOf(db, c, "photo")
    BY <1>1, <1>4, <1>6, <1>9 DEF AskOf, Kinds
  <2> QED BY <2>1, Fields DEF OrderInv
<1>14. TypeOK'
  <2>1. batch' \in SUBSET Update /\ left' \in SUBSET Update
    BY <1>1, <1>7, <1>10
  <2>2. confirmed' \in 0..MaxUpdates
    BY <1>5, <1>7
  <2> QED BY <1>1, <1>6, <1>7, <2>1, <2>2, EmptyContext DEF IInv, TypeOK
<1>15. BatchInv'
  <2>1. left' \subseteq batch'
    BY <1>1
  <2>2. batch' = {} => left' = {}
    BY <2>1
  <2> QED BY <1>1, <1>5, <1>6, <1>10, <2>1, <2>2, EmptyContext DEF BatchInv
<1>16. AskInv'
  BY <1>1, <1>10, EmptyContext DEF AskInv, Kinds
<1>17. SentInv'
  <2>1. \A n \in 1..k : sent'[n].kind \in {"approve", "reject"} => sent'[n].arg \in 1..k
    BY <1>4, <1>6 DEF IInv, SentInv, Forgotten
  <2> QED BY <1>1, <1>4, <1>6, <2>1 DEF IInv, SentInv
<1>18. ToldIsSaved'
  BY <1>1, <1>4, <1>6, <1>9 DEF IInv, ToldIsSaved, IsAsk
<1>19. Leads(saved, saved')
  BY <1>1, LikeLeads DEF Like
<1> QED BY <1>11, <1>12, <1>13, <1>14, <1>15, <1>16, <1>17, <1>18, <1>19 DEF Safe, IInv


(***************************************************************************)
(* The theorems.                                                           *)
(***************************************************************************)
LEMMA InitHolds == ASSUME Init PROVE IInv
<1>1. /\ confirmed = 1 /\ pc = "poll" /\ batch = {} /\ left = {} /\ ctx = NewContext
      /\ told = {} /\ shown = {} /\ saved = db /\ incidents = 0
  BY DEF Init
<1>2. PICK c \in Chat : sent = <<[kind |-> "photo", chat |-> c, arg |-> None]>>
  BY DEF Init
<1>3. PICK guests \in {{}, Chat} :
        db = [offset |-> 1, made |-> [o \in Offer |-> 0], live |-> {Own},
              code |-> [v \in Voucher |-> "unused"], claimed |-> {},
              bound |-> [a \in Chat |-> None], picked |-> guests,
              ask |-> [n \in Update |-> IF n = 1 THEN "rejected" ELSE "none"],
              target |-> [n \in Update |-> None],
              invited |-> [a \in Chat |-> IF a \in guests THEN "yes" ELSE "no"],
              bonuses |-> [a \in Chat |-> 0]]
  BY DEF Init
<1>4. [kind |-> "photo", chat |-> c, arg |-> None] \in FromCustomer
  BY DEF FromCustomer
<1>5. /\ Len(sent) = 1 /\ sent \in Seq(FromCustomer \cup FromSeller \cup {Forgotten})
      /\ sent[1].kind = "photo"
  BY <1>2, <1>4
<1>6. 1 \in Update /\ 1 <= MaxUpdates /\ MaxUpdates \in Nat /\ MaxIncidents \in Nat
  BY BoundsAssumption DEF Update
<1>7. db \in Database
  <2>1. [n \in Update |-> IF n = 1 THEN "rejected" ELSE "none"]
          \in [Update -> {"none", "pending", "approved", "rejected", "pruned"}]
    OBVIOUS
  <2>2. [a \in Chat |-> IF a \in guests THEN "yes" ELSE "no"] \in [Chat -> {"no", "yes", "paid"}]
    OBVIOUS
  <2>3. /\ [o \in Offer |-> 0] \in [Offer -> Nat] /\ [a \in Chat |-> 0] \in [Chat -> Nat]
        /\ [v \in Voucher |-> "unused"] \in [Voucher -> {"unused", "used", "revoked"}]
        /\ [a \in Chat |-> None] \in [Chat -> Offer \cup {Own, None}]
        /\ [n \in Update |-> None] \in [Update -> Offer \cup {Own, None}]
        /\ {Own} \in SUBSET (Offer \cup {Own}) /\ {} \in SUBSET Chat /\ guests \in SUBSET Chat
    OBVIOUS
  <2> QED BY <1>3, <2>1, <2>2, <2>3 DEF Database
<1>8. /\ db.offset = 1 /\ db.made = [o \in Offer |-> 0] /\ db.code = [v \in Voucher |-> "unused"]
      /\ db.claimed = {} /\ db.bonuses = [a \in Chat |-> 0]
      /\ db.ask = [n \in Update |-> IF n = 1 THEN "rejected" ELSE "none"]
      /\ \A a \in Chat : db.invited[a] # "paid"
  BY <1>3
<1>9. TypeOK
  BY <1>1, <1>5, <1>6, <1>7, EmptyContext DEF TypeOK
<1>10. BooksInv /\ AheadInv
  BY <1>1, <1>5, <1>6, <1>8, Disjoint DEF BooksInv, Booked, Dated, AheadInv, Update
<1>11. \A n \in 1..Len(sent) : n = 1
  BY <1>5
<1>12. BatchInv /\ AskInv /\ OrderInv
  BY <1>1, <1>5, <1>11, EmptyContext DEF BatchInv, AskInv, OrderInv, AskOf, Kinds
<1>13. SentInv /\ ToldIsSaved
  BY <1>1, <1>5, <1>11 DEF SentInv, ToldIsSaved
<1> QED BY <1>9, <1>10, <1>12, <1>13 DEF IInv

LEMMA NextKeeps == ASSUME IInv, [Next]_vars PROVE Safe
<1>1. CASE Bot
  BY <1>1, PollKeeps, ApplyKeeps, DispatchKeeps, ReplyKeeps, IgnoreKeeps, RedeemKeeps, TryKeeps,
     StartKeeps, BindKeeps, PhotoKeeps, RenewKeeps, PickKeeps, MenuTrialKeeps, MenuRenewKeeps,
     FollowThroughKeeps, IgnoreTapKeeps, ApproveOrderKeeps, RejectOrderKeeps, ApproveRenewalKeeps,
     RejectRenewalKeeps, RenewalGoneKeeps DEF Bot
<1>2. CASE \E u \in FromCustomer \cup FromSeller : Send(u)
  BY <1>2, SendKeeps
<1>3. CASE PanelRequest \/ Flush \/ Crash
  BY <1>3, PanelRequestKeeps, FlushKeeps, CrashKeeps
<1>4. CASE UNCHANGED vars
  BY <1>4, StutterKeeps
<1> QED BY <1>1, <1>2, <1>3, <1>4 DEF Next

\* The invariant that the others rest on: each database agrees with itself, and memory
\* is ahead of db.json by nothing that was sold.
THEOREM Invariance == Spec => []IInv
<1>1. Init => IInv
  BY InitHolds
<1>2. IInv /\ [Next]_vars => IInv'
  BY NextKeeps DEF Safe
<1> QED BY <1>1, <1>2, PTL DEF Spec

\* Every variable keeps its type.
THEOREM TypeCorrect == Spec => []TypeOK
<1>1. IInv => TypeOK
  BY DEF IInv
<1> QED BY <1>1, Invariance, PTL

\* A bonus is paid once for an invitation (settle_referral), and a customer has at most
\* one open order, though has_open_order looks at a database and a batch that both change
\* before the order is stored.
THEOREM PaidAndAskedOnce == Spec => []OnceAtATime
<1>1. IInv => OnceAtATime
  <2> SUFFICES ASSUME IInv PROVE OnceAtATime
    OBVIOUS
  <2>1. BonusesPaidOnce
    BY Fields DEF BonusesPaidOnce, Booked
  <2>2. OneOpenOrder
    <3> SUFFICES ASSUME NEW c \in Chat PROVE Cardinality(AskOf(db, c, "photo")) <= 1
      BY DEF OneOpenOrder
    <3>1. PICK s : s = AskOf(db, c, "photo")
      OBVIOUS
    <3>2. \A m, n \in s : m = n
      BY <3>1, Fields DEF OrderInv
    <3>3. CASE s = {}
      BY <3>1, <3>3, FS_EmptySet
    <3>4. CASE s # {}
      <4>1. PICK n : n \in s
        BY <3>4
      <4>2. s = {n}
        BY <3>2, <4>1
      <4>3. Cardinality(s) = 1
        BY <4>2, FS_Singleton
      <4> QED BY <3>1, <4>3
    <3> QED BY <3>3, <3>4
  <2> QED BY <2>1, <2>2 DEF OnceAtATime
<1> QED BY <1>1, Invariance, PTL

\* What a customer was told has arrived is in db.json (apply before the replies), and
\* stays there, through crashes and whatever the panel does meanwhile.
THEOREM ToldStaysSaved == Spec => []ToldIsSaved
<1>1. IInv => ToldIsSaved
  BY DEF IInv
<1> QED BY <1>1, Invariance, PTL

LEMMA SoldInit == ASSUME Init PROVE Sold!Init
<1>1. saved.made = [o \in Offer |-> 0]
  BY DEF Init
<1>2. \A v \in Voucher : saved.code[v] = "unused"
  BY DEF Init
<1>3. \A n \in Update : saved.ask[n] \in {"none", "rejected"}
  BY DEF Init
<1>4. ASSUME NEW o \in Offer PROVE Life(saved, o) \in {"none", "open", "withdrawn"}
  <2>1. ~(saved.made[o] > 0)
    BY <1>1
  <2> QED BY <2>1, <1>3 DEF Life, Offer
<1> QED BY <1>1, <1>4 DEF Sold!Init

LEMMA SoldStep == ASSUME IInv, Safe PROVE Sold!Next
<1>1. Booked(saved)' /\ saved' \in Database
  BY DEF Safe, IInv, BooksInv, TypeOK
<1>2. Booked(saved')
  BY <1>1 DEF Booked
<1>3. saved'.made \in [Offer -> 0..1]
  <2>1. ASSUME NEW o \in Offer PROVE saved'.made[o] \in 0..1
    BY <1>2 DEF Booked, Offer
  <2>2. saved'.made \in [Offer -> Nat]
    BY <1>1 DEF Database
  <2> QED BY <2>1, <2>2
<1>4. \A o \in Offer : Life(saved, o)' \in {"none", "open", "delivered", "withdrawn"}
  BY DEF Life
<1>5. ASSUME NEW o \in Offer PROVE Moved(saved, saved', o) /\ Life(saved, o)' = Life(saved', o)
  BY DEF Safe, Leads, Life
<1> QED BY <1>3, <1>4, <1>5 DEF Sold!Next, Moved

\* Vouchers, orders, requests for a renewal and trials are what Sales promises of an
\* offer: each is delivered at most once, and what was decided stays decided, however
\* often an update or a tap comes and whatever happens to the process.
THEOREM ImplementsSales == Spec => DeliversOnce
<1>1. Init => Sold!Init
  BY SoldInit
<1>2. IInv /\ [Next]_vars => Sold!Next
  BY NextKeeps, SoldStep
<1> QED BY <1>1, <1>2, Invariance, PTL DEF Spec, DeliversOnce, Sold!Spec, Sold!vars
=============================================================================
