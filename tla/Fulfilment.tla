----------------------------- MODULE Fulfilment -----------------------------
(***************************************************************************)
(* The customers' bot: a batch of Telegram updates from the poll to the    *)
(* last reply, and what it sells -- vouchers, orders, renewals, trials,    *)
(* bonuses for invitations (main.py, userbot.py).                          *)
(*                                                                         *)
(* The bot's loop handles one batch at a time, and the panel's requests    *)
(* change the same database while it awaits.  Telegram keeps an update     *)
(* until a poll names a later offset, and delivers it again until then;    *)
(* the offset is in the database, which is saved with some changes and not  *)
(* with others, and goes back to what was saved when the process dies.      *)
(* One process serves the panel and the bot (PEYK_WORKERS=1, or auto on a   *)
(* small machine): what several workers make of the database is the subject *)
(* of ClusterStore, and what a failing write does to it that of Store.      *)
(***************************************************************************)
EXTENDS Naturals, Sequences, FiniteSets

CONSTANTS
    Chat,           \* customers
    Voucher,        \* voucher codes, minted before
    Own,            \* an account that exists before, and invites
    None,           \* no account, or no argument
    MaxOrders,      \* MAX_ORDERS
    MaxUpdates,     \* bound: updates that are sent
    MaxIncidents    \* bound: crashes, requests to the panel

\* An order or a request for a renewal is named by the update it came from, an
\* account by what it was delivered for: a voucher, an order, a chat's trial.
Update == 1..MaxUpdates
Offer == Voucher \cup Chat \cup Update

ASSUME NamesAssumption ==
    /\ Voucher \cap Chat = {} /\ (Voucher \cup Chat) \cap Nat = {}
    /\ {Own, None} \cap (Voucher \cup Chat \cup Nat) = {} /\ Own # None
ASSUME BoundsAssumption ==
    /\ MaxUpdates \in Nat \ {0} /\ MaxIncidents \in Nat
    /\ MaxOrders \in Nat

VARIABLES
    sent,       \* the updates, as long as anything refers to them
    confirmed,  \* how many of them Telegram has forgotten
    pc,         \* what the bot's loop is doing
    batch,      \* the updates of the batch
    left,       \* those, or the new asks, that this phase has yet to handle
    ctx,        \* what the _BotContext of the batch has pending
    told,       \* the asks customers were told about
    shown,      \* the asks the seller was sent, with buttons to tap
    db,         \* the database in memory
    saved,      \* db.json
    incidents   \* crashes and requests to the panel so far

vars == <<sent, confirmed, pc, batch, left, ctx, told, shown, db, saved,
          incidents>>
telegram == <<sent, confirmed>>

Messages == {"redeem", "trial", "start", "bind", "photo", "renew"}
Taps == {"pick", "menu trial", "menu renew", "approve", "reject"}
Asks == {"photo", "renew"}

FromCustomer ==
    [kind : {"trial", "start", "photo", "renew", "pick", "menu trial", "menu renew"},
     chat : Chat, arg : {None}]
      \cup [kind : {"redeem"}, chat : Chat, arg : Voucher]
      \cup [kind : {"bind"}, chat : Chat, arg : {Own}]
FromSeller == [kind : {"approve", "reject"}, chat : {None}, arg : Update]
Forgotten == [kind |-> "forgotten", chat |-> None, arg |-> None]

Database ==
    [offset : Nat,                              \* bot_offset
     made : [Offer -> Nat],                     \* history: deliveries of each offer
     live : SUBSET (Offer \cup {Own}),          \* inbounds
     code : [Voucher -> {"unused", "used", "revoked"}],
     claimed : SUBSET Chat,                     \* trial_claims
     bound : [Chat -> Offer \cup {Own, None}],  \* bot_bindings
     picked : SUBSET Chat,                      \* shop_selections
     ask : [Update -> {"none", "pending", "approved", "rejected", "pruned"}],
                                                \* orders and renew_requests
     target : [Update -> Offer \cup {Own, None}],
     invited : [Chat -> {"no", "yes", "paid"}], \* referrals
     bonuses : [Chat -> Nat]]                   \* history: bonuses paid for a chat
Context ==
    [binds : [Chat -> Offer \cup {Own, None}], picks : SUBSET Chat,
     invites : SUBSET Chat, asks : SUBSET Update,
     target : [Update -> Offer \cup {Own, None}]]

TypeOK ==
    /\ sent \in Seq(FromCustomer \cup FromSeller \cup {Forgotten}) /\ Len(sent) <= MaxUpdates
    /\ confirmed \in 0..MaxUpdates
    /\ pc \in {"poll", "messages", "dispatch", "taps", "follow"}
    /\ batch \in SUBSET Update
    /\ left \in SUBSET Update
    /\ ctx \in Context
    /\ told \in SUBSET Update
    /\ shown \in SUBSET Update
    /\ db \in Database
    /\ saved \in Database
    /\ incidents \in 0..MaxIncidents

NewContext ==
    [binds |-> [c \in Chat |-> None], picks |-> {}, invites |-> {}, asks |-> {},
     target |-> [n \in Update |-> None]]

\* A shop with vouchers minted, whose first order was rejected; its customers may
\* have picked a plan and have been invited.
Init ==
    /\ \E c \in Chat : sent = <<[kind |-> "photo", chat |-> c, arg |-> None]>>
    /\ confirmed = 1
    /\ pc = "poll" /\ batch = {} /\ left = {} /\ ctx = NewContext
    /\ told = {} /\ shown = {}
    /\ \E guests \in {{}, Chat} :
        db = [offset |-> 1, made |-> [o \in Offer |-> 0], live |-> {Own},
              code |-> [v \in Voucher |-> "unused"], claimed |-> {},
              bound |-> [c \in Chat |-> None], picked |-> guests,
              ask |-> [n \in Update |-> IF n = 1 THEN "rejected" ELSE "none"],
              target |-> [n \in Update |-> None],
              invited |-> [c \in Chat |-> IF c \in guests THEN "yes" ELSE "no"],
              bonuses |-> [c \in Chat |-> 0]]
    /\ saved = db
    /\ incidents = 0

Persist(d) == db' = d /\ saved' = d     \* store.mutate(fn)
Note(d) == db' = d /\ UNCHANGED saved   \* store.mutate(fn, persist=False)

(***************************************************************************)
(* Offers.                                                                 *)
(***************************************************************************)
Kinds(ns, kinds) == {n \in ns : sent[n].kind \in kinds}
AskOf(d, chat, kind) ==
    {n \in Kinds(1..Len(sent), {kind}) : sent[n].chat = chat /\ d.ask[n] = "pending"}

\* db["inbounds"].append(ib)
NewAccount(d, o) == [d EXCEPT !.made[o] = @ + 1, !.live = @ \cup {o}]

\* settle_referral
Settle(d, c) ==
    IF d.invited[c] = "yes"
    THEN [d EXCEPT !.invited[c] = "paid", !.bonuses[c] = @ + 1] ELSE d

\* redeem_voucher for a customer; from the panel there is no chat to settle.
Redeemed(d, v) == [NewAccount(d, v) EXCEPT !.code[v] = "used"]

\* claim_trial: one per chat, for ever, and none with a live subscription.
MayTry(d, c) == c \notin d.claimed /\ d.bound[c] \notin d.live
Tried(d, c) == [NewAccount(d, c) EXCEPT !.claimed = @ \cup {c}, !.bound[c] = c]

\* record_referral, for each chat that was invited in the batch.
Invite(d, chats) ==
    [d EXCEPT !.invited = [c \in Chat |->
        IF c \in chats /\ Own \in d.live /\ d.bound[c] = None /\ d.invited[c] = "no"
        THEN "yes" ELSE d.invited[c]]]

\* bindings.update(ctx.pending_binds) and sel.update(ctx.pending_selection)
Follow(d) ==
    [d EXCEPT !.bound = [c \in Chat |-> IF ctx.binds[c] = None THEN d.bound[c]
                                                               ELSE ctx.binds[c]],
              !.picked = @ \cup ctx.picks]

\* _prune_orders, for each new order: of more than MAX_ORDERS, the oldest that are
\* settled go.
PruneOrders(d) ==
    LET orders == {n \in Kinds(1..Len(sent), {"photo"}) : d.ask[n] \notin {"none", "pruned"}}
        settled == {n \in orders : d.ask[n] # "pending"}
    IN [d EXCEPT !.ask = [n \in Update |->
          IF /\ n \in settled /\ Kinds(ctx.asks, {"photo"}) # {}
             /\ Cardinality({m \in settled : m <= n}) + MaxOrders <= Cardinality(orders)
          THEN "pruned" ELSE d.ask[n]]]

(***************************************************************************)
(* Telegram.                                                               *)
(***************************************************************************)

\* What is sent during a batch waits for the next poll, so it may as well be sent
\* after the batch.  The buttons stay if the message cannot be rewritten.
Send(u) ==
    /\ pc = "poll" /\ Len(sent) < MaxUpdates
    /\ u.kind \in {"approve", "reject"} => u.arg \in shown
    /\ sent' = Append(sent, u)
    /\ UNCHANGED <<confirmed, pc, batch, left, ctx, told, shown, db, saved, incidents>>

\* get_updates(token, offset): Telegram forgets what lies before the offset (an
\* ask that was stored lives on, in the database) and delivers the rest, be it again.
Poll ==
    /\ pc = "poll"
    /\ confirmed' = IF db.offset > confirmed THEN db.offset ELSE confirmed
    /\ sent' = [n \in 1..Len(sent) |->
                 IF n <= confirmed' /\ db.ask[n] = "none" /\ n \notin told
                 THEN Forgotten ELSE sent[n]]
    /\ batch' = (confirmed' + 1)..Len(sent)
    /\ left' = Kinds(batch', Messages)
    /\ pc' = IF batch' = {} THEN "poll" ELSE "messages"
    /\ ctx' = NewContext
    /\ UNCHANGED <<told, shown, db, saved, incidents>>

(***************************************************************************)
(* The messages of the batch, in order.                                    *)
(***************************************************************************)
Turn(n, phase, kind) ==
    /\ pc = phase /\ n \in left /\ \A m \in left : n <= m
    /\ sent[n].kind = kind
Done(n) == /\ left' = left \ {n}
           /\ UNCHANGED <<telegram, pc, batch, told, shown, incidents>>

\* The rate limit, a refusal, a failure inside handle_message, or a message that
\* changes nothing.
Ignore(n) ==
    /\ \E kind \in Messages : Turn(n, "messages", kind)
    /\ Done(n)
    /\ UNCHANGED <<ctx, db, saved>>

\* Mutant of Redeem: the code is not looked at inside the mutation.
MutantRedeemAgain(n) ==
    /\ Turn(n, "messages", "redeem")
    /\ LET v == sent[n].arg  c == sent[n].chat
       IN /\ db.code[v] # "revoked"
          /\ Persist(Settle(Redeemed(db, v), c))
          /\ ctx' = [ctx EXCEPT !.binds[c] = v]
    /\ Done(n)

\* The voucher is used and saved at once, the binding with the batch.
Redeem(n) ==
    /\ Turn(n, "messages", "redeem")
    /\ LET v == sent[n].arg  c == sent[n].chat
       IN /\ db.code[v] = "unused"
          /\ Persist(Settle(Redeemed(db, v), c))
          /\ ctx' = [ctx EXCEPT !.binds[c] = v]
    /\ Done(n)

Try(n) ==
    /\ Turn(n, "messages", "trial")
    /\ MayTry(db, sent[n].chat) /\ Persist(Tried(db, sent[n].chat))
    /\ Done(n) /\ UNCHANGED ctx

\* note_referral
Start(n) ==
    /\ Turn(n, "messages", "start")
    /\ Own \in db.live /\ db.bound[sent[n].chat] = None /\ db.invited[sent[n].chat] = "no"
    /\ ctx' = [ctx EXCEPT !.invites = @ \cup {sent[n].chat}]
    /\ Done(n) /\ UNCHANGED <<db, saved>>

Bind(n) ==
    /\ Turn(n, "messages", "bind")
    /\ sent[n].arg \in db.live
    /\ ctx' = [ctx EXCEPT !.binds[sent[n].chat] = sent[n].arg]
    /\ Done(n) /\ UNCHANGED <<db, saved>>

\* Mutant of Photo: an order that is only pending in the batch is not looked for.
MutantPhotoTwice(n) ==
    /\ Turn(n, "messages", "photo")
    /\ LET c == sent[n].chat
       IN c \in db.picked \cup ctx.picks /\ AskOf(db, c, "photo") = {}
    /\ ctx' = [ctx EXCEPT !.asks = @ \cup {n}]
    /\ Done(n) /\ UNCHANGED <<db, saved>>

\* submit_receipt: a plan was picked, and no order is open.
Photo(n) ==
    /\ Turn(n, "messages", "photo")
    /\ LET c == sent[n].chat
       IN /\ c \in db.picked \cup ctx.picks
          /\ AskOf(db, c, "photo") = {}
          /\ \A m \in Kinds(ctx.asks, {"photo"}) : sent[m].chat # c
    /\ ctx' = [ctx EXCEPT !.asks = @ \cup {n}]
    /\ Done(n) /\ UNCHANGED <<db, saved>>

\* The /renew command: the chat has a live account and no open request.
MayRenew(c) ==
    /\ db.bound[c] \in db.live
    /\ AskOf(db, c, "renew") = {}
    /\ \A m \in Kinds(ctx.asks, {"renew", "menu renew"}) : sent[m].chat # c
Asked(n) == [ctx EXCEPT !.asks = @ \cup {n}, !.target[n] = db.bound[sent[n].chat]]

Renew(n) ==
    /\ Turn(n, "messages", "renew")
    /\ MayRenew(sent[n].chat)
    /\ ctx' = Asked(n)
    /\ Done(n) /\ UNCHANGED <<db, saved>>

Latest(ns) == CHOOSE n \in ns : \A m \in ns : m <= n

\* What the batch leads to.  prune_requests may find requests that are stale.
Applied(d, stale) ==
    LET asked == [d EXCEPT !.ask = [n \in Update |->
                              IF n \in ctx.asks THEN "pending"
                              ELSE IF n \in stale THEN "pruned" ELSE d.ask[n]],
                           !.target = [n \in Update |->
                              IF n \in ctx.asks THEN ctx.target[n] ELSE d.target[n]]]
    IN [PruneOrders(Invite(Follow(asked), ctx.invites)) EXCEPT !.offset = Latest(batch)]

\* Mutant of Apply: nothing but bindings makes the batch worth saving.
MutantApplyUnsaved ==
    /\ pc = "messages" /\ left = {}
    /\ IF \E c \in Chat : ctx.binds[c] # None
       THEN Persist(Applied(db, {})) ELSE Note(Applied(db, {}))
    /\ pc' = "dispatch"
    /\ UNCHANGED <<telegram, batch, left, ctx, told, shown, incidents>>

\* Mutant of Apply: the offset is stored only with something else.
MutantApplyIdle ==
    /\ pc = "messages" /\ left = {}
    /\ IF ctx # NewContext THEN Persist(Applied(db, {})) ELSE UNCHANGED <<db, saved>>
    /\ pc' = "dispatch"
    /\ UNCHANGED <<telegram, batch, left, ctx, told, shown, incidents>>

\* The batch and its offset in one mutation, saved if it changed more than that.
Apply ==
    /\ pc = "messages" /\ left = {}
    /\ \E stale \in SUBSET Kinds({n \in 1..Len(sent) : db.ask[n] # "none"}, {"renew"}) :
        /\ stale # {} => Kinds(ctx.asks, {"renew"}) # {}
        /\ IF (\E c \in Chat : ctx.binds[c] # None) \/ ctx.asks # {}
              \/ ctx.invites # {} \/ ctx.picks # {}
           THEN Persist(Applied(db, stale)) ELSE Note(Applied(db, stale))
    /\ pc' = "dispatch"
    /\ UNCHANGED <<telegram, batch, left, ctx, told, shown, incidents>>

\* _dispatch_renew_request, _dispatch_order.  A message to the seller that fails
\* is one that is never answered.
Dispatch ==
    /\ pc = "dispatch"
    /\ shown' = shown \cup ctx.asks
    /\ pc' = "taps" /\ left' = Kinds(batch, Taps)
    /\ UNCHANGED <<telegram, batch, ctx, told, db, saved, incidents>>

(***************************************************************************)
(* The taps of the batch, in order, after its offset: what the process     *)
(* does not get to before it dies is not delivered again.                  *)
(***************************************************************************)

\* A plan is picked: noted, and saved with whatever is saved next.
Pick(n) ==
    /\ Turn(n, "taps", "pick")
    /\ Note([db EXCEPT !.picked = @ \cup {sent[n].chat}])
    /\ ctx' = [ctx EXCEPT !.picks = @ \cup {sent[n].chat}]
    /\ Done(n)

\* A menu button runs its command ...
MenuTrial(n) ==
    /\ Turn(n, "taps", "menu trial")
    /\ IF MayTry(db, sent[n].chat) THEN Persist(Tried(db, sent[n].chat))
                                   ELSE UNCHANGED <<db, saved>>
    /\ pc' = "follow"
    /\ UNCHANGED <<telegram, batch, left, ctx, told, shown, incidents>>

MenuRenew(n) ==
    /\ Turn(n, "taps", "menu renew")
    /\ ctx' = IF MayRenew(sent[n].chat) THEN Asked(n) ELSE ctx
    /\ pc' = "follow"
    /\ UNCHANGED <<telegram, batch, left, told, shown, db, saved, incidents>>

\* ... then stores the bindings and picks that the context has pending, be they
\* its own or the batch's, and replies.
FollowThrough(n) ==
    /\ \E kind \in {"menu trial", "menu renew"} : Turn(n, "follow", kind)
    /\ IF (\E c \in Chat : ctx.binds[c] # None) \/ ctx.picks # {}
       THEN Persist(Follow(db)) ELSE UNCHANGED <<db, saved>>
    /\ ctx' = [ctx EXCEPT !.binds = NewContext.binds, !.picks = {}]
    /\ told' = told \cup ({n} \cap ctx.asks)
    /\ pc' = "taps" /\ left' = left \ {n}
    /\ UNCHANGED <<telegram, batch, shown, incidents>>

\* A tap on a plan that is gone, on an order that cannot be filled, or on a
\* question that was answered before.
IgnoreTap(n) ==
    /\ \/ Turn(n, "taps", "pick")
       \/ Turn(n, "taps", "approve") /\ sent[sent[n].arg].kind = "photo"
       \/ /\ Turn(n, "taps", "approve") \/ Turn(n, "taps", "reject")
          /\ db.ask[sent[n].arg] # "pending"
    /\ Done(n) /\ UNCHANGED <<ctx, db, saved>>

Unpick(d, c) == [d EXCEPT !.picked = @ \ {c}]

\* An order becomes an account, which its customer is bound to.
ApproveOrder(n) ==
    /\ Turn(n, "taps", "approve")
    /\ LET o == sent[n].arg  c == sent[o].chat
       IN /\ sent[o].kind = "photo" /\ db.ask[o] = "pending"
          /\ Persist(Settle(Unpick([NewAccount(db, o) EXCEPT !.ask[o] = "approved",
                                                             !.bound[c] = o], c), c))
    /\ Done(n) /\ UNCHANGED ctx

RejectOrder(n) ==
    /\ Turn(n, "taps", "reject")
    /\ LET o == sent[n].arg
       IN /\ sent[o].kind = "photo" /\ db.ask[o] = "pending"
          /\ Persist(Unpick([db EXCEPT !.ask[o] = "rejected"], sent[o].chat))
    /\ Done(n) /\ UNCHANGED ctx

\* The request and its account are looked at before the mutation: the account may
\* be deleted while that waits.
Renewed(d, o) ==
    [d EXCEPT !.ask[o] = "approved", !.made[o] = IF d.target[o] \in d.live THEN @ + 1 ELSE @]

ApproveRenewal(n) ==
    /\ Turn(n, "taps", "approve")
    /\ LET o == sent[n].arg
       IN sent[o].kind = "renew" /\ db.ask[o] = "pending" /\ Persist(Renewed(db, o))
    /\ Done(n) /\ UNCHANGED ctx

RejectRenewal(n) ==
    /\ Turn(n, "taps", "reject")
    /\ LET o == sent[n].arg
       IN sent[o].kind = "renew" /\ db.ask[o] = "pending"
          /\ Persist([db EXCEPT !.ask[o] = "rejected"])
    /\ Done(n) /\ UNCHANGED ctx

\* The account is gone: the request is rejected, whatever the answer, and only
\* in memory.
RenewalGone(n) ==
    /\ Turn(n, "taps", "approve") \/ Turn(n, "taps", "reject")
    /\ LET o == sent[n].arg
       IN /\ sent[o].kind = "renew" /\ db.ask[o] = "pending" /\ db.target[o] \notin db.live
          /\ Note([db EXCEPT !.ask[o] = "rejected"])
    /\ Done(n) /\ UNCHANGED ctx

\* Mutant of Reply: who was told is noted, not what.
MutantReplyToChat ==
    /\ pc = "taps" /\ left = {}
    /\ told' = told \cup {sent[n].chat : n \in Kinds(ctx.asks, Asks)}
    /\ pc' = "poll" /\ batch' = {} /\ ctx' = NewContext
    /\ UNCHANGED <<telegram, left, shown, db, saved, incidents>>

\* The replies to the messages.
Reply ==
    /\ pc = "taps" /\ left = {}
    /\ told' = told \cup Kinds(ctx.asks, Asks)
    /\ pc' = "poll" /\ batch' = {} /\ ctx' = NewContext
    /\ UNCHANGED <<telegram, left, shown, db, saved, incidents>>

(***************************************************************************)
(* What else happens to the database.                                      *)
(***************************************************************************)

\* A request to the panel, while the bot awaits: a code is redeemed or revoked, an
\* account is deleted.
PanelRequest ==
    /\ incidents < MaxIncidents /\ incidents' = incidents + 1
    /\ \/ \E v \in Voucher :
            /\ db.code[v] = "unused"
            /\ Persist(Redeemed(db, v)) \/ Persist([db EXCEPT !.code[v] = "revoked"])
       \/ \E a \in db.live : Persist([db EXCEPT !.live = @ \ {a}])
    /\ UNCHANGED <<telegram, pc, batch, left, ctx, told, shown>>

\* _disk_flush_loop, or another's write.
Flush ==
    /\ db # saved /\ saved' = db
    /\ UNCHANGED <<telegram, pc, batch, left, ctx, told, shown, db, incidents>>

\* The process dies, and starts again from what it saved.
Crash ==
    /\ incidents < MaxIncidents /\ incidents' = incidents + 1
    /\ pc' = "poll" /\ batch' = {} /\ left' = {} /\ ctx' = NewContext /\ db' = saved
    /\ UNCHANGED <<telegram, told, shown, saved>>

Bot ==
    \/ Poll \/ Apply \/ Dispatch \/ Reply
    \/ \E n \in left :
        \/ Ignore(n) \/ Redeem(n) \/ Try(n) \/ Start(n) \/ Bind(n) \/ Photo(n) \/ Renew(n)
        \/ Pick(n) \/ MenuTrial(n) \/ MenuRenew(n) \/ FollowThrough(n) \/ IgnoreTap(n)
        \/ ApproveOrder(n) \/ RejectOrder(n)
        \/ ApproveRenewal(n) \/ RejectRenewal(n) \/ RenewalGone(n)

Next ==
    \/ Bot
    \/ \E u \in FromCustomer \cup FromSeller : Send(u)
    \/ PanelRequest \/ Flush \/ Crash

Spec == Init /\ [][Next]_vars

\* The loop goes on; nobody has to send, tap, or visit the panel.
FairSpec == Spec /\ WF_vars(Bot)

(***************************************************************************)
(* Properties.                                                             *)
(***************************************************************************)
IsAsk(n) == n \in 1..Len(sent) /\ sent[n].kind \in Asks

\* How far an offer has come, as db.json has it.
Life(d, o) ==
    IF d.made[o] > 0 THEN "delivered"
    ELSE IF o \in Voucher THEN IF d.code[o] = "unused" THEN "open" ELSE "withdrawn"
    ELSE IF o \in Chat THEN IF o \in d.claimed THEN "withdrawn" ELSE "open"
    ELSE CASE d.ask[o] = "none" -> "none"
           [] d.ask[o] = "pending" -> "open"
           [] OTHER -> "withdrawn"

\* "two people redeeming the same code at the same moment must produce exactly one
\* account" (main.py:3912-3913), "One per Telegram account, forever." (main.py:3336):
\* through taps and updates that come twice, crashes and the panel, everything that
\* is sold or given is delivered at most once, and what was decided stays decided.
Sold == INSTANCE Sales WITH state <- [o \in Offer |-> Life(saved, o)],
                            delivered <- saved.made
DeliversOnce == Sold!Spec

\* An invitation is paid for once (main.py:1521-1522).
BonusesPaidOnce == \A c \in Chat : db.bonuses[c] <= 1

\* A chat waits for one answer at a time: has_open_order, checked against a database
\* and a batch that change before the order is stored.
OneOpenOrder == \A c \in Chat : Cardinality(AskOf(db, c, "photo")) <= 1

\* Nobody is paid, or asked to pay, twice.
OnceAtATime == BonusesPaidOnce /\ OneOpenOrder

\* A customer who was told that a receipt or a request has arrived need not send it
\* again: it is in db.json, whatever happens to the process.
ToldIsSaved == \A n \in told : IsAsk(n) => saved.ask[n] # "none"

\* Every update is dealt with, again and again: the loop gets to the end of what was
\* sent and tells Telegram so, after crashes and batches without effect.
CatchesUp == []<>(confirmed = Len(sent))
=============================================================================
