---------------------------- MODULE RelayProofs ----------------------------
(***************************************************************************)
(* Relay: a session settles what it has counted, and ends as idle only     *)
(* when it is -- for any frames, datagrams, replies and limits.            *)
(***************************************************************************)
EXTENDS Relay, WellFoundedInduction, TLAPS

(***************************************************************************)
(* The inductive invariant.                                                *)
(***************************************************************************)
\* The frames of q carry on the stream from a to b.
InOrder(q, a, b) == \E c \in [0..Len(q) -> 0..b] :
                        /\ c[0] = a /\ c[Len(q)] = b
                        /\ \A i \in 1..Len(q) : c[i] = c[i - 1] + q[i]

\* The phases of relay: what the pumps have not touched before they run, and what is
\* left when they have been cancelled.
PhaseInv ==
    /\ Live => why = "none"
    /\ at \in {"first", "resolve", "dial"} => link = "none"
    /\ at \in {"first", "resolve", "dial", "answer"} =>
          up = "first" /\ down = "read" /\ read = 0 /\ packets = 0 /\ delivered = 0 /\ reported = counted
    /\ at = "first" => inbox = <<>> /\ sent = 0
    /\ at = "dial" => addrs > 0
    /\ at \in {"answer", "relay"} => link # "none" /\ (link = "closed" => up = "done")
    /\ at = "closing" => link = "closed"
    /\ at = "over" => reported = counted /\ (link = "open" => why = "abandoned")
    /\ cmd = "udp" => link # "ended" /\ ~broken /\ up # "drain"

\* The client's stream: what has been received, what waits, what has been sent on.
StreamInv ==
    /\ sent <= Total /\ InOrder(inbox, read, sent)
    /\ cmd = "udp" => End[packets] <= read
    /\ cmd = "udp" /\ up \in {"first", "receive"} => packets = Whole(read)
    /\ counted.up = IF cmd = "udp" THEN Payload(packets) ELSE read

\* The destination's: only a session that is being cut short loses a reply of a stream.
ReplyInv ==
    Live => LET known == delivered + wire + (IF down = "send" THEN 1 ELSE 0)
            IN  /\ counted.down = delivered
                /\ known <= replied
                /\ cmd = "tcp" /\ ~cut /\ client # "left" => known = replied

\* The client asked for more than the pump holds, with a frame of n units.
Overrun(n) == LET tail == read - n - End[packets]
              IN  tail \in 0..(Datagrams[packets + 1] + 1) /\ n + tail > MaxHeld
TooMuch == cmd = "udp" /\ \E n \in FrameSizes \cup {0} : Overrun(n)

\* All that the client had sent has been sent on, and it will send no more.
AllRead == inbox = <<>> /\ client = "left" /\ (cmd = "udp" => packets = Whole(read))

\* Why a pump is done.
DoneInv ==
    at = "relay" =>
      /\ up = "done" => broken \/ AllRead \/ TooMuch
      /\ down = "done" => broken \/ cut \/ client = "left" \/ (wire = 0 /\ link \in {"ended", "closed"})

\* What each reason to end says of the session.
WhyInv ==
    ~Live =>
      /\ delivered - counted.down \in (IF why \in {"up", "overrun", "idle"} THEN {0, 1} ELSE {0})
      /\ why = "up" /\ ~broken => AllRead
      /\ why = "down" /\ ~broken /\ ~cut /\ client # "left" => delivered = replied
      /\ why = "overrun" => TooMuch

\* The clocks: the waiter looks once every limit ticks, and as long as the head start of
\* last_activity counts, the pumps have been silent since it last looked.
ClockInv ==
    /\ why = "idle" => quiet >= limit
    /\ at = "relay" /\ limit > 0 =>
          /\ timer <= limit /\ quiet + timer <= 2 * limit /\ quiet <= idle
          /\ quiet = idle \/ quiet + timer >= limit

IInv == TypeOK /\ PhaseInv /\ StreamInv /\ ReplyInv /\ DoneInv /\ WhyInv /\ ClockInv

(***************************************************************************)
(* What the operators on the stream give.                                  *)
(***************************************************************************)
LEMMA Least == ASSUME NEW S \in SUBSET Nat, S # {} PROVE \E s \in S : \A t \in S : s <= t
<1>1. PICK s \in S : \A t \in S : ~(<<t, s>> \in OpToRel(<, Nat))
  BY NatLessThanWellFounded, WFMin
<1>2. \A t \in S : t < s => <<t, s>> \in OpToRel(<, Nat)
  BY DEF OpToRel
<1>3. \A t \in S : ~(t < s)
  BY <1>1, <1>2, Zenon
<1> QED BY <1>3

LEMMA MaxIsMax ==
    ASSUME NEW S \in SUBSET Nat, S # {}, NEW b \in Nat, \A x \in S : x <= b
    PROVE  Max(S) \in S /\ \A x \in S : x <= Max(S)
<1> DEFINE T == {b - x : x \in S}
<1>1. T \in SUBSET Nat /\ T # {}
  <2>1. \A x \in S : b - x \in Nat
    OBVIOUS
  <2> QED BY <2>1
<1>2. PICK t \in T : \A u \in T : t <= u
  BY <1>1, Least
<1>3. PICK m \in S : t = b - m
  OBVIOUS
<1>4. \A x \in S : b - x \in T
  OBVIOUS
<1>5. \A x \in S : m >= x
  BY <1>2, <1>3, <1>4
<1> QED BY <1>5 DEF Max

L == Len(Datagrams)
LEMMA Lengths == /\ L \in Nat /\ MaxUnits \in Nat /\ MaxReplies \in Nat /\ QueueSize \in Nat
                 /\ \A n \in 1..L : Datagrams[n] \in Nat
BY BoundsAssumption DEF L

\* The recursion of End has a solution, for every length.
Ends(f, m) == /\ f \in [0..m -> Nat] /\ f[0] = 0
              /\ \A n \in 1..m : f[n] = f[n - 1] + 2 + Datagrams[n]
LEMMA EndsExist == \E f : Ends(f, L)
<1> DEFINE Bad == {m \in 0..L : ~ \E f : Ends(f, m)}
<1>1. SUFFICES ASSUME Bad # {} PROVE FALSE
  BY Lengths
<1>2. PICK m \in Bad : \A k \in Bad : m <= k
  <2>1. Bad \in SUBSET Nat
    BY Lengths
  <2> HIDE DEF Bad
  <2> QED BY <1>1, <2>1, Least
<1>3. m \in 0..L /\ L \in Nat /\ ~ \E f : Ends(f, m)
  BY Lengths
<1>4. CASE m = 0
  <2>1. Ends([n \in 0..0 |-> 0], 0)
    BY DEF Ends
  <2> QED BY <1>3, <1>4, <2>1
<1>5. CASE m # 0
  <2>1. m - 1 \in 0..L /\ m - 1 \notin Bad /\ m - 1 \in Nat /\ m \in 1..L
    BY <1>2, <1>3, <1>5
  <2>2. PICK f : Ends(f, m - 1)
    BY <2>1
  <2>3. f[m - 1] \in Nat /\ Datagrams[m] \in Nat
    BY <2>1, <2>2, Lengths DEF Ends
  <2> DEFINE g == [n \in 0..m |-> IF n = m THEN f[m - 1] + 2 + Datagrams[m] ELSE f[n]]
  <2>4. g \in [0..m -> Nat] /\ g[0] = 0
    BY <1>3, <1>5, <2>1, <2>2, <2>3 DEF Ends
  <2>5. ASSUME NEW n \in 1..m PROVE g[n] = g[n - 1] + 2 + Datagrams[n]
    BY <1>3, <2>1, <2>2 DEF Ends
  <2> HIDE DEF g
  <2> QED BY <1>3, <2>4, <2>5 DEF Ends
<1> QED BY <1>4, <1>5

LEMMA EndValues ==
    /\ End \in [0..L -> Nat] /\ End[0] = 0
    /\ \A n \in 1..L : End[n] = End[n - 1] + 2 + Datagrams[n]
<1> DEFINE Solves(f) == f = [n \in 0..L |-> IF n = 0 THEN 0 ELSE f[n - 1] + 2 + Datagrams[n]]
<1>1. PICK f : Ends(f, L)
  BY EndsExist
<1>2. f = [n \in 0..L |-> f[n]]
  BY <1>1 DEF Ends
<1>3. \A n \in 0..L : f[n] = IF n = 0 THEN 0 ELSE f[n - 1] + 2 + Datagrams[n]
  BY <1>1, Lengths DEF Ends
<1>4. Solves(f)
  BY <1>2, <1>3
<1>5. End = CHOOSE g : Solves(g)
  BY DEF End, L
<1>6. Solves(End)
  BY <1>4, <1>5
<1>7. \A n \in 0..L : End[n] = IF n = 0 THEN 0 ELSE End[n - 1] + 2 + Datagrams[n]
  BY <1>6
<1>8. ASSUME NEW n \in 0..L, f[n] # End[n] PROVE FALSE
  <2> DEFINE Bad == {k \in 0..L : f[k] # End[k]}
  <2>1. PICK k \in Bad : \A j \in Bad : k <= j
    <3>1. Bad \in SUBSET Nat /\ Bad # {}
      BY <1>8, Lengths
    <3> QED BY <3>1, Least
  <2>2. k \in 0..L /\ L \in Nat /\ f[k] # End[k]
    BY Lengths
  <2>3. k # 0
    BY <2>2, <1>3, <1>7
  <2>4. k - 1 \in 0..L /\ k - 1 \notin Bad
    BY <2>1, <2>2, <2>3
  <2>5. f[k - 1] = End[k - 1]
    BY <2>4
  <2> QED BY <2>2, <2>3, <2>5, <1>3, <1>7
<1>9. DOMAIN End = 0..L /\ End = [n \in 0..L |-> End[n]]
  <2>1. DOMAIN [n \in 0..L |-> IF n = 0 THEN 0 ELSE End[n - 1] + 2 + Datagrams[n]] = 0..L
    OBVIOUS
  <2>2. End = [n \in 0..L |-> IF n = 0 THEN 0 ELSE End[n - 1] + 2 + Datagrams[n]]
    BY <1>6
  <2> QED BY <2>1, <2>2, <1>7
<1>10. End = f
  BY <1>2, <1>8, <1>9
<1> QED BY <1>1, <1>10 DEF Ends

LEMMA EndGrows == \A m, n \in 0..L : m <= n => End[m] + 2 * (n - m) <= End[n]
<1> SUFFICES ASSUME NEW m \in 0..L PROVE \A n \in 0..L : m <= n => End[m] + 2 * (n - m) <= End[n]
  OBVIOUS
<1> DEFINE Bad == {n \in 0..L : m <= n /\ ~(End[m] + 2 * (n - m) <= End[n])}
<1>1. SUFFICES ASSUME Bad # {} PROVE FALSE
  OBVIOUS
<1>2. PICK n \in Bad : \A k \in Bad : n <= k
  <2>1. Bad \in SUBSET Nat
    BY Lengths
  <2> HIDE DEF Bad
  <2> QED BY <1>1, <2>1, Least
<1>3. n \in 0..L /\ L \in Nat /\ m <= n /\ ~(End[m] + 2 * (n - m) <= End[n])
  BY Lengths
<1>4. End[m] \in Nat /\ End[n] \in Nat
  BY <1>3, EndValues
<1>5. n # m
  BY <1>3, <1>4
<1>6. n - 1 \in 0..L /\ m <= n - 1 /\ n \in 1..L
  BY <1>3, <1>5
<1>7. End[m] + 2 * (n - 1 - m) <= End[n - 1]
  BY <1>2, <1>3, <1>6
<1>8. End[n] = End[n - 1] + 2 + Datagrams[n] /\ End[n - 1] \in Nat /\ Datagrams[n] \in Nat
  BY <1>6, EndValues, Lengths
<1> QED BY <1>3, <1>4, <1>6, <1>7, <1>8

LEMMA PayloadIsNat == \A n \in 0..L : Payload(n) \in Nat /\ Payload(n) <= End[n]
<1> SUFFICES ASSUME NEW n \in 0..L PROVE Payload(n) \in Nat /\ Payload(n) <= End[n]
  OBVIOUS
<1>1. n \in Nat /\ 0 \in 0..L /\ End[n] \in Nat /\ End[0] = 0
  BY Lengths, EndValues
<1>2. End[0] + 2 * (n - 0) <= End[n]
  BY <1>1, EndGrows
<1> QED BY <1>1, <1>2 DEF Payload

LEMMA PayloadGrows == \A m, n \in 0..L : m <= n => Payload(m) <= Payload(n)
<1> SUFFICES ASSUME NEW m \in 0..L, NEW n \in 0..L, m <= n PROVE Payload(m) <= Payload(n)
  OBVIOUS
<1>1. m \in Nat /\ n \in Nat /\ End[m] \in Nat /\ End[n] \in Nat
  BY Lengths, EndValues
<1>2. End[m] + 2 * (n - m) <= End[n]
  BY EndGrows
<1> QED BY <1>1, <1>2 DEF Payload

LEMMA MaxTotalBounds == MaxTotal \in Nat /\ MaxUnits <= MaxTotal /\ End[L] <= MaxTotal
<1>1. MaxUnits \in Nat /\ End[L] \in Nat
  BY Lengths, EndValues
<1> DEFINE S == {MaxUnits, End[L]}
<1>2. S \in SUBSET Nat /\ S # {} /\ MaxUnits + End[L] \in Nat /\ \A x \in S : x <= MaxUnits + End[L]
  BY <1>1
<1>3. Max(S) \in S /\ \A x \in S : x <= Max(S)
  <2> HIDE DEF S
  <2> QED BY <1>2, MaxIsMax
<1>4. MaxTotal = Max(S)
  BY DEF MaxTotal, L
<1> QED BY <1>1, <1>3, <1>4

LEMMA WholeIs ==
    ASSUME NEW r \in Nat
    PROVE  /\ Whole(r) \in 0..L /\ End[Whole(r)] <= r
           /\ \A k \in 0..L : End[k] <= r => k <= Whole(r)
<1> DEFINE S == {k \in 0..L : End[k] <= r}
<1>1. 0 \in S /\ S \in SUBSET Nat /\ L \in Nat /\ \A x \in S : x <= L
  BY Lengths, EndValues
<1>2. Max(S) \in S /\ \A x \in S : x <= Max(S)
  <2> HIDE DEF S
  <2> QED BY <1>1, MaxIsMax
<1>3. Whole(r) = Max(S)
  BY DEF Whole, L
<1> QED BY <1>2, <1>3

LEMMA WholeOfNone == Whole(0) = 0
<1>1. Whole(0) \in 0..L /\ End[Whole(0)] <= 0 /\ L \in Nat /\ 0 \in 0..L
  BY WholeIs, Lengths
<1>2. End[0] + 2 * (Whole(0) - 0) <= End[Whole(0)]
  BY <1>1, EndGrows
<1> QED BY <1>1, <1>2, EndValues

(***************************************************************************)
(* Frames that wait: one more at the end, or the first one taken.          *)
(***************************************************************************)
LEMMA OrderOfNone ==
    ASSUME NEW a \in Nat, NEW b \in Nat, NEW q, q = <<>>, InOrder(q, a, b)
    PROVE  a = b
BY DEF InOrder

LEMMA OrderOfNothing == InOrder(<<>>, 0, 0)
<1> DEFINE c == [i \in 0..0 |-> 0]
<1>1. c \in [0..Len(<<>>) -> 0..0] /\ c[0] = 0 /\ c[Len(<<>>)] = 0
  OBVIOUS
<1>2. \A i \in 1..Len(<<>>) : c[i] = c[i - 1] + <<>>[i]
  OBVIOUS
<1> QED BY <1>1, <1>2 DEF InOrder

LEMMA OrderOfOne == ASSUME NEW n \in Nat PROVE InOrder(<<n>>, 0, n)
<1> DEFINE c == [i \in 0..1 |-> IF i = 0 THEN 0 ELSE n]
<1>1. Len(<<n>>) = 1 /\ <<n>>[1] = n
  OBVIOUS
<1>2. c \in [0..Len(<<n>>) -> 0..n] /\ c[0] = 0 /\ c[Len(<<n>>)] = n
  BY <1>1
<1>3. \A i \in 1..Len(<<n>>) : c[i] = c[i - 1] + <<n>>[i]
  BY <1>1
<1> QED BY <1>2, <1>3 DEF InOrder

LEMMA OrderWithOneMore ==
    ASSUME NEW q \in Seq(Nat), NEW a \in Nat, NEW b \in Nat, NEW n \in Nat, InOrder(q, a, b)
    PROVE  InOrder(Append(q, n), a, b + n)
<1>1. PICK c \in [0..Len(q) -> 0..b] : /\ c[0] = a /\ c[Len(q)] = b
                                       /\ \A i \in 1..Len(q) : c[i] = c[i - 1] + q[i]
  BY DEF InOrder
<1> DEFINE k == Len(q)
           d == [i \in 0..(k + 1) |-> IF i <= k THEN c[i] ELSE b + n]
           r == Append(q, n)
<1>2. k \in Nat /\ Len(r) = k + 1 /\ r[k + 1] = n /\ \A i \in 1..k : r[i] = q[i]
  OBVIOUS
<1>3. \A i \in 0..k : c[i] \in 0..b /\ c[i] \in 0..(b + n)
  BY <1>1
<1>4. d \in [0..Len(r) -> 0..(b + n)]
  <2> HIDE DEF r
  <2> QED BY <1>2, <1>3
<1>5. d[0] = a /\ d[Len(r)] = b + n
  <2> HIDE DEF r
  <2> QED BY <1>1, <1>2
<1>6. ASSUME NEW i \in 1..Len(r) PROVE d[i] = d[i - 1] + r[i]
  <2>1. i \in 1..k \/ i = k + 1
    BY <1>2
  <2>2. CASE i \in 1..k
    BY <1>1, <1>2, <1>3, <2>2
  <2>3. CASE i = k + 1
    BY <1>1, <1>2, <1>3, <2>3
  <2> QED BY <2>1, <2>2, <2>3
<1> HIDE DEF d, r
<1>7. InOrder(r, a, b + n)
  BY <1>4, <1>5, <1>6 DEF InOrder
<1> QED BY <1>7 DEF r

LEMMA OrderWithoutFirst ==
    ASSUME NEW q \in Seq(Nat), q # <<>>, NEW a \in Nat, NEW b \in Nat, InOrder(q, a, b)
    PROVE  a + Head(q) <= b /\ InOrder(Tail(q), a + Head(q), b)
<1>1. PICK c \in [0..Len(q) -> 0..b] : /\ c[0] = a /\ c[Len(q)] = b
                                       /\ \A i \in 1..Len(q) : c[i] = c[i - 1] + q[i]
  BY DEF InOrder
<1> DEFINE k == Len(q)
           d == [i \in 0..(k - 1) |-> c[i + 1]]
           r == Tail(q)
<1>2. k \in Nat /\ k >= 1 /\ Len(r) = k - 1 /\ Head(q) = q[1] /\ \A i \in 1..(k - 1) : r[i] = q[i + 1]
  OBVIOUS
<1>3. c[1] = a + q[1] /\ c[1] \in 0..b
  <2>1. k \in Nat /\ k >= 1
    BY <1>2
  <2> HIDE DEF k
  <2>2. 1 \in 1..k /\ 1 \in 0..k /\ 1 - 1 = 0
    BY <2>1
  <2> QED BY <1>1, <2>2 DEF k
<1>4. \A i \in 0..(k - 1) : i + 1 \in 0..k /\ c[i + 1] \in 0..b
  <2>1. k \in Nat /\ c \in [0..k -> 0..b]
    BY <1>1, <1>2
  <2> HIDE DEF k
  <2> QED BY <2>1
<1>5. d \in [0..Len(r) -> 0..b] /\ d[0] = a + Head(q) /\ d[Len(r)] = b
  <2> HIDE DEF r
  <2> QED BY <1>1, <1>2, <1>3, <1>4
<1>6. ASSUME NEW i \in 1..Len(r) PROVE d[i] = d[i - 1] + r[i]
  <2> HIDE DEF r
  <2>1. i \in 1..(k - 1) /\ i - 1 \in 0..(k - 1) /\ i \in 0..(k - 1) /\ i + 1 \in 1..k
    BY <1>2
  <2>2. d[i] = c[i + 1] /\ d[i - 1] = c[i]
    BY <2>1
  <2>3. c[i + 1] = c[i] + q[i + 1]
    BY <1>1, <2>1
  <2> QED BY <1>2, <2>1, <2>2, <2>3
<1> HIDE DEF d, r
<1>7. InOrder(r, a + Head(q), b)
  BY <1>5, <1>6 DEF InOrder
<1> QED BY <1>2, <1>3, <1>7 DEF r

LEMMA Sizes == /\ FrameSizes \cup {0} \subseteq Nat /\ Seq(FrameSizes \cup {0}) \subseteq Seq(Nat)
               /\ Limits \subseteq Nat /\ MaxHeld \in Nat /\ MaxWait \in Nat /\ FlushAt \in Nat
               /\ MaxFrames \in Nat /\ MaxFrames >= 1 /\ MaxAddrs \in Nat
<1>1. FrameSizes \cup {0} \subseteq Nat
  BY BoundsAssumption
<1>2. ASSUME NEW q \in Seq(FrameSizes \cup {0}) PROVE q \in Seq(Nat)
  <2>1. \A i \in 1..Len(q) : q[i] \in FrameSizes \cup {0}
    OBVIOUS
  <2>2. \A i \in 1..Len(q) : q[i] \in Nat
    BY <1>1, <2>1
  <2>3. q = [i \in 1..Len(q) |-> q[i]] /\ Len(q) \in Nat
    OBVIOUS
  <2> QED BY <2>2, <2>3
<1> QED BY <1>1, <1>2, BoundsAssumption

LEMMA TotalIs == cmd \in {"tcp", "udp"} =>
    Total \in Nat /\ Total <= MaxTotal /\ (cmd = "udp" => Total = End[L]) /\ (cmd = "tcp" => Total = MaxUnits)
BY MaxTotalBounds, EndValues, Lengths DEF Total, L

\* What add_up and add_down leave: the counters moved, and told in full or not at all.
LEMMA CountIs ==
    ASSUME TypeOK, NEW u \in Nat, NEW d \in Nat,
           counted.up + u <= MaxTotal, counted.down + d <= MaxReplies, Count([up |-> u, down |-> d])
    PROVE  /\ counted' \in Counts /\ reported' \in Counts /\ idle' = 0 /\ quiet' = 0
           /\ counted'.up = counted.up + u /\ counted'.down = counted.down + d
<1> DEFINE more == [up |-> u, down |-> d]
<1>1. counted \in [up : 0..MaxTotal, down : 0..MaxReplies] /\ reported \in Counts
  BY DEF TypeOK, Counts
<1>2. more.up = u /\ more.down = d
  OBVIOUS
<1>3. counted' = [counted EXCEPT !.up = counted.up + u, !.down = counted.down + d]
  BY <1>2 DEF Count
<1>4. /\ counted'.up = counted.up + u /\ counted'.down = counted.down + d
      /\ counted' = [up |-> counted.up + u, down |-> counted.down + d]
  BY <1>1, <1>3
<1>5. counted.up + u \in 0..MaxTotal /\ counted.down + d \in 0..MaxReplies
  BY <1>1, MaxTotalBounds, Lengths
<1>6. counted' \in Counts
  BY <1>4, <1>5 DEF Counts
<1>7. reported' \in {counted', reported} /\ idle' = 0 /\ quiet' = 0
  BY DEF Count
<1> QED BY <1>1, <1>4, <1>6, <1>7

\* Close: a reply that was being sent may have gone out.
LEMMA CloseIs ==
    ASSUME IInv, NEW w, at = "relay", Close(w)
    PROVE  /\ counted' = counted /\ delivered' \in 0..replied
           /\ delivered' - counted'.down \in (IF down = "send" THEN {0, 1} ELSE {0})
           /\ cmd = "tcp" /\ ~cut /\ client # "left" /\ wire = 0 /\ down # "send" => delivered' = replied
<1> USE DEF Close, meter
<1>0. /\ delivered \in Nat /\ wire \in Nat /\ replied \in 0..MaxReplies /\ counted.down = delivered
      /\ delivered + wire + (IF down = "send" THEN 1 ELSE 0) <= replied
      /\ (cmd = "tcp" /\ ~cut /\ client # "left" => delivered + wire + (IF down = "send" THEN 1 ELSE 0) = replied)
  BY Lengths DEF IInv, TypeOK, ReplyInv, Live
<1>1. CASE delivered' = delivered
  BY <1>0, <1>1, Lengths
<1>2. CASE down = "send" /\ delivered' = delivered + 1
  BY <1>0, <1>2, Lengths
<1> QED BY <1>1, <1>2

(***************************************************************************)
(* Each action keeps the invariant.                                        *)
(***************************************************************************)
LEMMA ClientGoesKeeps == ASSUME IInv, Live, ClientGoes PROVE IInv'
<1> USE DEF ClientGoes, setup, clock, meter
<1>1. TypeOK'
  BY Sizes, Lengths DEF IInv, TypeOK, PhaseInv, ReplyInv
<1>2. PhaseInv'
  BY DEF IInv, PhaseInv, TypeOK, Live
<1>3. StreamInv'
  BY DEF IInv, StreamInv, Total
<1>4. ReplyInv'
  BY Sizes, Lengths DEF IInv, ReplyInv, TypeOK, PhaseInv, Live
<1>5. DoneInv'
  BY Sizes, Lengths DEF IInv, DoneInv, TypeOK, PhaseInv, AllRead, TooMuch, Overrun
<1>6. WhyInv'
  BY Sizes, Lengths DEF IInv, WhyInv, PhaseInv, AllRead, TooMuch, Overrun, Live
<1>7. ClockInv'
  BY Sizes, Lengths DEF IInv, ClockInv, TypeOK, PhaseInv
<1> QED BY <1>1, <1>2, <1>3, <1>4, <1>5, <1>6, <1>7 DEF IInv

LEMMA UpstreamRepliesKeeps == ASSUME IInv, Live, UpstreamReplies PROVE IInv'
<1> USE DEF UpstreamReplies, setup, clock, meter
<1>1. TypeOK'
  BY Sizes, Lengths DEF IInv, TypeOK, PhaseInv, ReplyInv
<1>2. PhaseInv'
  BY DEF IInv, PhaseInv, TypeOK, Live
<1>3. StreamInv'
  BY DEF IInv, StreamInv, Total
<1>4. ReplyInv'
  BY Sizes, Lengths DEF IInv, ReplyInv, TypeOK, PhaseInv, Live
<1>5. DoneInv'
  BY Sizes, Lengths DEF IInv, DoneInv, TypeOK, PhaseInv, AllRead, TooMuch, Overrun
<1>6. WhyInv'
  BY Sizes, Lengths DEF IInv, WhyInv, PhaseInv, AllRead, TooMuch, Overrun, Live
<1>7. ClockInv'
  BY Sizes, Lengths DEF IInv, ClockInv, TypeOK, PhaseInv
<1> QED BY <1>1, <1>2, <1>3, <1>4, <1>5, <1>6, <1>7 DEF IInv

LEMMA UpstreamEndsKeeps == ASSUME IInv, Live, UpstreamEnds PROVE IInv'
<1> USE DEF UpstreamEnds, setup, peers, clock, meter
<1>1. TypeOK'
  BY Sizes, Lengths DEF IInv, TypeOK, PhaseInv, ReplyInv
<1>2. PhaseInv'
  BY DEF IInv, PhaseInv, TypeOK, Live
<1>3. StreamInv'
  BY DEF IInv, StreamInv, Total
<1>4. ReplyInv'
  BY Sizes, Lengths DEF IInv, ReplyInv, TypeOK, PhaseInv, Live
<1>5. DoneInv'
  BY Sizes, Lengths DEF IInv, DoneInv, TypeOK, PhaseInv, AllRead, TooMuch, Overrun
<1>6. WhyInv'
  BY Sizes, Lengths DEF IInv, WhyInv, PhaseInv, AllRead, TooMuch, Overrun, Live
<1>7. ClockInv'
  BY Sizes, Lengths DEF IInv, ClockInv, TypeOK, PhaseInv
<1> QED BY <1>1, <1>2, <1>3, <1>4, <1>5, <1>6, <1>7 DEF IInv

LEMMA UpstreamResetsKeeps == ASSUME IInv, Live, UpstreamResets PROVE IInv'
<1> USE DEF UpstreamResets, setup, clock, meter
<1>1. TypeOK'
  BY Sizes, Lengths DEF IInv, TypeOK, PhaseInv, ReplyInv
<1>2. PhaseInv'
  BY DEF IInv, PhaseInv, TypeOK, Live
<1>3. StreamInv'
  BY DEF IInv, StreamInv, Total
<1>4. ReplyInv'
  BY Sizes, Lengths DEF IInv, ReplyInv, TypeOK, PhaseInv, Live
<1>5. DoneInv'
  BY Sizes, Lengths DEF IInv, DoneInv, TypeOK, PhaseInv, AllRead, TooMuch, Overrun
<1>6. WhyInv'
  BY Sizes, Lengths DEF IInv, WhyInv, PhaseInv, AllRead, TooMuch, Overrun, Live
<1>7. ClockInv'
  BY Sizes, Lengths DEF IInv, ClockInv, TypeOK, PhaseInv
<1> QED BY <1>1, <1>2, <1>3, <1>4, <1>5, <1>6, <1>7 DEF IInv

LEMMA CutKeeps == ASSUME IInv, Live, Cut PROVE IInv'
<1> USE DEF Cut, setup, clock, meter
<1>1. TypeOK'
  BY Sizes, Lengths DEF IInv, TypeOK, PhaseInv, ReplyInv
<1>2. PhaseInv'
  BY DEF IInv, PhaseInv, TypeOK, Live
<1>3. StreamInv'
  BY DEF IInv, StreamInv, Total
<1>4. ReplyInv'
  BY Sizes, Lengths DEF IInv, ReplyInv, TypeOK, PhaseInv, Live
<1>5. DoneInv'
  BY Sizes, Lengths DEF IInv, DoneInv, TypeOK, PhaseInv, AllRead, TooMuch, Overrun
<1>6. WhyInv'
  BY Sizes, Lengths DEF IInv, WhyInv, PhaseInv, AllRead, TooMuch, Overrun, Live
<1>7. ClockInv'
  BY Sizes, Lengths DEF IInv, ClockInv, TypeOK, PhaseInv
<1> QED BY <1>1, <1>2, <1>3, <1>4, <1>5, <1>6, <1>7 DEF IInv

LEMMA ResolveKeeps == ASSUME IInv, Resolve PROVE IInv'
<1> USE DEF Resolve, Over, setup, peers, clock, meter
<1>1. TypeOK'
  BY Sizes, Lengths DEF IInv, TypeOK, PhaseInv, ReplyInv, Whys
<1>2. PhaseInv'
  BY DEF IInv, PhaseInv, TypeOK, Live
<1>3. StreamInv'
  BY DEF IInv, StreamInv, Total
<1>4. ReplyInv'
  BY Sizes, Lengths DEF IInv, ReplyInv, TypeOK, PhaseInv, Live
<1>5. DoneInv'
  BY Sizes, Lengths DEF IInv, DoneInv, TypeOK, PhaseInv, AllRead, TooMuch, Overrun
<1>6. WhyInv'
  BY Sizes, Lengths DEF IInv, WhyInv, PhaseInv, AllRead, TooMuch, Overrun, Live, ReplyInv
<1>7. ClockInv'
  BY Sizes, Lengths DEF IInv, ClockInv, TypeOK, PhaseInv
<1> QED BY <1>1, <1>2, <1>3, <1>4, <1>5, <1>6, <1>7 DEF IInv

LEMMA DialKeeps == ASSUME IInv, Dial PROVE IInv'
<1> USE DEF Dial, Over, setup, peers, clock, meter
<1>1. TypeOK'
  BY Sizes, Lengths DEF IInv, TypeOK, PhaseInv, ReplyInv, Whys
<1>2. PhaseInv'
  BY DEF IInv, PhaseInv, TypeOK, Live
<1>3. StreamInv'
  BY DEF IInv, StreamInv, Total
<1>4. ReplyInv'
  BY Sizes, Lengths DEF IInv, ReplyInv, TypeOK, PhaseInv, Live
<1>5. DoneInv'
  BY Sizes, Lengths DEF IInv, DoneInv, TypeOK, PhaseInv, AllRead, TooMuch, Overrun
<1>6. WhyInv'
  BY Sizes, Lengths DEF IInv, WhyInv, PhaseInv, AllRead, TooMuch, Overrun, Live, ReplyInv
<1>7. ClockInv'
  BY Sizes, Lengths DEF IInv, ClockInv, TypeOK, PhaseInv
<1> QED BY <1>1, <1>2, <1>3, <1>4, <1>5, <1>6, <1>7 DEF IInv

LEMMA AnswerKeeps == ASSUME IInv, Answer PROVE IInv'
<1> USE DEF Answer, Over, setup, peers, clock, meter
<1>1. TypeOK'
  <2>1. idle' \in Nat /\ quiet' \in Nat /\ timer' \in Nat
    <3>1. limit \in Nat /\ idle \in Nat /\ quiet \in Nat /\ timer \in Nat /\ 0..MaxWait \subseteq Nat
      BY Sizes DEF IInv, TypeOK
    <3>2. \/ UNCHANGED <<idle, quiet, timer>>
          \/ timer' = limit /\ idle' \in 0..MaxWait /\ quiet' = 0
      OBVIOUS
    <3> QED BY <3>1, <3>2
  <2>2. at' \in {"over", "relay"} /\ greeted' \in BOOLEAN /\ why' \in Whys
    BY DEF IInv, TypeOK, Whys
  <2> QED BY <2>1, <2>2 DEF IInv, TypeOK
<1>2. PhaseInv'
  BY DEF IInv, PhaseInv, TypeOK, Live
<1>3. StreamInv'
  BY DEF IInv, StreamInv, Total
<1>4. ReplyInv'
  BY Sizes, Lengths DEF IInv, ReplyInv, TypeOK, PhaseInv, Live
<1>5. DoneInv'
  BY Sizes, Lengths DEF IInv, DoneInv, TypeOK, PhaseInv, AllRead, TooMuch, Overrun
<1>6. WhyInv'
  BY Sizes, Lengths DEF IInv, WhyInv, PhaseInv, AllRead, TooMuch, Overrun, Live, ReplyInv
<1>7. ClockInv'
  BY Sizes, Lengths DEF IInv, ClockInv, TypeOK, PhaseInv, Live
<1> QED BY <1>1, <1>2, <1>3, <1>4, <1>5, <1>6, <1>7 DEF IInv

LEMMA UpDrainedKeeps == ASSUME IInv, UpDrained PROVE IInv'
<1> USE DEF UpDrained, setup, peers, clock, meter
<1>1. TypeOK'
  BY Sizes, Lengths DEF IInv, TypeOK, PhaseInv, ReplyInv
<1>2. PhaseInv'
  BY DEF IInv, PhaseInv, TypeOK, Live
<1>3. StreamInv'
  BY DEF IInv, StreamInv, Total, TypeOK, PhaseInv
<1>4. ReplyInv'
  BY Sizes, Lengths DEF IInv, ReplyInv, TypeOK, PhaseInv, Live
<1>5. DoneInv'
  BY Sizes, Lengths DEF IInv, DoneInv, TypeOK, PhaseInv, AllRead, TooMuch, Overrun
<1>6. WhyInv'
  BY Sizes, Lengths DEF IInv, WhyInv, PhaseInv, AllRead, TooMuch, Overrun, Live
<1>7. ClockInv'
  BY Sizes, Lengths DEF IInv, ClockInv, TypeOK, PhaseInv
<1> QED BY <1>1, <1>2, <1>3, <1>4, <1>5, <1>6, <1>7 DEF IInv

LEMMA UpEndsKeeps == ASSUME IInv, UpEnds PROVE IInv'
<1> USE DEF UpEnds, setup, peers, clock, meter
<1>1. TypeOK'
  BY Sizes, Lengths DEF IInv, TypeOK, PhaseInv, ReplyInv
<1>2. PhaseInv'
  BY DEF IInv, PhaseInv, TypeOK, Live
<1>3. StreamInv'
  BY DEF IInv, StreamInv, Total
<1>4. ReplyInv'
  BY Sizes, Lengths DEF IInv, ReplyInv, TypeOK, PhaseInv, Live
<1>5. DoneInv'
  BY Sizes, Lengths DEF IInv, DoneInv, TypeOK, PhaseInv, AllRead, TooMuch, Overrun, StreamInv
<1>6. WhyInv'
  BY Sizes, Lengths DEF IInv, WhyInv, PhaseInv, AllRead, TooMuch, Overrun, Live
<1>7. ClockInv'
  BY Sizes, Lengths DEF IInv, ClockInv, TypeOK, PhaseInv
<1> QED BY <1>1, <1>2, <1>3, <1>4, <1>5, <1>6, <1>7 DEF IInv

LEMMA DownReadsKeeps == ASSUME IInv, DownReads PROVE IInv'
<1> USE DEF DownReads, setup, peers, clock, meter
<1>0. /\ delivered \in Nat /\ wire \in Nat /\ replied \in 0..MaxReplies /\ counted.down = delivered
      /\ delivered + wire + (IF down = "send" THEN 1 ELSE 0) <= replied
      /\ (cmd = "tcp" /\ ~cut /\ client # "left" => delivered + wire + (IF down = "send" THEN 1 ELSE 0) = replied)
  BY Lengths DEF IInv, TypeOK, ReplyInv, Live
<1>1. TypeOK'
  BY Sizes, Lengths DEF IInv, TypeOK, PhaseInv, ReplyInv
<1>2. PhaseInv'
  BY DEF IInv, PhaseInv, TypeOK, Live
<1>3. StreamInv'
  BY DEF IInv, StreamInv, Total
<1>4. ReplyInv'
  BY <1>0, Lengths DEF IInv, ReplyInv, TypeOK, PhaseInv, Live
<1>5. DoneInv'
  BY Sizes, Lengths DEF IInv, DoneInv, TypeOK, PhaseInv, AllRead, TooMuch, Overrun
<1>6. WhyInv'
  BY Sizes, Lengths DEF IInv, WhyInv, PhaseInv, AllRead, TooMuch, Overrun, Live
<1>7. ClockInv'
  BY Sizes, Lengths DEF IInv, ClockInv, TypeOK, PhaseInv
<1> QED BY <1>1, <1>2, <1>3, <1>4, <1>5, <1>6, <1>7 DEF IInv

LEMMA DownSentKeeps == ASSUME IInv, DownSent PROVE IInv'
<1> USE DEF DownSent, setup, peers, meter
<1>0. /\ delivered \in Nat /\ wire \in Nat /\ replied \in 0..MaxReplies /\ counted.down = delivered
      /\ delivered + wire + (IF down = "send" THEN 1 ELSE 0) <= replied
      /\ (cmd = "tcp" /\ ~cut /\ client # "left" => delivered + wire + (IF down = "send" THEN 1 ELSE 0) = replied)
  BY Lengths DEF IInv, TypeOK, ReplyInv, Live
<1>1. CASE client = "left" \/ cut
  <2> USE <1>1
  <2>1. TypeOK' /\ PhaseInv'
    BY DEF IInv, TypeOK, PhaseInv, Live
  <2>2. StreamInv' /\ ReplyInv' /\ WhyInv'
    BY <1>0 DEF IInv, StreamInv, Total, ReplyInv, WhyInv, Live
  <2>3. DoneInv' /\ ClockInv'
    BY DEF IInv, DoneInv, ClockInv, AllRead, TooMuch, Overrun
  <2> QED BY <2>1, <2>2, <2>3 DEF IInv
<1>2. CASE client # "left" /\ ~cut
  <2> USE <1>2
  <2>0. Count([up |-> 0, down |-> 1]) /\ TypeOK /\ delivered' = delivered + 1 /\ down = "send"
    BY DEF IInv
  <2>1. counted.up + 0 <= MaxTotal /\ counted.up + 0 = counted.up /\ counted.down + 1 <= MaxReplies
    <3>1. counted.up \in 0..MaxTotal
      BY <2>0 DEF TypeOK, Counts
    <3> QED BY <3>1, <1>0, <2>0, MaxTotalBounds, Lengths
  <2>2. /\ counted' \in Counts /\ reported' \in Counts /\ idle' = 0 /\ quiet' = 0
        /\ counted'.up = counted.up /\ counted'.down = counted.down + 1
    BY <2>0, <2>1, CountIs
  <2>3. TypeOK'
    BY <1>0, <2>0, <2>2, Lengths DEF IInv, TypeOK
  <2>4. PhaseInv'
    BY DEF IInv, PhaseInv, Live
  <2>5. StreamInv' /\ ReplyInv' /\ WhyInv'
    BY <1>0, <2>0, <2>2 DEF IInv, StreamInv, Total, ReplyInv, WhyInv, Live
  <2>6. DoneInv'
    BY DEF IInv, DoneInv, AllRead, TooMuch, Overrun
  <2>7. ClockInv'
    <3>1. limit \in Nat /\ timer \in Nat /\ quiet \in Nat
      BY Sizes DEF IInv, TypeOK
    <3> QED BY <2>2, <3>1 DEF IInv, ClockInv, PhaseInv, Live
  <2> QED BY <2>3, <2>4, <2>5, <2>6, <2>7 DEF IInv
<1> QED BY <1>1, <1>2

LEMMA TimerFiresKeeps == ASSUME IInv, TimerFires PROVE IInv'
<1>1. CASE idle < limit
  <2> USE <1>1 DEF TimerFires, setup, peers, meter
  <2>0. limit \in Nat /\ idle \in Nat /\ quiet \in Nat /\ at = "relay" /\ timer = 0 /\ limit > 0
    BY Sizes DEF IInv, TypeOK
  <2>1. TypeOK'
    BY <2>0 DEF IInv, TypeOK
  <2>2. PhaseInv'
    BY <2>0 DEF IInv, PhaseInv, Live
  <2>3. StreamInv' /\ ReplyInv' /\ DoneInv' /\ WhyInv'
    BY <2>0 DEF IInv, StreamInv, Total, ReplyInv, DoneInv, WhyInv, AllRead, TooMuch, Overrun, Live
  <2>4. ClockInv'
    BY <2>0 DEF IInv, ClockInv, PhaseInv, Live
  <2> QED BY <2>1, <2>2, <2>3, <2>4 DEF IInv
<1>2. CASE idle >= limit
  <2>0. at = "relay" /\ Close("idle") /\ UNCHANGED clock /\ "done" \notin {up, down}
    BY <1>2, Sizes DEF TimerFires, IInv, TypeOK
  <2>1. /\ counted' = counted /\ delivered' \in 0..replied
        /\ delivered' - counted'.down \in (IF down = "send" THEN {0, 1} ELSE {0})
    BY <2>0, CloseIs
  <2> USE DEF Close, setup, peers, meter, clock
  <2>2. TypeOK'
    BY <2>0, <2>1, Lengths DEF IInv, TypeOK, Whys
  <2>3. PhaseInv'
    BY <2>0 DEF IInv, PhaseInv, TypeOK, Live
  <2>4. StreamInv' /\ ReplyInv' /\ DoneInv'
    BY <2>0 DEF IInv, StreamInv, Total, ReplyInv, DoneInv, Live
  <2>5. WhyInv'
    BY <2>0, <2>1 DEF WhyInv, Live
  <2>6. ClockInv'
    <3>1. limit > 0 /\ timer = 0 /\ {limit, idle, quiet} \subseteq Nat
      BY Sizes DEF TimerFires, IInv, TypeOK
    <3> QED BY <1>2, <2>0, <3>1 DEF IInv, ClockInv
  <2> QED BY <2>2, <2>3, <2>4, <2>5, <2>6 DEF IInv
<1>3. limit \in Nat /\ idle \in Nat
  BY Sizes DEF IInv, TypeOK
<1> QED BY <1>1, <1>2, <1>3

LEMMA TickKeeps == ASSUME IInv, Tick PROVE IInv'
<1> USE DEF Tick, setup, peers, meter
<1>1. TypeOK'
  BY Sizes, Lengths DEF IInv, TypeOK, PhaseInv, ReplyInv
<1>2. PhaseInv'
  BY DEF IInv, PhaseInv, TypeOK, Live
<1>3. StreamInv'
  BY DEF IInv, StreamInv, Total
<1>4. ReplyInv'
  BY Sizes, Lengths DEF IInv, ReplyInv, TypeOK, PhaseInv, Live
<1>5. DoneInv'
  BY Sizes, Lengths DEF IInv, DoneInv, TypeOK, PhaseInv, AllRead, TooMuch, Overrun
<1>6. WhyInv'
  BY Sizes, Lengths DEF IInv, WhyInv, PhaseInv, AllRead, TooMuch, Overrun, Live
<1>7. ClockInv'
  <2>1. {limit, idle, quiet, timer} \subseteq Nat
    BY Sizes DEF IInv, TypeOK
  <2> QED BY <2>1 DEF IInv, ClockInv, PhaseInv, Live
<1> QED BY <1>1, <1>2, <1>3, <1>4, <1>5, <1>6, <1>7 DEF IInv

LEMMA FinishKeeps == ASSUME IInv, Finish PROVE IInv'
<1> USE DEF Finish, setup, peers, clock
<1>1. TypeOK'
  BY Sizes, Lengths DEF IInv, TypeOK, PhaseInv, ReplyInv
<1>2. PhaseInv'
  BY DEF IInv, PhaseInv, TypeOK, Live
<1>3. StreamInv'
  BY DEF IInv, StreamInv, Total
<1>4. ReplyInv'
  BY Sizes, Lengths DEF IInv, ReplyInv, TypeOK, PhaseInv, Live
<1>5. DoneInv'
  BY Sizes, Lengths DEF IInv, DoneInv, TypeOK, PhaseInv, AllRead, TooMuch, Overrun
<1>6. WhyInv'
  BY Sizes, Lengths DEF IInv, WhyInv, PhaseInv, AllRead, TooMuch, Overrun, Live
<1>7. ClockInv'
  BY Sizes, Lengths DEF IInv, ClockInv, TypeOK, PhaseInv
<1> QED BY <1>1, <1>2, <1>3, <1>4, <1>5, <1>6, <1>7 DEF IInv

\* What the pump holds of a datagram that is not complete is less than all of it, and
\* there is none after the last.
LEMMA TailFits ==
    ASSUME IInv, cmd = "udp", packets = Whole(read), NEW n \in Nat, read + n <= sent,
           read + n - End[packets] > MaxHeld
    PROVE  read - End[packets] \in 0..(Datagrams[packets + 1] + 1)
<1>0. /\ read \in Nat /\ sent \in Nat /\ packets \in 0..L /\ sent <= End[L] /\ End[packets] <= read
  BY EndValues, MaxTotalBounds, TotalIs DEF IInv, TypeOK, StreamInv, L
<1>1. End[packets] \in Nat /\ End[L] \in Nat
  BY <1>0, EndValues, Lengths
<1>2. packets # L
  BY <1>0, <1>1, Sizes
<1>3. packets + 1 \in 1..L /\ packets + 1 \in 0..L /\ ~(packets + 1 <= packets) /\ (packets + 1) - 1 = packets
  BY <1>0, <1>2, Lengths
<1>4. ~(End[packets + 1] <= read)
  BY <1>0, <1>3, WholeIs
<1>5. End[packets + 1] = End[packets] + 2 + Datagrams[packets + 1] /\ Datagrams[packets + 1] \in Nat
  BY <1>3, EndValues, Lengths
<1> QED BY <1>0, <1>1, <1>4, <1>5

LEMMA PumpEndsKeeps == ASSUME IInv, PumpEnds PROVE IInv'
<1> DEFINE w == IF up # "done" THEN "down"
                ELSE IF cmd = "udp" /\ read - End[packets] > MaxHeld THEN "overrun" ELSE "up"
<1>0. at = "relay" /\ Close(w) /\ UNCHANGED clock /\ "done" \in {up, down}
  BY DEF PumpEnds
<1>8. w \in {"up", "down", "overrun"}
  OBVIOUS
<1>9. /\ counted' = counted /\ delivered' \in 0..replied
      /\ delivered' - counted'.down \in (IF down = "send" THEN {0, 1} ELSE {0})
      /\ cmd = "tcp" /\ ~cut /\ client # "left" /\ wire = 0 /\ down # "send" => delivered' = replied
  BY <1>0, CloseIs
<1> HIDE DEF w
<1> USE DEF Close, setup, peers, clock, meter
<1>1. TypeOK'
  BY <1>0, <1>8, <1>9, Sizes, Lengths DEF IInv, TypeOK, Whys
<1>2. PhaseInv'
  BY <1>0, <1>8 DEF IInv, PhaseInv, TypeOK, Live
<1>3. StreamInv'
  BY <1>0, <1>8 DEF IInv, StreamInv, Total
<1>4. ReplyInv'
  BY <1>0, <1>8, Sizes, Lengths DEF IInv, ReplyInv, TypeOK, PhaseInv, Live
<1>5. DoneInv'
  BY <1>0, <1>8, Sizes, Lengths DEF IInv, DoneInv, TypeOK, PhaseInv, AllRead, TooMuch, Overrun
<1>6. WhyInv'
  <2>0. /\ read \in Nat /\ packets \in 0..L /\ End[packets] \in Nat /\ cmd \in {"tcp", "udp"}
        /\ UNCHANGED <<read, packets, inbox, client, broken, cut, cmd>> /\ why' = w
    <3>1. read \in Nat /\ packets \in 0..L /\ cmd \in {"tcp", "udp"}
      BY DEF IInv, TypeOK, L
    <3>2. UNCHANGED <<read, packets, inbox, client, broken, cut, cmd>> /\ why' = w
      BY <1>0
    <3> QED BY <3>1, <3>2, EndValues
  <2>1. TooMuch' = TooMuch /\ AllRead' = AllRead
    BY <2>0 DEF TooMuch, AllRead, Overrun
  <2>2. TooMuch => cmd = "udp" /\ read - End[packets] > MaxHeld
    <3> SUFFICES ASSUME NEW n \in FrameSizes \cup {0}, Overrun(n) PROVE read - End[packets] > MaxHeld
      BY DEF TooMuch
    <3>1. n \in Nat /\ MaxHeld \in Nat /\ n + (read - n - End[packets]) > MaxHeld
      BY Sizes DEF Overrun
    <3> QED BY <3>1, <2>0
  <2>3. w = "up" /\ ~broken => AllRead
    BY <1>0, <2>2 DEF w, IInv, DoneInv
  <2>4. w = "overrun" => TooMuch
    <3> SUFFICES ASSUME w = "overrun", ~TooMuch PROVE FALSE
      OBVIOUS
    <3>1. cmd = "udp" /\ read - End[packets] > MaxHeld /\ up = "done" /\ ~broken
      BY DEF w, IInv, PhaseInv
    <3>2. packets = Whole(read)
      BY <1>0, <3>1 DEF IInv, DoneInv, AllRead
    <3>3. read + 0 = read /\ read - 0 = read /\ read <= sent /\ 0 \in Nat
      BY <2>0 DEF IInv, TypeOK
    <3>4. read - 0 - End[packets] \in 0..(Datagrams[packets + 1] + 1)
      BY <2>0, <3>1, <3>2, <3>3, TailFits
    <3>5. 0 + (read - 0 - End[packets]) > MaxHeld
      BY <2>0, <3>1, Sizes
    <3>6. Overrun(0)
      BY <3>4, <3>5 DEF Overrun
    <3> QED BY <3>1, <3>6 DEF TooMuch
  <2>5. w = "down" => down = "done" /\ up # "done"
    BY <1>0 DEF w
  <2>6. w = "down" /\ ~broken /\ ~cut /\ client # "left" => delivered' = replied
    BY <1>0, <1>9, <2>5, <2>0 DEF IInv, DoneInv, PhaseInv
  <2>7. delivered' - counted'.down \in (IF w \in {"up", "overrun", "idle"} THEN {0, 1} ELSE {0})
    BY <1>8, <1>9, <2>5
  <2> QED BY <1>0, <2>0, <2>1, <2>3, <2>4, <2>6, <2>7 DEF WhyInv
<1>7. ClockInv'
  BY <1>0, <1>8, Sizes, Lengths DEF IInv, ClockInv, TypeOK, PhaseInv
<1> QED BY <1>1, <1>2, <1>3, <1>4, <1>5, <1>6, <1>7 DEF IInv


LEMMA ClientSendsKeeps == ASSUME IInv, Live, NEW n \in FrameSizes, ClientSends(n) PROVE IInv'
<1> USE DEF ClientSends, setup, clock, meter
<1>0. /\ n \in Nat /\ sent \in Nat /\ read \in Nat /\ inbox \in Seq(FrameSizes \cup {0}) /\ inbox \in Seq(Nat)
      /\ Total \in Nat /\ Total <= MaxTotal /\ Total' = Total /\ n \in FrameSizes \cup {0} /\ read <= sent
  <2>1. n \in Nat /\ n \in FrameSizes \cup {0} /\ inbox \in Seq(FrameSizes \cup {0}) /\ inbox \in Seq(Nat)
    BY Sizes DEF IInv, TypeOK
  <2>2. sent \in Nat /\ read \in Nat /\ read <= sent
    BY MaxTotalBounds DEF IInv, TypeOK
  <2>3. cmd \in {"tcp", "udp"} /\ Total' = Total
    BY DEF IInv, TypeOK, Total
  <2> QED BY <2>1, <2>2, <2>3, TotalIs
<1>1. TypeOK'
  <2>1. inbox' \in Seq(FrameSizes \cup {0}) /\ Len(inbox') = Len(inbox) + 1
    BY <1>0
  <2>2. Len(inbox') <= MaxFrames
    BY <1>0, <2>1, Sizes
  <2>3. sent' \in 0..MaxTotal /\ read \in 0..sent'
    BY <1>0, MaxTotalBounds
  <2> QED BY <2>1, <2>2, <2>3 DEF IInv, TypeOK
<1>2. PhaseInv'
  BY DEF IInv, PhaseInv, Live
<1>3. StreamInv'
  <2>1. InOrder(inbox', read, sent')
    BY <1>0, OrderWithOneMore DEF IInv, StreamInv
  <2> QED BY <1>0, <2>1 DEF IInv, StreamInv
<1>4. ReplyInv' /\ WhyInv' /\ ClockInv'
  BY DEF IInv, ReplyInv, WhyInv, ClockInv, Live
<1>5. DoneInv'
  BY DEF IInv, DoneInv, AllRead, TooMuch, Overrun
<1> QED BY <1>1, <1>2, <1>3, <1>4, <1>5 DEF IInv

LEMMA ReadFirstKeeps == ASSUME IInv, ReadFirst PROVE IInv'
<1> USE DEF ReadFirst, Over, setup, clock, meter
<1>1. CASE Over("refused") /\ UNCHANGED <<inbox, sent>>
  <2> USE <1>1
  <2>1. TypeOK' /\ PhaseInv'
    BY DEF IInv, TypeOK, PhaseInv, Whys, Live
  <2>2. StreamInv' /\ ReplyInv' /\ WhyInv'
    BY Lengths DEF IInv, TypeOK, PhaseInv, StreamInv, Total, ReplyInv, WhyInv, Live
  <2>3. DoneInv' /\ ClockInv'
    BY DEF DoneInv, ClockInv
  <2> QED BY <2>1, <2>2, <2>3 DEF IInv
<1>2. ASSUME NEW n \in FrameSizes \cup {0}, Parsed(n), inbox' = <<n>>, sent' = n, at' = "resolve", why' = why
      PROVE  IInv'
  <2> USE <1>2
  <2>0. /\ n \in Nat /\ Total \in Nat /\ Total <= MaxTotal /\ Total' = Total /\ n <= Total /\ MaxTotal \in Nat
        /\ read = 0 /\ Len(<<n>>) = 1 /\ <<n>> \in Seq(FrameSizes \cup {0})
    BY Sizes, TotalIs, MaxTotalBounds DEF IInv, TypeOK, Total, PhaseInv, Parsed
  <2>1. TypeOK'
    BY <2>0, Sizes DEF IInv, TypeOK
  <2>2. PhaseInv'
    BY DEF IInv, PhaseInv, Live
  <2>3. StreamInv'
    <3>1. InOrder(inbox', read', sent')
      BY <2>0, OrderOfOne
    <3> QED BY <2>0, <3>1 DEF IInv, StreamInv
  <2>4. ReplyInv' /\ WhyInv' /\ ClockInv' /\ DoneInv'
    BY DEF IInv, ReplyInv, WhyInv, ClockInv, DoneInv, Live
  <2> QED BY <2>1, <2>2, <2>3, <2>4 DEF IInv
<1> QED BY <1>1, <1>2

LEMMA UpFrameKeeps == ASSUME IInv, UpFrame PROVE IInv'
<1>0. PICK n \in FrameSizes \cup {0} :
      /\ n = Head(inbox) /\ inbox' \in Seq(FrameSizes \cup {0}) /\ Len(inbox') <= MaxFrames
      /\ inbox \in Seq(FrameSizes \cup {0}) /\ inbox # <<>> /\ inbox' = Tail(inbox) /\ at = "relay"
      /\ up \in {"first", "receive"} /\ (UpTcp(n) \/ UpUdp(n))
  <2>1. inbox \in Seq(FrameSizes \cup {0}) /\ inbox # <<>> /\ inbox' = Tail(inbox) /\ Len(inbox) <= MaxFrames
    BY DEF IInv, TypeOK, UpFrame
  <2>2. Head(inbox) \in FrameSizes \cup {0} /\ inbox' \in Seq(FrameSizes \cup {0}) /\ Len(inbox') <= MaxFrames
    BY <2>1, Sizes
  <2> QED BY <2>1, <2>2 DEF UpFrame
<1>1. /\ n \in Nat /\ read \in Nat /\ sent \in Nat /\ MaxTotal \in Nat /\ sent <= MaxTotal
      /\ packets \in 0..L /\ counted.up \in 0..MaxTotal /\ counted.down \in 0..MaxReplies
      /\ reported \in Counts /\ counted \in Counts /\ cmd \in {"tcp", "udp"} /\ TypeOK
  <2>1. /\ sent \in 0..MaxTotal /\ read \in 0..sent /\ packets \in 0..L /\ cmd \in {"tcp", "udp"} /\ TypeOK
        /\ reported \in Counts /\ counted \in Counts
    BY DEF IInv, TypeOK, L
  <2> QED BY <1>0, <2>1, Sizes, MaxTotalBounds DEF Counts
<1>2. read + n <= sent /\ InOrder(inbox', read + n, sent)
  <2>1. inbox \in Seq(Nat) /\ InOrder(inbox, read, sent)
    BY <1>0, Sizes DEF IInv, StreamInv
  <2> QED BY <1>0, <1>1, <2>1, OrderWithoutFirst
<1>3. /\ UNCHANGED <<at, cmd, limit, shy, addrs, link, client, cut, sent, replied, broken, greeted>>
      /\ UNCHANGED <<wire, delivered, down, timer, why>>
  BY DEF UpFrame, setup, peers
<1>4. read' = read + n
  BY <1>0 DEF UpTcp, UpUdp
\* What follows from the pump's own part.
<1> DEFINE Moved == /\ packets' \in 0..L /\ up' \in {"receive", "drain", "done"}
                    /\ counted' \in Counts /\ reported' \in Counts
                    /\ counted'.down = counted.down
                    /\ counted'.up = IF cmd = "udp" THEN Payload(packets') ELSE read'
                    /\ (UNCHANGED <<idle, quiet>> \/ (idle' = 0 /\ quiet' = 0))
                    /\ (cmd = "udp" => up' # "drain" /\ End[packets'] <= read')
                    /\ (cmd = "udp" /\ up' = "receive" => packets' = Whole(read'))
                    /\ (up' = "done" => TooMuch')
<1>5. ASSUME UpTcp(n) PROVE Moved
  <2>1. cmd = "tcp" /\ packets' = packets /\ counted.up = read
    BY <1>5 DEF UpTcp, IInv, StreamInv
  <2>2. CASE n = 0
    BY <1>1, <1>3, <1>4, <1>5, <2>1, <2>2 DEF UpTcp
  <2>3. CASE n # 0
    <3>1. Count([up |-> n, down |-> 0]) /\ up' = "drain"
      BY <1>5, <2>3 DEF UpTcp
    <3>2. counted.up + n <= MaxTotal /\ counted.down + 0 <= MaxReplies /\ counted.down + 0 = counted.down /\ 0 \in Nat
      BY <1>1, <1>2, <2>1, Lengths
    <3>3. /\ counted' \in Counts /\ reported' \in Counts /\ idle' = 0 /\ quiet' = 0
          /\ counted'.up = counted.up + n /\ counted'.down = counted.down + 0
      BY <1>1, <3>1, <3>2, CountIs
    <3> QED BY <1>1, <1>3, <1>4, <2>1, <3>1, <3>2, <3>3
  <2> QED BY <2>2, <2>3
<1>6. ASSUME UpUdp(n) PROVE Moved
  <2>1. /\ cmd = "udp" /\ packets = Whole(read) /\ End[packets] <= read /\ counted.up = Payload(packets)
        /\ sent <= End[L]
    BY <1>0, <1>1, <1>6, TotalIs DEF UpUdp, IInv, StreamInv
  <2>2. CASE up # "first" /\ Held(n) > MaxHeld
    <3>1. up' = "done" /\ UNCHANGED <<packets, counted, reported, idle, quiet>>
      BY <1>6, <2>2 DEF UpUdp
    <3>2. read + n - End[packets] > MaxHeld
      BY <2>2 DEF Held
    <3>3. read - End[packets] \in 0..(Datagrams[packets + 1] + 1)
      BY <1>1, <1>2, <2>1, <3>2, TailFits
    <3>4. End[packets] \in Nat
      BY <1>1, EndValues
    <3>5. read' - n - End[packets] = read - End[packets] /\ n + (read' - n - End[packets]) > MaxHeld
      BY <1>1, <1>4, <3>2, <3>4, Sizes
    <3>6. Overrun(n)'
      BY <3>1, <3>3, <3>5 DEF Overrun
    <3>7. TooMuch'
      BY <1>0, <1>3, <2>1, <3>6 DEF TooMuch
    <3>8. End[packets'] <= read'
      BY <1>1, <1>4, <2>1, <3>1, <3>4
    <3> QED BY <1>1, <2>1, <3>1, <3>7, <3>8
  <2>3. CASE ~(up # "first" /\ Held(n) > MaxHeld)
    <3>1. /\ up' = "receive" /\ packets' = Whole(read')
          /\ IF packets' > packets
             THEN Count([up |-> Payload(packets') - Payload(packets), down |-> 0])
             ELSE UNCHANGED <<counted, reported, idle, quiet>>
      BY <1>6, <2>3 DEF UpUdp
    <3>2. read' \in Nat /\ End[packets] <= read'
      BY <1>1, <1>4, <2>1, EndValues
    <3>3. packets' \in 0..L /\ End[packets'] <= read' /\ packets <= packets'
      BY <1>1, <3>1, <3>2, WholeIs
    <3>4. /\ Payload(packets) \in Nat /\ Payload(packets') \in Nat /\ Payload(packets) <= Payload(packets')
          /\ Payload(packets') <= End[packets'] /\ End[packets'] \in Nat
      BY <1>1, <3>3, PayloadIsNat, PayloadGrows, EndValues
    <3>5. CASE packets' > packets
      <4> DEFINE u == Payload(packets') - Payload(packets)
      <4>1. u \in Nat /\ counted.up + u = Payload(packets') /\ counted.up + u <= MaxTotal
        BY <1>1, <1>2, <1>4, <2>1, <3>3, <3>4
      <4>2. counted.down + 0 = counted.down /\ counted.down + 0 <= MaxReplies /\ 0 \in Nat
        BY <1>1, Lengths
      <4>3. Count([up |-> u, down |-> 0])
        BY <3>1, <3>5
      <4> HIDE DEF u
      <4>4. /\ counted' \in Counts /\ reported' \in Counts /\ idle' = 0 /\ quiet' = 0
            /\ counted'.up = counted.up + u /\ counted'.down = counted.down + 0
        BY <1>1, <4>1, <4>2, <4>3, CountIs
      <4> QED BY <2>1, <3>1, <3>3, <4>1, <4>2, <4>4
    <3>6. CASE ~(packets' > packets)
      <4>1. packets' = packets /\ UNCHANGED <<counted, reported, idle, quiet>>
        BY <1>1, <3>1, <3>3, <3>6, Lengths
      <4> QED BY <1>1, <2>1, <3>1, <3>3, <4>1
    <3> QED BY <3>5, <3>6
  <2> QED BY <2>2, <2>3
<1>7. Moved
  BY <1>0, <1>5, <1>6
<1>8. TypeOK'
  <2>1. read' \in 0..sent' /\ sent' \in 0..MaxTotal /\ idle' \in Nat /\ quiet' \in Nat
    BY <1>1, <1>2, <1>3, <1>4, <1>7 DEF TypeOK
  <2> QED BY <1>0, <1>1, <1>3, <1>7, <2>1 DEF TypeOK, L
<1>9. PhaseInv'
  BY <1>0, <1>3, <1>7 DEF IInv, PhaseInv, Live
<1>10. StreamInv'
  <2>1. sent' <= Total'
    BY <1>3 DEF IInv, StreamInv, Total
  <2> QED BY <1>0, <1>2, <1>3, <1>4, <1>7, <2>1 DEF StreamInv
<1>11. ReplyInv' /\ WhyInv'
  BY <1>0, <1>3, <1>7 DEF IInv, ReplyInv, WhyInv, Live
<1>12. DoneInv'
  BY <1>3, <1>7 DEF IInv, DoneInv
<1>13. ClockInv'
  <2>1. {limit, timer, idle, quiet} \subseteq Nat
    BY <1>1, Sizes DEF TypeOK
  <2> QED BY <1>0, <1>3, <1>7, <2>1 DEF IInv, ClockInv, PhaseInv, Live
<1> QED BY <1>8, <1>9, <1>10, <1>11, <1>12, <1>13 DEF IInv

LEMMA InitHolds == ASSUME Init PROVE IInv
<1> USE DEF Init
<1>0. /\ Payload(0) = 0 /\ End[0] = 0 /\ Whole(0) = 0 /\ Total \in Nat /\ MaxTotal \in Nat
  BY EndValues, WholeOfNone, TotalIs, MaxTotalBounds DEF Payload
<1>1. TypeOK
  <2>1. counted \in Counts /\ reported \in Counts /\ inbox \in Seq(FrameSizes \cup {0}) /\ Len(inbox) = 0
    BY <1>0, Lengths DEF Counts
  <2>2. 0 \in 0..MaxAddrs /\ 0 \in 0..MaxTotal /\ 0 \in 0..L /\ 0 \in 0..MaxReplies /\ 0 <= QueueSize /\ 0 <= MaxFrames
    BY <1>0, Sizes, Lengths
  <2>3. 0 \in 0..0 /\ 0 \in Nat
    OBVIOUS
  <2> QED BY <2>1, <2>2, <2>3 DEF TypeOK, Whys, L
<1>2. PhaseInv /\ ReplyInv /\ DoneInv /\ WhyInv
  BY Lengths DEF PhaseInv, ReplyInv, DoneInv, WhyInv, Live
<1>3. StreamInv
  BY <1>0, OrderOfNothing DEF StreamInv
<1>4. ClockInv
  BY DEF ClockInv
<1> QED BY <1>1, <1>2, <1>3, <1>4 DEF IInv

LEMMA StutterKeeps == ASSUME IInv, UNCHANGED vars PROVE IInv'
BY DEF IInv, vars, TypeOK, PhaseInv, StreamInv, Total, ReplyInv, DoneInv, WhyInv, ClockInv,
       AllRead, TooMuch, Overrun, Live

(***************************************************************************)
(* The theorems.                                                           *)
(***************************************************************************)
\* The invariant behind the others: what each phase of relay has touched, that the
\* frames received and waiting make up what the client sent, where every unit and every
\* reply is, why a pump is done, and how far the waiter's clock may be from the last byte.
THEOREM Invariance == Spec => []IInv
<1>1. Init => IInv
  BY InitHolds
<1>2. IInv /\ [Next]_vars => IInv'
  <2> SUFFICES ASSUME IInv, [Next]_vars PROVE IInv'
    OBVIOUS
  <2>1. CASE Peers
    BY <2>1, ClientSendsKeeps, ClientGoesKeeps, UpstreamRepliesKeeps, UpstreamEndsKeeps,
       UpstreamResetsKeeps, CutKeeps DEF Peers
  <2>2. CASE Connect
    BY <2>2, ReadFirstKeeps, ResolveKeeps, DialKeeps, AnswerKeeps DEF Connect
  <2>3. CASE Pump
    BY <2>3, UpFrameKeeps, UpEndsKeeps, DownReadsKeeps DEF Pump
  <2>4. CASE UpDrained \/ DownSent \/ Tick
    BY <2>4, UpDrainedKeeps, DownSentKeeps, TickKeeps
  <2>5. CASE Await
    BY <2>5, PumpEndsKeeps, TimerFiresKeeps, FinishKeeps DEF Await
  <2>6. CASE UNCHANGED vars
    BY <2>6, StutterKeeps
  <2> QED BY <2>1, <2>2, <2>3, <2>4, <2>5, <2>6 DEF Next
<1> QED BY <1>1, <1>2, PTL DEF Spec

\* Every variable keeps to its type, and in it to its bounds: the datagram queue to its
\* size, what is taken to what was sent, what is delivered to what was replied.
THEOREM TypeCorrect == Spec => []TypeOK
<1>1. IInv => TypeOK
  BY DEF IInv
<1> QED BY <1>1, Invariance, PTL

\* A session ended for being idle (_await_with_idle_timeout) had pumps that moved no byte
\* for the whole of idle_timeout, however long it took to begin, and no session is kept
\* beyond twice that.
THEOREM IdleIsIdle == Spec => []IdleMeansIdle
<1>1. IInv => IdleMeansIdle
  <2> SUFFICES ASSUME IInv, at = "relay", limit > 0 PROVE quiet <= 2 * limit
    BY DEF IInv, ClockInv, IdleMeansIdle
  <2>1. limit \in Nat /\ quiet \in Nat /\ timer \in Nat
    BY Sizes DEF IInv, TypeOK
  <2> QED BY <2>1 DEF IInv, ClockInv
<1> QED BY <1>1, Invariance, PTL

\* What a session leaves behind when it is over, whoever ended it and at whatever moment:
\* all that was counted has been told, all that was sent on was counted but for the one
\* reply that was cut short, an orderly end loses nothing, and the connection is closed.
THEOREM SessionsSettle == Spec => []SessionSettles
<1>1. ASSUME IInv PROVE SessionSettles
  <2> SUFFICES ASSUME at = "over" PROVE SessionSettles
    BY DEF SessionSettles
  <2>1. reported = counted /\ (link = "open" => why = "abandoned") /\ ~Live
    BY <1>1 DEF IInv, PhaseInv, Live
  <2>2. counted.up = IF cmd = "udp" THEN Payload(packets) ELSE read
    BY <1>1 DEF IInv, StreamInv
  <2>3. AllRead => read = sent /\ (cmd = "udp" => packets = Whole(sent))
    <3>1. read \in Nat /\ sent \in Nat /\ InOrder(inbox, read, sent)
      BY <1>1, MaxTotalBounds DEF IInv, TypeOK, StreamInv
    <3>2. inbox = <<>> => read = sent
      BY <3>1, OrderOfNone
    <3> QED BY <3>2 DEF AllRead
  <2>4. WhyInv
    BY <1>1 DEF IInv
  <2> QED BY <2>1, <2>2, <2>3, <2>4 DEF SessionSettles, WhyInv, TooMuch, Overrun
<1> QED BY <1>1, Invariance, PTL
=============================================================================
