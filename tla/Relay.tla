------------------------------- MODULE Relay -------------------------------
(***************************************************************************)
(* One session of the built-in relay (vless_engine.py): the first frame,   *)
(* the connection to the destination, two pumps and a waiter, which share   *)
(* a counter.  The stream of the client is counted in units; a frame is so  *)
(* many units of it, wherever it is cut.                                   *)
(***************************************************************************)
EXTENDS Integers, Sequences, FiniteSetsExt

CONSTANTS
    FrameSizes,  \* the sizes of the client's frames, 0 for an empty one
    MaxFrames,   \* bound: frames that wait to be received
    MaxUnits,    \* bound: the length of a TCP stream
    Datagrams,   \* the sizes of the datagrams in a UDP stream
    MaxHeld,     \* MAX_UDP_PACKET * 4
    MaxReplies,  \* bound: what the destination sends
    QueueSize,   \* maxsize of the queue of datagrams
    MaxAddrs,    \* bound: addresses a name resolves to
    MaxWait,     \* bound: ticks from the counter's creation to the pumps' start
    Limits,      \* the values of idle_timeout, in ticks
    FlushAt      \* TRAFFIC_FLUSH_BYTES

ASSUME BoundsAssumption ==
    /\ FrameSizes \subseteq Nat /\ Limits \subseteq Nat
    /\ {MaxFrames, MaxUnits, MaxReplies, QueueSize, MaxAddrs} \subseteq Nat \ {0}
    /\ Datagrams \in Seq(Nat) /\ {MaxHeld, MaxWait, FlushAt} \subseteq Nat

VARIABLES
    at,        \* how far relay is
    cmd,       \* header.cmd
    limit,     \* idle_timeout
    shy,       \* do both ends wait: the client for the response header, the
               \* destination for the client
    addrs,     \* addresses not dialled yet
    link,      \* the connection to the destination
    broken,    \* was it reset
    client,    \* "gone": without a word
    cut,       \* has the panel closed the websocket
    greeted,   \* has the client got the response header
    inbox,     \* frames the client has sent and relay has not received
    sent,      \* units the client has sent
    read,      \* units the pump has taken
    packets,   \* datagrams sent on
    replied,   \* replies of the destination
    wire,      \* replies not read yet
    delivered, \* replies handed to the websocket
    up, down,  \* the pumps
    counted,   \* counter.up, counter.down
    reported,  \* the part of it on_traffic has been told
    idle,      \* ticks since last_activity, which the counter's creation sets first
    quiet,     \* history: ticks since the pumps counted a byte, or started
    timer,     \* ticks left to the waiter
    why        \* what ended the session

vars == <<at, cmd, limit, shy, addrs, link, broken, client, cut, greeted, inbox, sent,
          read, packets, replied, wire, delivered, up, down, counted, reported, idle,
          quiet, timer, why>>
setup == <<cmd, limit, shy>>
peers == <<client, cut, sent, replied, broken>>
clock == <<idle, quiet, timer>>
meter == <<counted, reported>>

Whys == {"none", "refused", "abandoned", "up", "down", "overrun", "idle"}

\* Where the n-th datagram ends in the stream: each has a header of two units.
End[n \in 0..Len(Datagrams)] == IF n = 0 THEN 0 ELSE End[n - 1] + 2 + Datagrams[n]
Payload(n) == End[n] - 2 * n
Total == IF cmd = "udp" THEN End[Len(Datagrams)] ELSE MaxUnits
MaxTotal == Max({MaxUnits, End[Len(Datagrams)]})
Counts == [up : 0..MaxTotal, down : 0..MaxReplies]

TypeOK ==
    /\ at \in {"first", "resolve", "dial", "answer", "relay", "closing", "over"}
    /\ cmd \in {"tcp", "udp"} /\ limit \in Limits /\ shy \in BOOLEAN
    /\ addrs \in 0..MaxAddrs
    /\ link \in {"none", "open", "ended", "closed"} /\ broken \in BOOLEAN
    /\ client \in {"here", "left", "gone"} /\ cut \in BOOLEAN /\ greeted \in BOOLEAN
    /\ inbox \in Seq(FrameSizes \cup {0}) /\ Len(inbox) <= MaxFrames
    /\ sent \in 0..MaxTotal /\ read \in 0..sent /\ packets \in 0..Len(Datagrams)
    /\ replied \in 0..MaxReplies /\ delivered \in 0..replied
    /\ wire \in 0..MaxReplies /\ (cmd = "udp" => wire <= QueueSize)
    /\ up \in {"first", "receive", "drain", "done"} /\ down \in {"read", "send", "done"}
    /\ counted \in Counts /\ reported \in Counts
    /\ idle \in Nat /\ quiet \in Nat /\ timer \in Nat
    /\ why \in Whys

Init ==
    /\ at = "first" /\ cmd \in {"tcp", "udp"} /\ limit \in Limits /\ shy \in BOOLEAN
    /\ addrs = 0 /\ link = "none" /\ broken = FALSE
    /\ client = "here" /\ cut = FALSE /\ greeted = FALSE
    /\ inbox = <<>> /\ sent = 0 /\ read = 0 /\ packets = 0
    /\ replied = 0 /\ wire = 0 /\ delivered = 0
    /\ up = "first" /\ down = "read"
    /\ counted = [up |-> 0, down |-> 0] /\ reported = counted
    /\ idle = 0 /\ quiet = 0 /\ timer = 0 /\ why = "none"

(***************************************************************************)
(* The two ends, and the panel, for as long as the session can notice.     *)
(***************************************************************************)
ClientSends(n) ==
    /\ client = "here" /\ ~cut /\ at # "first"
    /\ shy => greeted /\ n > 0
    /\ sent + n <= Total /\ Len(inbox) < MaxFrames
    /\ inbox' = Append(inbox, n) /\ sent' = sent + n
    /\ UNCHANGED <<at, setup, addrs, link, broken, client, cut, greeted, read, packets, replied,
                   wire, delivered, up, down, meter, clock, why>>

ClientGoes ==
    /\ client = "here" /\ client' \in {"left", "gone"}
    /\ cut => client' = "left"
    /\ UNCHANGED <<at, setup, addrs, link, broken, cut, greeted, inbox, sent, read, packets,
                   replied, wire, delivered, up, down, meter, clock, why>>

\* What the destination has got of the client's stream.
Arrived == IF cmd = "udp" THEN packets ELSE read

\* Mutant of UpstreamReplies: the queue of datagrams is not limited.
MutantReplyQueued ==
    /\ link = "open" /\ ~broken /\ replied < MaxReplies
    /\ shy => Arrived > 0
    /\ replied' = replied + 1 /\ wire' = wire + 1
    /\ UNCHANGED <<at, setup, addrs, link, broken, client, cut, greeted, inbox, sent, read,
                   packets, delivered, up, down, meter, clock, why>>

\* A datagram that finds the queue full is dropped (datagram_received).
UpstreamReplies ==
    /\ link = "open" /\ ~broken /\ replied < MaxReplies
    /\ shy => Arrived > 0
    /\ replied' = replied + 1
    /\ wire' = IF cmd = "udp" /\ wire = QueueSize THEN wire ELSE wire + 1
    /\ UNCHANGED <<at, setup, addrs, link, broken, client, cut, greeted, inbox, sent, read,
                   packets, delivered, up, down, meter, clock, why>>

UpstreamEnds ==
    /\ cmd = "tcp" /\ link = "open" /\ link' = "ended"
    /\ UNCHANGED <<at, setup, addrs, peers, greeted, inbox, read, packets, wire, delivered,
                   up, down, meter, clock, why>>

UpstreamResets ==
    /\ cmd = "tcp" /\ link \in {"open", "ended"} /\ ~broken /\ broken' = TRUE
    /\ UNCHANGED <<at, setup, addrs, link, client, cut, greeted, inbox, sent, read, packets,
                   replied, wire, delivered, up, down, meter, clock, why>>

\* _disconnect_uid, of a sweep or a request.
Cut ==
    /\ ~cut /\ cut' = TRUE
    /\ UNCHANGED <<at, setup, addrs, link, broken, client, greeted, inbox, sent, read, packets,
                   replied, wire, delivered, up, down, meter, clock, why>>

(***************************************************************************)
(* relay, up to the pumps.                                                 *)
(***************************************************************************)
Over(w) == at' = "over" /\ why' = w

\* parse_vless_header takes the first frame, and leaves n units of payload.
Parsed(n) == n <= Total /\ (shy => n = 0)

\* The first frame: none, a header that is refused or names another uuid, or a
\* good one.  Nothing limits how long relay waits for it.
ReadFirst ==
    /\ at = "first"
    /\ \/ Over("refused") /\ UNCHANGED <<inbox, sent>>
       \/ \E n \in FrameSizes \cup {0} :
            /\ client = "here" /\ Parsed(n)
            /\ inbox' = <<n>> /\ sent' = n
            /\ at' = "resolve" /\ why' = why
    /\ UNCHANGED <<setup, addrs, link, broken, client, cut, greeted, read, packets, replied,
                   wire, delivered, up, down, meter, clock>>

\* resolve_target: no address, or none that may be dialled, is a VlessError.  A
\* UDP association takes the first one.
Resolve ==
    /\ at = "resolve"
    /\ \/ Over("refused") /\ UNCHANGED <<addrs, link>>
       \/ cmd = "tcp" /\ addrs' \in 1..MaxAddrs /\ at' = "dial" /\ UNCHANGED <<link, why>>
       \/ cmd = "udp" /\ link' = "open" /\ at' = "answer" /\ UNCHANGED <<addrs, why>>
    /\ UNCHANGED <<setup, peers, greeted, inbox, read, packets, wire, delivered, up, down,
                   meter, clock>>

\* open_connection to one address, which fails or takes too long, or succeeds.
Dial ==
    /\ at = "dial"
    /\ addrs' = addrs - 1
    /\ \/ link' = "open" /\ at' = "answer" /\ why' = why
       \/ addrs > 1 /\ UNCHANGED <<link, at, why>>
       \/ addrs = 1 /\ Over("refused") /\ UNCHANGED link
    /\ UNCHANGED <<setup, peers, greeted, inbox, read, packets, wire, delivered, up, down,
                   meter, clock>>

\* Mutant of Answer: the header is left to go out with the first reply.
MutantAnswerLate ==
    /\ at = "answer"
    /\ at' = "relay" /\ timer' = limit /\ idle' \in 0..MaxWait /\ quiet' = 0
    /\ UNCHANGED <<setup, addrs, link, peers, greeted, inbox, read, packets, wire, delivered,
                   up, down, meter, why>>

\* The response header, before either pump.  When the client has left it raises,
\* outside the try that closes the connection.  last_activity is that of the
\* counter's creation: before the wait for the first frame, which nothing limits, and
\* before the dialling.
Answer ==
    /\ at = "answer"
    /\ IF client = "left" \/ cut
       THEN Over("abandoned") /\ UNCHANGED <<greeted, clock>>
       ELSE /\ greeted' = TRUE /\ at' = "relay" /\ why' = why
            /\ timer' = limit /\ idle' \in 0..MaxWait /\ quiet' = 0
    /\ UNCHANGED <<setup, addrs, link, peers, inbox, read, packets, wire, delivered, up, down,
                   meter>>

(***************************************************************************)
(* The pumps.                                                              *)
(***************************************************************************)
\* TrafficCounter.add_up and add_down: on_traffic is told when there is enough to
\* tell, or when it has not been told for some seconds.
Count(more) ==
    /\ counted' = [counted EXCEPT !.up = @ + more.up, !.down = @ + more.down]
    /\ LET untold == counted'.up + counted'.down - reported.up - reported.down
       IN  reported' \in {counted'} \cup (IF untold >= FlushAt THEN {} ELSE {reported})
    /\ idle' = 0 /\ quiet' = 0

\* _iter_udp_packets: how many datagrams are complete once n units have come.
Whole(n) == Max({k \in 0..Len(Datagrams) : End[k] <= n})
Held(n) == read + n - End[packets]

\* _pump_ws_to_tcp, with a frame of n units.
UpTcp(n) ==
    /\ cmd = "tcp"
    /\ read' = read + n /\ packets' = packets
    /\ IF n = 0 THEN up' = "receive" /\ UNCHANGED <<counted, reported, idle, quiet>>
                ELSE up' = "drain" /\ Count([up |-> n, down |-> 0])

\* ws_to_udp, with a frame of n units: the first payload is not held to the limit.
UpUdp(n) ==
    /\ cmd = "udp"
    /\ read' = read + n
    /\ IF up # "first" /\ Held(n) > MaxHeld
       THEN up' = "done" /\ UNCHANGED <<packets, counted, reported, idle, quiet>>
       ELSE /\ up' = "receive" /\ packets' = Whole(read')
            /\ IF packets' > packets
               THEN Count([up |-> Payload(packets') - Payload(packets), down |-> 0])
               ELSE UNCHANGED <<counted, reported, idle, quiet>>

UpFrame ==
    /\ at = "relay" /\ up \in {"first", "receive"} /\ inbox # <<>>
    /\ UpTcp(Head(inbox)) \/ UpUdp(Head(inbox))
    /\ inbox' = Tail(inbox)
    /\ UNCHANGED <<at, setup, addrs, link, peers, greeted, wire, delivered, down, timer, why>>

\* drain returns when the destination has taken enough, or the connection is lost.
UpDrained ==
    /\ at = "relay" /\ up = "drain"
    /\ up' = IF broken THEN "done" ELSE "receive"
    /\ UNCHANGED <<at, setup, addrs, link, peers, greeted, inbox, read, packets, wire,
                   delivered, down, meter, clock, why>>

\* The client has left: the TCP pump closes the connection.
UpEnds ==
    /\ at = "relay" /\ up = "receive" /\ inbox = <<>> /\ client = "left"
    /\ up' = "done" /\ link' = IF cmd = "tcp" THEN "closed" ELSE link
    /\ UNCHANGED <<at, setup, addrs, peers, greeted, inbox, read, packets, wire, delivered,
                   down, meter, clock, why>>

\* _pump_tcp_to_ws and udp_to_ws.
DownReads ==
    /\ at = "relay" /\ down = "read"
    /\ \/ broken /\ down' = "done" /\ wire' = wire
       \/ ~broken /\ wire > 0 /\ wire' = wire - 1 /\ down' = IF cut THEN "done" ELSE "send"
       \/ wire = 0 /\ link \in {"ended", "closed"} /\ down' = "done" /\ wire' = wire
    /\ UNCHANGED <<at, setup, addrs, link, peers, greeted, inbox, read, packets, delivered, up,
                   meter, clock, why>>

\* send_bytes returns; it may still do so for a while when the client is gone.
DownSent ==
    /\ at = "relay" /\ down = "send"
    /\ IF client = "left" \/ cut
       THEN down' = "done" /\ UNCHANGED <<delivered, meter, idle, quiet>>
       ELSE /\ down' = "read" /\ delivered' = delivered + 1
            /\ Count([up |-> 0, down |-> 1])
    /\ UNCHANGED <<at, setup, addrs, link, peers, greeted, inbox, read, packets, wire, up,
                   timer, why>>

(***************************************************************************)
(* _await_with_idle_timeout, and what follows it.                          *)
(***************************************************************************)
\* The pumps are cancelled and the connection closed; a reply that was being sent
\* may have gone out, and is not counted.
Close(w) ==
    /\ at' = "closing" /\ why' = w /\ link' = "closed"
    /\ up' = "done" /\ down' = "done"
    /\ delivered' \in {delivered} \cup (IF down = "send" THEN {delivered + 1} ELSE {})
    /\ UNCHANGED <<setup, addrs, peers, greeted, inbox, read, packets, wire, meter>>

PumpEnds ==
    /\ at = "relay" /\ "done" \in {up, down}
    /\ Close(IF up # "done" THEN "down"
             ELSE IF cmd = "udp" /\ read - End[packets] > MaxHeld THEN "overrun" ELSE "up")
    /\ UNCHANGED clock

\* Mutant of TimerFires: the time since the last byte is not looked at.
MutantTimerBlind ==
    /\ at = "relay" /\ limit > 0 /\ timer = 0 /\ "done" \notin {up, down}
    /\ Close("idle") /\ UNCHANGED clock

TimerFires ==
    /\ at = "relay" /\ limit > 0 /\ timer = 0 /\ "done" \notin {up, down}
    /\ IF idle >= limit
       THEN Close("idle") /\ UNCHANGED clock
       ELSE /\ timer' = limit
            /\ UNCHANGED <<at, setup, addrs, link, peers, greeted, inbox, read, packets, wire,
                           delivered, up, down, meter, idle, quiet, why>>

\* Time passes; a timer that is due fires first.
Tick ==
    /\ at = "relay" /\ limit > 0 /\ timer > 0
    /\ timer' = timer - 1 /\ idle' = idle + 1 /\ quiet' = quiet + 1
    /\ UNCHANGED <<at, setup, addrs, link, peers, greeted, inbox, read, packets, wire,
                   delivered, up, down, meter, why>>

\* Mutant of Finish: the counter is not flushed.
MutantFinishUntold ==
    /\ at = "closing" /\ at' = "over"
    /\ UNCHANGED <<setup, addrs, link, peers, greeted, inbox, read, packets, wire, delivered,
                   up, down, meter, clock, why>>

\* The finally clause of relay.
Finish ==
    /\ at = "closing" /\ at' = "over"
    /\ reported' = counted
    /\ UNCHANGED <<setup, addrs, link, peers, greeted, inbox, read, packets, wire, delivered,
                   up, down, counted, clock, why>>

Connect == ReadFirst \/ Resolve \/ Dial \/ Answer
Pump == UpFrame \/ UpEnds \/ DownReads
Await == PumpEnds \/ TimerFires \/ Finish
Live == at \notin {"closing", "over"}
Peers == /\ Live
         /\ \/ \E n \in FrameSizes : ClientSends(n)
            \/ ClientGoes \/ UpstreamReplies \/ UpstreamEnds \/ UpstreamResets
            \/ Cut

Next == Peers \/ Connect \/ Pump \/ UpDrained \/ DownSent \/ Await \/ Tick
Spec == Init /\ [][Next]_vars

\* The tasks of the event loop run and time passes.  Ends that wait for each other
\* speak when it is their turn, and read what they are sent.
Fairness ==
    /\ WF_vars(Resolve) /\ WF_vars(Dial) /\ WF_vars(Answer)
    /\ WF_vars(UpFrame) /\ WF_vars(UpEnds) /\ WF_vars(DownReads)
    /\ WF_vars(PumpEnds) /\ WF_vars(TimerFires) /\ WF_vars(Finish) /\ WF_vars(Tick)
    /\ WF_vars(Live /\ shy /\ \E n \in FrameSizes : ClientSends(n))
    /\ WF_vars(Live /\ shy /\ (UpstreamReplies \/ UpDrained \/ (client = "here" /\ DownSent)))
FairSpec == Spec /\ Fairness

(***************************************************************************)
(* Properties.                                                             *)
(***************************************************************************)
\* What a session leaves behind (relay and its finally clauses): on_traffic has been
\* told of every byte counted; all that was sent on was counted, save the one reply
\* whose sending was cut short; an orderly end, of the client or of the destination,
\* comes after all it had sent before; a client that frames its datagrams correctly is stopped
\* only over a frame so large that no room was left for it; and the connection is
\* closed, unless the client left before the response header.
SessionSettles ==
    at = "over" =>
      /\ reported = counted
      /\ counted.up = IF cmd = "udp" THEN Payload(packets) ELSE read
      /\ delivered - counted.down \in (IF why \in {"up", "overrun", "idle"} THEN {0, 1} ELSE {0})
      /\ why = "up" /\ ~broken => read = sent /\ (cmd = "udp" => packets = Whole(sent))
      /\ why = "down" /\ ~broken /\ ~cut /\ client # "left" => delivered = replied
      /\ why = "overrun" =>
            \E n \in FrameSizes \cup {0} :
                LET tail == read - n - End[packets]
                IN  tail \in 0..(Datagrams[packets + 1] + 1) /\ n + tail > MaxHeld
      /\ link = "open" => why = "abandoned"

\* _await_with_idle_timeout, whose timer runs while the pumps move last_activity, a
\* clock that has run since before the first frame: the time a session took to begin is
\* not held against it, so one that was ended for being idle had pumps that moved nothing
\* for as long as the setting says; and none is kept for more than twice that.
IdleMeansIdle ==
    /\ why = "idle" => quiet >= limit
    /\ at = "relay" /\ limit > 0 => quiet <= 2 * limit

\* "any protocol where the server stays silent until the client speaks (and the
\* client waits for our ack first) deadlocked" (_relay_tcp), and "a half-dead
\* connection (client gone, no TCP RST) held its slot" (_await_with_idle_timeout):
\* two ends that wait for each other come to exchange something, and a session whose
\* client is gone without a word ends.
NobodyWaitsForever ==
    /\ (at = "answer" /\ shy) ~> (delivered > 0 \/ at = "over" \/ "done" \in {up, down}
                                    \/ client # "here" \/ cut \/ link # "open" \/ broken)
    /\ (at = "relay" /\ client = "gone" /\ limit > 0) ~> (at = "over")
=============================================================================
