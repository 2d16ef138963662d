-------------------------------- MODULE Link --------------------------------
(***************************************************************************)
(* The life of one link, both ends of it: lib/rns/link.js.  The initiator  *)
(* asks, the responder proves, and each end's watchdog keeps it alive,     *)
(* finds it stale and tears it down.  Time passes in ticks of the          *)
(* watchdog; a clock is the age of what it last saw, as far as anything    *)
(* compares it.                                                            *)
(***************************************************************************)
EXTENDS Integers, Sequences

CONSTANTS
  Keepalive,     \* each end's keepalive period, by its own RTT: [Ends -> ticks]
  Grace,         \* staleGrace, in ticks
  Establish,     \* establishmentTimeout, in ticks
  Delay,         \* ticks a packet takes at most
  MaxNet         \* bound: nothing is sent by choice with so many under way

I == "initiator"
R == "responder"
Ends == {I, R}
Other(e) == IF e = I THEN R ELSE I

ASSUME LinkAssumption ==
  /\ Keepalive \in [Ends -> Nat \ {0}]
  \* A responder's rtt is max(measured, the initiator's).
  /\ Keepalive[I] <= Keepalive[R]
  /\ Grace \in Nat \ {0} /\ Establish \in Nat \ {0}
  /\ Delay \in Nat \ {0} /\ MaxNet \in Nat \ {0}

VARIABLES
  status,    \* PENDING, HANDSHAKE, ACTIVE, STALE, CLOSED, or "none"
  heard,     \* ticks since max(lastInbound, lastProof, activatedAt)
  quiet,     \* ticks since lastOutbound
  pinged,    \* ticks since the initiator's lastKeepalive
  staleFor,  \* ticks since staleSince
  armed,     \* _establishmentTimer: ticks it still runs, or Off
  due,       \* the watchdog's tick has come and its step has not run
  why,       \* closeReason: "no", "timeout", "local" or "peer"
  closes,    \* "close" events emitted
  net,       \* packets on their way to each end, with their age
  lossy,     \* the network may lose packets
  dead       \* the responder is gone without a word

clocks == <<heard, quiet, pinged, staleFor, armed, due>>
vars == <<status, clocks, why, closes, net, lossy, dead>>

Off == -1
StaleTime(e) == 2 * Keepalive[e]
Up(e) == status[e] \in {"active", "stale"}

\* A clock a tick later, as far as anything compares it.
Older(age, bound) == IF age < bound THEN age + 1 ELSE bound

Init ==
  /\ status = [e \in Ends |-> "none"]
  /\ heard = [e \in Ends |-> 0] /\ quiet = [e \in Ends |-> 0] /\ staleFor = [e \in Ends |-> 0]
  /\ pinged = Keepalive[I]
  /\ armed = Off
  /\ due = [e \in Ends |-> FALSE]
  /\ why = [e \in Ends |-> "no"] /\ closes = [e \in Ends |-> 0]
  /\ net = [e \in Ends |-> <<>>]
  /\ lossy \in BOOLEAN /\ dead = FALSE

\* _transmit: on the wire, and every send restarts the quiet clock.
Transmit(e, kind) ==
  /\ net' = [net EXCEPT ![Other(e)] = Append(@, [kind |-> kind, age |-> 0])]
  /\ quiet' = [quiet EXCEPT ![e] = 0]

\* The same while end e takes the packet it answers off the wire.
Answer(e, kind) ==
  /\ net' = [net EXCEPT ![e] = Tail(@), ![Other(e)] = Append(@, [kind |-> kind, age |-> 0])]
  /\ quiet' = [quiet EXCEPT ![e] = 0]

\* Status CLOSED and _linkClosed(): both watchdogs end, "close" is emitted.
Close(e, reason) ==
  /\ status' = [status EXCEPT ![e] = "closed"]
  /\ why' = [why EXCEPT ![e] = reason]
  /\ closes' = [closes EXCEPT ![e] = @ + 1]
  /\ armed' = IF e = I THEN Off ELSE armed
  /\ due' = [due EXCEPT ![e] = FALSE]

-----------------------------------------------------------------------------
(* Establishment. *)

\* establish(): the request, and the watchdog that ends the attempt.
Request ==
  /\ status[I] = "none" /\ ~dead
  /\ status' = [status EXCEPT ![I] = "pending"]
  /\ armed' = Establish
  /\ Transmit(I, "request")
  /\ UNCHANGED <<heard, pinged, staleFor, due, why, closes, lossy, dead>>

\* validateLinkRequest() and accept(): handshake, prove; no watchdog here.
Accept ==
  /\ net[R] # <<>> /\ Head(net[R]).kind = "request" /\ status[R] = "none" /\ ~dead
  /\ status' = [status EXCEPT ![R] = "handshake"]
  /\ heard' = [heard EXCEPT ![R] = 0]
  /\ Answer(R, "proof")
  /\ UNCHANGED <<pinged, staleFor, armed, due, why, closes, lossy, dead>>

\* validateProof(), reached only for a PENDING link.
Proved ==
  /\ net[I] # <<>> /\ Head(net[I]).kind = "proof" /\ status[I] = "pending"
  /\ status' = [status EXCEPT ![I] = "active"]
  /\ heard' = [heard EXCEPT ![I] = 0]
  /\ Answer(I, "rtt")
  /\ UNCHANGED <<pinged, staleFor, armed, due, why, closes, lossy, dead>>

\* A proof that does not validate leaves the handshake done, and the link
\* where no proof can activate it any more.
BadProof ==
  /\ lossy
  /\ net[I] # <<>> /\ Head(net[I]).kind = "proof" /\ status[I] = "pending"
  /\ status' = [status EXCEPT ![I] = "handshake"]
  /\ net' = [net EXCEPT ![I] = Tail(@)]
  /\ UNCHANGED <<clocks, why, closes, lossy, dead>>

\* requestLost(): the interface says the request never left.
RequestLost ==
  /\ lossy /\ status[I] = "pending"
  /\ Close(I, "timeout")
  /\ UNCHANGED <<heard, quiet, pinged, staleFor, net, lossy, dead>>

\* The establishment watchdog.  Only the end of the link, not its
\* activation, disarms it.
EstablishmentEnds == status[I] \notin {"active", "closed"}

EstablishmentTimeout ==
  /\ armed = 0
  /\ IF EstablishmentEnds
     THEN Close(I, "timeout")
     ELSE armed' = Off /\ UNCHANGED <<status, why, closes, due>>
  /\ UNCHANGED <<heard, quiet, pinged, staleFor, net, lossy, dead>>

-----------------------------------------------------------------------------
(* Traffic: onPacket(). *)

\* _hadInbound and _recoverIfStale.
HadInbound(e) ==
  /\ heard' = [heard EXCEPT ![e] = 0]
  /\ status' = [status EXCEPT ![e] = IF @ = "stale" THEN "active" ELSE @]
  /\ staleFor' = [staleFor EXCEPT ![e] = 0]

\* The responder answers a ping only when it was quiet for the initiator's
\* keepalive, which it knows from the initiator's RTT.  (Variant: its own.)
PongsByOwnPeriod == status[R] # "handshake" /\ quiet[R] >= Keepalive[R]
Pongs == status[R] # "handshake" /\ quiet[R] >= Keepalive[I]

Receive(e, kind) == net[e] # <<>> /\ Head(net[e]).kind = kind
Take(e) == net' = [net EXCEPT ![e] = Tail(@)]

\* onLinkRequestRtt(): the responder's link is live, and watched from here.
Rtt ==
  /\ Receive(R, "rtt") /\ status[R] \notin {"none", "closed"} /\ ~dead
  /\ heard' = [heard EXCEPT ![R] = 0]
  /\ status' = [status EXCEPT ![R] = "active"]
  /\ Take(R)
  /\ UNCHANGED <<quiet, pinged, staleFor, armed, due, why, closes, lossy, dead>>

Ping ==
  /\ Receive(R, "ping") /\ status[R] \notin {"none", "closed"} /\ ~dead
  /\ HadInbound(R)
  /\ IF Pongs THEN Answer(R, "pong") ELSE Take(R) /\ UNCHANGED quiet
  /\ UNCHANGED <<pinged, armed, due, why, closes, lossy, dead>>

Pong ==
  /\ Receive(I, "pong") /\ Up(I)
  /\ HadInbound(I) /\ Take(I)
  /\ UNCHANGED <<quiet, pinged, armed, due, why, closes, lossy, dead>>

\* Any other packet.  One of context NONE is proved at once where proveAll is
\* set or the router keeps its message (proveLinkPacket).
Data(e) ==
  /\ Receive(e, "data") /\ (e = R => ~dead)
  /\ status[e] \notin {"none", "pending", "closed"}
  /\ HadInbound(e)
  /\ Answer(e, "packetproof") \/ (Take(e) /\ UNCHANGED quiet)
  /\ UNCHANGED <<pinged, armed, due, why, closes, lossy, dead>>

\* onPacketProof(): the peer was heard, but a stale link stays stale.
PacketProof(e) ==
  /\ Receive(e, "packetproof") /\ (e = R => ~dead) /\ status[e] \notin {"none", "closed"}
  /\ heard' = [heard EXCEPT ![e] = 0] /\ Take(e)
  /\ UNCHANGED <<status, quiet, pinged, staleFor, armed, due, why, closes, lossy, dead>>

\* LINKCLOSE from the peer.
LinkClose(e) ==
  /\ Receive(e, "close") /\ (e = R => ~dead)
  /\ status[e] \notin {"none", "pending", "closed"}
  /\ Close(e, "peer") /\ Take(e)
  /\ heard' = [heard EXCEPT ![e] = 0]
  /\ UNCHANGED <<quiet, pinged, staleFor, lossy, dead>>

\* A packet nobody is there for: no link, no pending one for a proof, one
\* whose status has no use for it, or a peer that is gone.
Wanted(e, kind) ==
  IF e = R
  THEN /\ ~dead
       /\ \/ status[R] = "none" /\ kind = "request"
          \/ status[R] \notin {"none", "closed"} /\ kind \in {"rtt", "ping", "data", "packetproof", "close"}
  ELSE \/ status[I] = "pending" /\ kind \in {"proof", "packetproof"}
       \/ status[I] = "handshake" /\ kind \in {"data", "packetproof", "close"}
       \/ Up(I) /\ kind \in {"pong", "data", "packetproof", "close"}

Dropped(e) ==
  /\ net[e] # <<>> /\ ~Wanted(e, Head(net[e]).kind)
  /\ Take(e)
  /\ UNCHANGED <<status, clocks, why, closes, lossy, dead>>

Lost(e) ==
  /\ lossy /\ net[e] # <<>>
  /\ Take(e)
  /\ UNCHANGED <<status, clocks, why, closes, lossy, dead>>

\* send(), by whatever uses the link.
LinkSend(e) ==
  /\ Up(e) /\ (e = R => ~dead) /\ Len(net[I]) + Len(net[R]) < MaxNet
  /\ Transmit(e, "data")
  /\ UNCHANGED <<status, heard, pinged, staleFor, armed, due, why, closes, lossy, dead>>

\* close(): LINKCLOSE unless there are no keys for one, then CLOSED.
CloseLink(e) ==
  /\ status[e] \notin {"none", "closed"} /\ (e = R => ~dead)
  /\ IF status[e] = "pending" THEN UNCHANGED <<net, quiet>> ELSE Transmit(e, "close")
  /\ Close(e, "local")
  /\ UNCHANGED <<heard, pinged, staleFor, lossy, dead>>

\* The responder's page goes without closing its links.
Die ==
  /\ ~dead /\ dead' = TRUE
  /\ due' = [due EXCEPT ![R] = FALSE]
  /\ UNCHANGED <<status, heard, quiet, pinged, staleFor, armed, why, closes, net, lossy>>

-----------------------------------------------------------------------------
(* The keepalive watchdog, once a second at each end. *)

\* Nothing heard for staleTime.  (Variant: what is sent counts, too.)
UnheardAndIdle(e) == heard[e] >= StaleTime(e) /\ quiet[e] >= Keepalive[e]
Unheard(e) == heard[e] >= StaleTime(e)

\* The grace of a stale link has run out.  (Variant: a tick too early.)
GraceNearlyOver(e) == staleFor[e] + 1 >= Grace
GraceOver(e) == staleFor[e] >= Grace

\* keepaliveAction: whether to ping, and what comes next.
KeepaliveAction(e) ==
  LET acts == /\ status[e] = "active"
              /\ heard[e] >= Keepalive[e] \/ quiet[e] >= Keepalive[e]
  IN [ping |-> e = I /\ acts /\ (Unheard(e) \/ pinged >= Keepalive[I]),
      next |-> IF status[e] = "stale" /\ GraceOver(e) THEN "teardown"
               ELSE IF acts /\ Unheard(e) THEN "stale" ELSE "idle"]

\* _watchdogStep.
Watchdog(e) ==
  LET action == KeepaliveAction(e) IN
  /\ due[e]
  /\ IF action.ping THEN Transmit(e, "ping") /\ pinged' = 0
     ELSE IF action.next = "teardown" THEN Transmit(e, "close") /\ UNCHANGED pinged
     ELSE UNCHANGED <<net, quiet, pinged>>
  /\ IF action.next = "teardown"
     THEN Close(e, "timeout") /\ UNCHANGED staleFor
     ELSE /\ status' = [status EXCEPT ![e] = IF action.next = "stale" THEN "stale" ELSE @]
          /\ staleFor' = [staleFor EXCEPT ![e] = IF action.next = "stale" THEN 0 ELSE @]
          /\ due' = [due EXCEPT ![e] = FALSE]
          /\ UNCHANGED <<why, closes, armed>>
  /\ UNCHANGED <<heard, lossy, dead>>

\* Where the watchdog runs, and where nothing compares a clock any more.
Watched(e) == Up(e) /\ (e = R => ~dead)
Gone(e) == status[e] \in {"none", "closed"} \/ (e = R /\ dead)

\* A second passes: no packet is on the wire for longer than Delay, and no
\* timer that fired is left waiting.
Tick ==
  /\ \A e \in Ends : ~due[e] /\ \A k \in 1..Len(net[e]) : net[e][k].age < Delay
  /\ armed # 0
  /\ heard' = [e \in Ends |-> IF Watched(e) THEN Older(heard[e], StaleTime(e)) ELSE 0]
  /\ quiet' = [e \in Ends |-> IF Gone(e) THEN 0 ELSE Older(quiet[e], Keepalive[e])]
  /\ pinged' = Older(pinged, Keepalive[I])
  /\ staleFor' = [e \in Ends |-> IF status[e] = "stale" THEN Older(staleFor[e], Grace) ELSE 0]
  /\ armed' = IF armed = Off THEN Off ELSE armed - 1
  /\ due' = [e \in Ends |-> Watched(e)]
  /\ net' = [e \in Ends |-> [k \in 1..Len(net[e]) |-> [net[e][k] EXCEPT !.age = @ + 1]]]
  /\ UNCHANGED <<status, why, closes, lossy, dead>>

Deliver(e) ==
  \/ e = R /\ (Accept \/ Rtt \/ Ping)
  \/ e = I /\ (Proved \/ Pong)
  \/ Data(e) \/ PacketProof(e) \/ LinkClose(e) \/ Dropped(e)

Next ==
  \/ Request \/ BadProof \/ RequestLost \/ EstablishmentTimeout \/ Die \/ Tick
  \/ \E e \in Ends : Deliver(e) \/ Lost(e) \/ LinkSend(e) \/ CloseLink(e) \/ Watchdog(e)

Spec == Init /\ [][Next]_vars

\* Clocks run, timers fire and the network delivers what it does not lose.
Fairness ==
  /\ WF_vars(Tick) /\ WF_vars(EstablishmentTimeout)
  /\ \A e \in Ends : WF_vars(Deliver(e) \/ Lost(e)) /\ WF_vars(Watchdog(e))

FairSpec == Spec /\ Fairness

-----------------------------------------------------------------------------
Statuses == {"none", "pending", "handshake", "active", "stale", "closed"}
Kinds == {"request", "proof", "rtt", "ping", "pong", "data", "packetproof", "close"}

TypeOK ==
  /\ status \in [Ends -> Statuses]
  /\ heard \in [Ends -> Nat] /\ quiet \in [Ends -> Nat] /\ staleFor \in [Ends -> 0..Grace]
  /\ pinged \in 0..Keepalive[I] /\ armed \in Off..Establish
  /\ due \in [Ends -> BOOLEAN]
  /\ why \in [Ends -> {"no", "timeout", "local", "peer"}]
  /\ closes \in [Ends -> Nat]
  /\ net \in [Ends -> Seq([kind : Kinds, age : 0..Delay])]
  /\ lossy \in BOOLEAN /\ dead \in BOOLEAN

\* "close" comes exactly once, when the link closes, whichever of timers,
\* peer and user got there first, and no timer runs on after it.
ClosedOnce ==
  /\ \A e \in Ends : closes[e] = (IF status[e] = "closed" THEN 1 ELSE 0)
  /\ \A e \in Ends : status[e] = "closed" => ~due[e]
  /\ status[I] = "closed" => armed = Off

\* A network that delivers everything in time costs an initiator the link to
\* a live peer in two cases only: its link is stale as its establishment timer
\* comes due, or what it heard in the grace were only proofs of its packets,
\* which count as heard (onPacketProof) but do not bring a stale link back.
\* The responder never gives up an initiator that has not given up itself.
NoFalseTeardown ==
  [][~lossy /\ ~dead =>
       /\ why[I] = "no" /\ why'[I] = "timeout" =>
            status[I] = "stale" /\ (armed = 0 \/ heard[I] < StaleTime(I))
       /\ why[R] = "no" /\ why'[R] = "timeout" => why[I] = "timeout"]_vars

\* What a link owes its two ends, whatever they send or do not send: its
\* types, one close, and that a live peer keeps it.
LinkSound == [](TypeOK /\ ClosedOnce) /\ NoFalseTeardown

\* A closed link stays closed, however late a packet or a timer comes, and a
\* stale one is given up only after its grace, or sooner by one timer: that of
\* the initiator's establishment, which its activation does not disarm.
GraceKept ==
  [][\A e \in Ends :
       /\ status[e] = "closed" => status'[e] = "closed"
       /\ status[e] = "stale" /\ why'[e] = "timeout" =>
            staleFor[e] >= Grace \/ (e = I /\ armed = 0)]_vars

\* An attempt to establish ends: no proof lost, late or broken leaves the
\* initiator waiting for ever.
AttemptEnds == status[I] \in {"pending", "handshake"} ~> status[I] \in {"active", "stale", "closed"}

\* An initiator's link to a peer that is gone is torn down.
DeadPeerFound == dead ~> status[I] \in {"none", "closed"}

\* Nobody waits for ever on a link: neither for one that is being established
\* nor on one whose peer is gone.
EndsInTime == AttemptEnds /\ DeadPeerFound
=============================================================================
