---------------------------- MODULE LinkRequests ----------------------------
(***************************************************************************)
(* The requests a client makes on one link, and the receipt each is        *)
(* answered through: lib/rns/link.js.  A request is one packet, or, over   *)
(* the link MDU, a Resource the peer proves.  Its response is one packet,  *)
(* or a Resource of one or more segments.  A Resource here is only what it *)
(* does to the receipt: it moves, it is proved, it fails.                  *)
(***************************************************************************)
EXTENDS Integers, Sequences

CONSTANTS
  Requests,    \* the requests made on the link
  Big,         \* those over Link.MDU: sent as a Resource
  Kept,        \* those sent with keepWhenLost
  Segments,    \* bound: segments of a response
  MaxWire      \* bound: packets of the peer on their way

ASSUME RequestsAssumption ==
  /\ Big \subseteq Requests /\ Kept \subseteq Requests
  /\ Segments \in Nat \ {0} /\ MaxWire \in Nat \ {0}

VARIABLES
  open,        \* the link is up (not CLOSED)
  receipt,     \* per request: its receipt
  sending,     \* per request: its request Resource
  arriving,    \* per request: the segment of its response in incomingResources
  held,        \* per request: the segments its split reassembly holds, 0: none
  peer,        \* per request: what the peer makes of it
  wire         \* the peer's packets on their way here, in order

requestVars == <<open, receipt, sending, arriving, held, peer, wire>>

ReceiptStatuses == {"none", "SENT", "DELIVERED", "RECEIVING", "READY", "FAILED"}
Reasons == {"none", "closed", "timeout", "lost", "refused", "transfer", "unsent"}
Receipts == [status: ReceiptStatuses, clock: BOOLEAN, why: Reasons]

\* On the wire: the proof or the refusal of a request Resource; a response
\* packet; a response Resource's advertisement, parts and cancellation; LINKCLOSE.
Packets == [kind: {"proof", "refusal", "response", "advert", "compressed",
                   "part", "last", "cancel", "close"},
            of: Requests, segment: 0 .. Segments, total: 0 .. Segments]

Packet(kind, r) == [kind |-> kind, of |-> r, segment |-> peer[r].segment, total |-> peer[r].total]

RequestsInit ==
  /\ open = TRUE
  /\ receipt = [r \in Requests |-> [status |-> "none", clock |-> FALSE, why |-> "none"]]
  /\ sending = [r \in Requests |-> "none"]
  /\ arriving = [r \in Requests |-> 0]
  /\ held = [r \in Requests |-> 0]
  /\ peer = [r \in Requests |-> [at |-> "away", segment |-> 0, total |-> 0]]
  /\ wire = <<>>

-----------------------------------------------------------------------------
(* A receipt.  It is in pendingRequests until it is READY or FAILED.        *)

Pending(r) == receipt[r].status \in {"SENT", "DELIVERED", "RECEIVING"}

Failed(x, why) == [x EXCEPT !.status = "FAILED", !.clock = FALSE, !.why = why]
Ready(x) == [x EXCEPT !.status = "READY", !.clock = FALSE]

\* _startResponseClock.
Delivered(x) == [x EXCEPT !.status = "DELIVERED", !.clock = TRUE]

\* _responseResourceProgress.
Receiving(x) == [x EXCEPT !.status = "RECEIVING", !.clock = FALSE]

\* _failRequest: and the reassembly of its response is dropped.
FailRequest(r, why) ==
  IF Pending(r)
  THEN /\ receipt' = [receipt EXCEPT ![r] = Failed(@, why)]
       /\ held' = [held EXCEPT ![r] = 0]
  ELSE UNCHANGED <<receipt, held>>

\* (Variant: request_timed_out, which acts only on a DELIVERED request.)
IncomingDroppedUnheard(r) ==
  /\ receipt' = IF receipt[r].status = "DELIVERED" THEN [receipt EXCEPT ![r] = Failed(@, "transfer")] ELSE receipt
  /\ held' = [held EXCEPT ![r] = 0]

\* An incoming Resource, or the reassembly it belongs to, ended without a payload.
IncomingDropped(r) ==
  /\ receipt' = IF Pending(r) THEN [receipt EXCEPT ![r] = Failed(@, "transfer")] ELSE receipt
  /\ held' = [held EXCEPT ![r] = 0]

-----------------------------------------------------------------------------
(* The client.                                                              *)

\* _sendRequestPayload, a packet: its response clock runs from the send.
SendPacket(r) ==
  /\ open /\ receipt[r].status = "none" /\ r \notin Big
  /\ receipt' = [receipt EXCEPT ![r] = Delivered(@)]
  /\ UNCHANGED <<open, sending, arriving, held, peer, wire>>

\* _sendRequestPayload, a Resource: SENT until the peer proves it.
SendResource(r) ==
  /\ open /\ receipt[r].status = "none" /\ r \in Big
  /\ receipt' = [receipt EXCEPT ![r].status = "SENT"]
  /\ sending' = [sending EXCEPT ![r] = "moving"]
  /\ UNCHANGED <<open, arriving, held, peer, wire>>

\* The request Resource's own watchdog gives it up.
SendingFails(r) ==
  /\ sending[r] = "moving"
  /\ sending' = [sending EXCEPT ![r] = "failed"]
  /\ UNCHANGED <<open, receipt, arriving, held, peer, wire>>

\* Its promise settles a task after it ended: _requestResourceConcluded.
SendingConcluded(r) ==
  /\ sending[r] \in {"proved", "failed"}
  /\ sending' = [sending EXCEPT ![r] = "over"]
  /\ \/ /\ sending[r] = "proved"
        /\ receipt' = IF receipt[r].status = "SENT" THEN [receipt EXCEPT ![r] = Delivered(@)] ELSE receipt
        /\ UNCHANGED held
     \/ sending[r] = "failed" /\ FailRequest(r, "unsent")
  /\ UNCHANGED <<open, arriving, peer, wire>>

\* The response clock runs out: it acts only on a DELIVERED request.
TimesOut(r) ==
  /\ receipt[r].clock /\ receipt[r].status = "DELIVERED"
  /\ FailRequest(r, "timeout")
  /\ UNCHANGED <<open, sending, arriving, peer, wire>>

\* requestPacketsLost: the exchange that carried the packet has failed.  The
\* exchange has ended before another brings anything of its answer.
PacketLost(r) ==
  /\ r \notin Big \cup Kept
  /\ receipt[r].status = "DELIVERED" /\ peer[r].at \in {"away", "holds"}
  /\ FailRequest(r, "lost")
  /\ UNCHANGED <<open, sending, arriving, peer, wire>>

\* cancel() of the response Resource, by its watchdog or by the peer.
TransferEnds(r) ==
  /\ arriving[r] # 0
  /\ arriving' = [arriving EXCEPT ![r] = 0]
  /\ IncomingDropped(r)
  /\ UNCHANGED <<open, sending, peer, wire>>

\* requestNext reaches the peer: the parts of the segment are asked for.
Ask(r) ==
  /\ arriving[r] # 0 /\ arriving[r] = peer[r].segment /\ peer[r].at \in {"advertised", "sent"}
  /\ peer' = [peer EXCEPT ![r].at = "asked"]
  /\ UNCHANGED <<open, receipt, sending, arriving, held, wire>>

\* (Variant: the Resources are cancelled first, and fail their requests.)
LinkClosedBackwards ==
  /\ open
  /\ open' = FALSE
  /\ receipt' = [r \in Requests |->
       IF Pending(r) THEN Failed(receipt[r], IF arriving[r] # 0 THEN "transfer" ELSE "closed") ELSE receipt[r]]
  /\ sending' = [r \in Requests |-> IF sending[r] = "moving" THEN "failed" ELSE sending[r]]
  /\ arriving' = [r \in Requests |-> 0]
  /\ held' = [r \in Requests |-> 0]
  /\ wire' = <<>>
  /\ UNCHANGED peer

\* Everything that follows a link reaching CLOSED.  The requests fail first.
LinkClosed ==
  /\ open
  /\ open' = FALSE
  /\ receipt' = [r \in Requests |-> IF Pending(r) THEN Failed(receipt[r], "closed") ELSE receipt[r]]
  /\ sending' = [r \in Requests |-> IF sending[r] = "moving" THEN "failed" ELSE sending[r]]
  /\ arriving' = [r \in Requests |-> 0]
  /\ held' = [r \in Requests |-> 0]
  /\ wire' = <<>>
  /\ UNCHANGED peer

-----------------------------------------------------------------------------
(* The peer, and the path back.  Whatever it sends may be lost.             *)

Room == Len(wire) < MaxWire

\* It has the whole request.  A Resource it proves.
PeerTakes(r) ==
  /\ open /\ peer[r].at = "away"
  /\ \/ r \notin Big /\ receipt[r].status # "none" /\ UNCHANGED wire
     \/ sending[r] = "moving" /\ Room /\ wire' = Append(wire, Packet("proof", r))
  /\ peer' = [peer EXCEPT ![r].at = "holds"]
  /\ UNCHANGED <<open, receipt, sending, arriving, held>>

\* It will not take the request Resource.
PeerRefuses(r) ==
  /\ open /\ peer[r].at = "away" /\ sending[r] = "moving" /\ Room
  /\ wire' = Append(wire, Packet("refusal", r))
  /\ peer' = [peer EXCEPT ![r].at = "over"]
  /\ UNCHANGED <<open, receipt, sending, arriving, held>>

\* The response: a packet, or a Resource compressed, which the client does not
\* support, or not.
PeerAnswers(r) ==
  /\ open /\ peer[r].at = "holds" /\ Room
  /\ \/ /\ peer' = [peer EXCEPT ![r].at = "over"]
        /\ \E kind \in {"response", "compressed"} : wire' = Append(wire, Packet(kind, r))
     \/ \E n \in 1 .. Segments :
          /\ peer' = [peer EXCEPT ![r] = [at |-> "advertised", segment |-> 1, total |-> n]]
          /\ wire' = Append(wire, [Packet("advert", r) EXCEPT !.segment = 1, !.total = n])
  /\ UNCHANGED <<open, receipt, sending, arriving, held>>

\* Nobody asked for a part: the advertisement again.
PeerAdvertisesAgain(r) ==
  /\ open /\ peer[r].at = "advertised" /\ Room
  /\ wire' = Append(wire, Packet("advert", r))
  /\ UNCHANGED <<open, receipt, sending, arriving, held, peer>>

PeerSendsParts(r) ==
  /\ open /\ peer[r].at = "asked" /\ Len(wire) + 1 < MaxWire
  /\ wire' = wire \o <<Packet("part", r), Packet("last", r)>>
  /\ peer' = [peer EXCEPT ![r].at = "sent"]
  /\ UNCHANGED <<open, receipt, sending, arriving, held>>

\* The segment is proved, and the next is advertised.
PeerGoesOn(r) ==
  /\ open /\ peer[r].at = "proved" /\ peer[r].segment < peer[r].total /\ Room
  /\ peer' = [peer EXCEPT ![r].at = "advertised", ![r].segment = @ + 1]
  /\ wire' = Append(wire, [Packet("advert", r) EXCEPT !.segment = @ + 1])
  /\ UNCHANGED <<open, receipt, sending, arriving, held>>

\* Its own watchdog ends the response Resource.
PeerGivesUp(r) ==
  /\ open /\ peer[r].at \in {"advertised", "asked", "sent"} /\ Room
  /\ wire' = Append(wire, Packet("cancel", r))
  /\ peer' = [peer EXCEPT ![r].at = "over"]
  /\ UNCHANGED <<open, receipt, sending, arriving, held>>

PeerCloses ==
  /\ open /\ Room
  /\ \E r \in Requests : wire' = Append(wire, Packet("close", r))
  /\ UNCHANGED <<open, receipt, sending, arriving, held, peer>>

Lose ==
  /\ wire # <<>>
  /\ wire' = Tail(wire)
  /\ UNCHANGED <<open, receipt, sending, arriving, held, peer>>

-----------------------------------------------------------------------------
(* What the client makes of a packet p for the request r.                   *)

\* onResourceProof, and the peer's refusal of a request Resource.
OnProof(r, end) ==
  /\ sending' = IF sending[r] = "moving" THEN [sending EXCEPT ![r] = end] ELSE sending
  /\ UNCHANGED <<receipt, arriving, held, peer>>

\* _handleResponse: only for a pending request.
OnResponse(r) ==
  /\ receipt' = IF Pending(r) THEN [receipt EXCEPT ![r] = Ready(@)] ELSE receipt
  /\ UNCHANGED <<sending, arriving, held, peer>>

\* A later segment is taken only as the next of its reassembly.
InOrder(p) == p.segment = 1 \/ held[p.of] = p.segment - 1

\* _responseRejected: a response already transferring is left to its transfer.
OnRefusedAdvert(r) ==
  /\ IF receipt[r].status = "RECEIVING" THEN UNCHANGED <<receipt, held>> ELSE FailRequest(r, "refused")
  /\ UNCHANGED <<sending, arriving, peer>>

\* An accepted advertisement: the request is RECEIVING, and the first parts
\* are asked for, which the peer hears or not.  One repeated is ignored.
OnAccepted(r, p) ==
  /\ IF arriving[r] = p.segment
     THEN UNCHANGED <<receipt, arriving, peer>>
     ELSE /\ arriving' = [arriving EXCEPT ![r] = p.segment]
          /\ receipt' = [receipt EXCEPT ![r] = Receiving(@)]
          /\ peer' \in {peer, [peer EXCEPT ![r].at = IF @ = "advertised" THEN "asked" ELSE @]}
  /\ UNCHANGED <<sending, held>>

\* A response Resource is taken only for a request that is pending.
OnAdvert(r, p) ==
  \/ ~Pending(r) /\ UNCHANGED <<receipt, sending, arriving, held, peer>>
  \/ /\ Pending(r) /\ (p.kind = "compressed" \/ ~InOrder(p))
     /\ OnRefusedAdvert(r)
  \/ Pending(r) /\ p.kind = "advert" /\ InOrder(p) /\ OnAccepted(r, p)

\* A part that is not the last: the request's transfer goes on, or, if the
\* request has failed, stops.
OnPart(r, p) ==
  /\ IF arriving[r] = p.segment /\ ~Pending(r)
     THEN arriving' = [arriving EXCEPT ![r] = 0] /\ held' = [held EXCEPT ![r] = 0]
     ELSE UNCHANGED <<arriving, held>>
  /\ UNCHANGED <<receipt, sending, peer>>

\* (Variant: as the reference, no clock.)
BetweenSegmentsUntimed(x) == x

\* _betweenSegments: the wait for the next segment is timed again.
BetweenSegments(x) == IF x.status = "RECEIVING" THEN Delivered(x) ELSE x

\* _dispatchConcludedResource: the response, which the client can read or not.
DispatchConcluded(r, p) ==
  \/ /\ InOrder(p)
     /\ receipt' = IF Pending(r) THEN [receipt EXCEPT ![r] = Ready(@)] ELSE receipt
     /\ held' = [held EXCEPT ![r] = 0]
  \/ IncomingDropped(r)

\* The last part: the Resource is assembled, proved and concluded.  A segment
\* of a split response joins its reassembly, and the last hands it on.
OnLast(r, p) ==
  /\ arriving' = [arriving EXCEPT ![r] = IF @ = p.segment THEN 0 ELSE @]
  /\ \/ arriving[r] # p.segment /\ UNCHANGED <<receipt, held, peer>>
     \/ /\ arriving[r] = p.segment /\ p.segment < p.total
        /\ IF InOrder(p)
           THEN /\ receipt' = [receipt EXCEPT ![r] = BetweenSegments(@)]
                /\ held' = [held EXCEPT ![r] = p.segment]
           ELSE IncomingDropped(r)
        /\ peer' \in {peer, [peer EXCEPT ![r].at = IF @ = "sent" THEN "proved" ELSE @]}
     \/ /\ arriving[r] = p.segment /\ p.segment = p.total
        /\ DispatchConcluded(r, p)
        /\ peer' \in {peer, [peer EXCEPT ![r].at = IF @ = "sent" THEN "proved" ELSE @]}
  /\ UNCHANGED sending

\* RESOURCE_ICL.
OnCancel(r) ==
  /\ IF arriving[r] = 0
     THEN UNCHANGED <<receipt, arriving, held>>
     ELSE arriving' = [arriving EXCEPT ![r] = 0] /\ IncomingDropped(r)
  /\ UNCHANGED <<sending, peer>>

ReceivePacket ==
  /\ open /\ wire # <<>>
  /\ LET p == Head(wire) r == p.of
     IN  \/ p.kind = "close" /\ LinkClosed
         \/ /\ p.kind # "close"
            /\ \/ p.kind = "proof" /\ OnProof(r, "proved")
               \/ p.kind = "refusal" /\ OnProof(r, "failed")
               \/ p.kind = "response" /\ OnResponse(r)
               \/ p.kind \in {"advert", "compressed"} /\ OnAdvert(r, p)
               \/ p.kind = "part" /\ OnPart(r, p)
               \/ p.kind = "last" /\ OnLast(r, p)
               \/ p.kind = "cancel" /\ OnCancel(r)
            /\ wire' = Tail(wire)
            /\ UNCHANGED open

-----------------------------------------------------------------------------
Timers(r) == TimesOut(r) \/ SendingFails(r) \/ SendingConcluded(r) \/ TransferEnds(r)

Client(r) == SendPacket(r) \/ SendResource(r) \/ PacketLost(r) \/ Ask(r) \/ Timers(r)

Peer(r) ==
  \/ PeerTakes(r) \/ PeerRefuses(r) \/ PeerAnswers(r) \/ PeerAdvertisesAgain(r)
  \/ PeerSendsParts(r) \/ PeerGoesOn(r) \/ PeerGivesUp(r)

RequestsNext ==
  \/ \E r \in Requests : Client(r) \/ Peer(r)
  \/ ReceivePacket \/ Lose \/ PeerCloses \/ LinkClosed

RequestsSpec == RequestsInit /\ [][RequestsNext]_requestVars

\* Timers fire, and a settled promise is heard.  Nothing says that the peer
\* answers, or that a packet arrives.
RequestsFairSpec == RequestsSpec /\ \A r \in Requests :
  /\ WF_requestVars(TimesOut(r)) /\ WF_requestVars(SendingFails(r))
  /\ WF_requestVars(SendingConcluded(r)) /\ WF_requestVars(TransferEnds(r))

-----------------------------------------------------------------------------
RequestTypeOK ==
  /\ open \in BOOLEAN
  /\ receipt \in [Requests -> Receipts]
  /\ sending \in [Requests -> {"none", "moving", "proved", "failed", "over"}]
  /\ arriving \in [Requests -> 0 .. Segments]
  /\ held \in [Requests -> 0 .. Segments]
  /\ peer \in [Requests -> [at: {"away", "holds", "advertised", "asked", "sent", "proved", "over"},
                            segment: 0 .. Segments, total: 0 .. Segments]]
  /\ wire \in Seq(Packets)

\* A pending request is on a link that is up, and something that must happen
\* will decide it: its Resource ends, its response clock runs out, or the
\* transfer of its response ends.  None is left pending with nothing running
\* (link.js 1596: "a sender that never advertised the next segment would leave
\* the request pending for as long as the link lives").
SomethingDecides ==
  \A r \in Requests : Pending(r) =>
    /\ open
    /\ CASE receipt[r].status = "SENT" -> sending[r] \in {"moving", "proved", "failed"}
         [] receipt[r].status = "DELIVERED" -> receipt[r].clock
         [] receipt[r].status = "RECEIVING" -> arriving[r] # 0

\* The response clock never runs while the response is transferring, however
\* late the request's own proof is heard: a slow part fails nothing.
NotTimedMidTransfer ==
  \A r \in Requests : Pending(r) /\ arriving[r] # 0 =>
    receipt[r].status = "RECEIVING" /\ ~receipt[r].clock

\* In every state: the types, and what will decide a pending request.
RequestSound == RequestTypeOK /\ SomethingDecides /\ NotTimedMidTransfer

\* A request is answered or failed once.
OutcomeStands ==
  [][\A r \in Requests : receipt[r].status \in {"READY", "FAILED"} =>
       receipt'[r].status = receipt[r].status]_requestVars

\* A request the close of its link decides says so: it fails before its
\* response is cancelled.
CloseIsTheReason ==
  [][\A r \in Requests : open /\ ~open' /\ Pending(r) =>
       receipt'[r].status = "FAILED" /\ receipt'[r].why = "closed"]_requestVars

\* The outcome of a request: once, and for the reason that decided it.
OutcomeSound == OutcomeStands /\ CloseIsTheReason

\* Every request ends, whatever the peer does or does not do.
RequestEnds == \A r \in Requests : Pending(r) ~> ~Pending(r)
=============================================================================
