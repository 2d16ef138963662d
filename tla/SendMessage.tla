----------------------------- MODULE SendMessage -----------------------------
(***************************************************************************)
(* What becomes of a direct message the user sends: app.js sendMessage,    *)
(* _dispatchMessage, _propagateMessage, _flushPropagation and the 30 s     *)
(* ceiling, with lib/send_progress.js and the propagation link's attempts  *)
(* and events.  A direct attempt and a propagated copy race each other,    *)
(* the exchange's losses, the ceiling, the links' events (delivered a task *)
(* late) and the connection's end.  A run of JavaScript up to the next     *)
(* await is one step.                                                      *)
(***************************************************************************)
EXTENDS Integers, Sequences, FiniteSets

CONSTANTS
  Messages,   \* the messages the user sends
  Kinds,      \* what they may be: see kind
  Links,      \* ids for propagation links, used again once a link is forgotten
  MaxStops,   \* bound: disconnects and reloads
  MaxOutages, \* bound: times the exchange goes down
  MaxCloses   \* bound: propagation links that close or go stale

ASSUME SendAssumption ==
  /\ IsFiniteSet(Messages)
  /\ Kinds \subseteq {"packet", "linked", "bulk", "distro"}
  /\ MaxStops \in Nat /\ MaxOutages \in Nat /\ MaxCloses \in Nat

VARIABLES
  msg,          \* per message: its record, timers and transfers
  rns,          \* _rns is set: there is a connection
  initialized,  \* _initialized: its exchange has registered
  down,         \* _exchangeIsDown()
  nodeKnown,    \* propagationNodePubKey is known
  warming,      \* per connection: what its _dispatchQueued reads attachments for
  propLink,     \* _propLink, or NoLink
  promise,      \* the link _propLinkPromise waits for, or NoLink
  reopen,       \* _propReopenArmed
  link,         \* status of each propagation link
  events,       \* links' "established" and "close" on their way to listeners
  flush,        \* per link: parked messages its _flushPropagation has yet to visit
  visiting,     \* per link: the message whose copy that flush awaits, or NoMessage
  stops, outages, closes  \* counts towards the bounds

connection == <<rns, initialized, down, nodeKnown, stops, outages>>
links == <<propLink, promise, reopen, link, events, closes>>
flushes == <<flush, visiting>>
vars == <<msg, connection, warming, links, flushes>>

NoLink == "no link"
NoMessage == "no message"

(* A message's state.  kind: "packet" goes as one packet both ways,         *)
(* "linked" as a packet over the peer's link and a Resource to the node,    *)
(* "bulk" (attachments) as a Resource both ways, "distro" to the node only. *)
Fresh(kind) ==
  [kind |-> kind,
   status |-> "none", waitFor |-> "null",  \* the stored record
   direct |-> "none",      \* the direct attempt: none, linking, resource, packet or doomed
   copy |-> "none",        \* the copy: none, link, mining, packet or resource
   on |-> NoLink,          \* the link the copy waits for or goes on
   proofs |-> {},          \* _pendingPacketHashes: legs whose packet may be proved
   ticket |-> FALSE,       \* _pendingTickets
   legs |-> {}, transfers |-> {}, deferred |-> FALSE, settled |-> FALSE,  \* SendTransfers
   fallback |-> FALSE, ceiling |-> FALSE,  \* timers
   started |-> FALSE,      \* propagationStarted
   uploads |-> 0,          \* copies put on the wire
   cut |-> FALSE]          \* the connection ended while it was under way

Settled(r) == r.status \in {"proved", "propagated", "failed"}
IsQueued(r) == r.status = "queued" /\ r.waitFor = "init"
IsParked(r) == r.waitFor = "propagation"

Init ==
  /\ msg \in [Messages -> {Fresh(k) : k \in Kinds}]
  /\ rns = TRUE /\ initialized = FALSE /\ down = FALSE
  /\ nodeKnown \in BOOLEAN
  /\ warming = [c \in 0..MaxStops |-> {}]
  /\ propLink = NoLink /\ promise = NoLink /\ reopen = FALSE
  /\ link = [l \in Links |-> "none"] /\ events = <<>>
  /\ flush = [l \in Links |-> <<>>] /\ visiting = [l \in Links |-> NoMessage]
  /\ stops = 0 /\ outages = 0 /\ closes = 0

-----------------------------------------------------------------------------
(* lib/send_progress.js, and what moves a record: from record to record. *)

\* settle(): forgotten once no transfer of it is left.
Settle(r) ==
  IF r.transfers = {}
  THEN [r EXCEPT !.legs = {}, !.deferred = FALSE, !.settled = FALSE]
  ELSE [r EXCEPT !.deferred = FALSE, !.settled = TRUE]

\* _failSending.  (Variant: whatever its status.)
FailsAnyway(r) == Settle([r EXCEPT !.status = "failed", !.ceiling = FALSE])
FailSending(r) ==
  IF r.status # "sending" THEN r
  ELSE Settle([r EXCEPT !.status = "failed", !.ceiling = FALSE])

\* end(): a transfer is over; the last one runs the ceiling put off for it.
End(r, leg, ok) ==
  LET left == [r EXCEPT !.transfers = @ \ {leg}]
      over == IF left.settled THEN Settle(left) ELSE left
  IN IF left.transfers # {} \/ ~r.deferred THEN IF left.transfers # {} THEN left ELSE over
     ELSE IF ~ok /\ leg = "propagated" THEN FailSending([over EXCEPT !.deferred = FALSE])
     ELSE [over EXCEPT !.deferred = FALSE, !.ceiling = TRUE]

\* legFailed(): TRUE when it was the last way to deliver the message.
LastLeg(r, leg) == ~r.settled /\ r.legs = {leg}
LegGone(r, leg) == [r EXCEPT !.legs = IF r.settled THEN @ ELSE @ \ {leg}]

\* _propagationFailed.
PropagationFailed(r) ==
  LET s == LegGone(r, "propagated") IN
  IF LastLeg(r, "propagated") THEN FailSending(s) ELSE s

\* onProof of the direct attempt, and markPropagated.
Proved(r) == Settle([r EXCEPT !.status = "proved"])
Propagated(r) == IF r.status = "proved" THEN r ELSE Settle([r EXCEPT !.status = "propagated"])

\* park().
Park(r) ==
  IF Settled(r) THEN [r EXCEPT !.copy = "none", !.on = NoLink]
  ELSE [r EXCEPT !.status = "queued", !.waitFor = "propagation", !.copy = "none", !.on = NoLink]

\* _dispatchMessage of a message whose direct attempt leaves: both timers run.
Dispatched(r) ==
  [r EXCEPT !.status = "sending", !.waitFor = "null",
            !.direct = CASE r.kind = "distro" -> "none" [] r.kind = "packet" -> "packet"
                         [] OTHER -> "linking",
            !.proofs = IF r.kind = "packet" THEN {"direct"} ELSE {},
            !.ticket = r.kind # "distro",
            !.legs = IF r.kind = "distro" THEN {} ELSE {"direct"},
            !.fallback = TRUE, !.ceiling = TRUE, !.started = FALSE]

\* The exchange is down, or its bytes are gone or too many: it fails at once.
Refused(r) == [r EXCEPT !.status = "failed", !.waitFor = "null"]

\* _dispatchMessage once the connection is gone: _sendPacket throws before
\* a timer is set; only a distro's message has no direct attempt to throw.
Stranded(r) ==
  IF r.kind = "distro" THEN Dispatched(r)
  ELSE [r EXCEPT !.status = "sending", !.waitFor = "null", !.cut = TRUE]

-----------------------------------------------------------------------------
(* The propagation link's attempts. *)

\* An id no link, event or message refers to any more.
Unused ==
  {l \in Links :
     /\ link[l] \in {"none", "closed"} /\ l # propLink
     /\ \A k \in 1..Len(events) : events[k].of # l
     /\ flush[l] = <<>> /\ visiting[l] = NoMessage
     /\ \A m \in Messages : msg[m].on # l}

\* _establishPropagationLink: a new attempt.
Establish ==
  /\ Unused # {}
  /\ LET l == CHOOSE l \in Unused : TRUE IN
       /\ propLink' = l /\ promise' = l
       /\ link' = [link EXCEPT ![l] = "pending"]

\* The node's announce, or the page or the exchange coming back: the link's
\* re-open is armed, and a link that is down gets one attempt.
Redrive ==
  /\ rns
  /\ \/ nodeKnown /\ UNCHANGED nodeKnown
     \/ ~nodeKnown /\ nodeKnown' = TRUE
  /\ reopen' = TRUE
  /\ IF ~down /\ propLink = NoLink /\ promise = NoLink
     THEN Establish
     ELSE UNCHANGED <<propLink, promise, link>>
  /\ UNCHANGED <<msg, rns, initialized, down, stops, outages, warming, events, closes, flushes>>

\* A link comes up, goes stale and recovers, or closes; its listeners hear
\* of it on a later task.
LinkUp(l) ==
  /\ rns /\ link[l] = "pending"
  /\ link' = [link EXCEPT ![l] = "active"]
  /\ events' = Append(events, [name |-> "established", of |-> l, up |-> TRUE])
  /\ UNCHANGED <<msg, connection, warming, propLink, promise, reopen, closes, flushes>>

LinkStale(l) ==
  /\ link[l] = "active" /\ closes < MaxCloses
  /\ link' = [link EXCEPT ![l] = "stale"]
  /\ closes' = closes + 1
  /\ UNCHANGED <<msg, connection, warming, propLink, promise, reopen, events, flushes>>

LinkRecovers(l) ==
  /\ link[l] = "stale"
  /\ link' = [link EXCEPT ![l] = "active"]
  /\ UNCHANGED <<msg, connection, warming, propLink, promise, reopen, events, closes, flushes>>

LinkCloses(l) ==
  /\ link[l] \in {"pending", "active", "stale"}
  /\ \/ link[l] # "active" /\ closes' = closes
     \/ link[l] = "active" /\ closes < MaxCloses /\ closes' = closes + 1
  /\ link' = [link EXCEPT ![l] = "closed"]
  /\ events' = Append(events, [name |-> "close", of |-> l, up |-> link[l] # "pending"])
  /\ UNCHANGED <<msg, connection, warming, propLink, promise, reopen, flushes>>

-----------------------------------------------------------------------------
(* The user sends. *)

Send(m) ==
  /\ msg[m].status = "none"
  /\ \/ /\ ~initialized
        /\ msg' = [msg EXCEPT ![m] = [@ EXCEPT !.status = "queued", !.waitFor = "init"]]
     \/ /\ initialized /\ down
        /\ msg' = [msg EXCEPT ![m] = Refused(@)]
     \/ /\ initialized /\ ~down
        /\ msg' = [msg EXCEPT ![m] = Dispatched(@)]
     \/ /\ initialized /\ ~down /\ msg[m].kind = "bulk"
        /\ msg' = [msg EXCEPT ![m] = Refused(@)]
  /\ UNCHANGED <<connection, warming, links, flushes>>

\* _dispatchQueued's pass over the messages `S`; `gone` lost their bytes.
\* (Variant: lost bytes stop all.)
AllOrNone(S, gone) ==
  msg' = [m \in Messages |->
            IF m \in S /\ IsQueued(msg[m]) /\ gone = {}
            THEN IF rns THEN Dispatched(msg[m]) ELSE Stranded(msg[m])
            ELSE msg[m]]
DispatchAll(S, gone) ==
  msg' = [m \in Messages |->
            IF m \in S /\ IsQueued(msg[m])
            THEN IF m \in gone THEN Refused(msg[m])
                 ELSE IF rns THEN Dispatched(msg[m]) ELSE Stranded(msg[m])
            ELSE msg[m]]

\* _onExchangeRegistered: the first registration of a connection initializes
\* it.  Queued messages go now, or once the attachments among them are read.
Registered ==
  LET queued == {m \in Messages : IsQueued(msg[m])} IN
  /\ rns /\ ~initialized
  /\ initialized' = TRUE
  /\ IF \E m \in queued : msg[m].kind = "bulk"
     THEN warming' = [warming EXCEPT ![stops] = queued] /\ UNCHANGED msg
     ELSE DispatchAll(queued, {}) /\ UNCHANGED warming
  /\ UNCHANGED <<rns, down, nodeKnown, stops, outages, links, flushes>>

\* Connection c's messages have their bytes in memory; another may be up.
Warmed(c) ==
  /\ warming[c] # {}
  /\ \E gone \in SUBSET {m \in warming[c] : msg[m].kind = "bulk"} : DispatchAll(warming[c], gone)
  /\ warming' = [warming EXCEPT ![c] = {}]
  /\ UNCHANGED <<connection, links, flushes>>

-----------------------------------------------------------------------------
(* The propagated copy. *)

\* _propagateMessage up to its first await, for the record `r` of message m.
StartCopy(m, r) ==
  LET opened == [r EXCEPT !.legs = @ \cup {"propagated"}]
      up == propLink # NoLink /\ link[propLink] = "active"
  IN IF Settled(r) THEN msg' = [msg EXCEPT ![m] = r] /\ UNCHANGED links
     ELSE IF up
     THEN msg' = [msg EXCEPT ![m] = [opened EXCEPT !.copy = "mining", !.on = propLink]]
          /\ UNCHANGED links
     ELSE IF ~nodeKnown \/ ~rns
     THEN msg' = [msg EXCEPT ![m] = Park(opened)] /\ UNCHANGED links
     ELSE /\ IF promise = NoLink THEN Establish ELSE UNCHANGED <<propLink, promise, link>>
          /\ UNCHANGED <<reopen, events, closes>>
          /\ msg' = [msg EXCEPT ![m] = [opened EXCEPT !.copy = "link", !.on = promise']]

\* propagate() of _dispatchMessage: the copy goes once.
Propagate(m, r) ==
  IF r.started THEN msg' = [msg EXCEPT ![m] = r] /\ UNCHANGED links
  ELSE StartCopy(m, [r EXCEPT !.started = TRUE])

\* The propagation delay ran out, and no transfer of the message moves.
Fallback(m) ==
  /\ msg[m].fallback
  /\ Propagate(m, [msg[m] EXCEPT !.fallback = FALSE])
  /\ UNCHANGED <<connection, warming, flushes>>

\* A flush that awaits the copy of m goes on to the next.
FlushGoesOn(m) ==
  /\ visiting' = [l \in Links |-> IF visiting[l] = m THEN NoMessage ELSE visiting[l]]
  /\ UNCHANGED flush

\* The stamp is mined: the copy is uploaded if the message still needs it,
\* its link is up and the node takes it.  (Variant: unless it is proved.)
UnlessProved(r) == r.status # "proved"
StillWanted(r) == ~Settled(r)

Upload(r) ==
  IF r.kind \in {"packet", "distro"}
  THEN [r EXCEPT !.copy = "packet", !.proofs = @ \cup {"propagated"}, !.uploads = @ + 1]
  ELSE [r EXCEPT !.copy = "resource", !.transfers = @ \cup {"propagated"}, !.uploads = @ + 1]

\* _computePropagationStamp: the copy waits for its stamp, task after task, and
\* goes without one when there is none.
Mining(r) == r.copy = "mining"

Mined(m) ==
  LET r == msg[m]
      ended == [r EXCEPT !.copy = "none", !.on = NoLink] IN
  /\ Mining(r)
  /\ \/ ~StillWanted(r) /\ msg' = [msg EXCEPT ![m] = ended]
     \/ StillWanted(r) /\ link[r.on] # "active" /\ msg' = [msg EXCEPT ![m] = Park(r)]
     \/ StillWanted(r) /\ link[r.on] = "active" /\ msg' = [msg EXCEPT ![m] = Upload(r)]
     \* Its attachments' bytes are gone; it is over the node's limit.
     \/ r.kind = "bulk" /\ msg' = [msg EXCEPT ![m] = FailSending(ended)]
     \/ r.kind = "bulk" /\ StillWanted(r) /\ link[r.on] = "active"
        /\ msg' = [msg EXCEPT ![m] = PropagationFailed(ended)]
  /\ FlushGoesOn(m)
  /\ UNCHANGED <<connection, warming, links>>

\* The node proves the copy, or its Resource fails.
CopyProved(m) ==
  LET r == msg[m] IN
  /\ \/ /\ r.copy = "resource" /\ link[r.on] = "active"
        /\ msg' = [msg EXCEPT ![m] =
                     Propagated(End([r EXCEPT !.copy = "none", !.on = NoLink], "propagated", TRUE))]
     \/ /\ "propagated" \in r.proofs
        /\ msg' = [msg EXCEPT ![m] =
                     Propagated([r EXCEPT !.copy = "none", !.on = NoLink,
                                          !.proofs = @ \ {"propagated"}])]
  /\ UNCHANGED <<connection, warming, links, flushes>>

CopyFails(m) ==
  LET r == msg[m] IN
  /\ r.copy = "resource"
  /\ msg' = [msg EXCEPT ![m] =
               PropagationFailed(End([r EXCEPT !.copy = "none", !.on = NoLink], "propagated", FALSE))]
  /\ UNCHANGED <<connection, warming, links, flushes>>

-----------------------------------------------------------------------------
(* The direct attempt. *)

\* _sendOverPeerLink: the link to the peer is up.
PeerLinked(m) ==
  LET r == msg[m] IN
  /\ r.direct = "linking"
  /\ msg' = [msg EXCEPT ![m] =
               IF r.kind = "bulk"
               THEN [r EXCEPT !.direct = "resource", !.transfers = @ \cup {"direct"}]
               ELSE [r EXCEPT !.direct = "packet", !.proofs = @ \cup {"direct"}]]
  /\ UNCHANGED <<connection, warming, links, flushes>>

\* The peer proves it, by packet, Resource or delivery notification.
DirectProved(m) ==
  LET r == msg[m] IN
  /\ \/ /\ "direct" \in r.proofs
        /\ msg' = [msg EXCEPT ![m] = Proved([r EXCEPT !.direct = "none", !.proofs = @ \ {"direct"}])]
     \/ /\ r.direct = "resource"
        /\ msg' = [msg EXCEPT ![m] = Proved(End([r EXCEPT !.direct = "none"], "direct", TRUE))]
     \/ /\ r.ticket /\ (r.direct \in {"packet", "resource"} \/ r.uploads > 0)
        /\ msg' = [msg EXCEPT ![m] = Proved([r EXCEPT !.ticket = FALSE])]
  /\ UNCHANGED <<connection, warming, links, flushes>>

\* Its link or Resource fails: the copy goes now.  If it went before and has
\* failed too, so has the message.
DirectFails(m) ==
  LET r == msg[m]
      ended == IF "direct" \in r.transfers
               THEN End([r EXCEPT !.direct = "none"], "direct", FALSE)
               ELSE [r EXCEPT !.direct = "none"]
  IN
  /\ r.direct \in {"linking", "resource", "doomed"}
  /\ IF r.started
     THEN /\ msg' = [msg EXCEPT ![m] = IF LastLeg(ended, "direct")
                                       THEN FailSending(LegGone(ended, "direct"))
                                       ELSE LegGone(ended, "direct")]
          /\ UNCHANGED links
     ELSE Propagate(m, LegGone(ended, "direct"))
  /\ UNCHANGED <<connection, warming, flushes>>

\* PostInterface "lost": the exchange that carried its packet failed.
PacketLost(m) ==
  LET r == msg[m] IN
  /\ rns /\ r.proofs # {}
  /\ r.status = "sending"
  /\ msg' = [msg EXCEPT ![m] = [r EXCEPT !.status = "failed", !.ceiling = FALSE]]
  /\ UNCHANGED <<connection, warming, links, flushes>>

\* The 30 s ceiling: transfers in flight put it off to their end.
Ceiling(m) ==
  LET r == [msg[m] EXCEPT !.ceiling = FALSE] IN
  /\ msg[m].ceiling
  /\ msg' = [msg EXCEPT ![m] = IF r.transfers # {} THEN [r EXCEPT !.deferred = TRUE]
                               ELSE FailSending(r)]
  /\ UNCHANGED <<connection, warming, links, flushes>>

-----------------------------------------------------------------------------
(* The links' events reach their listeners. *)

\* Copies that waited for attempt l.
Waiters(l) == {m \in Messages : msg[m].copy = "link" /\ msg[m].on = l}

\* What the flush of a link will visit, oldest first.
Parked == {m \in Messages : IsParked(msg[m])}
InOrder(S) == {s \in [1..Cardinality(S) -> S] : {s[k] : k \in DOMAIN s} = S}

\* "established": the waiting copies go on, and a flush begins.
Established(l) ==
  /\ events # <<>> /\ Head(events).name = "established" /\ Head(events).of = l
  /\ events' = Tail(events)
  /\ promise' = NoLink /\ reopen' = TRUE
  /\ msg' = [m \in Messages |->
               IF m \in Waiters(l) THEN [msg[m] EXCEPT !.copy = IF Settled(msg[m]) THEN "none" ELSE "mining",
                                                       !.on = IF Settled(msg[m]) THEN NoLink ELSE l]
               ELSE msg[m]]
  /\ IF propLink # NoLink /\ link[propLink] = "active"
     THEN \E order \in InOrder(Parked) : flush' = [flush EXCEPT ![propLink] = order]
     ELSE UNCHANGED flush
  /\ UNCHANGED <<connection, warming, propLink, link, closes, visiting>>

\* "close": of a superseded link nothing.  Else the waiting copies are
\* parked, and a link that had been up is opened again, once.
LinkGone(l) ==
  LET again == Head(events).up /\ rns /\ reopen IN
  /\ events # <<>> /\ Head(events).name = "close" /\ Head(events).of = l
  /\ events' = Tail(events)
  /\ IF propLink # l THEN UNCHANGED <<propLink, promise, link, reopen, msg>>
     ELSE /\ msg' = [m \in Messages |-> IF m \in Waiters(l) THEN Park(msg[m]) ELSE msg[m]]
          /\ reopen' = (reopen /\ ~Head(events).up)
          /\ IF again /\ nodeKnown /\ ~down THEN Establish
             ELSE propLink' = NoLink /\ promise' = NoLink /\ UNCHANGED link
  /\ UNCHANGED <<connection, warming, closes, flushes>>

\* _flushPropagation: the next parked message is claimed, then uploaded.
\* (Variant: uploaded and not claimed.)
VisitedUnclaimed(r, l) ==
  [r EXCEPT !.ceiling = TRUE, !.legs = @ \cup {"propagated"}, !.copy = "mining", !.on = l]
Claimed(r, l) ==
  [r EXCEPT !.status = "sending", !.waitFor = "null", !.ceiling = TRUE,
            !.legs = @ \cup {"propagated"}, !.copy = "mining", !.on = l]

FlushStep(l) ==
  LET m == Head(flush[l]) IN
  /\ flush[l] # <<>> /\ visiting[l] = NoMessage
  /\ IF propLink # l \/ link[l] # "active"
     THEN flush' = [flush EXCEPT ![l] = <<>>] /\ UNCHANGED <<msg, visiting>>
     ELSE /\ flush' = [flush EXCEPT ![l] = Tail(@)]
          /\ IF IsParked(msg[m]) /\ ~Settled(msg[m])
             THEN /\ msg' = [msg EXCEPT ![m] = Claimed(@, l)]
                  /\ visiting' = [visiting EXCEPT ![l] = m]
             ELSE UNCHANGED <<msg, visiting>>
  /\ UNCHANGED <<connection, warming, links>>

-----------------------------------------------------------------------------
(* The connection. *)

ExchangeDown ==
  /\ initialized /\ ~down /\ outages < MaxOutages
  /\ down' = TRUE /\ outages' = outages + 1
  /\ UNCHANGED <<msg, rns, initialized, nodeKnown, stops, warming, links, flushes>>

ExchangeUp ==
  /\ down /\ down' = FALSE
  /\ UNCHANGED <<msg, rns, initialized, nodeKnown, stops, outages, warming, links, flushes>>

\* Under way: shown as being sent.
UnderWay(r) == r.status = "sending"

\* disconnect(): timers, proofs and tickets go, every link closes; parked
\* and queued messages stay, and so does the fallback's timer.
Disconnect ==
  /\ rns /\ stops < MaxStops /\ stops' = stops + 1
  /\ rns' = FALSE /\ initialized' = FALSE /\ down' = FALSE
  /\ msg' = [m \in Messages |->
       LET r == [msg[m] EXCEPT !.proofs = {}, !.ticket = FALSE, !.ceiling = FALSE,
                               !.direct = IF @ \in {"linking", "resource"} THEN "doomed" ELSE "none",
                               !.cut = @ \/ UnderWay(msg[m])]
       IN IF r.copy = "link" THEN Park(r)
          ELSE IF r.copy = "packet" THEN [r EXCEPT !.copy = "none", !.on = NoLink] ELSE r]
  /\ propLink' = NoLink /\ promise' = NoLink /\ reopen' = FALSE
  /\ IF propLink # NoLink /\ link[propLink] # "closed"
     THEN /\ link' = [link EXCEPT ![propLink] = "closed"]
          /\ events' = Append(events, [name |-> "close", of |-> propLink, up |-> link[propLink] # "pending"])
     ELSE UNCHANGED <<link, events>>
  /\ UNCHANGED <<nodeKnown, outages, warming, closes, flushes>>

\* The page is loaded again: only what is stored is left.
Reload ==
  /\ stops < MaxStops /\ stops' = stops + 1
  /\ rns' = FALSE /\ initialized' = FALSE /\ down' = FALSE
  /\ msg' = [m \in Messages |->
       [Fresh(msg[m].kind) EXCEPT !.status = msg[m].status, !.waitFor = msg[m].waitFor,
                                  !.uploads = msg[m].uploads,
                                  !.cut = msg[m].cut \/ UnderWay(msg[m])]]
  /\ warming' = [c \in 0..MaxStops |-> {}]
  /\ propLink' = NoLink /\ promise' = NoLink /\ reopen' = FALSE
  /\ link' = [l \in Links |-> "none"] /\ events' = <<>>
  /\ flush' = [l \in Links |-> <<>>] /\ visiting' = [l \in Links |-> NoMessage]
  /\ UNCHANGED <<nodeKnown, outages, closes>>

\* A new connection; what the old one's links had to say has been heard
\* while it asked for its configuration.
Connect ==
  /\ ~rns /\ rns' = TRUE
  /\ events = <<>>
  /\ UNCHANGED <<msg, initialized, down, nodeKnown, stops, outages, warming, links, flushes>>

-----------------------------------------------------------------------------
MessageNext(m) ==
  \/ Send(m) \/ Fallback(m) \/ Mined(m) \/ CopyProved(m) \/ CopyFails(m)
  \/ PeerLinked(m) \/ DirectProved(m) \/ DirectFails(m) \/ PacketLost(m) \/ Ceiling(m)

LinkNext(l) ==
  \/ LinkUp(l) \/ LinkStale(l) \/ LinkRecovers(l) \/ LinkCloses(l)
  \/ Established(l) \/ LinkGone(l) \/ FlushStep(l)

Next ==
  \/ \E m \in Messages : MessageNext(m)
  \/ \E l \in Links : LinkNext(l)
  \/ \E c \in 0..MaxStops : Warmed(c)
  \/ Redrive \/ Registered \/ ExchangeDown \/ ExchangeUp
  \/ Disconnect \/ Reload \/ Connect

Spec == Init /\ [][Next]_vars

\* Timers fire, mining and reads end, events are delivered, an attempt at a
\* link ends, and a Resource concludes or fails by its own watchdog.
Fairness ==
  /\ \A c \in 0..MaxStops : WF_vars(Warmed(c))
  /\ \A m \in Messages :
       /\ WF_vars(Fallback(m)) /\ WF_vars(Ceiling(m)) /\ WF_vars(Mined(m))
       /\ WF_vars(CopyFails(m))
       /\ WF_vars(msg[m].direct \in {"resource", "doomed"} /\ DirectFails(m))
  /\ \A l \in Links :
       /\ WF_vars(link[l] = "pending" /\ LinkCloses(l))
       /\ WF_vars(Established(l) \/ LinkGone(l)) /\ WF_vars(FlushStep(l))

FairSpec == Spec /\ Fairness

-----------------------------------------------------------------------------
Statuses == {"none", "queued", "sending", "proved", "propagated", "failed"}
Legs == {"direct", "propagated"}

TypeOK ==
  /\ msg \in [Messages ->
       [kind : Kinds, status : Statuses, waitFor : {"null", "init", "propagation"},
        direct : {"none", "linking", "resource", "packet", "doomed"},
        copy : {"none", "link", "mining", "packet", "resource"}, on : Links \cup {NoLink},
        proofs : SUBSET Legs, ticket : BOOLEAN, legs : SUBSET Legs, transfers : SUBSET Legs,
        deferred : BOOLEAN, settled : BOOLEAN, fallback : BOOLEAN, ceiling : BOOLEAN,
        started : BOOLEAN, uploads : Nat, cut : BOOLEAN]]
  /\ \A m \in Messages : msg[m].settled => msg[m].transfers # {} /\ Settled(msg[m])
  /\ {rns, initialized, down, nodeKnown, reopen} \subseteq BOOLEAN
  /\ warming \in [0..MaxStops -> SUBSET Messages]
  /\ {propLink, promise} \subseteq Links \cup {NoLink}
  /\ link \in [Links -> {"none", "pending", "active", "stale", "closed"}]
  /\ events \in Seq([name : {"established", "close"}, of : Links, up : BOOLEAN])
  /\ flush \in [Links -> Seq(Messages)] /\ visiting \in [Links -> Messages \cup {NoMessage}]
  /\ stops \in 0..MaxStops /\ outages \in 0..MaxOutages /\ closes \in 0..MaxCloses

\* The node gets the copy of a message once: not from overlapping flushes,
\* the fallback and a direct failure, nor after a reload (_propagateMessage,
\* _flushPropagation: "neither a second "established" nor a reload can
\* propagate it again").
OneUpload == \A m \in Messages : msg[m].uploads <= 1

\* The invariants of a send: its types, and one copy.
CopySound == TypeOK /\ OneUpload

\* A copy goes only for a message the user still sees being sent: proved,
\* or shown failed, while its link came up or its stamp was mined, it does
\* not go (D3: a failed send is dead).
NoCopyAfterOutcome ==
  [][\A m \in Messages : msg'[m].uploads > msg[m].uploads => msg[m].status = "sending"]_vars

\* What the user was shown only gets better: a delivery is never taken back,
\* and a message that failed is never sending or queued again.
OutcomeStands ==
  [][\A m \in Messages :
       LET was == msg[m].status
           is == msg'[m].status IN
       /\ was = "proved" => is = "proved"
       /\ was = "propagated" => is \in {"propagated", "proved"}
       /\ was = "failed" => is \in {"failed", "propagated", "proved"}]_vars

\* A message stays "sending" no longer than something is left to decide it,
\* unless the connection ended under it.
SendingEnds ==
  \A m \in Messages : msg[m].status = "sending" ~> msg[m].status # "sending" \/ msg[m].cut

\* A message queued before the exchange registered goes once it has.
QueuedGoes ==
  \A m \in Messages : IsQueued(msg[m]) /\ initialized ~> ~IsQueued(msg[m]) \/ ~initialized

\* What is sending or queued moves on: to an outcome, or out of the queue.
GoesAndEnds == SendingEnds /\ QueuedGoes
=============================================================================
