---------------------------- MODULE PostInterface ----------------------------
(***************************************************************************)
(* The only transport: lib/rns/interfaces/post_interface.js.  It registers *)
(* with the PHP node, carries packets and acknowledgements in one exchange *)
(* at a time, polls, backs off, and reports what never left.  The node is  *)
(* its answers.  A run of JavaScript up to the next await is one step; the *)
(* phases in Busy are points inside such a run, where no other task of the *)
(* page can interleave.                                                    *)
(***************************************************************************)
EXTENDS Integers, Sequences, FiniteSets

CONSTANTS
  Outbound,       \* packets the stack may hand to sendData, each once
  Oversized,     \* those longer than the node accepts
  Deliveries,    \* bound: delivery batches the node has, 1..Deliveries
  MaxBatch,      \* _maxBatchPackets
  MaxImmediate,  \* MAX_IMMEDIATE_EXCHANGES
  BackoffCap,    \* doublings of the backoff until BACKOFF_CAP_MS
  MaxChecks      \* bound: page events that call check()

ASSUME PostInterfaceAssumption ==
  /\ Oversized \subseteq Outbound
  /\ Deliveries \in Nat /\ MaxChecks \in Nat /\ BackoffCap \in Nat
  /\ MaxBatch \in Nat \ {0} /\ MaxImmediate \in Nat \ {0}

VARIABLES
  running, stopped, up, downReported,   \* _running, _stopped / _blocked, _up, _downReported
  registered, signed, first, staleTaken,  \* the session: isRegistered, _sessionSigned, ...
  queue, acks, batch,      \* _outboundQueue, _pendingAckIds, the exchange's batch
  phase,                   \* where the exchange cycle is
  outcome,                 \* what _runExchange returned
  immediate, reregistered, \* locals of _flushIfIdle
  pending, checkRequested, \* _exchangePending, _checkRequested
  aborted,                 \* the request's AbortSignal
  timer,                   \* _pollTimer: "off", "poll" or "retry"
  backoff, retryWait,      \* _backoffMs, _retryWaitMs, as doublings of the first
  signs,                   \* the page gave an identity that signs
  calm, live,              \* the network works; the request in flight is on a working one
  checks,                  \* page events so far
  told,                    \* the last of "up", "down", "stopped" the app was told
  stales,                  \* 409 stale_challenge answers since a registration succeeded
  given, sent, answered, lost, unsent,  \* packets: handed over, in a request, in an answered one, reported
  processed, acked         \* delivery batches: fed to the stack, acknowledged at the node

life == <<running, stopped, up, downReported, told>>
session == <<registered, signed, first, staleTaken, stales>>
data == <<queue, acks, batch>>
cycle == <<phase, outcome, immediate, reregistered, pending, checkRequested, aborted>>
clock == <<timer, backoff, retryWait>>
world == <<signs, calm, live, checks>>
fates == <<given, sent, answered, lost, unsent>>
node == <<processed, acked>>
interfaceVars == <<life, session, data, cycle, clock, world, fates, node>>

Waiting == {"challenge", "register", "legacy", "exchange"}
Busy == {"start", "send", "landed"}
Elems(s) == {s[k] : k \in 1..Len(s)}
NoBatch == [packets |-> <<>>, acks |-> <<>>, first |-> FALSE]

\* A task of the page may run: no other is in the middle of its own.
Task == phase \notin Busy

InterfaceInit ==
  /\ running = FALSE /\ stopped = FALSE /\ up = "null" /\ downReported = FALSE
  /\ registered = FALSE /\ signed = FALSE /\ first = FALSE /\ staleTaken = FALSE /\ stales = 0
  /\ queue = <<>> /\ acks = <<>> /\ batch = NoBatch
  /\ phase = "idle" /\ outcome = "none" /\ immediate = 0 /\ reregistered = FALSE
  /\ pending = FALSE /\ checkRequested = FALSE /\ aborted = FALSE
  /\ timer = "off" /\ backoff = 0 /\ retryWait = 0
  /\ signs \in BOOLEAN /\ calm \in BOOLEAN /\ live = TRUE /\ checks = 0
  /\ told = "none"
  /\ given = {} /\ sent = {} /\ answered = {} /\ lost = {} /\ unsent = {}
  /\ processed = {} /\ acked = {}

-----------------------------------------------------------------------------
(* What the rest of the page asks of the interface. *)

\* _flushIfIdle on an idle interface: a new run of exchanges.
BeginRun ==
  /\ phase' = "start" /\ immediate' = 0 /\ reregistered' = FALSE
  /\ timer' = "off"

\* _flushIfIdle.
Flush ==
  \/ /\ ~running
     /\ UNCHANGED <<phase, immediate, reregistered, timer, pending>>
  \/ /\ running /\ phase # "idle"
     /\ pending' = TRUE
     /\ UNCHANGED <<phase, immediate, reregistered, timer>>
  \/ /\ running /\ phase = "idle"
     /\ BeginRun /\ UNCHANGED pending

\* connect(): register, then exchange and poll.  Called once: a reconnect is
\* a new interface.
Connect ==
  /\ Task /\ ~stopped /\ ~running /\ immediate = 0
  /\ running' = TRUE
  /\ BeginRun
  /\ UNCHANGED <<stopped, up, downReported, told, session, data, outcome, pending,
                 checkRequested, aborted, backoff, retryWait, world, fates, node>>

\* sendData: a down interface loses the packet at once, unsent.
SendData(p) ==
  /\ Task /\ p \in Outbound \ given
  /\ given' = given \cup {p}
  /\ \/ /\ p \in Oversized
        /\ UNCHANGED <<queue, lost, unsent, phase, immediate, reregistered, timer, pending>>
     \/ /\ p \notin Oversized /\ up = "false"
        /\ lost' = lost \cup {p} /\ unsent' = unsent \cup {p}
        /\ UNCHANGED <<queue, phase, immediate, reregistered, timer, pending>>
     \/ /\ p \notin Oversized /\ up # "false"
        /\ queue' = Append(queue, p)
        /\ Flush
        /\ UNCHANGED <<lost, unsent>>
  /\ UNCHANGED <<life, session, acks, batch, outcome, checkRequested, aborted,
                 backoff, retryWait, world, sent, answered, node>>

\* Ending the request in flight, so that a hung one stalls nothing.
\* (Variant: it is waited for.)
WaitsForIt == UNCHANGED aborted
AbortInFlight == aborted' = TRUE

\* check(): exchange now.
Check ==
  \/ /\ ~running
     /\ UNCHANGED <<checkRequested, aborted, phase, immediate, reregistered, timer>>
  \/ /\ running /\ phase # "idle"
     /\ checkRequested' = TRUE
     /\ AbortInFlight
     /\ UNCHANGED <<phase, immediate, reregistered, timer>>
  \/ /\ running /\ phase = "idle"
     /\ checkRequested' = TRUE
     /\ BeginRun /\ UNCHANGED aborted

\* online, pageshow or visible, which call check(); they come when the
\* network is back.
PageEvent ==
  /\ Task /\ checks < MaxChecks
  /\ checks' = checks + 1
  /\ calm' \in {calm, TRUE}
  /\ Check
  /\ UNCHANGED <<life, session, data, outcome, pending, backoff, retryWait,
                 signs, live, fates, node>>

\* The network or the node stops working well.
Storm ==
  /\ Task /\ calm /\ checks < MaxChecks
  /\ calm' = FALSE /\ live' = FALSE
  /\ UNCHANGED <<life, session, data, cycle, clock, signs, checks, fates, node>>

\* disconnect(): an exchange in flight is left to land, a registration is not.
Disconnect ==
  /\ Task /\ running
  /\ running' = FALSE /\ timer' = "off"
  /\ aborted' = (aborted \/ (phase \in Waiting /\ ~registered))
  /\ UNCHANGED <<stopped, up, downReported, told, session, data, phase, outcome, immediate,
                 reregistered, pending, checkRequested, backoff, retryWait, world, fates, node>>

\* block(): the page's policy refuses the node's URL.
Block ==
  /\ Task /\ running
  /\ running' = FALSE /\ timer' = "off" /\ up' = "false"
  /\ aborted' = (aborted \/ phase \in Waiting)
  /\ lost' = lost \cup Elems(queue) /\ unsent' = unsent \cup Elems(queue)
  /\ queue' = <<>>
  /\ UNCHANGED <<stopped, downReported, told, session, acks, batch, phase, outcome, immediate,
                 reregistered, pending, checkRequested, backoff, retryWait, world,
                 given, sent, answered, node>>

\* _poll, when the timer fires.
Poll ==
  /\ Task /\ timer # "off"
  /\ running /\ phase = "idle"
  /\ BeginRun
  /\ UNCHANGED <<life, session, data, outcome, pending, checkRequested, aborted,
                 backoff, retryWait, world, fates, node>>

-----------------------------------------------------------------------------
(* One exchange opportunity: _runExchange. *)

\* The top of the loop: _register asks for a challenge when there is no session.
Start ==
  /\ phase = "start"
  /\ pending' = FALSE /\ checkRequested' = FALSE /\ aborted' = FALSE
  /\ immediate' = immediate + 1
  /\ batch' = NoBatch
  /\ phase' = IF registered THEN "send" ELSE "challenge"
  /\ live' = calm
  /\ UNCHANGED <<life, session, queue, acks, outcome, reregistered, clock,
                 signs, calm, checks, fates, node>>

\* _doExchange takes a batch off the queue and every owed acknowledgement.
Send ==
  LET n == IF Len(queue) < MaxBatch THEN Len(queue) ELSE MaxBatch IN
  /\ phase = "send"
  /\ batch' = [packets |-> SubSeq(queue, 1, n), acks |-> acks, first |-> first /\ signed]
  /\ queue' = SubSeq(queue, n + 1, Len(queue))
  /\ acks' = <<>>
  /\ first' = FALSE
  /\ sent' = sent \cup Elems(SubSeq(queue, 1, n))
  /\ phase' = "exchange"
  /\ live' = calm
  /\ UNCHANGED <<life, registered, signed, staleTaken, stales, outcome, immediate, reregistered,
                 pending, checkRequested, aborted, clock, signs, calm, checks,
                 given, answered, lost, unsent, node>>

\* The next request of a registration.
NextRequest(p) ==
  /\ phase' = p /\ live' = calm
  /\ UNCHANGED <<life, data, outcome, immediate, reregistered, pending, checkRequested, aborted,
                 clock, signs, calm, checks, fates, node>>

\* _backOff: the wait doubles up to its cap.
BackOff ==
  /\ retryWait' = backoff
  /\ backoff' = IF backoff < BackoffCap THEN backoff + 1 ELSE backoff

\* Acknowledgements a failed exchange carried are owed again.
\* (Variant: they are forgotten.)
ForgetAcks == acks' = acks
OweAcks == acks' = batch.acks \o acks

\* _stop: nothing can succeed any more.
Stop ==
  /\ outcome' = "stopped"
  /\ stopped' = TRUE /\ running' = FALSE /\ up' = "false" /\ downReported' = TRUE
  /\ told' = "stopped"
  /\ registered' = FALSE
  /\ timer' = "off"
  /\ lost' = lost \cup Elems(batch.packets) \cup Elems(queue)
  /\ unsent' = unsent \cup Elems(queue)
  /\ queue' = <<>>
  /\ OweAcks
  /\ UNCHANGED <<backoff, retryWait>>

\* What is lost with a failed batch: all that is queued behind it, of which
\* no request carried anything.
QueueUnsent == unsent' = unsent \cup Elems(queue)

\* A failure: the interface is down.
FailDown ==
  /\ up' = "false" /\ downReported' = TRUE /\ told' = "down"
  /\ lost' = lost \cup Elems(batch.packets) \cup Elems(queue)
  /\ QueueUnsent
  /\ queue' = <<>>
  /\ OweAcks
  /\ UNCHANGED <<running, stopped, timer>>

Fail ==
  /\ outcome' = "failed"
  /\ FailDown /\ BackOff
  /\ UNCHANGED registered

\* A 401: the node forgot the session.
SessionLost ==
  /\ outcome' = "session-lost"
  /\ FailDown
  /\ registered' = FALSE
  /\ UNCHANGED <<backoff, retryWait>>

\* The request ends and _runExchange returns to the loop.
Landing ==
  /\ Task /\ phase \in Waiting
  /\ phase' = "landed"
  /\ UNCHANGED <<immediate, reregistered, pending, checkRequested, aborted, world,
                 given, sent>>

\* An answer that reaches an interface that still runs and waits for it.
Answered(p) == Task /\ phase = p /\ running /\ ~aborted

\* Answered, failed or aborted after disconnect() or block(): nothing is taken.
LandsGone ==
  /\ Landing /\ ~running
  /\ outcome' = "failed"
  /\ UNCHANGED <<life, session, data, clock, answered, lost, unsent, node>>

\* _lose, of an abandoned request's batch; the queue stays.  (Variant: no
\* word of it.)
ForgetBatch == UNCHANGED lost
LoseBatch == lost' = lost \cup Elems(batch.packets)

\* check() gave up on it; whether the node took the batch is unknown.
LandsAborted ==
  /\ Landing /\ running /\ aborted
  /\ outcome' = "aborted"
  /\ LoseBatch
  /\ OweAcks
  /\ acked' \in {acked, acked \cup Elems(batch.acks)}
  /\ UNCHANGED <<life, session, queue, batch, clock, answered, unsent, processed>>

\* A network failure, a 5xx or no JSON: the node may still have taken it.
LandsFailed ==
  /\ Landing /\ running /\ ~aborted /\ (~calm \/ ~live)
  /\ Fail
  /\ acked' \in {acked, acked \cup Elems(batch.acks)}
  /\ UNCHANGED <<signed, first, staleTaken, stales, batch, answered, processed>>

\* An answer to a challenge or a registration that stops the interface: a
\* refusal, a challenge or session that is not this identity's, a page that
\* cannot sign, or session_superseded on an exchange.
LandsRefused ==
  /\ Landing /\ running /\ ~aborted /\ ~calm
  /\ Stop
  /\ UNCHANGED <<signed, first, staleTaken, stales, batch, answered, processed, acked>>

\* The challenge is answered: sign it and register.
Challenged ==
  /\ Answered("challenge") /\ signs
  /\ NextRequest("register") /\ UNCHANGED session

\* 404: a node without signed registration.
ChallengeUnknown ==
  /\ Answered("challenge")
  /\ NextRequest("legacy") /\ UNCHANGED session

\* 409 stale_challenge earns one more round, and only one.
StaleRound == ~staleTaken

StaleChallenge ==
  /\ Answered("register") /\ ~calm /\ StaleRound
  /\ staleTaken' = TRUE /\ stales' = stales + 1
  /\ NextRequest("challenge") /\ UNCHANGED <<registered, signed, first>>

StaleTwice ==
  /\ Landing /\ phase = "register" /\ running /\ ~aborted /\ ~calm /\ ~StaleRound
  /\ Stop
  /\ stales' = stales + 1
  /\ UNCHANGED <<signed, first, staleTaken, batch, answered, processed, acked>>

\* _startSession, and the exchange that follows it at once.
Registered ==
  /\ Answered("register") \/ Answered("legacy")
  /\ registered' = TRUE /\ signed' = (phase = "register") /\ first' = TRUE /\ staleTaken' = FALSE
  /\ stales' = 0
  /\ up' = "null"
  /\ backoff' = 0
  /\ phase' = "send"
  /\ UNCHANGED <<running, stopped, downReported, told, data, outcome, immediate, reregistered,
                 pending, checkRequested, aborted, timer, retryWait, world, fates, node>>

\* _markUp.  (Variant: said only after a "down".)
OnlyAfterDown == told' = IF downReported THEN "up" ELSE told
SayUp == told' = IF up = "true" THEN told ELSE "up"

\* A 200: the packets are the node's.  Its delivery batch, the oldest it has
\* no acknowledgement of, goes to the stack and is owed one.
Exchanged ==
  LET seen == acked \cup Elems(batch.acks)
      due == (1..Deliveries) \ seen IN
  /\ Landing /\ Answered("exchange")
  /\ outcome' = "ok"
  /\ answered' = answered \cup Elems(batch.packets)
  /\ acked' = seen
  /\ \/ UNCHANGED <<acks, processed>>
     \/ \E d \in due :
          /\ \A e \in due : d <= e
          /\ processed' = processed \cup {d}
          /\ acks' = Append(acks, d)
  /\ up' = "true" /\ downReported' = FALSE /\ SayUp
  /\ backoff' = 0
  /\ UNCHANGED <<running, stopped, session, queue, batch, timer, retryWait, lost, unsent>>

\* A 401.  On the first exchange of a signed session it stops the interface.
ExchangeRefused401 ==
  /\ Landing /\ Answered("exchange") /\ ~calm
  /\ IF batch.first THEN Stop ELSE SessionLost
  /\ UNCHANGED <<signed, first, staleTaken, stales, batch, answered, processed, acked>>

\* The bottom of _flushIfIdle's loop.
Loop ==
  LET again == outcome = "session-lost" /\ ~reregistered
      more == /\ running /\ immediate < MaxImmediate
              /\ \/ again
                 \/ checkRequested
                 \/ outcome = "ok" /\ (pending \/ queue # <<>> \/ acks # <<>>)
      secondLoss == outcome = "session-lost" /\ ~again
  IN
  /\ phase = "landed"
  /\ reregistered' = (reregistered \/ again)
  /\ \/ /\ more
        /\ phase' = "start"
        /\ UNCHANGED clock
     \/ /\ ~more /\ phase' = "idle"
        /\ timer' = IF ~running THEN "off"
                    ELSE IF outcome = "failed" \/ secondLoss THEN "retry" ELSE "poll"
        /\ IF running /\ secondLoss THEN BackOff ELSE UNCHANGED <<backoff, retryWait>>
  /\ batch' = NoBatch
  /\ UNCHANGED <<life, session, queue, acks, outcome, immediate, pending, checkRequested,
                 aborted, world, fates, node>>

Lands == \/ LandsGone \/ LandsAborted \/ LandsFailed \/ LandsRefused
         \/ Challenged \/ ChallengeUnknown \/ StaleChallenge \/ StaleTwice
         \/ Registered \/ Exchanged \/ ExchangeRefused401

Step == Start \/ Send \/ Loop

InterfaceNext ==
  \/ Connect \/ (\E p \in Outbound : SendData(p)) \/ PageEvent \/ Storm
  \/ Disconnect \/ Block \/ Poll \/ Lands \/ Step

InterfaceSpec == InterfaceInit /\ [][InterfaceNext]_interfaceVars

\* JavaScript runs, timers fire, an abort rejects, and a request sent on a
\* working network is answered.  A request on a network that went away may
\* hang for ever: a fetch has no deadline.
InterfaceFairness ==
  /\ WF_interfaceVars(Step) /\ WF_interfaceVars(Poll)
  /\ WF_interfaceVars(aborted /\ Lands)
  /\ WF_interfaceVars(live /\ Lands)

InterfaceFairSpec == InterfaceSpec /\ InterfaceFairness

-----------------------------------------------------------------------------
LifeOK ==
  /\ running \in BOOLEAN /\ stopped \in BOOLEAN /\ downReported \in BOOLEAN
  /\ up \in {"null", "true", "false"} /\ told \in {"none", "up", "down", "stopped"}
SessionOK ==
  /\ registered \in BOOLEAN /\ signed \in BOOLEAN /\ first \in BOOLEAN
  /\ staleTaken \in BOOLEAN /\ stales \in Nat
DataOK ==
  /\ queue \in Seq(Outbound) /\ acks \in Seq(1..Deliveries)
  /\ batch \in [packets : Seq(Outbound), acks : Seq(1..Deliveries), first : BOOLEAN]
CycleOK ==
  /\ phase \in Waiting \cup Busy \cup {"idle"}
  /\ outcome \in {"none", "ok", "failed", "aborted", "session-lost", "stopped"}
  /\ immediate \in 0..MaxImmediate /\ reregistered \in BOOLEAN
  /\ pending \in BOOLEAN /\ checkRequested \in BOOLEAN /\ aborted \in BOOLEAN
ClockOK ==
  /\ timer \in {"off", "poll", "retry"}
  /\ backoff \in 0..BackoffCap /\ retryWait \in 0..BackoffCap
WorldOK ==
  signs \in BOOLEAN /\ calm \in BOOLEAN /\ live \in BOOLEAN /\ checks \in 0..MaxChecks
FatesOK ==
  /\ given \subseteq Outbound /\ sent \subseteq Outbound /\ answered \subseteq Outbound
  /\ lost \subseteq Outbound /\ unsent \subseteq Outbound
NodeOK == processed \subseteq 1..Deliveries /\ acked \subseteq 1..Deliveries

InterfaceTypeOK == LifeOK /\ SessionOK /\ DataOK /\ CycleOK /\ ClockOK /\ WorldOK /\ FatesOK /\ NodeOK

InQueue == Elems(queue)
InFlight == IF phase = "exchange" THEN Elems(batch.packets) ELSE {}
AcksInFlight == IF phase = "exchange" THEN Elems(batch.acks) ELSE {}

\* No packet vanishes and none has two fates: each one handed over waits, is
\* in the exchange in flight, was answered, or was reported lost (only an
\* exchange that disconnect() or block() left to land is said nothing of).
Accounted ==
  /\ \A p \in given \ Oversized :
       p \in InQueue \cup InFlight \cup answered \cup lost \/ (~running /\ p \in sent)
  /\ InQueue \cap (InFlight \cup answered \cup lost) = {}
  /\ InFlight \cap (answered \cup lost) = {}
  /\ answered \cap lost = {}

\* What "lost" says was never sent was in no request: the sender may send it
\* another way without sending it twice.
UnsentNeverSent == unsent \subseteq lost /\ unsent \cap sent = {}

\* What the app was last told is so: it is never left showing a connection
\* that is down, or an outage that ended.
ToldTruth ==
  /\ up = "true" => told = "up"
  /\ running /\ up = "false" => told = "down"
  /\ stopped <=> told = "stopped"

\* A delivery batch fed to the stack stays owed an acknowledgement until an
\* exchange carried it to the node, whatever failed in between; the node is
\* never told of one the stack has not had.
AcksKept ==
  /\ acked \subseteq processed
  /\ Elems(acks) \cup Elems(batch.acks) \subseteq processed
  /\ running => processed \subseteq acked \cup Elems(acks) \cup AcksInFlight

\* The page takes at most one extra registration round between two
\* registrations that succeed, over failures, aborts and backoffs (two pages
\* of one identity do not outbid each other for ever).
StaleOnce == running => stales <= 1

\* The packets of the interface: types and bounds, where each packet is, what
\* "lost" may say of it, and the rounds two pages cost one another.
PacketsSound == InterfaceTypeOK /\ Accounted /\ UnsentNeverSent /\ StaleOnce

\* Once the network and the node work for good, the interface comes up, even
\* from a request that hangs for ever, unless it was stopped for good.
Recovers == <>[]calm => <>[](~running \/ up = "true")
=============================================================================
