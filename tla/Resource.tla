------------------------------ MODULE Resource ------------------------------
(***************************************************************************)
(* One Resource between its two ends on one link: lib/rns/resource.js, and *)
(* the packets of link.js that carry it.  The sender advertises, serves    *)
(* requests for parts and extends the hashmap; the receiver asks for the   *)
(* parts it misses in windows that grow and shrink, assembles them and     *)
(* proves receipt.  Each end has one watchdog.                             *)
(***************************************************************************)
EXTENDS Integers, Sequences, FiniteSets, SequencesExt

CONSTANTS
  Parts,            \* totalParts
  HashmapMaxLen,    \* HASHMAP_MAX_LEN: map hashes in one segment of the hashmap
  Window, WindowMin, WindowMaxVerySlow, WindowMaxSlow, WindowMaxFast,
  Flexibility,      \* WINDOW_FLEXIBILITY
  MaxRetries, MaxAdvRetries, ProofRetries,
  MaxWire,          \* bound: packets on their way when a timer fires
  MaxFaults         \* bound: losses and silent ends

ASSUME ResourceAssumption ==
  /\ {Parts, HashmapMaxLen, Window, WindowMin, WindowMaxVerySlow, WindowMaxSlow,
      WindowMaxFast, Flexibility} \subseteq Nat \ {0}
  /\ {MaxRetries, MaxAdvRetries, ProofRetries, MaxWire, MaxFaults} \subseteq Nat
  /\ WindowMin <= Window /\ Window <= WindowMaxSlow /\ WindowMaxSlow <= WindowMaxFast
  /\ WindowMaxVerySlow <= WindowMaxSlow

VARIABLES
  snd,         \* the sending Resource
  rcv,         \* the receiving Resource of the latest advertisement taken
  toR, toS,    \* packets on their way to the receiver, to the sender
  link,        \* per end: its Link.status
  env,         \* what this behaviour was given: see Init
  faults       \* how many faults there were

vars == <<snd, rcv, toR, toS, link, env, faults>>

Indexes == 0 .. Parts - 1
Smaller(a, b) == IF a < b THEN a ELSE b
Larger(a, b) == IF a > b THEN a ELSE b

\* COLLISION_GUARD_SIZE: how far above the receiver's height the sender looks.
Guard == 2 * WindowMaxFast + HashmapMaxLen

None == -1
Adv == [t |-> "ADV"]
Req(want, last) == [t |-> "REQ", want |-> want, last |-> last]   \* last: None, or exhausted there
Part(i) == [t |-> "PART", i |-> i]
Hmu(seg) == [t |-> "HMU", seg |-> seg]
Prf == [t |-> "PRF"]
Icl == [t |-> "ICL"]
Rcl == [t |-> "RCL"]

Sent == {"ADVERTISED", "TRANSFERRING", "AWAITING_PROOF"}
Sending == snd.status \in Sent
Receiving == rcv.status = "TRANSFERRING"

\* No Resource yet, at the receiver.
Fresh == [status |-> "NONE", got |-> {}, height |-> 0, waiting |-> FALSE, out |-> 0,
          window |-> Window, min |-> WindowMin, max |-> WindowMaxSlow, rate |-> "normal",
          answered |-> FALSE, retries |-> MaxRetries, timer |-> FALSE]

(* The receiver takes or refuses the advertisement (strategy, callback, size);  *)
(* what it assembles may not match the hash; its first window may be one an      *)
(* earlier Resource left (lastResourceWindow); and the path may answer within    *)
(* every deadline ("prompt").                                                    *)
Init ==
  /\ env \in [willing: BOOLEAN, corrupt: BOOLEAN, window: {Window, WindowMaxFast}, prompt: BOOLEAN]
  /\ ~env.willing \/ env.corrupt => env.window = Window /\ env.prompt
  /\ snd = [status |-> "NONE", retries |-> 0, sent |-> {}, min |-> 0, timer |-> FALSE]
  /\ rcv = Fresh
  /\ toR = <<>> /\ toS = <<>>
  /\ link = [end \in {"S", "R"} |-> "ACTIVE"]
  /\ faults = 0

-----------------------------------------------------------------------------
(* The sender.                                                              *)

\* cancel(): the peer is told while the link is ACTIVE.
SenderCancels ==
  /\ snd' = [snd EXCEPT !.status = "FAILED", !.timer = FALSE]
  /\ toR' = IF link.S = "ACTIVE" THEN Append(toR, Icl) ELSE toR

\* ensureLink().
Up(end) == link[end] = "ACTIVE"

Advertise ==
  /\ snd' = [snd EXCEPT !.status = "ADVERTISED", !.retries = MaxAdvRetries, !.timer = TRUE]
  /\ toR' = Append(toR, Adv)

\* send(): the payload is cut and advertised, on a link that is ACTIVE.
Send ==
  /\ snd.status = "NONE"
  /\ IF Up("S") THEN Advertise ELSE SenderCancels
  /\ UNCHANGED <<rcv, toS, link, env, faults>>

\* Where onRequest and sendHashmapUpdate look for a map hash.
Reach == snd.min .. Smaller(snd.min + Guard, Parts) - 1

\* sendHashmapUpdate: the index after the last map hash the receiver holds.
NextIndex(last) == IF last \in Reach THEN last + 1 ELSE Smaller(snd.min + Guard, Parts)

\* (Variant: the parts below the last map hash are taken for received.)
MinAfterExact(last) == Larger(NextIndex(last) - 1, 0)

MinAfter(last) == Larger(NextIndex(last) - 1 - WindowMaxFast, 0)

Ascending(S) == SetToSortSeq(S, <)
PartPackets(S) == [k \in 1 .. Cardinality(S) |-> Part(Ascending(S)[k])]

\* onRequest, the request at the head of toS.
OnRequest ==
  LET req == Head(toS)
      serve == req.want \cap Reach
      sent == snd.sent \cup serve
      next == NextIndex(req.last)
      served == IF sent = Indexes
                THEN [snd EXCEPT !.status = "AWAITING_PROOF", !.retries = ProofRetries,
                                 !.sent = sent, !.timer = TRUE]
                ELSE [snd EXCEPT !.status = "TRANSFERRING", !.retries = MaxRetries,
                                 !.sent = sent, !.timer = TRUE]
  IN IF req.last = None
     THEN snd' = served /\ toR' = toR \o PartPackets(serve)
     ELSE IF next % HashmapMaxLen # 0 \/ next >= Parts
     THEN /\ snd' = [snd EXCEPT !.status = "FAILED", !.sent = sent, !.timer = FALSE]
          /\ toR' = toR \o PartPackets(serve) \o <<Icl>>
     ELSE /\ snd' = [served EXCEPT !.min = MinAfter(req.last)]
          /\ toR' = toR \o PartPackets(serve) \o <<Hmu(next \div HashmapMaxLen)>>

\* onProof(): the proof is that of this payload.
OnProof == snd' = [snd EXCEPT !.status = "COMPLETE", !.timer = FALSE] /\ UNCHANGED toR

Rejected == snd' = [snd EXCEPT !.status = "REJECTED", !.timer = FALSE] /\ UNCHANGED toR

\* A packet for the sender; its end is ACTIVE by it.
SenderReceives ==
  /\ toS # <<>>
  /\ toS' = Tail(toS)
  /\ link' = IF link.S = "STALE" THEN [link EXCEPT !.S = "ACTIVE"] ELSE link
  /\ IF ~Sending \/ link.S = "CLOSED" THEN UNCHANGED <<snd, toR>>
     ELSE CASE Head(toS).t = "REQ" -> OnRequest
            [] Head(toS).t = "PRF" -> OnProof
            [] Head(toS).t = "RCL" -> Rejected
  /\ UNCHANGED <<rcv, env, faults>>

\* nextDeadline(): a timer runs out.  On a prompt path that is after all there was
\* to come, and a sender gives up no sooner than the receiver has asked again
\* (4 s, against 5, 40 and 78 s and more).
MayExpire ==
  /\ Len(toR) <= MaxWire /\ Len(toS) <= MaxWire
  /\ env.prompt => toR = <<>> /\ toS = <<>>
GivesUpLast == env.prompt /\ Receiving => snd.status # "TRANSFERRING" /\ snd.retries > 0

\* watchdog(), of the initiator.
SenderExpires ==
  /\ snd.timer /\ MayExpire /\ GivesUpLast
  /\ \/ /\ snd.status = "ADVERTISED" /\ snd.retries > 0 /\ Up("S")
        /\ snd' = [snd EXCEPT !.retries = @ - 1]
        /\ toR' = Append(toR, Adv)
     \/ snd.status = "ADVERTISED" /\ (snd.retries = 0 \/ ~Up("S")) /\ SenderCancels
     \/ snd.status = "TRANSFERRING" /\ SenderCancels
     \/ /\ snd.status = "AWAITING_PROOF" /\ snd.retries > 0
        /\ snd' = [snd EXCEPT !.retries = @ - 1]
        /\ UNCHANGED toR
     \/ snd.status = "AWAITING_PROOF" /\ snd.retries = 0 /\ SenderCancels
  /\ UNCHANGED <<rcv, toS, link, env, faults>>

-----------------------------------------------------------------------------
(* The receiver.                                                            *)

\* consecutiveCompletedHeight + 1.
First(r) == CHOOSE i \in 0 .. Parts : i \notin r.got /\ \A j \in 0 .. i - 1 : j \in r.got
Span(r) == First(r) .. Smaller(First(r) + r.window, Parts) - 1

\* requestNext(), on a link that is ACTIVE.
Wants(r) == {i \in Span(r) \ r.got : i < r.height}
Exhausted(r) == \E i \in Span(r) : i >= r.height
Asked(r) == IF r.waiting THEN r
            ELSE [r EXCEPT !.out = Cardinality(Wants(r)), !.waiting = Exhausted(r),
                           !.answered = FALSE, !.timer = TRUE]
Request(r) == IF r.waiting THEN <<>>
              ELSE <<Req(Wants(r), IF Exhausted(r) THEN r.height - 1 ELSE None)>>

AskNext(r) == rcv' = Asked(r) /\ toS' = toS \o Request(r)

\* hashmapUpdate(): the segment is placed at its index.
Mapped(r, seg) == [r EXCEPT !.height = Larger(@, Smaller((seg + 1) * HashmapMaxLen, Parts)),
                            !.waiting = FALSE]

\* cancel().
ReceiverCancels ==
  /\ rcv' = [Fresh EXCEPT !.status = "FAILED"]
  /\ toS' = IF link.R = "ACTIVE" THEN Append(toS, Rcl) ELSE toS

\* onPacket RESOURCE_ADV and accept(); reject() when it is not taken.
Accept ==
  IF ~env.willing
  THEN toS' = Append(toS, Rcl) /\ UNCHANGED rcv
  ELSE IF Receiving THEN UNCHANGED <<rcv, toS>>
  ELSE AskNext(Mapped([Fresh EXCEPT !.status = "TRANSFERRING", !.window = env.window], 0))

\* onHashmapUpdate().
OnHashmapUpdate(seg) ==
  IF Receiving /\ rcv.waiting
  THEN AskNext(Mapped([rcv EXCEPT !.retries = MaxRetries], seg))
  ELSE UNCHANGED <<rcv, toS>>

\* The measured rate moves the window's limit, up once and down once.
Fast(r) == [r EXCEPT !.rate = "fast", !.max = WindowMaxFast]
VerySlow(r) == [r EXCEPT !.rate = "slow", !.max = WindowMaxVerySlow]
MeasuredOnFirst(r) == IF r.answered \/ r.rate = "fast" THEN {r} ELSE {r, Fast(r)}
MeasuredOnLast(r) ==
  {r} \cup (IF r.rate # "fast" THEN {Fast(r)} ELSE {})
      \cup (IF r.rate = "normal" THEN {VerySlow(r)} ELSE {})

\* The window grows by one for a completed round.
Grown(r) ==
  IF r.window >= r.max THEN r
  ELSE [r EXCEPT !.window = @ + 1,
                 !.min = IF r.window + 1 - @ > Flexibility - 1 THEN @ + 1 ELSE @]

Concluded(r) == [r EXCEPT !.status = "COMPLETE", !.timer = FALSE]

\* (Variant: receipt is proved before what was received is looked at.)
AssembleUnverified(r) ==
  /\ toS' = Append(toS, Prf)
  /\ rcv' = IF env.corrupt THEN [Fresh EXCEPT !.status = "FAILED"]
            ELSE Concluded(r)

\* prove() and conclude(), or cancel() when what was assembled is corrupt.
Assemble(r) ==
  IF env.corrupt
  THEN rcv' = [Fresh EXCEPT !.status = "FAILED"] /\ toS' = Append(toS, Rcl)
  ELSE rcv' = Concluded(r) /\ toS' = Append(toS, Prf)

\* onPart(): a part that is missing within the window, and whose map hash is held.
OnPart(i) ==
  IF ~Receiving \/ i \in rcv.got \/ i \notin Span(rcv) \/ i >= rcv.height
  THEN UNCHANGED <<rcv, toS>>
  ELSE \E r \in MeasuredOnFirst(rcv) :
         LET taken == [r EXCEPT !.got = @ \cup {i}, !.out = Larger(0, @ - 1),
                                !.retries = MaxRetries, !.answered = TRUE]
         IN IF taken.got = Indexes THEN Assemble(taken)
            ELSE IF taken.out > 0 THEN rcv' = [taken EXCEPT !.timer = TRUE] /\ UNCHANGED toS
            ELSE \E m \in MeasuredOnLast(Grown(taken)) : AskNext(m)

\* A packet for the receiver; its end is ACTIVE by it.
ReceiverReceives ==
  /\ toR # <<>>
  /\ toR' = Tail(toR)
  /\ link' = IF link.R = "STALE" THEN [link EXCEPT !.R = "ACTIVE"] ELSE link
  /\ IF link.R = "CLOSED" THEN UNCHANGED <<rcv, toS>>
     ELSE LET p == Head(toR) IN
          CASE p.t = "ADV"  -> Accept
            [] p.t = "PART" -> OnPart(p.i)
            [] p.t = "HMU"  -> OnHashmapUpdate(p.seg)
            [] p.t = "ICL"  -> IF Receiving
                               THEN rcv' = [Fresh EXCEPT !.status = "FAILED"] /\ toS' = Append(toS, Rcl)
                               ELSE UNCHANGED <<rcv, toS>>
  /\ UNCHANGED <<snd, env, faults>>

\* The window shrinks, and its limit with it.
Shrunk(r) ==
  IF r.window <= r.min THEN r
  ELSE LET max == IF r.max > r.min THEN r.max - 1 ELSE r.max
           more == r.max > r.min /\ max - (r.window - 1) > Flexibility - 1
       IN [r EXCEPT !.window = @ - 1, !.max = IF more THEN max - 1 ELSE max]

\* (Variant: a hashmap update that was asked for is waited for.)
ReceiverExpiresWaiting ==
  /\ rcv.timer /\ MayExpire
  /\ IF rcv.retries = 0 \/ ~Up("R") THEN ReceiverCancels
     ELSE AskNext([Shrunk(rcv) EXCEPT !.retries = @ - 1, !.timer = FALSE])
  /\ UNCHANGED <<snd, toR, link, env, faults>>

\* watchdog(), of the receiver: what is still missing is asked for afresh.
ReceiverExpires ==
  /\ rcv.timer /\ MayExpire
  /\ IF rcv.retries = 0 \/ ~Up("R") THEN ReceiverCancels
     ELSE AskNext([Shrunk(rcv) EXCEPT !.retries = @ - 1, !.waiting = FALSE])
  /\ UNCHANGED <<snd, toR, link, env, faults>>

-----------------------------------------------------------------------------
(* The link and the path.                                                   *)

Faulty == faults < MaxFaults /\ faults' = faults + 1

\* A packet is lost.
Lose ==
  /\ Faulty
  /\ \/ toR # <<>> /\ toR' = Tail(toR) /\ UNCHANGED toS
     \/ toS # <<>> /\ toS' = Tail(toS) /\ UNCHANGED toR
  /\ UNCHANGED <<snd, rcv, link, env>>

\* An end has heard nothing for its stale time.
GoesStale(end) ==
  /\ link[end] = "ACTIVE" /\ Faulty
  /\ link' = [link EXCEPT ![end] = "STALE"]
  /\ UNCHANGED <<snd, rcv, toR, toS, env>>

\* _linkClosed(): each Resource in flight is cancelled, and nothing is sent.
Closes(end) ==
  /\ link[end] = "STALE"
  /\ link' = [link EXCEPT ![end] = "CLOSED"]
  /\ snd' = IF end = "S" /\ Sending THEN [snd EXCEPT !.status = "FAILED", !.timer = FALSE] ELSE snd
  /\ rcv' = IF end = "R" /\ Receiving THEN [Fresh EXCEPT !.status = "FAILED"] ELSE rcv
  /\ UNCHANGED <<toR, toS, env, faults>>

Next ==
  \/ Send \/ SenderReceives \/ SenderExpires
  \/ ReceiverReceives \/ ReceiverExpires
  \/ Lose
  \/ \E end \in {"S", "R"} : GoesStale(end) \/ Closes(end)

Spec == Init /\ [][Next]_vars

(* Timers run out and what is on its way arrives; the path need not fail.   *)
FairSpec ==
  /\ Spec
  /\ WF_vars(Send) /\ WF_vars(SenderReceives) /\ WF_vars(ReceiverReceives)
  /\ WF_vars(SenderExpires) /\ WF_vars(ReceiverExpires)

-----------------------------------------------------------------------------
(* Properties.                                                              *)

TypeOK ==
  /\ snd \in [status: Sent \cup {"NONE", "COMPLETE", "FAILED", "REJECTED"}, retries: Nat,
              sent: SUBSET Indexes, min: Indexes, timer: BOOLEAN]
  /\ rcv \in [status: {"NONE", "TRANSFERRING", "COMPLETE", "FAILED"}, got: SUBSET Indexes,
              height: 0 .. Parts, waiting: BOOLEAN, out: 0 .. Parts,
              window: 1 .. WindowMaxFast, min: 1 .. WindowMaxFast, max: 1 .. WindowMaxFast,
              rate: {"normal", "fast", "slow"}, answered: BOOLEAN, retries: 0 .. MaxRetries, timer: BOOLEAN]
  /\ link \in [{"S", "R"} -> {"ACTIVE", "STALE", "CLOSED"}]
  /\ faults \in 0 .. MaxFaults

(* A transfer that has begun has a timer at each end it is running at, and  *)
(* an end that is through has none: nothing hangs on a packet that may not  *)
(* come, and nothing fires on what is over.                                 *)
Timed == snd.timer = Sending /\ rcv.timer = Receiving

(* Whatever the receiver asks for, and the last map hash it names, lies     *)
(* where the sender looks for it, however the windows moved and whichever   *)
(* updates were lost: a request is never answered short.                    *)
InReach ==
  \A k \in 1 .. Len(toS) :
    Sending /\ toS[k].t = "REQ" =>
      /\ toS[k].want \subseteq Reach
      /\ toS[k].last # None => toS[k].last \in Reach

(* The invariants of a transfer: its types, its timers, and requests that   *)
(* can be answered.                                                         *)
ResourceSound == TypeOK /\ Timed /\ InReach

(* The two ends keep the promise of Transfer: the sender is told of receipt *)
(* only after the whole payload was handed on, and it is handed on at most  *)
(* once, however often the transfer is advertised or begun again.           *)
Promise == INSTANCE Transfer WITH
  offer <- CASE snd.status = "COMPLETE" -> "proved"
             [] snd.status \in {"FAILED", "REJECTED"} -> "failed"
             [] OTHER -> "open",
  held <- CASE rcv.status = "COMPLETE" /\ rcv.got = Indexes -> "all"
            [] rcv.status = "TRANSFERRING" -> "some"
            [] rcv.status = "FAILED" -> "dropped"
            [] OTHER -> "nothing"
KeepsPromise == Promise!Spec

(* Every transfer that is sent is decided, at both ends.                    *)
TransferEnds == snd.status # "NONE" ~> ~Sending /\ ~Receiving

(* On a prompt path whose ends stay up a loss, of whichever packet, costs   *)
(* time and nothing else: a receiver that takes it is given the payload.    *)
Survives ==
  [](/\ env.willing /\ ~env.corrupt /\ env.prompt /\ faults <= 1
     /\ link = [end \in {"S", "R"} |-> "ACTIVE"]) => <>(rcv.status = "COMPLETE")

(* A transfer ends, and one loss does not end it badly.                     *)
EndsWell == TransferEnds /\ Survives
=============================================================================
