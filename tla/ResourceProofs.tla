--------------------------- MODULE ResourceProofs ---------------------------
(***************************************************************************)
(* Proofs about Resource: its invariants, and that the two ends keep the   *)
(* promise of Transfer.                                                    *)
(***************************************************************************)
EXTENDS Resource, FiniteSetTheorems, SequenceTheorems, WellFoundedInduction, TLAPS

-----------------------------------------------------------------------------
(* The inductive invariant.                                                *)

Requests == {Req(want, last) : want \in SUBSET Indexes, last \in Indexes \cup {None}}
ToSender == Requests \cup {Prf, Rcl}
ToReceiver ==
  {Adv, Icl} \cup {Hmu(seg) : seg \in Nat}
  \cup UNION {{PartPackets(S)[k] : k \in 1 .. Cardinality(S)} : S \in SUBSET Indexes}

Envs == [willing: BOOLEAN, corrupt: BOOLEAN, window: {Window, WindowMaxFast}, prompt: BOOLEAN]
Typed == TypeOK /\ env \in Envs /\ toR \in Seq(ToReceiver) /\ toS \in Seq(ToSender)

\* A request that names the map hash at last moves the sender up to here.
Back(last) == Larger(last - WindowMaxFast, 0)

\* The requests on their way, against the index the sender looks from: each can
\* be answered, and none will move the sender past what a later one asks for.
Fits(s, min) ==
  /\ \A k \in 1 .. Len(s) : s[k].t = "REQ" =>
       /\ \A i \in s[k].want : min <= i /\ i < min + Guard
       /\ s[k].last # None => min <= Back(s[k].last) /\ s[k].last < min + Guard
  /\ \A j, k \in 1 .. Len(s) : j < k /\ s[j].t = "REQ" /\ s[k].t = "REQ" =>
       /\ \A i \in s[k].want : Back(s[j].last) <= i
       /\ s[k].last # None => Back(s[j].last) <= Back(s[k].last)

\* The receiver is past whatever the sender may come to look from, and not too far.
PastIndex(r, i) == i <= First(r) /\ i <= Back(r.height - 1)
Ahead(s, min, r) ==
  /\ 1 <= r.height /\ r.height <= min + Guard
  /\ PastIndex(r, min)
  /\ \A k \in 1 .. Len(s) : s[k].t = "REQ" => PastIndex(r, Back(s[k].last))

Answerable == Fits(toS, snd.min) /\ (Receiving => Ahead(toS, snd.min, rcv))
MapsFit == \A k \in 1 .. Len(toR) : toR[k].t = "HMU" =>
             (toR[k].seg + 1) * HashmapMaxLen <= snd.min + Guard

\* Advertisements go ahead of all else, and until the last of them has arrived
\* the transfer has not moved.
Begins == snd.status \in {"NONE", "ADVERTISED"}
AdvertisedFirst ==
  /\ \A j, k \in 1 .. Len(toR) : j < k /\ toR[k].t = "ADV" => toR[j].t = "ADV"
  /\ Begins => \A k \in 1 .. Len(toR) : toR[k].t = "ADV"
Early == Begins \/ \E k \in 1 .. Len(toR) : toR[k].t = "ADV"
Unmoved ==
  Early => /\ rcv.got = {} /\ snd.min = 0
           /\ \A k \in 1 .. Len(toS) : toS[k].t = "REQ" => toS[k].last <= WindowMaxFast

\* Receipt is proved of the whole payload only.
Proved ==
  /\ rcv.status = "COMPLETE" => rcv.got = Indexes
  /\ \A k \in 1 .. Len(toS) : toS[k].t = "PRF" => rcv.status = "COMPLETE"

IInv == Typed /\ Timed /\ Answerable /\ MapsFit /\ AdvertisedFirst /\ Unmoved /\ Proved

-----------------------------------------------------------------------------
(* Arithmetic, and the operators of the model.                             *)

\* What the constants are.
LEMMA ConstantsTyped ==
  /\ Parts \in Nat /\ Parts > 0 /\ HashmapMaxLen \in Nat /\ HashmapMaxLen > 0
  /\ Window \in Nat /\ Window > 0 /\ WindowMin \in Nat /\ WindowMin > 0
  /\ WindowMaxVerySlow \in Nat /\ WindowMaxVerySlow > 0 /\ WindowMaxSlow \in Nat
  /\ WindowMaxFast \in Nat /\ WindowMaxFast > 0 /\ Flexibility \in Nat /\ Flexibility > 0
  /\ MaxRetries \in Nat /\ MaxAdvRetries \in Nat /\ ProofRetries \in Nat
  /\ MaxWire \in Nat /\ MaxFaults \in Nat
  /\ WindowMin <= Window /\ Window <= WindowMaxSlow /\ WindowMaxSlow <= WindowMaxFast
  /\ WindowMaxVerySlow <= WindowMaxSlow
  /\ Guard \in Nat /\ Guard = 2 * WindowMaxFast + HashmapMaxLen
  /\ None = -1
<1>1. /\ Parts \in Nat \ {0} /\ HashmapMaxLen \in Nat \ {0} /\ Window \in Nat \ {0}
      /\ WindowMin \in Nat \ {0} /\ WindowMaxVerySlow \in Nat \ {0} /\ WindowMaxSlow \in Nat \ {0}
      /\ WindowMaxFast \in Nat \ {0} /\ Flexibility \in Nat \ {0}
  BY ResourceAssumption
<1>2. /\ MaxRetries \in Nat /\ MaxAdvRetries \in Nat /\ ProofRetries \in Nat
      /\ MaxWire \in Nat /\ MaxFaults \in Nat
  BY ResourceAssumption
<1>3. /\ WindowMin <= Window /\ Window <= WindowMaxSlow /\ WindowMaxSlow <= WindowMaxFast
      /\ WindowMaxVerySlow <= WindowMaxSlow
  BY ResourceAssumption
<1> QED  BY <1>1, <1>2, <1>3 DEF Guard, None

Less == {p \in Nat \X Nat : p[1] < p[2]}

\* A set of natural numbers that is not empty has a least element.
LEMMA LeastNumber ==
  ASSUME NEW T \in SUBSET Nat, T # {}
  PROVE  \E m \in T : \A k \in T : m <= k
<1>1. IsWellFoundedOn(Less, Nat)
  BY Zenon, NatLessThanWellFounded DEF OpToRel, Less
<1>2. PICK m \in T : \A k \in T : <<k, m>> \notin Less
  BY <1>1, WFMin, Zenon
<1>3. \A k \in Nat : k < m => <<k, m>> \in Less
  BY DEF Less
<1>4. \A k \in T : ~(k < m)
  BY <1>2, <1>3
<1> QED  BY <1>4

\* Some of the indexes are at most as many as the parts.
LEMMA CountBound ==
  ASSUME NEW S \in SUBSET Indexes
  PROVE  Cardinality(S) \in 0 .. Parts
<1>1. IsFiniteSet(0 .. Parts - 1) /\ Cardinality(0 .. Parts - 1) = Parts
  BY FS_Interval, ConstantsTyped
<1>2. Cardinality(S) \in Nat /\ Cardinality(S) <= Cardinality(0 .. Parts - 1)
  BY <1>1, FS_Subset, FS_CardinalityType DEF Indexes
<1> QED  BY <1>1, <1>2, ConstantsTyped

\* First(r) is the first part that is missing; it never goes back.
LEMMA FirstIsLeast ==
  ASSUME NEW r, r.got \in SUBSET Indexes
  PROVE  /\ First(r) \in 0 .. Parts /\ First(r) \notin r.got
         /\ \A j \in 0 .. First(r) - 1 : j \in r.got
<1> DEFINE T == {i \in 0 .. Parts : i \notin r.got}
<1>1. Parts \in T
  BY ConstantsTyped DEF Indexes
<1>2. PICK m \in T : \A k \in T : m <= k
  <2>1. T \in SUBSET Nat /\ T # {}
    BY <1>1, ConstantsTyped
  <2> HIDE DEF T
  <2> QED  BY <2>1, LeastNumber
<1>3. m \in 0 .. Parts /\ m \notin r.got /\ \A j \in 0 .. m - 1 : j \in r.got
  BY <1>2, ConstantsTyped
<1> QED  BY <1>3 DEF First

\* With more parts, the first that is missing is no earlier.
LEMMA FirstGrows ==
  ASSUME NEW r, NEW q, r.got \in SUBSET Indexes, q.got \in SUBSET Indexes, r.got \subseteq q.got
  PROVE  First(r) <= First(q)
<1>1. /\ First(r) \in 0 .. Parts /\ First(q) \in 0 .. Parts /\ First(q) \notin q.got
      /\ \A j \in 0 .. First(r) - 1 : j \in r.got
  BY FirstIsLeast
<1> QED  BY <1>1, ConstantsTyped

\* With none, it is the first of all.
LEMMA FirstOfNothing ==
  ASSUME NEW r, r.got = {}
  PROVE  First(r) = 0
<1>1. First(r) \in 0 .. Parts /\ \A j \in 0 .. First(r) - 1 : j \in r.got
  BY FirstIsLeast
<1> QED  BY <1>1, ConstantsTyped

-----------------------------------------------------------------------------
(* Packets on their way.                                                   *)

\* The packet at the head of a queue, and the rest of it.
LEMMA TailEffect ==
  ASSUME NEW S, NEW s \in Seq(S), s # <<>>
  PROVE  /\ Head(s) = s[1] /\ Tail(s) \in Seq(S) /\ Len(s) \in Nat /\ Len(s) > 0
         /\ Len(Tail(s)) = Len(s) - 1 /\ 1 \in 1 .. Len(s) /\ s[1] \in S
         /\ \A k \in 1 .. Len(Tail(s)) : k + 1 \in 1 .. Len(s) /\ Tail(s)[k] = s[k + 1]
OBVIOUS

\* A packet appended to a queue is the one packet more.
LEMMA AppendEffect ==
  ASSUME NEW S, NEW s \in Seq(S), NEW p \in S
  PROVE  /\ Append(s, p) \in Seq(S) /\ Len(s) \in Nat /\ Len(Append(s, p)) = Len(s) + 1
         /\ \A k \in 1 .. Len(s) : Append(s, p)[k] = s[k]
         /\ Append(s, p)[Len(s) + 1] = p
         /\ \A k \in 1 .. Len(Append(s, p)) : k \in 1 .. Len(s) \/ k = Len(s) + 1
OBVIOUS

\* The packets of two queues, one after the other.
LEMMA ConcatEffect ==
  ASSUME NEW S, NEW s \in Seq(S), NEW q \in Seq(S)
  PROVE  /\ s \o q \in Seq(S) /\ Len(s) \in Nat /\ Len(q) \in Nat /\ Len(s \o q) = Len(s) + Len(q)
         /\ \A k \in 1 .. Len(s) : (s \o q)[k] = s[k]
         /\ \A k \in 1 .. Len(s \o q) :
              k \in 1 .. Len(s) \/ (k - Len(s) \in 1 .. Len(q) /\ (s \o q)[k] = q[k - Len(s)])
OBVIOUS

\* A packet put after some others, and they after a queue.
LEMMA AppendTogether ==
  ASSUME NEW S, NEW s \in Seq(S), NEW q \in Seq(S), NEW p \in S
  PROVE  s \o q \o <<p>> = s \o Append(q, p)
<1>1. <<p>> \in Seq(S)
  OBVIOUS
<1>2. Append(q, p) = q \o <<p>>
  BY AppendIsConcat, Zenon
<1>3. (s \o q) \o <<p>> = s \o (q \o <<p>>)
  BY <1>1, ConcatAssociative
<1> QED  BY <1>2, <1>3, Zenon

\* A segment that begins where another ends.
LEMMA Division ==
  ASSUME NEW n \in Nat, n % HashmapMaxLen = 0
  PROVE  /\ n \div HashmapMaxLen \in Nat
         /\ (n \div HashmapMaxLen + 1) * HashmapMaxLen = n + HashmapMaxLen
BY ConstantsTyped

\* What a request is.
LEMMA RequestTyped ==
  ASSUME NEW p \in ToSender
  PROVE  /\ p.t \in {"REQ", "PRF", "RCL"}
         /\ p.t = "REQ" => p.want \in SUBSET Indexes /\ p.last \in Indexes \cup {None}
                           /\ p.last \in Int /\ \A i \in p.want : i \in Int
<1>1. CASE p \in Requests
  <2>1. PICK want \in SUBSET Indexes, last \in Indexes \cup {None} : p = Req(want, last)
    BY <1>1 DEF Requests
  <2>2. p.t = "REQ" /\ p.want = want /\ p.last = last
    BY <2>1 DEF Req
  <2>3. last \in Int /\ \A i \in want : i \in Int
    BY ConstantsTyped DEF Indexes
  <2> QED  BY <2>2, <2>3
<1>2. CASE p \in {Prf, Rcl}
  BY <1>2 DEF Prf, Rcl
<1> QED  BY <1>1, <1>2 DEF ToSender

\* Any indexes may be asked for.
LEMMA AnyRequest ==
  ASSUME NEW w \in SUBSET Indexes, NEW l \in Indexes \cup {None}
  PROVE  LET p == Req(w, l) IN p \in ToSender /\ p.t = "REQ" /\ p.want = w /\ p.last = l
<1>1. Req(w, l) \in Requests
  BY DEF Requests
<1>2. Req(w, l).t = "REQ" /\ Req(w, l).want = w /\ Req(w, l).last = l
  BY DEF Req
<1> QED  BY <1>1, <1>2 DEF ToSender

\* The parts that are served travel as parts.
LEMMA PartsTravel ==
  ASSUME NEW S \in SUBSET Indexes
  PROVE  /\ PartPackets(S) \in Seq(ToReceiver)
         /\ \A k \in 1 .. Len(PartPackets(S)) : PartPackets(S)[k].t = "PART"
<1>1. Cardinality(S) \in Nat
  BY CountBound, ConstantsTyped
<1>2. PartPackets(S) = [k \in 1 .. Cardinality(S) |-> Part(Ascending(S)[k])]
  BY DEF PartPackets
<1>3. \A k \in 1 .. Cardinality(S) : PartPackets(S)[k] \in ToReceiver /\ PartPackets(S)[k].t = "PART"
  <2> SUFFICES ASSUME NEW k \in 1 .. Cardinality(S)
               PROVE  PartPackets(S)[k] \in ToReceiver /\ PartPackets(S)[k].t = "PART"
    OBVIOUS
  <2>1. PartPackets(S)[k].t = "PART"
    BY <1>2 DEF Part
  <2>2. PartPackets(S)[k] \in {PartPackets(S)[j] : j \in 1 .. Cardinality(S)}
    OBVIOUS
  <2>3. {PartPackets(S)[j] : j \in 1 .. Cardinality(S)}
          \in {{PartPackets(R)[j] : j \in 1 .. Cardinality(R)} : R \in SUBSET Indexes}
    OBVIOUS
  <2> QED  BY <2>1, <2>2, <2>3, Zenon DEF ToReceiver
<1>4. DOMAIN PartPackets(S) = 1 .. Cardinality(S)
  BY <1>2
<1> DEFINE q == PartPackets(S)
<1>5. q = [k \in 1 .. Cardinality(S) |-> q[k]]
  BY <1>2
<1> HIDE DEF q
<1>6. q \in Seq(ToReceiver) /\ Len(q) = Cardinality(S)
  BY <1>1, <1>3, <1>5 DEF q
<1> QED  BY <1>3, <1>6 DEF q

\* A hashmap update is of some segment.
LEMMA HashmapTyped ==
  ASSUME NEW p \in ToReceiver, p.t = "HMU"
  PROVE  p.seg \in Nat
<1>1. Adv.t # "HMU" /\ Icl.t # "HMU"
  BY DEF Adv, Icl
<1>2. ASSUME NEW S \in SUBSET Indexes PROVE \A k \in 1 .. Cardinality(S) : PartPackets(S)[k].t # "HMU"
  BY DEF PartPackets, Part
<1>3. PICK seg \in Nat : p = Hmu(seg)
  BY <1>1, <1>2 DEF ToReceiver
<1> QED  BY <1>3 DEF Hmu

\* What a packet for the receiver is.
LEMMA ToReceiverKinds ==
  ASSUME NEW p \in ToReceiver
  PROVE  p.t \in {"ADV", "PART", "HMU", "ICL"}
<1>1. ASSUME NEW S \in SUBSET Indexes PROVE \A k \in 1 .. Cardinality(S) : PartPackets(S)[k].t = "PART"
  BY DEF PartPackets, Part
<1> QED  BY <1>1 DEF ToReceiver, Adv, Icl, Hmu

\* A map hash moves the sender to an index of the payload.
LEMMA BackTyped ==
  ASSUME NEW last \in Int
  PROVE  /\ Back(last) \in Nat /\ Back(last) >= last - WindowMaxFast
         /\ Back(last) <= last \/ Back(last) = 0
         /\ last <= WindowMaxFast => Back(last) = 0
         /\ \A more \in Int : last <= more => Back(last) <= Back(more)
BY ConstantsTyped DEF Back, Larger

\* The requests behind the head can be answered as before.
LEMMA FitsTail ==
  ASSUME NEW s \in Seq(ToSender), s # <<>>, NEW min \in Nat, Fits(s, min)
  PROVE  Fits(Tail(s), min)
BY TailEffect DEF Fits

\* A packet that asks for nothing changes nothing of what is asked.
LEMMA FitsAppend ==
  ASSUME NEW s \in Seq(ToSender), NEW p \in {Prf, Rcl}, NEW min \in Nat, Fits(s, min)
  PROVE  Fits(Append(s, p), min)
<1>1. p \in ToSender /\ p.t # "REQ"
  BY DEF ToSender, Prf, Rcl
<1> QED  BY <1>1, AppendEffect DEF Fits

\* The receiver stays ahead as a request is taken off.
LEMMA AheadTail ==
  ASSUME NEW s \in Seq(ToSender), s # <<>>, NEW min \in Nat, NEW r, Ahead(s, min, r)
  PROVE  Ahead(Tail(s), min, r)
BY TailEffect DEF Ahead

\* The receiver stays ahead as a packet that asks for nothing is added.
LEMMA AheadAppend ==
  ASSUME NEW s \in Seq(ToSender), NEW p \in {Prf, Rcl}, NEW min \in Nat, NEW r, Ahead(s, min, r)
  PROVE  Ahead(Append(s, p), min, r)
<1>1. p \in ToSender /\ p.t # "REQ"
  BY DEF ToSender, Prf, Rcl
<1> QED  BY <1>1, AppendEffect DEF Ahead

\* The sender moves up to where the request at the head lets it look from.
LEMMA FitsMoved ==
  ASSUME NEW s \in Seq(ToSender), s # <<>>, NEW min \in Nat, Fits(s, min),
         s[1].t = "REQ", s[1].last # None
  PROVE  /\ Fits(Tail(s), Back(s[1].last)) /\ min <= Back(s[1].last)
         /\ \A r : r.height \in Nat /\ Ahead(s, min, r) => Ahead(Tail(s), Back(s[1].last), r)
<1> DEFINE b == Back(s[1].last)
<1>1. s[1].last \in Int /\ b \in Nat /\ min <= b
  BY TailEffect, RequestTyped, BackTyped DEF Fits
<1>2. ASSUME NEW k \in 1 .. Len(Tail(s)), Tail(s)[k].t = "REQ"
      PROVE  /\ \A i \in Tail(s)[k].want : b <= i /\ i < b + Guard
             /\ Tail(s)[k].last # None => b <= Back(Tail(s)[k].last) /\ Tail(s)[k].last < b + Guard
  <2>1. k + 1 \in 1 .. Len(s) /\ Tail(s)[k] = s[k + 1] /\ 1 \in 1 .. Len(s) /\ 1 < k + 1
    BY TailEffect
  <2>2. s[k + 1] \in ToSender
    BY <2>1
  <2>3. s[k + 1].last \in Int /\ \A i \in s[k + 1].want : i \in Int
    BY <1>2, <2>1, <2>2, RequestTyped
  <2>4. /\ \A i \in s[k + 1].want : i < min + Guard /\ b <= i
        /\ s[k + 1].last # None => s[k + 1].last < min + Guard /\ b <= Back(s[k + 1].last)
    BY <1>2, <2>1 DEF Fits
  <2> HIDE DEF b
  <2>5. ASSUME NEW i \in s[k + 1].want PROVE b <= i /\ i < b + Guard
    BY <1>1, <2>3, <2>4, ConstantsTyped
  <2>6. s[k + 1].last # None => b <= Back(s[k + 1].last) /\ s[k + 1].last < b + Guard
    BY <1>1, <2>3, <2>4, ConstantsTyped
  <2> QED  BY <2>1, <2>5, <2>6
<1>3. Fits(Tail(s), b)
  <2>1. Fits(Tail(s), min)
    BY FitsTail
  <2> HIDE DEF b
  <2> QED  BY <1>2, <2>1 DEF Fits
<1>4. ASSUME NEW r, r.height \in Nat, Ahead(s, min, r) PROVE Ahead(Tail(s), b, r)
  <2>1. Ahead(Tail(s), min, r) /\ PastIndex(r, b)
    BY <1>4, AheadTail, TailEffect DEF Ahead
  <2>2. r.height <= b + Guard
    <3> HIDE DEF b
    <3> QED  BY <1>1, <1>4, <2>1, ConstantsTyped DEF Ahead
  <2>3. \A k \in 1 .. Len(Tail(s)) : Tail(s)[k].t = "REQ" => PastIndex(r, Back(Tail(s)[k].last))
    BY <2>1 DEF Ahead
  <2> HIDE DEF b
  <2> QED  BY <2>1, <2>2, <2>3 DEF Ahead
<1> QED  BY <1>1, <1>3, <1>4

-----------------------------------------------------------------------------
(* What the receiver asks for.                                             *)

Receivers ==
  [status: {"NONE", "TRANSFERRING", "COMPLETE", "FAILED"}, got: SUBSET Indexes,
   height: 0 .. Parts, waiting: BOOLEAN, out: 0 .. Parts,
   window: 1 .. WindowMaxFast, min: 1 .. WindowMaxFast, max: 1 .. WindowMaxFast,
   rate: {"normal", "fast", "slow"}, answered: BOOLEAN, retries: 0 .. MaxRetries, timer: BOOLEAN]

\* What is asked for is missing, and its map hash is held; and the hashes held
\* end within the window when they are exhausted.
LEMMA WantsEffect ==
  ASSUME NEW r \in Receivers
  PROVE  /\ Wants(r) \in SUBSET Indexes
         /\ \A i \in Wants(r) : First(r) <= i /\ i < r.height
         /\ Exhausted(r) => r.height < First(r) + WindowMaxFast /\ r.height < Parts
<1>1. r.got \in SUBSET Indexes /\ r.height \in Nat /\ r.window \in Nat /\ r.window <= WindowMaxFast
  BY ConstantsTyped DEF Receivers
<1>2. First(r) \in Nat /\ First(r) <= Parts
  BY <1>1, FirstIsLeast, ConstantsTyped
<1>3. \A i \in Span(r) : i \in Int /\ First(r) <= i /\ i < First(r) + r.window /\ i < Parts
  <2>1. First(r) + r.window \in Nat
    BY <1>1, <1>2
  <2> QED  BY <1>1, <1>2, <2>1, ConstantsTyped DEF Span, Smaller
<1>4. \A i \in Wants(r) : i \in Int /\ First(r) <= i /\ i < r.height /\ i < Parts
  BY <1>3 DEF Wants
<1>5. Wants(r) \in SUBSET Indexes
  BY <1>2, <1>4, ConstantsTyped DEF Indexes
<1>6. ASSUME Exhausted(r) PROVE r.height < First(r) + WindowMaxFast /\ r.height < Parts
  <2>1. PICK i \in Span(r) : i >= r.height
    BY <1>6 DEF Exhausted
  <2> QED  BY <1>1, <1>2, <1>3, <2>1, ConstantsTyped
<1> QED  BY <1>4, <1>5, <1>6

\* Asking changes what the receiver waits for, and nothing of what it has.
LEMMA AskedEffect ==
  ASSUME NEW r \in Receivers
  PROVE  /\ Asked(r) \in Receivers
         /\ Asked(r).status = r.status /\ Asked(r).got = r.got /\ Asked(r).height = r.height
         /\ r.timer \/ ~r.waiting => Asked(r).timer
<1>1. CASE r.waiting
  BY <1>1 DEF Asked
<1>2. CASE ~r.waiting
  <2>1. Asked(r) = [r EXCEPT !.out = Cardinality(Wants(r)), !.waiting = Exhausted(r),
                             !.answered = FALSE, !.timer = TRUE]
    BY <1>2 DEF Asked
  <2>2. Cardinality(Wants(r)) \in 0 .. Parts
    BY WantsEffect, CountBound
  <2>3. Exhausted(r) \in BOOLEAN
    BY DEF Exhausted
  <2> QED  BY <2>1, <2>2, <2>3 DEF Receivers
<1> QED  BY <1>1, <1>2

\* A request is answered, and so are those before it.
LEMMA Asking ==
  ASSUME NEW s \in Seq(ToSender), NEW min \in Nat, NEW r \in Receivers,
         Fits(s, min), Ahead(s, min, r)
  PROVE  /\ s \o Request(r) \in Seq(ToSender)
         /\ Fits(s \o Request(r), min)
         /\ Ahead(s \o Request(r), min, Asked(r))
         /\ \A k \in 1 .. Len(s \o Request(r)) :
              \/ k \in 1 .. Len(s) /\ (s \o Request(r))[k] = s[k]
              \/ /\ (s \o Request(r))[k].t = "REQ"
                 /\ (s \o Request(r))[k].last < First(r) + WindowMaxFast
<1> DEFINE h == r.height  f == First(r)
<1>1. /\ h \in Nat /\ h > 0 /\ h <= min + Guard /\ h <= Parts
      /\ f \in Nat /\ min <= f /\ min <= Back(h - 1) /\ r.got \in SUBSET Indexes
      /\ \A k \in 1 .. Len(s) : s[k].t = "REQ" => Back(s[k].last) <= f /\ Back(s[k].last) <= Back(h - 1)
  <2>1. r.got \in SUBSET Indexes /\ h \in Nat /\ h <= Parts
    BY ConstantsTyped DEF Receivers
  <2>2. f \in Nat
    BY <2>1, FirstIsLeast, ConstantsTyped
  <2> QED  BY <2>1, <2>2 DEF Ahead, PastIndex
<1>2. First(Asked(r)) = f /\ Asked(r).height = h
  <2>1. Asked(r).got = r.got /\ Asked(r).height = h
    BY AskedEffect
  <2>2. First(Asked(r)) \in 0 .. Parts /\ f \in 0 .. Parts
    BY <1>1, <2>1, FirstIsLeast
  <2>3. First(Asked(r)) <= f /\ f <= First(Asked(r))
    BY <1>1, <2>1, FirstGrows
  <2> QED  BY <2>1, <2>2, <2>3, ConstantsTyped
<1>3. CASE r.waiting
  <2>1. Request(r) = <<>> /\ Asked(r) = r
    BY <1>3 DEF Request, Asked
  <2>2. s \o <<>> = s
    OBVIOUS
  <2> QED  BY <2>1, <2>2
<1>4. CASE ~r.waiting
  <2> DEFINE last == IF Exhausted(r) THEN r.height - 1 ELSE None
             p == Req(Wants(r), last)
             q == s \o <<p>>
  <2>1. Request(r) = <<p>>
    BY <1>4 DEF Request
  <2>2. /\ Wants(r) \in SUBSET Indexes
        /\ \A i \in Wants(r) : i \in Int /\ f <= i /\ i < h
        /\ last \in Indexes \cup {None} /\ last \in Int /\ last < f + WindowMaxFast
        /\ last # None => last = h - 1 /\ h < f + WindowMaxFast
    <3>1. /\ Wants(r) \in SUBSET Indexes
          /\ \A i \in Wants(r) : f <= i /\ i < h
          /\ Exhausted(r) => h < f + WindowMaxFast /\ h < Parts
      BY WantsEffect
    <3>2. \A i \in Wants(r) : i \in Int
      BY <3>1 DEF Indexes
    <3> HIDE DEF f
    <3> QED  BY <1>1, <3>1, <3>2, ConstantsTyped DEF Indexes
  <2>3. p \in ToSender /\ p.t = "REQ" /\ p.want = Wants(r) /\ p.last = last
    <3>1. Wants(r) \in SUBSET Indexes /\ last \in Indexes \cup {None}
      BY <2>2
    <3> HIDE DEF last
    <3> QED  BY <3>1, AnyRequest
  <2> HIDE DEF p, last, h, f
  <2>4. /\ q \in Seq(ToSender) /\ Len(s) \in Nat /\ Len(q) = Len(s) + 1 /\ q[Len(s) + 1] = p
        /\ \A k \in 1 .. Len(s) : q[k] = s[k]
        /\ \A k \in 1 .. Len(q) : k \in 1 .. Len(s) \/ k = Len(s) + 1
    BY <2>3
  <2> HIDE DEF q
  <2>5. ASSUME last # None
        PROVE  /\ Back(last) = Back(h - 1) /\ Back(last) <= f /\ last < min + Guard
               /\ min <= Back(last)
    <3>1. last = h - 1 /\ h < f + WindowMaxFast
      BY <2>2, <2>5
    <3>2. Back(h - 1) <= f
      BY <1>1, <3>1, ConstantsTyped DEF Back, Larger
    <3> QED  BY <1>1, <3>1, <3>2, ConstantsTyped
  <2>6. Back(last) <= f /\ Back(last) <= Back(h - 1)
    <3>1. CASE last # None
      BY <1>1, <2>5, <3>1, BackTyped
    <3>2. CASE last = None
      <4>1. Back(last) = 0
        BY <2>2, <3>2, BackTyped, ConstantsTyped
      <4>2. Back(h - 1) \in Nat
        BY <1>1, BackTyped
      <4> QED  BY <1>1, <4>1, <4>2
    <3> QED  BY <3>1, <3>2
  <2>7. /\ \A i \in p.want : min <= i /\ i < min + Guard
        /\ p.last # None => min <= Back(p.last) /\ p.last < min + Guard
    <3>1. \A i \in Wants(r) : min <= i /\ i < min + Guard
      BY <1>1, <2>2, ConstantsTyped
    <3> QED  BY <2>3, <2>5, <3>1
  <2>8. ASSUME NEW j \in 1 .. Len(s), s[j].t = "REQ"
        PROVE  /\ \A i \in p.want : Back(s[j].last) <= i
               /\ p.last # None => Back(s[j].last) <= Back(p.last)
    <3>1. Back(s[j].last) \in Nat /\ Back(s[j].last) <= f /\ Back(s[j].last) <= Back(h - 1)
      <4>1. s[j] \in ToSender
        OBVIOUS
      <4>2. s[j].last \in Int
        BY <2>8, <4>1, RequestTyped
      <4> QED  BY <1>1, <2>8, <4>2, BackTyped
    <3>2. \A i \in Wants(r) : Back(s[j].last) <= i
      BY <1>1, <2>2, <3>1
    <3> QED  BY <2>3, <2>5, <3>1, <3>2
  <2>9. Fits(q, min)
    BY SMTT(30), <2>3, <2>4, <2>7, <2>8 DEF Fits
  <2>10. Ahead(q, min, Asked(r))
    <3>1. \A k \in 1 .. Len(q) : q[k].t = "REQ" => Back(q[k].last) <= f /\ Back(q[k].last) <= Back(h - 1)
      BY <1>1, <2>3, <2>4, <2>6
    <3> QED  BY <1>1, <1>2, <3>1 DEF Ahead, PastIndex
  <2>11. q = s \o Request(r)
    BY <2>1 DEF q
  <2>12. \A k \in 1 .. Len(q) :
           (k \in 1 .. Len(s) /\ q[k] = s[k]) \/ (q[k].t = "REQ" /\ q[k].last < f + WindowMaxFast)
    BY <2>2, <2>3, <2>4
  <2> QED  BY <2>4, <2>9, <2>10, <2>11, <2>12 DEF f
<1> QED  BY <1>3, <1>4

-----------------------------------------------------------------------------
(* The receiver's window.                                                  *)

\* What the receiver has, whatever its window.
SameParts(r, q) ==
  /\ r \in Receivers /\ r.status = q.status /\ r.got = q.got /\ r.height = q.height
  /\ r.waiting = q.waiting /\ r.timer = q.timer

\* The window grows within its limit.
LEMMA GrownEffect ==
  ASSUME NEW r \in Receivers
  PROVE  SameParts(Grown(r), r)
<1>1. CASE r.window >= r.max
  BY <1>1 DEF Grown, SameParts
<1>2. CASE ~(r.window >= r.max)
  <2> DEFINE m == IF r.window + 1 - r.min > Flexibility - 1 THEN r.min + 1 ELSE r.min
  <2>1. Grown(r) = [r EXCEPT !.window = r.window + 1, !.min = m]
    BY <1>2 DEF Grown
  <2>2. r.window + 1 \in 1 .. WindowMaxFast /\ m \in 1 .. WindowMaxFast
    BY <1>2, ConstantsTyped DEF Receivers
  <2> HIDE DEF m
  <2> QED  BY <2>1, <2>2 DEF SameParts, Receivers
<1> QED  BY <1>1, <1>2

\* A measured rate moves the window's limit alone.
LEMMA MeasuredEffect ==
  ASSUME NEW r \in Receivers
  PROVE  /\ \A q \in MeasuredOnFirst(r) : SameParts(q, r)
         /\ \A q \in MeasuredOnLast(r) : SameParts(q, r)
<1>1. SameParts(r, r)
  BY DEF SameParts
<1>2. SameParts(Fast(r), r) /\ SameParts(VerySlow(r), r)
  <2>1. WindowMaxFast \in 1 .. WindowMaxFast /\ WindowMaxVerySlow \in 1 .. WindowMaxFast
    BY ConstantsTyped
  <2>2. SameParts(Fast(r), r)
    BY <2>1 DEF Fast, SameParts, Receivers
  <2>3. SameParts(VerySlow(r), r)
    BY <2>1 DEF VerySlow, SameParts, Receivers
  <2> QED  BY <2>2, <2>3
<1> QED  BY <1>1, <1>2 DEF MeasuredOnFirst, MeasuredOnLast

\* The window shrinks, and is never empty.
LEMMA ShrunkEffect ==
  ASSUME NEW r \in Receivers
  PROVE  SameParts(Shrunk(r), r) /\ Shrunk(r).retries = r.retries
<1>1. CASE r.window <= r.min
  BY <1>1 DEF Shrunk, SameParts
<1>2. CASE ~(r.window <= r.min)
  <2> DEFINE max == IF r.max > r.min THEN r.max - 1 ELSE r.max
             more == r.max > r.min /\ max - (r.window - 1) > Flexibility - 1
             m == IF more THEN max - 1 ELSE max
  <2>1. Shrunk(r) = [r EXCEPT !.window = r.window - 1, !.max = m]
    BY <1>2 DEF Shrunk
  <2>2. r.window - 1 \in 1 .. WindowMaxFast /\ m \in 1 .. WindowMaxFast
    BY <1>2, ConstantsTyped DEF Receivers
  <2> HIDE DEF m
  <2> QED  BY <2>1, <2>2 DEF SameParts, Receivers
<1> QED  BY <1>1, <1>2

\* A segment is placed: the map hashes held reach up to its end.
LEMMA MappedEffect ==
  ASSUME NEW r \in Receivers, NEW seg \in Nat
  PROVE  LET q == Mapped(r, seg) IN
         /\ q \in Receivers /\ q.status = r.status /\ q.got = r.got /\ ~q.waiting
         /\ q.timer = r.timer /\ r.height <= q.height /\ q.height > 0
         /\ q.height <= r.height \/ q.height <= (seg + 1) * HashmapMaxLen
<1> DEFINE e == (seg + 1) * HashmapMaxLen
           h == Larger(r.height, Smaller(e, Parts))
<1>1. e \in Nat /\ e > 0
  <2>1. seg + 1 \in Nat /\ seg + 1 > 0
    OBVIOUS
  <2> QED  BY <2>1, ConstantsTyped
<1>2. Mapped(r, seg) = [r EXCEPT !.height = h, !.waiting = FALSE]
  BY DEF Mapped
<1> HIDE DEF e
<1>3. h \in 0 .. Parts /\ r.height <= h /\ h > 0 /\ (h <= r.height \/ h <= e)
  BY <1>1, ConstantsTyped DEF Larger, Smaller, Receivers
<1> HIDE DEF h
<1> QED  BY <1>2, <1>3 DEF Receivers, e

\* A Resource that is not there, or is over.
LEMMA FreshTyped ==
  /\ Fresh \in Receivers /\ Fresh.status = "NONE" /\ Fresh.got = {} /\ ~Fresh.timer
  /\ LET q == [Fresh EXCEPT !.status = "FAILED"] IN
     q \in Receivers /\ q.status = "FAILED" /\ q.got = {} /\ ~q.timer
<1>1. /\ Window \in 1 .. WindowMaxFast /\ WindowMin \in 1 .. WindowMaxFast
      /\ WindowMaxSlow \in 1 .. WindowMaxFast /\ 0 \in 0 .. Parts /\ MaxRetries \in 0 .. MaxRetries
  BY ConstantsTyped
<1> QED  BY <1>1 DEF Fresh, Receivers

\* The receiver stays ahead with more parts, and with more of the hashmap.
LEMMA AheadFurther ==
  ASSUME NEW s \in Seq(ToSender), NEW min \in Nat, NEW r \in Receivers, NEW q \in Receivers,
         Ahead(s, min, r), r.got \subseteq q.got, r.height <= q.height, q.height <= min + Guard
  PROVE  Ahead(s, min, q)
<1>1. First(r) <= First(q) /\ First(r) \in Nat /\ First(q) \in Nat
  <2>1. r.got \in SUBSET Indexes /\ q.got \in SUBSET Indexes
    BY DEF Receivers
  <2> QED  BY <2>1, FirstGrows, FirstIsLeast, ConstantsTyped
<1>2. r.height \in Nat /\ q.height \in Nat /\ r.height > 0
  <2>1. r.height \in 0 .. Parts /\ q.height \in 0 .. Parts
    BY DEF Receivers
  <2>2. 1 <= r.height
    BY DEF Ahead
  <2> QED  BY <2>1, <2>2, ConstantsTyped
<1>3. /\ Back(r.height - 1) <= Back(q.height - 1)
      /\ Back(r.height - 1) \in Nat /\ Back(q.height - 1) \in Nat
  <2>1. r.height - 1 \in Int /\ q.height - 1 \in Int /\ r.height - 1 <= q.height - 1
    BY <1>2
  <2> QED  BY <2>1, BackTyped
<1>4. ASSUME NEW i \in Nat, PastIndex(r, i) PROVE PastIndex(q, i)
  BY <1>1, <1>3, <1>4 DEF PastIndex
<1>5. ASSUME NEW k \in 1 .. Len(s), s[k].t = "REQ" PROVE PastIndex(q, Back(s[k].last))
  <2>1. s[k] \in ToSender
    OBVIOUS
  <2>2. Back(s[k].last) \in Nat
    BY <1>5, <2>1, RequestTyped, BackTyped
  <2> QED  BY <1>4, <1>5, <2>2 DEF Ahead
<1> QED  BY <1>2, <1>4, <1>5 DEF Ahead

-----------------------------------------------------------------------------
(* What a step of the receiver, and a step of the sender, must see to.     *)

Links == [{"S", "R"} -> {"ACTIVE", "STALE", "CLOSED"}]

\* The parts of the invariant that type the state.
LEMMA StateTyped ==
  ASSUME IInv
  PROVE  /\ rcv \in Receivers /\ link \in Links /\ faults \in 0 .. MaxFaults /\ env \in Envs
         /\ snd.min \in Nat /\ toR \in Seq(ToReceiver) /\ toS \in Seq(ToSender)
BY ConstantsTyped DEF IInv, Typed, TypeOK, Receivers, Links, Indexes

\* A step of the receiver, of its end of the link or of the path.
LEMMA ReceiverStep ==
  ASSUME IInv, UNCHANGED <<snd, env>>, faults' \in 0 .. MaxFaults, link' \in Links,
         toR' = toR \/ (toR # <<>> /\ toR' = Tail(toR)),
         rcv' \in Receivers, toS' \in Seq(ToSender),
         rcv'.timer = (rcv'.status = "TRANSFERRING"),
         Fits(toS', snd.min),
         rcv'.status = "TRANSFERRING" => Ahead(toS', snd.min, rcv'),
         Early => /\ rcv'.got = {}
                  /\ \A k \in 1 .. Len(toS') : toS'[k].t = "REQ" => toS'[k].last <= WindowMaxFast,
         rcv'.status = "COMPLETE" => rcv'.got = Indexes,
         \A k \in 1 .. Len(toS') : toS'[k].t = "PRF" => rcv'.status = "COMPLETE"
  PROVE  IInv'
<1>1. /\ toR \in Seq(ToReceiver) /\ toR' \in Seq(ToReceiver)
      /\ \A k \in 1 .. Len(toR') : \E j \in 1 .. Len(toR) : toR'[k] = toR[j]
      /\ \A j, k \in 1 .. Len(toR') : j < k =>
           \E i, l \in 1 .. Len(toR) : i < l /\ toR'[j] = toR[i] /\ toR'[k] = toR[l]
  <2>1. CASE toR' = toR
    BY <2>1, StateTyped
  <2>2. CASE toR # <<>> /\ toR' = Tail(toR)
    <3>1. /\ toR \in Seq(ToReceiver) /\ toR' \in Seq(ToReceiver) /\ Len(toR) \in Nat
          /\ Len(toR') = Len(toR) - 1
          /\ \A k \in 1 .. Len(toR') : k + 1 \in 1 .. Len(toR) /\ toR'[k] = toR[k + 1]
      BY <2>2, StateTyped, TailEffect
    <3>2. ASSUME NEW k \in 1 .. Len(toR') PROVE \E j \in 1 .. Len(toR) : toR'[k] = toR[j]
      BY <3>1
    <3>3. ASSUME NEW j \in 1 .. Len(toR'), NEW k \in 1 .. Len(toR'), j < k
          PROVE  \E i, l \in 1 .. Len(toR) : i < l /\ toR'[j] = toR[i] /\ toR'[k] = toR[l]
      <4>1. j + 1 < k + 1
        BY <3>1, <3>3
      <4> QED  BY <3>1, <4>1
    <3> QED  BY <3>1, <3>2, <3>3
  <2> QED  BY <2>1, <2>2
<1>2. Typed'
  BY <1>1 DEF IInv, Typed, TypeOK, Receivers, Links, Envs, Sent
<1>3. Timed'
  BY DEF IInv, Timed, Sending, Receiving, Sent
<1>4. Answerable'
  BY DEF Answerable, Receiving
<1>5. MapsFit'
  BY <1>1 DEF IInv, MapsFit
<1>6. AdvertisedFirst'
  <2>1. Begins' <=> Begins
    BY DEF Begins
  <2>2. ASSUME NEW j \in 1 .. Len(toR'), NEW k \in 1 .. Len(toR'), j < k, toR'[k].t = "ADV"
        PROVE  toR'[j].t = "ADV"
    <3>1. PICK i \in 1 .. Len(toR), l \in 1 .. Len(toR) : i < l /\ toR'[j] = toR[i] /\ toR'[k] = toR[l]
      BY <1>1, <2>2
    <3> QED  BY <2>2, <3>1 DEF IInv, AdvertisedFirst
  <2>3. ASSUME Begins, NEW k \in 1 .. Len(toR') PROVE toR'[k].t = "ADV"
    BY <1>1, <2>3 DEF IInv, AdvertisedFirst
  <2> QED  BY <2>1, <2>2, <2>3 DEF AdvertisedFirst
<1>7. Unmoved'
  <2>1. Early' => Early
    BY <1>1 DEF Early, Begins
  <2> QED  BY <2>1 DEF IInv, Unmoved
<1>8. Proved'
  BY DEF Proved
<1> QED  BY <1>2, <1>3, <1>4, <1>5, <1>6, <1>7, <1>8 DEF IInv

\* The receiver asks again, or has already asked.
LEMMA AskingStep ==
  ASSUME IInv, UNCHANGED <<snd, env>>, faults' \in 0 .. MaxFaults, link' \in Links,
         toR' = toR \/ (toR # <<>> /\ toR' = Tail(toR)),
         rcv.status # "COMPLETE",
         NEW r, r \in Receivers, r.status = "TRANSFERRING", r.timer \/ ~r.waiting,
         Ahead(toS, snd.min, r), Early => r.got = {}, AskNext(r)
  PROVE  IInv'
<1>1. rcv' = Asked(r) /\ toS' = toS \o Request(r)
  BY DEF AskNext
<1>2. toS \in Seq(ToSender) /\ snd.min \in Nat /\ Fits(toS, snd.min)
  BY StateTyped DEF IInv, Answerable
<1>3. /\ toS' \in Seq(ToSender) /\ Fits(toS', snd.min) /\ Ahead(toS', snd.min, rcv')
      /\ \A k \in 1 .. Len(toS') :
           \/ k \in 1 .. Len(toS) /\ toS'[k] = toS[k]
           \/ toS'[k].t = "REQ" /\ toS'[k].last < First(r) + WindowMaxFast
  BY <1>1, <1>2, Asking
<1>4. rcv' \in Receivers /\ rcv'.status = "TRANSFERRING" /\ rcv'.got = r.got /\ rcv'.timer
  BY <1>1, AskedEffect
<1>5. ASSUME Early
      PROVE  /\ rcv'.got = {}
             /\ \A k \in 1 .. Len(toS') : toS'[k].t = "REQ" => toS'[k].last <= WindowMaxFast
  <2>1. First(r) = 0
    BY <1>5, FirstOfNothing
  <2>2. \A k \in 1 .. Len(toS) : toS[k].t = "REQ" => toS[k].last <= WindowMaxFast
    BY <1>5 DEF IInv, Unmoved
  <2>3. ASSUME NEW k \in 1 .. Len(toS'), toS'[k].t = "REQ" PROVE toS'[k].last <= WindowMaxFast
    <3>1. CASE k \in 1 .. Len(toS) /\ toS'[k] = toS[k]
      BY <2>2, <2>3, <3>1
    <3>2. CASE toS'[k].last < First(r) + WindowMaxFast
      <4>1. toS'[k] \in ToSender
        BY <1>3
      <4> QED  BY <2>1, <2>3, <3>2, <4>1, RequestTyped, ConstantsTyped
    <3> QED  BY <1>3, <3>1, <3>2
  <2> QED  BY <1>4, <1>5, <2>3
<1>6. \A k \in 1 .. Len(toS') : toS'[k].t # "PRF"
  <2>1. \A k \in 1 .. Len(toS) : toS[k].t # "PRF"
    BY DEF IInv, Proved
  <2> QED  BY <1>3, <2>1
<1>7. rcv'.timer = (rcv'.status = "TRANSFERRING")
  <2>1. rcv'.timer \in BOOLEAN
    BY <1>4 DEF Receivers
  <2> QED  BY <1>4, <2>1
<1> QED  BY <1>3, <1>4, <1>5, <1>6, <1>7, ReceiverStep

\* The receiver gives up, and may say so.
LEMMA QuittingStep ==
  ASSUME IInv, UNCHANGED <<snd, env>>, faults' \in 0 .. MaxFaults, link' \in Links,
         toR' = toR \/ (toR # <<>> /\ toR' = Tail(toR)),
         Receiving, rcv' = [Fresh EXCEPT !.status = "FAILED"],
         toS' = toS \/ toS' = Append(toS, Rcl)
  PROVE  IInv'
<1>1. toS \in Seq(ToSender) /\ snd.min \in Nat /\ Fits(toS, snd.min) /\ Rcl \in ToSender
  BY StateTyped DEF IInv, Answerable, ToSender
<1>2. /\ toS' \in Seq(ToSender) /\ Fits(toS', snd.min)
      /\ \A k \in 1 .. Len(toS') : (k \in 1 .. Len(toS) /\ toS'[k] = toS[k]) \/ toS'[k] = Rcl
  <2>1. CASE toS' = toS
    BY <1>1, <2>1
  <2>2. CASE toS' = Append(toS, Rcl)
    BY <1>1, <2>2, AppendEffect, FitsAppend
  <2> QED  BY <2>1, <2>2
<1>3. rcv' \in Receivers /\ rcv'.status = "FAILED" /\ rcv'.got = {} /\ ~rcv'.timer
  BY FreshTyped
<1>4. Rcl.t = "RCL"
  BY DEF Rcl
<1>5. \A k \in 1 .. Len(toS') : toS'[k].t # "PRF"
  <2>1. \A k \in 1 .. Len(toS) : toS[k].t # "PRF"
    BY DEF IInv, Proved, Receiving
  <2> QED  BY <1>2, <1>4, <2>1
<1>6. Early => \A k \in 1 .. Len(toS') : toS'[k].t = "REQ" => toS'[k].last <= WindowMaxFast
  BY <1>2, <1>4 DEF IInv, Unmoved
<1>7. rcv'.timer = (rcv'.status = "TRANSFERRING")
  <2>1. rcv'.timer \in BOOLEAN
    BY <1>3 DEF Receivers
  <2> QED  BY <1>3, <2>1
<1> QED  BY <1>2, <1>3, <1>5, <1>6, <1>7, ReceiverStep

\* Nothing of the receiver or of its requests changes.
LEMMA IdleStep ==
  ASSUME IInv, UNCHANGED <<snd, rcv, env>>, faults' \in 0 .. MaxFaults, link' \in Links,
         toR' = toR \/ (toR # <<>> /\ toR' = Tail(toR)),
         toS' = toS \/ (toS # <<>> /\ toS' = Tail(toS)) \/ toS' = Append(toS, Rcl)
  PROVE  IInv'
<1>1. toS \in Seq(ToSender) /\ snd.min \in Nat /\ Fits(toS, snd.min) /\ rcv \in Receivers
      /\ Rcl \in ToSender
  BY StateTyped DEF IInv, Answerable, ToSender
<1>2. /\ toS' \in Seq(ToSender) /\ Fits(toS', snd.min)
      /\ Receiving => Ahead(toS', snd.min, rcv)
      /\ \A k \in 1 .. Len(toS') : (\E j \in 1 .. Len(toS) : toS'[k] = toS[j]) \/ toS'[k] = Rcl
  <2>1. CASE toS' = toS
    BY <1>1, <2>1 DEF IInv, Answerable
  <2>2. CASE toS' = Append(toS, Rcl)
    BY <1>1, <2>2, AppendEffect, FitsAppend, AheadAppend DEF IInv, Answerable
  <2>3. CASE toS # <<>> /\ toS' = Tail(toS)
    BY <1>1, <2>3, TailEffect, FitsTail, AheadTail DEF IInv, Answerable
  <2> QED  BY <2>1, <2>2, <2>3
<1>3. Rcl.t = "RCL"
  BY DEF Rcl
<1>4. \A k \in 1 .. Len(toS') : toS'[k].t = "PRF" => rcv'.status = "COMPLETE"
  BY <1>2, <1>3 DEF IInv, Proved
<1>5. Early => /\ rcv'.got = {}
               /\ \A k \in 1 .. Len(toS') : toS'[k].t = "REQ" => toS'[k].last <= WindowMaxFast
  BY <1>2, <1>3 DEF IInv, Unmoved
<1>6. /\ rcv'.timer = (rcv'.status = "TRANSFERRING")
      /\ rcv'.status = "COMPLETE" => rcv'.got = Indexes
  BY DEF IInv, Timed, Receiving, Proved
<1> QED  BY <1>1, <1>2, <1>4, <1>5, <1>6, ReceiverStep DEF Receiving

-----------------------------------------------------------------------------
(* Every action of the receiver and of the path keeps the invariant.       *)

\* A receiver that holds the payload hears no advertisement any more.
LEMMA CompleteStands ==
  ASSUME IInv, toR # <<>>, Head(toR).t = "ADV"
  PROVE  Early /\ rcv.got = {} /\ rcv.status # "COMPLETE"
<1>1. Early
  <2>1. Head(toR) = toR[1] /\ 1 \in 1 .. Len(toR)
    BY StateTyped, TailEffect
  <2> QED  BY <2>1 DEF Early
<1>2. 0 \in Indexes
  BY ConstantsTyped DEF Indexes
<1> QED  BY <1>1, <1>2 DEF IInv, Unmoved, Proved

\* An advertisement is taken on, or refused, or known already.
LEMMA AcceptKeeps ==
  ASSUME IInv, toR # <<>>, toR' = Tail(toR), UNCHANGED <<snd, env, faults>>, link' \in Links,
         Head(toR).t = "ADV", Accept
  PROVE  IInv'
<1>1. Early /\ rcv.got = {} /\ rcv.status # "COMPLETE"
  BY CompleteStands
<1>2. CASE ~env.willing
  BY <1>2, StateTyped, IdleStep DEF Accept
<1>3. CASE env.willing /\ Receiving
  BY <1>3, StateTyped, IdleStep DEF Accept
<1>4. CASE env.willing /\ ~Receiving
  <2> DEFINE fresh == [Fresh EXCEPT !.status = "TRANSFERRING", !.window = env.window]
             r == Mapped(fresh, 0)
  <2>1. fresh \in Receivers /\ fresh.status = "TRANSFERRING" /\ fresh.got = {} /\ fresh.height = 0
    <3>1. env.window \in 1 .. WindowMaxFast
      BY StateTyped, ConstantsTyped DEF Envs
    <3> QED  BY <3>1, FreshTyped DEF Receivers, Fresh
  <2> HIDE DEF fresh
  <2>2. /\ r \in Receivers /\ r.status = "TRANSFERRING" /\ r.got = {} /\ ~r.waiting
        /\ r.height > 0 /\ r.height <= HashmapMaxLen
    <3>1. 1 * HashmapMaxLen = HashmapMaxLen /\ 0 \in Nat /\ 0 + 1 = 1
      BY ConstantsTyped
    <3>2. /\ r \in Receivers /\ r.status = fresh.status /\ r.got = fresh.got /\ ~r.waiting
          /\ r.height > 0
          /\ r.height <= fresh.height \/ r.height <= 1 * HashmapMaxLen
      <4>1. /\ r \in Receivers /\ r.status = fresh.status /\ r.got = fresh.got /\ ~r.waiting
            /\ r.height > 0
            /\ r.height <= fresh.height \/ r.height <= (0 + 1) * HashmapMaxLen
        BY <2>1, <3>1, MappedEffect, Zenon
      <4> QED  BY <3>1, <4>1, Zenon
    <3>3. r.height \in Nat
      BY <3>2, ConstantsTyped DEF Receivers
    <3> HIDE DEF r
    <3> QED  BY <2>1, <3>1, <3>2, <3>3
  <2>3. AskNext(r)
    BY <1>4 DEF Accept, fresh
  <2> HIDE DEF r
  <2>4. Ahead(toS, snd.min, r)
    <3>1. First(r) = 0
      BY <2>2, FirstOfNothing
    <3>2. r.height \in Nat /\ snd.min = 0
      BY <1>1, <2>2, ConstantsTyped DEF IInv, Unmoved, Receivers
    <3>3. Back(r.height - 1) \in Nat
      BY <3>2, BackTyped
    <3>4. ASSUME NEW k \in 1 .. Len(toS), toS[k].t = "REQ" PROVE Back(toS[k].last) = 0
      <4>1. toS[k] \in ToSender
        BY StateTyped
      <4>2. toS[k].last <= WindowMaxFast
        BY <1>1, <3>4 DEF IInv, Unmoved
      <4> QED  BY <3>4, <4>1, <4>2, RequestTyped, BackTyped
    <3> QED  BY <2>2, <3>1, <3>2, <3>3, <3>4, ConstantsTyped DEF Ahead, PastIndex
  <2> QED  BY <1>1, <2>2, <2>3, <2>4, StateTyped, AskingStep
<1> QED  BY <1>2, <1>3, <1>4

\* A segment of the hashmap arrives.
LEMMA OnHashmapUpdateKeeps ==
  ASSUME IInv, toR # <<>>, toR' = Tail(toR), UNCHANGED <<snd, env, faults>>, link' \in Links,
         Head(toR).t = "HMU", OnHashmapUpdate(Head(toR).seg)
  PROVE  IInv'
<1> DEFINE seg == Head(toR).seg
<1>1. CASE ~(Receiving /\ rcv.waiting)
  BY <1>1, StateTyped, IdleStep DEF OnHashmapUpdate
<1>2. CASE Receiving /\ rcv.waiting
  <2> DEFINE again == [rcv EXCEPT !.retries = MaxRetries]
             r == Mapped(again, seg)
  <2>1. seg \in Nat /\ (seg + 1) * HashmapMaxLen <= snd.min + Guard
    <3>1. Head(toR) = toR[1] /\ 1 \in 1 .. Len(toR) /\ toR[1] \in ToReceiver
      BY StateTyped, TailEffect
    <3>2. toR[1].t = "HMU"
      BY <3>1
    <3>3. toR[1].seg \in Nat
      BY <3>1, <3>2, HashmapTyped
    <3> QED  BY <3>1, <3>2, <3>3 DEF IInv, MapsFit
  <2>2. /\ again \in Receivers /\ again.status = "TRANSFERRING" /\ again.got = rcv.got
        /\ again.height = rcv.height
    <3>1. MaxRetries \in 0 .. MaxRetries
      BY ConstantsTyped
    <3> QED  BY <1>2, <3>1, StateTyped DEF Receivers, Receiving
  <2>3. AskNext(r)
    BY <1>2 DEF OnHashmapUpdate
  <2> HIDE DEF again, seg
  <2>4. /\ r \in Receivers /\ r.status = "TRANSFERRING" /\ r.got = rcv.got /\ ~r.waiting
        /\ rcv.height <= r.height
        /\ r.height <= rcv.height \/ r.height <= (seg + 1) * HashmapMaxLen
    BY <2>1, <2>2, MappedEffect
  <2> HIDE DEF r
  <2>5. Ahead(toS, snd.min, r)
    <3>1. Ahead(toS, snd.min, rcv)
      BY <1>2 DEF IInv, Answerable
    <3>2. r.height \in Nat /\ rcv.height \in Nat /\ snd.min \in Nat
      BY <2>4, StateTyped, ConstantsTyped DEF Receivers
    <3>3. r.height <= snd.min + Guard
      <4>1. (seg + 1) * HashmapMaxLen \in Nat
        <5>1. seg + 1 \in Nat
          BY <2>1
        <5> QED  BY <5>1, ConstantsTyped
      <4>2. rcv.height <= snd.min + Guard
        BY <3>1 DEF Ahead
      <4> DEFINE e == (seg + 1) * HashmapMaxLen
      <4>3. e \in Nat /\ e <= snd.min + Guard /\ (r.height <= rcv.height \/ r.height <= e)
        BY <2>1, <2>4, <4>1
      <4> HIDE DEF e
      <4> QED  BY <3>2, <4>2, <4>3, ConstantsTyped
    <3> QED  BY <2>4, <3>1, <3>3, StateTyped, AheadFurther
  <2>6. Early => r.got = {}
    BY <2>4 DEF IInv, Unmoved
  <2>7. rcv.status # "COMPLETE"
    BY <1>2 DEF Receiving
  <2> QED  BY <2>3, <2>4, <2>5, <2>6, <2>7, StateTyped, AskingStep
<1> QED  BY <1>1, <1>2

\* The receiver with the part at i, as onPart() takes it in.
Taken(r, i) == [r EXCEPT !.got = @ \cup {i}, !.out = Larger(0, @ - 1),
                         !.retries = MaxRetries, !.answered = TRUE]

\* The part is one of the payload, and the one part more.
LEMMA TakenEffect ==
  ASSUME IInv, Receiving, NEW i \in Span(rcv), NEW r \in MeasuredOnFirst(rcv)
  PROVE  /\ i \in Indexes /\ Taken(r, i) \in Receivers
         /\ Taken(r, i).status = "TRANSFERRING" /\ Taken(r, i).got = rcv.got \cup {i}
         /\ Taken(r, i).height = rcv.height /\ Taken(r, i).timer
<1>1. SameParts(r, rcv)
  BY StateTyped, MeasuredEffect
<1>2. i \in Indexes
  <2>1. First(rcv) \in Nat /\ rcv.window \in Nat
    BY SMTT(30), StateTyped, FirstIsLeast, ConstantsTyped DEF Receivers
  <2> QED  BY <2>1, ConstantsTyped DEF Span, Smaller, Indexes
<1>3. Timed /\ rcv.timer /\ rcv.status = "TRANSFERRING"
  BY DEF IInv, Timed, Receiving
<1>4. MaxRetries \in 0 .. MaxRetries
  BY ConstantsTyped
<1>5. Larger(0, r.out - 1) \in 0 .. Parts
  BY <1>1, ConstantsTyped DEF SameParts, Receivers, Larger
<1> QED  BY <1>1, <1>2, <1>3, <1>4, <1>5 DEF Taken, SameParts, Receivers

\* A part arrives: the payload is complete, or the round is, or neither.
LEMMA OnPartKeeps ==
  ASSUME IInv, toR # <<>>, toR' = Tail(toR), UNCHANGED <<snd, env, faults>>, link' \in Links,
         Head(toR).t = "PART", OnPart(Head(toR).i)
  PROVE  IInv'
<1> DEFINE i == Head(toR).i
<1>1. CASE ~Receiving \/ i \in rcv.got \/ i \notin Span(rcv) \/ i >= rcv.height
  BY <1>1, StateTyped, IdleStep DEF OnPart
<1>2. CASE ~(~Receiving \/ i \in rcv.got \/ i \notin Span(rcv) \/ i >= rcv.height)
  <2>1. PICK r \in MeasuredOnFirst(rcv) :
          IF Taken(r, i).got = Indexes THEN Assemble(Taken(r, i))
          ELSE IF Taken(r, i).out > 0 THEN rcv' = [Taken(r, i) EXCEPT !.timer = TRUE] /\ UNCHANGED toS
          ELSE \E m \in MeasuredOnLast(Grown(Taken(r, i))) : AskNext(m)
    BY <1>2 DEF OnPart, Taken
  <2> DEFINE taken == Taken(r, i)
  <2>2. i \in Span(rcv) /\ Receiving
    BY <1>2
  <2> HIDE DEF i
  <2>3. i \in Indexes
    BY <2>2, TakenEffect
  <2>4. rcv.status = "TRANSFERRING"
    BY <2>2 DEF Receiving
  <2>5. /\ taken \in Receivers /\ taken.status = "TRANSFERRING" /\ taken.got = rcv.got \cup {i}
        /\ taken.height = rcv.height /\ taken.timer
    BY <2>2, TakenEffect
  <2>6. Ahead(toS, snd.min, rcv) /\ rcv.height <= snd.min + Guard
    BY <1>2 DEF IInv, Answerable, Ahead
  <2>7. ~Early
    <3>1. Head(toR) = toR[1] /\ 1 \in 1 .. Len(toR) /\ Len(toR) \in Nat
      BY StateTyped, TailEffect
    <3>2. AdvertisedFirst
      BY DEF IInv
    <3> QED  BY <3>1, <3>2 DEF AdvertisedFirst, Early
  <2>8. \A k \in 1 .. Len(toS) : toS[k].t # "PRF"
    BY <2>4 DEF IInv, Proved
  <2>9. toS \in Seq(ToSender) /\ snd.min \in Nat /\ Fits(toS, snd.min)
    BY StateTyped DEF IInv, Answerable
  <2>10. CASE taken.got = Indexes
    <3>1. Assemble(taken)
      BY <2>1, <2>10
    <3> HIDE DEF taken
    <3>2. CASE env.corrupt
      BY <1>2, <3>1, <3>2, StateTyped, QuittingStep DEF Assemble
    <3>3. CASE ~env.corrupt
      <4>1. rcv' = Concluded(taken) /\ toS' = Append(toS, Prf)
        BY <3>1, <3>3 DEF Assemble
      <4>2. rcv' \in Receivers /\ rcv'.status = "COMPLETE" /\ rcv'.got = Indexes /\ rcv'.timer = FALSE
        BY <2>5, <2>10, <4>1 DEF Concluded, Receivers
      <4>3. Prf \in ToSender
        BY DEF ToSender
      <4>4. toS' \in Seq(ToSender) /\ Fits(toS', snd.min)
        BY <2>9, <4>1, <4>3, AppendEffect, FitsAppend
      <4> QED  BY <2>7, <4>2, <4>4, StateTyped, ReceiverStep
    <3> QED  BY <3>2, <3>3
  <2>11. CASE taken.got # Indexes /\ taken.out > 0
    <3>1. rcv' = [taken EXCEPT !.timer = TRUE] /\ UNCHANGED toS
      BY <2>1, <2>11
    <3> HIDE DEF taken
    <3>2. /\ rcv' \in Receivers /\ rcv'.status = "TRANSFERRING" /\ rcv'.got = taken.got
          /\ rcv'.height = taken.height /\ rcv'.timer = TRUE
      BY <2>5, <3>1 DEF Receivers
    <3>3. Ahead(toS, snd.min, rcv')
      <4>1. rcv.height \in Nat
        BY StateTyped, ConstantsTyped DEF Receivers
      <4> QED  BY <2>5, <2>6, <2>9, <3>2, <4>1, StateTyped, AheadFurther
    <3> QED  BY <2>7, <2>8, <2>9, <3>1, <3>2, <3>3, StateTyped, ReceiverStep
  <2>12. CASE taken.got # Indexes /\ ~(taken.out > 0)
    <3>1. PICK m \in MeasuredOnLast(Grown(taken)) : AskNext(m)
      BY <2>1, <2>12
    <3> HIDE DEF taken
    <3>2. SameParts(Grown(taken), taken)
      BY <2>5, GrownEffect
    <3>3. SameParts(m, Grown(taken))
      BY <3>2, MeasuredEffect DEF SameParts
    <3>4. /\ m \in Receivers /\ m.status = "TRANSFERRING" /\ m.got = rcv.got \cup {i}
          /\ m.height = rcv.height /\ m.timer
      BY <2>5, <3>2, <3>3 DEF SameParts
    <3>5. Ahead(toS, snd.min, m)
      <4>1. rcv.height \in Nat
        BY StateTyped, ConstantsTyped DEF Receivers
      <4> QED  BY <2>6, <2>9, <3>4, <4>1, StateTyped, AheadFurther
    <3> QED  BY <2>4, <2>7, <3>1, <3>4, <3>5, StateTyped, AskingStep
  <2> QED  BY <2>10, <2>11, <2>12
<1> QED  BY <1>1, <1>2

\* The receiver hears a packet.
LEMMA ReceiverReceivesKeeps ==
  ASSUME IInv, ReceiverReceives
  PROVE  IInv'
<1>1. toR # <<>> /\ toR' = Tail(toR) /\ UNCHANGED <<snd, env, faults>>
  BY DEF ReceiverReceives
<1>2. link' \in Links
  BY StateTyped DEF ReceiverReceives, Links
<1>3. CASE link.R = "CLOSED"
  BY <1>1, <1>2, <1>3, StateTyped, IdleStep DEF ReceiverReceives
<1>4. CASE link.R # "CLOSED"
  <2>1. Head(toR) = toR[1] /\ toR[1] \in ToReceiver
    BY <1>1, StateTyped, TailEffect
  <2>2. Head(toR).t \in {"ADV", "PART", "HMU", "ICL"}
    BY <2>1, ToReceiverKinds
  <2>3. CASE Head(toR).t = "ADV"
    BY <1>1, <1>2, <1>4, <2>3, AcceptKeeps DEF ReceiverReceives
  <2>4. CASE Head(toR).t = "PART"
    BY <1>1, <1>2, <1>4, <2>4, OnPartKeeps DEF ReceiverReceives
  <2>5. CASE Head(toR).t = "HMU"
    BY <1>1, <1>2, <1>4, <2>5, OnHashmapUpdateKeeps DEF ReceiverReceives
  <2>6. CASE Head(toR).t = "ICL"
    <3>1. CASE Receiving
      BY <1>1, <1>2, <1>4, <2>6, <3>1, StateTyped, QuittingStep DEF ReceiverReceives
    <3>2. CASE ~Receiving
      BY <1>1, <1>2, <1>4, <2>6, <3>2, StateTyped, IdleStep DEF ReceiverReceives
    <3> QED  BY <3>1, <3>2
  <2> QED  BY <2>2, <2>3, <2>4, <2>5, <2>6
<1> QED  BY <1>3, <1>4

\* The receiver's watchdog asks again, or gives up.
LEMMA ReceiverExpiresKeeps ==
  ASSUME IInv, ReceiverExpires
  PROVE  IInv'
<1>1. /\ UNCHANGED <<snd, toR, link, env, faults>> /\ Receiving
  BY DEF ReceiverExpires, IInv, Timed
<1>2. CASE rcv.retries = 0 \/ ~Up("R")
  <2>1. rcv' = [Fresh EXCEPT !.status = "FAILED"] /\ (toS' = toS \/ toS' = Append(toS, Rcl))
    BY <1>2 DEF ReceiverExpires, ReceiverCancels
  <2> QED  BY <1>1, <2>1, StateTyped, QuittingStep
<1>3. CASE ~(rcv.retries = 0 \/ ~Up("R"))
  <2> DEFINE s == Shrunk(rcv)
             r == [s EXCEPT !.retries = @ - 1, !.waiting = FALSE]
  <2>1. SameParts(s, rcv) /\ s.retries = rcv.retries
    BY StateTyped, ShrunkEffect
  <2>2. AskNext(r)
    BY <1>3 DEF ReceiverExpires
  <2> HIDE DEF s
  <2>3. s.retries - 1 \in 0 .. MaxRetries
    BY SMTT(30), <1>3, <2>1, StateTyped, ConstantsTyped DEF Receivers
  <2>4. /\ r \in Receivers /\ r.status = "TRANSFERRING" /\ r.got = rcv.got /\ r.height = rcv.height
        /\ ~r.waiting
    BY <1>1, <2>1, <2>3 DEF SameParts, Receivers, Receiving
  <2> HIDE DEF r
  <2>5. Ahead(toS, snd.min, r)
    <3>1. Ahead(toS, snd.min, rcv) /\ rcv.height <= snd.min + Guard
      BY <1>1 DEF IInv, Answerable, Ahead
    <3>2. rcv.height \in Nat
      BY StateTyped, ConstantsTyped DEF Receivers
    <3> QED  BY <2>4, <3>1, <3>2, StateTyped, AheadFurther
  <2>6. Early => r.got = {}
    BY <2>4 DEF IInv, Unmoved
  <2>7. rcv.status # "COMPLETE"
    BY <1>1 DEF Receiving
  <2> QED  BY <1>1, <2>2, <2>4, <2>5, <2>6, <2>7, StateTyped, AskingStep
<1> QED  BY <1>2, <1>3

\* A packet is lost.
LEMMA LoseKeeps ==
  ASSUME IInv, Lose
  PROVE  IInv'
<1>1. faults' \in 0 .. MaxFaults
  BY StateTyped, ConstantsTyped DEF Lose, Faulty
<1> QED  BY <1>1, StateTyped, IdleStep DEF Lose

\* An end of the link goes stale, or closes, and its transfer with it.
LEMMA LinkKeeps ==
  ASSUME IInv, NEW end \in {"S", "R"}, GoesStale(end) \/ (Closes(end) /\ end = "R")
  PROVE  IInv'
<1>1. CASE GoesStale(end)
  <2>1. faults' \in 0 .. MaxFaults
    BY <1>1, StateTyped, ConstantsTyped DEF GoesStale, Faulty
  <2>2. link' \in Links
    BY <1>1, StateTyped DEF GoesStale, Links
  <2> QED  BY <1>1, <2>1, <2>2, IdleStep DEF GoesStale
<1>2. CASE Closes(end) /\ end = "R"
  <2>1. link' \in Links
    BY <1>2, StateTyped DEF Closes, Links
  <2>2. CASE Receiving
    BY <1>2, <2>1, <2>2, StateTyped, QuittingStep DEF Closes
  <2>3. CASE ~Receiving
    BY <1>2, <2>1, <2>3, StateTyped, IdleStep DEF Closes
  <2> QED  BY <2>2, <2>3
<1> QED  BY <1>1, <1>2

-----------------------------------------------------------------------------
(* Every action of the sender keeps the invariant.                         *)

Senders ==
  [status: Sent \cup {"NONE", "COMPLETE", "FAILED", "REJECTED"}, retries: Nat,
   sent: SUBSET Indexes, min: Indexes, timer: BOOLEAN]

\* A step of the sender, or of its end of the link, that says no more than that it
\* advertises, sends parts, or gives up.
LEMMA SenderStep ==
  ASSUME IInv, UNCHANGED <<rcv, env, faults>>, link' \in Links,
         toS' = toS \/ (toS # <<>> /\ toS' = Tail(toS)),
         snd' \in Senders, snd'.timer = (snd'.status \in Sent),
         NEW more \in Seq(ToReceiver), toR' = toR \o more,
         \/ snd'.min = snd.min
         \/ /\ toS # <<>> /\ toS' = Tail(toS)
            /\ toS[1].t = "REQ" /\ toS[1].last # None /\ snd'.min = Back(toS[1].last),
         \A k \in 1 .. Len(more) : more[k].t = "HMU" =>
           (more[k].seg + 1) * HashmapMaxLen <= snd'.min + Guard,
         \/ Begins /\ \A k \in 1 .. Len(more) : more[k].t = "ADV"
         \/ ~Begins' /\ \A k \in 1 .. Len(more) : more[k].t # "ADV",
         Begins' => Begins
  PROVE  IInv'
<1>1. /\ toS \in Seq(ToSender) /\ snd.min \in Nat /\ Fits(toS, snd.min) /\ rcv \in Receivers
      /\ rcv.height \in Nat
      /\ Receiving => Ahead(toS, snd.min, rcv)
  BY SMTT(30), StateTyped, ConstantsTyped DEF IInv, Answerable, Receivers
<1>2. /\ toS' \in Seq(ToSender)
      /\ \A k \in 1 .. Len(toS') : \E j \in 1 .. Len(toS) : toS'[k] = toS[j]
  <2>1. CASE toS' = toS
    BY <1>1, <2>1
  <2>2. CASE toS # <<>> /\ toS' = Tail(toS)
    BY <1>1, <2>2, TailEffect
  <2> QED  BY <2>1, <2>2
<1>3. Fits(toS', snd'.min) /\ snd.min <= snd'.min /\ (Receiving => Ahead(toS', snd'.min, rcv))
  <2>1. CASE snd'.min = snd.min /\ toS' = toS
    BY <1>1, <2>1
  <2>2. CASE snd'.min = snd.min /\ toS # <<>> /\ toS' = Tail(toS)
    BY <1>1, <2>2, FitsTail, AheadTail
  <2>3. CASE /\ toS # <<>> /\ toS' = Tail(toS)
             /\ toS[1].t = "REQ" /\ toS[1].last # None /\ snd'.min = Back(toS[1].last)
    BY <1>1, <2>3, FitsMoved
  <2> QED  BY <2>1, <2>2, <2>3
<1>4. /\ toR \in Seq(ToReceiver) /\ toR' \in Seq(ToReceiver) /\ Len(toR) \in Nat /\ Len(more) \in Nat
      /\ Len(toR') = Len(toR) + Len(more)
      /\ \A k \in 1 .. Len(toR) : toR'[k] = toR[k]
      /\ \A k \in 1 .. Len(toR') :
           k \in 1 .. Len(toR) \/ (k - Len(toR) \in 1 .. Len(more) /\ toR'[k] = more[k - Len(toR)])
  BY StateTyped, ConcatEffect
<1>5. Typed'
  BY <1>2, <1>4 DEF IInv, Typed, TypeOK, Senders, Links, Envs
<1>6. Timed'
  BY DEF IInv, Timed, Sending, Receiving
<1>7. Answerable'
  BY <1>3 DEF Answerable, Receiving
<1>8. MapsFit'
  <2> SUFFICES ASSUME NEW k \in 1 .. Len(toR'), toR'[k].t = "HMU"
               PROVE  (toR'[k].seg + 1) * HashmapMaxLen <= snd'.min + Guard
    BY DEF MapsFit
  <2>1. CASE k \in 1 .. Len(toR)
    <3>1. toR[k].t = "HMU" /\ toR[k] \in ToReceiver /\ toR'[k] = toR[k]
      BY <1>4, <2>1
    <3>2. toR[k].seg \in Nat /\ (toR[k].seg + 1) * HashmapMaxLen <= snd.min + Guard
      BY <2>1, <3>1, HashmapTyped DEF IInv, MapsFit
    <3>3. (toR[k].seg + 1) * HashmapMaxLen \in Nat
      <4>1. toR[k].seg + 1 \in Nat
        BY <3>2
      <4> QED  BY <4>1, ConstantsTyped
    <3> DEFINE e == (toR[k].seg + 1) * HashmapMaxLen
    <3>4. e \in Nat /\ e <= snd.min + Guard /\ snd'.min \in Nat
      BY <3>2, <3>3, ConstantsTyped DEF Senders, Indexes
    <3>5. (toR'[k].seg + 1) * HashmapMaxLen = e
      BY <3>1
    <3> HIDE DEF e
    <3>6. e <= snd'.min + Guard
      BY <1>1, <1>3, <3>4, ConstantsTyped
    <3> QED  BY <3>5, <3>6
  <2>2. CASE k - Len(toR) \in 1 .. Len(more) /\ toR'[k] = more[k - Len(toR)]
    BY <2>2
  <2> QED  BY <1>4, <2>1, <2>2
<1>9. AdvertisedFirst'
  <2>1. ASSUME NEW j \in 1 .. Len(toR'), NEW k \in 1 .. Len(toR'), j < k, toR'[k].t = "ADV"
        PROVE  toR'[j].t = "ADV"
    <3>1. CASE k \in 1 .. Len(toR)
      <4>1. j \in 1 .. Len(toR)
        BY <1>4, <2>1, <3>1
      <4> QED  BY <1>4, <2>1, <3>1, <4>1 DEF IInv, AdvertisedFirst
    <3>2. CASE k - Len(toR) \in 1 .. Len(more) /\ toR'[k] = more[k - Len(toR)]
      <4>1. Begins /\ \A l \in 1 .. Len(more) : more[l].t = "ADV"
        BY <2>1, <3>2
      <4> QED  BY <1>4, <4>1 DEF IInv, AdvertisedFirst
    <3> QED  BY <1>4, <3>1, <3>2
  <2>2. ASSUME Begins', NEW k \in 1 .. Len(toR') PROVE toR'[k].t = "ADV"
    <3>1. Begins /\ \A l \in 1 .. Len(more) : more[l].t = "ADV"
      BY <2>2
    <3> QED  BY <1>4, <3>1 DEF IInv, AdvertisedFirst
  <2> QED  BY <2>1, <2>2 DEF AdvertisedFirst
<1>10. Unmoved'
  <2> SUFFICES ASSUME Early'
               PROVE  /\ rcv'.got = {} /\ snd'.min = 0
                      /\ \A k \in 1 .. Len(toS') : toS'[k].t = "REQ" => toS'[k].last <= WindowMaxFast
    BY DEF Unmoved
  <2>1. Early
    <3>1. CASE Begins
      BY <3>1 DEF Early
    <3>2. CASE ~Begins
      <4>1. PICK k \in 1 .. Len(toR') : toR'[k].t = "ADV"
        BY <3>2 DEF Early
      <4>2. k \in 1 .. Len(toR) /\ toR[k].t = "ADV"
        BY <1>4, <3>2, <4>1
      <4> QED  BY <4>2 DEF Early
    <3> QED  BY <3>1, <3>2
  <2>2. /\ rcv.got = {} /\ snd.min = 0
        /\ \A k \in 1 .. Len(toS) : toS[k].t = "REQ" => toS[k].last <= WindowMaxFast
    BY <2>1 DEF IInv, Unmoved
  <2>3. snd'.min = 0
    <3>1. CASE snd'.min = snd.min
      BY <2>2, <3>1
    <3>2. CASE toS # <<>> /\ toS[1].t = "REQ" /\ snd'.min = Back(toS[1].last)
      <4>1. 1 \in 1 .. Len(toS) /\ toS[1] \in ToSender
        BY <1>1, <3>2, TailEffect
      <4> QED  BY <2>2, <3>2, <4>1, RequestTyped, BackTyped
    <3> QED  BY <3>1, <3>2
  <2> QED  BY <1>2, <2>2, <2>3
<1>11. Proved'
  BY <1>2 DEF IInv, Proved
<1> QED  BY <1>5, <1>6, <1>7, <1>8, <1>9, <1>10, <1>11 DEF IInv

\* Single packets, and none, as what a step of the sender says.
LEMMA OnePacket ==
  /\ toR \in Seq(ToReceiver) => toR \o <<>> = toR
  /\ <<>> \in Seq(ToReceiver) /\ Len(<<>>) = 0
  /\ \A p \in {Adv, Icl} :
       /\ <<p>> \in Seq(ToReceiver) /\ Len(<<p>>) = 1 /\ <<p>>[1] = p
       /\ toR \in Seq(ToReceiver) => toR \o <<p>> = Append(toR, p)
<1>1. Adv \in ToReceiver /\ Icl \in ToReceiver
  BY DEF ToReceiver
<1> QED  BY <1>1

\* The sender gives up, or the transfer ends at its end.
LEMMA SenderEnds ==
  ASSUME IInv, UNCHANGED <<rcv, env, faults>>, link' \in Links,
         toS' = toS \/ (toS # <<>> /\ toS' = Tail(toS)),
         NEW status \in {"COMPLETE", "FAILED", "REJECTED"},
         snd' = [snd EXCEPT !.status = status, !.timer = FALSE],
         toR' = toR \/ toR' = Append(toR, Icl)
  PROVE  IInv'
<1>1. snd' \in Senders /\ snd'.status = status /\ snd'.timer = FALSE /\ snd'.min = snd.min
  BY DEF IInv, Typed, TypeOK, Senders
<1>2. ~Begins' /\ snd'.timer = (snd'.status \in Sent)
  <2>1. status \notin Sent
    BY DEF Sent
  <2>2. (snd'.status \in Sent) = FALSE
    BY <1>1, <2>1
  <2> QED  BY <1>1, <2>2 DEF Begins
<1>3. PICK more \in {<<>>, <<Icl>>} : toR' = toR \o more
  BY StateTyped, OnePacket
<1>4. more \in Seq(ToReceiver) /\ \A k \in 1 .. Len(more) : more[k].t = "ICL"
  <2>1. Icl.t = "ICL"
    BY DEF Icl
  <2>2. CASE more = <<>>
    BY <2>2, OnePacket
  <2>3. CASE more = <<Icl>>
    BY <2>1, <2>3, OnePacket
  <2> QED  BY <1>3, <2>2, <2>3
<1> QED  BY <1>1, <1>2, <1>3, <1>4, SenderStep

\* The sender advertises, for the first time or again.
LEMMA AdvertisesKeeps ==
  ASSUME IInv, UNCHANGED <<rcv, toS, env, link, faults>>, Begins,
         snd' \in Senders, snd'.status = "ADVERTISED", snd'.timer, snd'.min = snd.min,
         toR' = Append(toR, Adv)
  PROVE  IInv'
<1>1. toR' = toR \o <<Adv>> /\ <<Adv>> \in Seq(ToReceiver) /\ \A k \in 1 .. Len(<<Adv>>) : <<Adv>>[k].t = "ADV"
  <2>1. Adv.t = "ADV"
    BY DEF Adv
  <2> QED  BY <2>1, StateTyped, OnePacket
<1>2. snd'.timer = (snd'.status \in Sent)
  <2>1. snd'.timer \in BOOLEAN
    BY DEF Senders
  <2> QED  BY <2>1 DEF Sent
<1> QED  BY <1>1, <1>2, StateTyped, SenderStep

\* send().
LEMMA SendKeeps ==
  ASSUME IInv, Send
  PROVE  IInv'
<1>1. UNCHANGED <<rcv, toS, link, env, faults>> /\ snd.status = "NONE"
  BY DEF Send
<1>2. CASE Up("S")
  <2>1. /\ snd' = [snd EXCEPT !.status = "ADVERTISED", !.retries = MaxAdvRetries, !.timer = TRUE]
        /\ toR' = Append(toR, Adv)
    BY <1>2 DEF Send, Advertise
  <2>2. snd' \in Senders /\ snd'.status = "ADVERTISED" /\ snd'.timer /\ snd'.min = snd.min
    BY <2>1, ConstantsTyped DEF IInv, Typed, TypeOK, Senders, Sent
  <2> QED  BY <1>1, <2>1, <2>2, AdvertisesKeeps DEF Begins
<1>3. CASE ~Up("S")
  <2>1. SenderCancels
    BY <1>3 DEF Send
  <2> QED  BY <1>1, <2>1, StateTyped, SenderEnds DEF SenderCancels
<1> QED  BY <1>2, <1>3

\* The sender's watchdog advertises again, waits on, or gives up.
LEMMA SenderExpiresKeeps ==
  ASSUME IInv, SenderExpires
  PROVE  IInv'
<1>1. UNCHANGED <<rcv, toS, link, env, faults>> /\ snd.timer = TRUE /\ snd.timer = Sending
  BY DEF SenderExpires, IInv, Timed, Typed, TypeOK
<1>2. CASE snd.status = "ADVERTISED" /\ snd.retries > 0 /\ snd' = [snd EXCEPT !.retries = @ - 1]
           /\ toR' = Append(toR, Adv)
  <2>1. snd' \in Senders /\ snd'.status = "ADVERTISED" /\ snd'.timer /\ snd'.min = snd.min
    <3>1. snd \in Senders /\ snd.retries - 1 \in Nat
      BY <1>2 DEF IInv, Typed, TypeOK, Senders
    <3> QED  BY <1>1, <1>2, <3>1 DEF Senders
  <2> QED  BY <1>1, <1>2, <2>1, AdvertisesKeeps DEF Begins
<1>3. CASE SenderCancels
  BY <1>1, <1>3, StateTyped, SenderEnds DEF SenderCancels
<1>4. CASE snd.status = "AWAITING_PROOF" /\ snd.retries > 0 /\ snd' = [snd EXCEPT !.retries = @ - 1]
           /\ UNCHANGED toR
  <2>1. snd' \in Senders /\ snd'.status = "AWAITING_PROOF" /\ snd'.timer = TRUE /\ snd'.min = snd.min
    <3>1. snd \in Senders /\ snd.retries - 1 \in Nat
      BY <1>4 DEF IInv, Typed, TypeOK, Senders
    <3> QED  BY <1>1, <1>4, <3>1 DEF Senders
  <2>2. ~Begins' /\ snd'.timer = (snd'.status \in Sent)
    BY <2>1 DEF Begins, Sent
  <2> DEFINE none == <<>>
  <2>3. toR' = toR \o none /\ none \in Seq(ToReceiver) /\ Len(none) = 0
    BY <1>4, StateTyped, OnePacket
  <2> HIDE DEF none
  <2>4. \A k \in 1 .. Len(none) : none[k].t # "ADV" /\ none[k].t # "HMU"
    BY <2>3
  <2> QED  BY <1>1, <2>1, <2>2, <2>3, <2>4, StateTyped, SenderStep
<1> QED  BY <1>2, <1>3, <1>4 DEF SenderExpires

\* The link closes at the sender's end.
LEMMA SenderClosesKeeps ==
  ASSUME IInv, Closes("S")
  PROVE  IInv'
<1>1. UNCHANGED <<rcv, toR, toS, env, faults>> /\ link' \in Links
  BY StateTyped DEF Closes, Links
<1>2. CASE Sending
  BY <1>1, <1>2, SenderEnds DEF Closes
<1>3. CASE ~Sending
  BY <1>1, <1>3, StateTyped, IdleStep DEF Closes
<1> QED  BY <1>2, <1>3


\* A request is answered with parts, and with the next segment of the hashmap.
LEMMA OnRequestKeeps ==
  ASSUME IInv, toS # <<>>, toS' = Tail(toS), UNCHANGED <<rcv, env, faults>>, link' \in Links,
         Sending, Head(toS).t = "REQ", OnRequest
  PROVE  IInv'
<1> DEFINE req == Head(toS)
           serve == req.want \cap Reach
           sent == snd.sent \cup serve
           next == NextIndex(req.last)
           served == IF sent = Indexes
                     THEN [snd EXCEPT !.status = "AWAITING_PROOF", !.retries = ProofRetries,
                                      !.sent = sent, !.timer = TRUE]
                     ELSE [snd EXCEPT !.status = "TRANSFERRING", !.retries = MaxRetries,
                                      !.sent = sent, !.timer = TRUE]
           parts == PartPackets(serve)
<1>1. /\ req = toS[1] /\ req \in ToSender /\ req.t = "REQ"
      /\ req.want \in SUBSET Indexes /\ req.last \in Indexes \cup {None} /\ req.last \in Int
      /\ req.last # None => snd.min <= Back(req.last) /\ req.last < snd.min + Guard
  <2>1. req = toS[1] /\ 1 \in 1 .. Len(toS) /\ req \in ToSender /\ req.t = "REQ"
    BY StateTyped, TailEffect
  <2>2. Fits(toS, snd.min)
    BY DEF IInv, Answerable
  <2> HIDE DEF req
  <2> QED  BY <2>1, <2>2, RequestTyped DEF Fits
<1>2. IF req.last = None
      THEN snd' = served /\ toR' = toR \o parts
      ELSE IF next % HashmapMaxLen # 0 \/ next >= Parts
      THEN /\ snd' = [snd EXCEPT !.status = "FAILED", !.sent = sent, !.timer = FALSE]
           /\ toR' = toR \o parts \o <<Icl>>
      ELSE /\ snd' = [served EXCEPT !.min = MinAfter(req.last)]
           /\ toR' = toR \o parts \o <<Hmu(next \div HashmapMaxLen)>>
  BY DEF OnRequest
<1>3. serve \in SUBSET Indexes /\ sent \in SUBSET Indexes /\ snd \in Senders
  BY <1>1 DEF IInv, Typed, TypeOK, Senders
<1>4. /\ served \in Senders /\ served.status \in {"AWAITING_PROOF", "TRANSFERRING"}
      /\ served.timer = TRUE /\ served.min = snd.min
  <2> HIDE DEF sent
  <2> QED  BY <1>3, ConstantsTyped DEF Senders, Sent
<1>5. parts \in Seq(ToReceiver) /\ \A k \in 1 .. Len(parts) : parts[k].t = "PART"
  BY <1>3, PartsTravel
<1>6. toR \in Seq(ToReceiver)
  BY StateTyped
<1> HIDE DEF served, parts, sent, serve
<1>7. CASE req.last = None
  <2>1. snd' = served /\ toR' = toR \o parts
    BY <1>2, <1>7
  <2>2. ~Begins' /\ snd'.timer = (snd'.status \in Sent)
    BY <1>4, <2>1 DEF Begins, Sent
  <2> QED  BY <1>4, <1>5, <2>1, <2>2, SenderStep
<1>8. CASE req.last # None /\ (next % HashmapMaxLen # 0 \/ next >= Parts)
  <2>1. /\ snd' = [snd EXCEPT !.status = "FAILED", !.sent = sent, !.timer = FALSE]
        /\ toR' = toR \o parts \o <<Icl>>
    BY <1>2, <1>8
  <2>2. snd' \in Senders /\ snd'.status = "FAILED" /\ snd'.timer = FALSE /\ snd'.min = snd.min
    BY <1>3, <2>1 DEF Senders
  <2>3. ~Begins' /\ snd'.timer = (snd'.status \in Sent)
    <3>1. (snd'.status \in Sent) = FALSE
      BY <2>2 DEF Sent
    <3> QED  BY <2>2, <3>1 DEF Begins
  <2>4. Icl \in ToReceiver /\ Icl.t = "ICL"
    BY DEF ToReceiver, Icl
  <2> DEFINE more == Append(parts, Icl)
  <2>5. /\ more \in Seq(ToReceiver) /\ toR' = toR \o more
        /\ \A k \in 1 .. Len(more) : more[k].t \in {"PART", "ICL"}
    <3>1. toR \o parts \o <<Icl>> = toR \o more
      <4>1. toR \in Seq(ToReceiver) /\ parts \in Seq(ToReceiver)
        BY <1>5, <1>6
      <4>2. toR \o parts \o <<Icl>> = toR \o Append(parts, Icl)
        BY <2>4, <4>1, AppendTogether
      <4> QED  BY <4>2
    <3>2. /\ more \in Seq(ToReceiver) /\ Len(parts) \in Nat
          /\ \A k \in 1 .. Len(parts) : more[k] = parts[k]
          /\ more[Len(parts) + 1] = Icl
          /\ \A k \in 1 .. Len(more) : k \in 1 .. Len(parts) \/ k = Len(parts) + 1
      BY <1>5, <2>4, AppendEffect
    <3> HIDE DEF more
    <3>3. \A k \in 1 .. Len(more) : more[k].t \in {"PART", "ICL"}
      BY <1>5, <2>4, <3>2
    <3> QED  BY <2>1, <3>1, <3>2, <3>3
  <2> HIDE DEF more
  <2> QED  BY <2>2, <2>3, <2>5, SenderStep
<1>9. CASE req.last # None /\ ~(next % HashmapMaxLen # 0 \/ next >= Parts)
  <2> DEFINE seg == next \div HashmapMaxLen
             more == Append(parts, Hmu(seg))
  <2>1. /\ snd' = [served EXCEPT !.min = MinAfter(req.last)]
        /\ toR' = toR \o parts \o <<Hmu(seg)>>
    BY <1>2, <1>9
  <2>2. /\ req.last \in Nat /\ req.last < Parts /\ next = req.last + 1 /\ MinAfter(req.last) = Back(req.last)
        /\ Back(req.last) \in Indexes /\ Back(req.last) >= req.last - WindowMaxFast
    <3>1. req.last \in Nat /\ req.last < Parts
      BY <1>1, <1>9, ConstantsTyped DEF Indexes
    <3>2. /\ Back(req.last) \in Nat /\ Back(req.last) <= req.last
          /\ Back(req.last) >= req.last - WindowMaxFast /\ snd.min <= Back(req.last)
      <4> HIDE DEF req
      <4>1. req.last \in Int /\ req.last >= 0
        BY <3>1
      <4>2. /\ Back(req.last) \in Nat /\ Back(req.last) >= req.last - WindowMaxFast
            /\ Back(req.last) <= req.last \/ Back(req.last) = 0
        BY <4>1, BackTyped
      <4> QED  BY <1>1, <1>9, <4>1, <4>2
    <3>3. req.last \in Reach
      <4>1. snd.min \in Nat
        BY StateTyped
      <4> QED  BY <1>1, <1>9, <3>1, <3>2, <4>1, ConstantsTyped DEF Reach, Smaller
    <3>4. next = req.last + 1
      BY <3>3 DEF NextIndex
    <3>5. MinAfter(req.last) = Back(req.last)
      <4>1. next - 1 - WindowMaxFast = req.last - WindowMaxFast
        BY <3>1, <3>4, ConstantsTyped
      <4> HIDE DEF req
      <4> QED  BY <4>1 DEF MinAfter, Back
    <3> QED  BY <3>1, <3>2, <3>4, <3>5, ConstantsTyped DEF Indexes
  <2>3. seg \in Nat /\ (seg + 1) * HashmapMaxLen = next + HashmapMaxLen
    <3>1. next \in Nat /\ next % HashmapMaxLen = 0
      BY <1>9, <2>2
    <3> HIDE DEF next
    <3> QED  BY <3>1, Division
  <2> HIDE DEF next, seg
  <2>4. /\ snd' \in Senders /\ snd'.status \in {"AWAITING_PROOF", "TRANSFERRING"}
        /\ snd'.timer = TRUE /\ snd'.min = Back(req.last)
    BY <1>4, <2>1, <2>2 DEF Senders
  <2>5. ~Begins' /\ snd'.timer = (snd'.status \in Sent)
    BY <2>4 DEF Begins, Sent
  <2>6. Hmu(seg) \in ToReceiver /\ Hmu(seg).t = "HMU" /\ Hmu(seg).seg = seg
    BY <2>3 DEF ToReceiver, Hmu
  <2>7. /\ more \in Seq(ToReceiver) /\ toR' = toR \o more
        /\ \A k \in 1 .. Len(more) : more[k].t = "PART" \/ more[k] = Hmu(seg)
    BY <1>5, <1>6, <2>1, <2>6, AppendEffect, AppendTogether
  <2> HIDE DEF more
  <2>8. \A k \in 1 .. Len(more) : more[k].t = "HMU" =>
          (more[k].seg + 1) * HashmapMaxLen <= snd'.min + Guard
    <3>1. (seg + 1) * HashmapMaxLen <= snd'.min + Guard
      <4>1. next + HashmapMaxLen <= Back(req.last) + Guard
        <5>1. Back(req.last) \in Nat
          BY <2>2, ConstantsTyped DEF Indexes
        <5> QED  BY <2>2, <5>1, ConstantsTyped
      <4> QED  BY <2>3, <2>4, <4>1
    <3> QED  BY <2>6, <2>7, <3>1
  <2>9. \A k \in 1 .. Len(more) : more[k].t # "ADV"
    BY <2>6, <2>7
  <2> HIDE DEF req
  <2> QED  BY <1>1, <1>9, <2>4, <2>5, <2>7, <2>8, <2>9, SenderStep
<1> QED  BY <1>7, <1>8, <1>9

\* The sender hears a packet.
LEMMA SenderReceivesKeeps ==
  ASSUME IInv, SenderReceives
  PROVE  IInv'
<1>1. toS # <<>> /\ toS' = Tail(toS) /\ UNCHANGED <<rcv, env, faults>>
  BY DEF SenderReceives
<1>2. link' \in Links
  BY StateTyped DEF SenderReceives, Links
<1>3. CASE ~Sending \/ link.S = "CLOSED"
  BY <1>1, <1>2, <1>3, StateTyped, IdleStep DEF SenderReceives
<1>4. CASE ~(~Sending \/ link.S = "CLOSED")
  <2>1. Head(toS) = toS[1] /\ toS[1] \in ToSender
    BY <1>1, StateTyped, TailEffect
  <2>2. Head(toS).t \in {"REQ", "PRF", "RCL"}
    BY <2>1, RequestTyped
  <2>3. CASE Head(toS).t = "REQ"
    BY <1>1, <1>2, <1>4, <2>3, OnRequestKeeps DEF SenderReceives
  <2>4. CASE Head(toS).t = "PRF"
    BY <1>1, <1>2, <1>4, <2>4, SenderEnds DEF SenderReceives, OnProof
  <2>5. CASE Head(toS).t = "RCL"
    BY <1>1, <1>2, <1>4, <2>5, SenderEnds DEF SenderReceives, Rejected
  <2> QED  BY <2>2, <2>3, <2>4, <2>5
<1> QED  BY <1>3, <1>4

-----------------------------------------------------------------------------
(* The theorems.                                                           *)

\* The invariant holds before anything is sent.
LEMMA InitHolds == Init => IInv
<1> SUFFICES ASSUME Init PROVE IInv
  OBVIOUS
<1> USE DEF Init
<1>1. Fresh \in Receivers /\ Fresh.status = "NONE" /\ Fresh.got = {} /\ Fresh.timer = FALSE
  <2>1. Fresh.timer = FALSE
    BY DEF Fresh
  <2> QED  BY <2>1, FreshTyped
<1>2. Len(toR) = 0 /\ Len(toS) = 0 /\ toR \in Seq(ToReceiver) /\ toS \in Seq(ToSender)
  OBVIOUS
<1>3. Typed
  <2>1. snd \in Senders
    BY ConstantsTyped DEF Senders, Indexes
  <2>2. link \in Links /\ faults \in 0 .. MaxFaults /\ env \in Envs
    BY ConstantsTyped DEF Links, Envs
  <2> QED  BY <1>1, <1>2, <2>1, <2>2 DEF Typed, TypeOK, Senders, Receivers, Links
<1>4. Timed
  <2>1. ("NONE" \in Sent) = FALSE
    BY DEF Sent
  <2>2. snd.timer = Sending
    BY <2>1 DEF Sending
  <2> QED  BY <1>1, <2>2 DEF Timed, Receiving
<1>5. Answerable /\ MapsFit /\ AdvertisedFirst /\ Unmoved /\ Proved
  BY <1>1, <1>2 DEF Answerable, Fits, Receiving, MapsFit, AdvertisedFirst, Unmoved, Proved
<1> QED  BY <1>3, <1>4, <1>5 DEF IInv

\* Every step keeps it.
LEMMA StepKeeps == IInv /\ [Next]_vars => IInv'
<1> SUFFICES ASSUME IInv, [Next]_vars PROVE IInv'
  OBVIOUS
<1>1. CASE Send
  BY <1>1, SendKeeps
<1>2. CASE SenderReceives
  BY <1>2, SenderReceivesKeeps
<1>3. CASE SenderExpires
  BY <1>3, SenderExpiresKeeps
<1>4. CASE ReceiverReceives
  BY <1>4, ReceiverReceivesKeeps
<1>5. CASE ReceiverExpires
  BY <1>5, ReceiverExpiresKeeps
<1>6. CASE Lose
  BY <1>6, LoseKeeps
<1>7. ASSUME NEW end \in {"S", "R"}, GoesStale(end) \/ Closes(end) PROVE IInv'
  BY <1>7, LinkKeeps, SenderClosesKeeps
<1>8. CASE UNCHANGED vars
  BY <1>8, StateTyped, IdleStep DEF vars
<1> QED  BY <1>1, <1>2, <1>3, <1>4, <1>5, <1>6, <1>7, <1>8 DEF Next

\* The inductive invariant.
THEOREM Invariance == Spec => []IInv
BY InitHolds, StepKeeps, PTL DEF Spec

\* However the windows move and whichever packets are lost, no request is answered
\* short: what onRequest is asked for lies where it looks.  Each end that is at it
\* has its timer, and an end that is through has none.
THEOREM NothingAnsweredShort == Spec => []ResourceSound
<1>1. IInv => ResourceSound
  <2> SUFFICES ASSUME IInv, NEW k \in 1 .. Len(toS), toS[k].t = "REQ"
               PROVE  toS[k].want \subseteq Reach /\ (toS[k].last # None => toS[k].last \in Reach)
    BY DEF IInv, Typed, ResourceSound, InReach
  <2>1. /\ toS[k] \in ToSender /\ snd.min \in Nat
        /\ toS[k].want \in SUBSET Indexes /\ toS[k].last \in Indexes \cup {None} /\ toS[k].last \in Int
    BY StateTyped, RequestTyped
  <2>2. /\ \A i \in toS[k].want : snd.min <= i /\ i < snd.min + Guard
        /\ toS[k].last # None => snd.min <= Back(toS[k].last) /\ toS[k].last < snd.min + Guard
    BY DEF IInv, Answerable, Fits
  <2>3. \A i \in Indexes : snd.min <= i /\ i < snd.min + Guard => i \in Reach
    BY <2>1, ConstantsTyped DEF Indexes, Reach, Smaller
  <2>4. ASSUME toS[k].last # None PROVE snd.min <= toS[k].last
    <3>1. toS[k].last >= 0
      <4>1. toS[k].last \in Indexes
        BY <2>1, <2>4
      <4> QED  BY <4>1, ConstantsTyped DEF Indexes
    <3>2. /\ Back(toS[k].last) <= toS[k].last \/ Back(toS[k].last) = 0
          /\ Back(toS[k].last) \in Nat
      BY <2>1, BackTyped
    <3> QED  BY <2>1, <2>2, <2>4, <3>1, <3>2
  <2> QED  BY <2>1, <2>2, <2>3, <2>4
<1> QED  BY <1>1, Invariance, PTL

-----------------------------------------------------------------------------
(* The refinement of Transfer.                                             *)

Offer == CASE snd.status = "COMPLETE" -> "proved"
           [] snd.status \in {"FAILED", "REJECTED"} -> "failed"
           [] OTHER -> "open"
Held == CASE rcv.status = "COMPLETE" /\ rcv.got = Indexes -> "all"
          [] rcv.status = "TRANSFERRING" -> "some"
          [] rcv.status = "FAILED" -> "dropped"
          [] OTHER -> "nothing"
Promised == [Promise!Next]_(Promise!vars)

\* What the two ends' statuses promise.
LEMMA OfferOf ==
  /\ Offer = "proved" <=> snd.status = "COMPLETE"
  /\ Offer = "failed" <=> snd.status \in {"FAILED", "REJECTED"}
  /\ Offer = "open" <=> snd.status \notin {"COMPLETE", "FAILED", "REJECTED"}
BY DEF Offer

\* What the receiver holds, by its status.
LEMMA HeldOf ==
  /\ rcv.status = "COMPLETE" /\ rcv.got = Indexes => Held = "all"
  /\ rcv.status = "TRANSFERRING" => Held = "some"
  /\ rcv.status = "FAILED" => Held = "dropped"
  /\ rcv.status = "NONE" => Held = "nothing"
BY DEF Held

\* A step that moves neither promise, or one of them as Transfer allows.
LEMMA PromisedStep ==
  ASSUME \/ Offer' = Offer /\ Held' = Held
         \/ Offer' = Offer /\ Held \in {"nothing", "dropped"} /\ Held' = "some"
         \/ Offer' = Offer /\ Held = "some" /\ Held' \in {"all", "dropped"}
         \/ Offer = "open" /\ Offer' = "failed" /\ Held' = Held
         \/ Offer = "open" /\ Held = "all" /\ Offer' = "proved" /\ Held' = Held
  PROVE  Promised
BY DEF Promised, Offer, Held, Promise!Next, Promise!vars, Promise!Take, Promise!Deliver,
       Promise!Drop, Promise!Prove, Promise!Fail

\* A step of the sender: only a proof of receipt ends the transfer well.
LEMMA SenderPromises ==
  ASSUME IInv, UNCHANGED rcv,
         \/ snd'.status = snd.status
         \/ Offer = "open" /\ snd'.status # "COMPLETE"
         \/ Offer = "open" /\ snd'.status = "COMPLETE" /\ rcv.status = "COMPLETE"
  PROVE  Promised
<1>1. Held' = Held
  BY DEF Held
<1>2. CASE snd'.status = snd.status
  <2>1. Offer' = Offer
    BY <1>2 DEF Offer
  <2> QED  BY <1>1, <2>1, PromisedStep
<1>3. CASE Offer = "open" /\ snd'.status # "COMPLETE"
  <2>1. Offer' \in {"open", "failed"}
    BY <1>3 DEF Offer
  <2> QED  BY <1>1, <1>3, <2>1, PromisedStep
<1>4. CASE Offer = "open" /\ snd'.status = "COMPLETE" /\ rcv.status = "COMPLETE"
  <2>1. Offer' = "proved"
    BY <1>4 DEF Offer
  <2>2. Held = "all"
    BY <1>4, HeldOf DEF IInv, Proved
  <2> QED  BY <1>1, <1>4, <2>1, <2>2, PromisedStep
<1> QED  BY <1>2, <1>3, <1>4

\* A step of the receiver: a payload that is held stays held.
LEMMA ReceiverPromises ==
  ASSUME IInv, IInv', UNCHANGED snd,
         \/ rcv'.status = rcv.status
         \/ rcv.status # "COMPLETE" /\ rcv'.status = "TRANSFERRING"
         \/ Receiving /\ rcv'.status \in {"COMPLETE", "FAILED"}
  PROVE  Promised
<1>1. Offer' = Offer
  BY DEF Offer
<1>2. rcv.status \in {"NONE", "TRANSFERRING", "COMPLETE", "FAILED"}
  BY StateTyped DEF Receivers
<1>3. /\ rcv.status = "COMPLETE" => rcv.got = Indexes
      /\ rcv'.status = "COMPLETE" => rcv'.got = Indexes
  BY DEF IInv, Proved
<1>4. CASE rcv'.status = rcv.status
  <2>1. Held' = Held
    BY <1>3, <1>4 DEF Held
  <2> QED  BY <1>1, <2>1, PromisedStep
<1>5. CASE rcv.status # "COMPLETE" /\ rcv'.status = "TRANSFERRING"
  <2>1. Held' = "some" /\ Held \in {"nothing", "dropped", "some"}
    BY <1>2, <1>5 DEF Held
  <2> QED  BY <1>1, <2>1, PromisedStep
<1>6. CASE Receiving /\ rcv'.status \in {"COMPLETE", "FAILED"}
  <2>1. Held = "some" /\ Held' \in {"all", "dropped"}
    BY <1>3, <1>6 DEF Held, Receiving
  <2> QED  BY <1>1, <2>1, PromisedStep
<1> QED  BY <1>4, <1>5, <1>6

\* What a packet makes of the sender.
LEMMA SenderReceivesPromised ==
  ASSUME IInv, SenderReceives
  PROVE  Promised
<1>1. UNCHANGED rcv /\ toS # <<>>
  BY DEF SenderReceives
<1>2. CASE ~Sending \/ link.S = "CLOSED"
  BY <1>1, <1>2, SenderPromises DEF SenderReceives
<1>3. CASE ~(~Sending \/ link.S = "CLOSED")
  <2>1. Offer = "open"
    BY <1>3, OfferOf DEF Sending, Sent
  <2>2. Head(toS) = toS[1] /\ 1 \in 1 .. Len(toS) /\ toS[1] \in ToSender
    BY <1>1, StateTyped, TailEffect
  <2>3. snd \in Senders
    BY DEF IInv, Typed, TypeOK, Senders
  <2>4. CASE Head(toS).t = "REQ"
    <3>1. OnRequest
      BY <1>3, <2>4 DEF SenderReceives
    <3>2. snd'.status \in {"AWAITING_PROOF", "TRANSFERRING", "FAILED"}
      BY <2>3, <3>1 DEF OnRequest, Senders
    <3> QED  BY <1>1, <2>1, <3>2, SenderPromises
  <2>5. CASE Head(toS).t = "PRF"
    <3>1. snd'.status = "COMPLETE"
      BY <1>3, <2>3, <2>5 DEF SenderReceives, OnProof, Senders
    <3>2. rcv.status = "COMPLETE"
      BY <2>2, <2>5 DEF IInv, Proved
    <3> QED  BY <1>1, <2>1, <3>1, <3>2, SenderPromises
  <2>6. CASE Head(toS).t = "RCL"
    <3>1. snd'.status = "REJECTED"
      BY <1>3, <2>3, <2>6 DEF SenderReceives, Rejected, Senders
    <3> QED  BY <1>1, <2>1, <3>1, SenderPromises
  <2> QED  BY <2>2, <2>4, <2>5, <2>6, RequestTyped
<1> QED  BY <1>2, <1>3

\* What a part makes of the receiver's status.
LEMMA PartStatus ==
  ASSUME IInv, NEW i, OnPart(i), rcv' # rcv
  PROVE  Receiving /\ rcv'.status \in {"TRANSFERRING", "COMPLETE", "FAILED"}
<1>1. Receiving /\ rcv.status = "TRANSFERRING"
  BY DEF OnPart, Receiving
<1>2. PICK r \in MeasuredOnFirst(rcv) :
        \/ Assemble(Taken(r, i))
        \/ rcv' = [Taken(r, i) EXCEPT !.timer = TRUE]
        \/ \E m \in MeasuredOnLast(Grown(Taken(r, i))) : AskNext(m)
  BY DEF OnPart, Taken
<1> DEFINE taken == Taken(r, i)
<1>3. taken \in Receivers /\ taken.status = "TRANSFERRING"
  <2>1. i \in Span(rcv)
    BY DEF OnPart
  <2> QED  BY <1>1, <2>1, TakenEffect
<1> HIDE DEF taken
<1>4. CASE Assemble(taken)
  <2>1. CASE env.corrupt
    BY <1>1, <1>4, <2>1, FreshTyped DEF Assemble
  <2>2. CASE ~env.corrupt
    BY <1>1, <1>3, <1>4, <2>2 DEF Assemble, Concluded, Receivers
  <2> QED  BY <2>1, <2>2
<1>5. CASE rcv' = [taken EXCEPT !.timer = TRUE]
  BY <1>1, <1>3, <1>5 DEF Receivers
<1>6. CASE \E m \in MeasuredOnLast(Grown(taken)) : AskNext(m)
  <2>1. PICK m \in MeasuredOnLast(Grown(taken)) : AskNext(m)
    BY <1>6
  <2>2. SameParts(Grown(taken), taken)
    BY <1>3, GrownEffect
  <2>3. m \in Receivers /\ m.status = "TRANSFERRING"
    BY <1>3, <2>2, MeasuredEffect DEF SameParts
  <2> QED  BY <1>1, <2>1, <2>3, AskedEffect DEF AskNext
<1> QED  BY <1>2, <1>4, <1>5, <1>6 DEF taken

\* What a packet makes of the receiver.
LEMMA ReceiverReceivesPromised ==
  ASSUME IInv, IInv', ReceiverReceives
  PROVE  Promised
<1>1. UNCHANGED snd /\ toR # <<>>
  BY DEF ReceiverReceives
<1>2. CASE UNCHANGED rcv
  BY <1>1, <1>2, ReceiverPromises
<1>3. CASE rcv' # rcv
  <2>1. /\ Head(toR).t = "ADV" => Accept
        /\ Head(toR).t = "PART" => OnPart(Head(toR).i)
        /\ Head(toR).t = "HMU" => OnHashmapUpdate(Head(toR).seg)
        /\ Head(toR).t = "ICL" => Receiving /\ rcv' = [Fresh EXCEPT !.status = "FAILED"]
    BY <1>3 DEF ReceiverReceives
  <2>2. Head(toR).t \in {"ADV", "PART", "HMU", "ICL"}
    <3>1. Head(toR) = toR[1] /\ toR[1] \in ToReceiver
      BY <1>1, StateTyped, TailEffect
    <3> QED  BY <3>1, ToReceiverKinds
  <2>3. CASE Head(toR).t = "ADV"
    <3>1. rcv.status # "COMPLETE"
      BY <1>1, <2>3, CompleteStands
    <3>2. AskNext(Mapped([Fresh EXCEPT !.status = "TRANSFERRING", !.window = env.window], 0))
      BY <1>3, <2>1, <2>3 DEF Accept
    <3>3. rcv'.status = "TRANSFERRING"
      BY <3>2 DEF AskNext, Asked, Mapped, Fresh
    <3> QED  BY <1>1, <3>1, <3>3, ReceiverPromises
  <2>4. CASE Head(toR).t = "PART"
    <3>1. Receiving /\ rcv'.status \in {"TRANSFERRING", "COMPLETE", "FAILED"}
      BY <1>3, <2>1, <2>4, PartStatus
    <3> QED  BY <1>1, <3>1, ReceiverPromises DEF Receiving
  <2>5. CASE Head(toR).t = "HMU"
    <3>1. Receiving /\ AskNext(Mapped([rcv EXCEPT !.retries = MaxRetries], Head(toR).seg))
      BY <1>3, <2>1, <2>5 DEF OnHashmapUpdate
    <3>2. rcv'.status = "TRANSFERRING"
      BY <3>1, StateTyped DEF AskNext, Asked, Mapped, Receivers, Receiving
    <3> QED  BY <1>1, <3>1, <3>2, ReceiverPromises DEF Receiving
  <2>6. CASE Head(toR).t = "ICL"
    <3>1. Receiving /\ rcv'.status = "FAILED"
      BY <2>1, <2>6, FreshTyped
    <3> QED  BY <1>1, <3>1, ReceiverPromises
  <2> QED  BY <2>2, <2>3, <2>4, <2>5, <2>6
<1> QED  BY <1>2, <1>3

\* Every step keeps the promise.
LEMMA StepPromised == IInv /\ IInv' /\ [Next]_vars => Promised
<1> SUFFICES ASSUME IInv, IInv', [Next]_vars PROVE Promised
  OBVIOUS
<1> USE DEF Senders, Sent
<1>1. snd \in Senders /\ Timed
  BY DEF IInv, Typed, TypeOK
<1>2. CASE Send
  <2>1. UNCHANGED rcv /\ Offer = "open" /\ snd'.status \in {"ADVERTISED", "FAILED"}
    BY <1>1, <1>2, OfferOf DEF Send, Advertise, SenderCancels
  <2> QED  BY <2>1, SenderPromises
<1>3. CASE SenderReceives
  BY <1>3, SenderReceivesPromised
<1>4. CASE SenderExpires
  <2>1. UNCHANGED rcv /\ (snd'.status = snd.status \/ (Sending /\ snd'.status = "FAILED"))
    BY <1>1, <1>4 DEF SenderExpires, SenderCancels, Timed, Sending
  <2> QED  BY <2>1, OfferOf, SenderPromises DEF Sending
<1>5. CASE ReceiverReceives
  BY <1>5, ReceiverReceivesPromised
<1>6. CASE ReceiverExpires
  <2>1. UNCHANGED snd /\ Receiving
    BY <1>1, <1>6 DEF ReceiverExpires, Timed
  <2>2. CASE ReceiverCancels
    BY <2>1, <2>2, FreshTyped, ReceiverPromises DEF ReceiverCancels
  <2>3. CASE AskNext([Shrunk(rcv) EXCEPT !.retries = @ - 1, !.waiting = FALSE])
    <3>1. SameParts(Shrunk(rcv), rcv)
      BY StateTyped, ShrunkEffect
    <3>2. rcv'.status = "TRANSFERRING"
      BY <2>1, <2>3, <3>1 DEF AskNext, Asked, SameParts, Receivers, Receiving
    <3> QED  BY <2>1, <3>2, ReceiverPromises DEF Receiving
  <2> QED  BY <1>6, <2>2, <2>3 DEF ReceiverExpires
<1>7. CASE Lose
  BY <1>7, SenderPromises DEF Lose
<1>8. ASSUME NEW end \in {"S", "R"}, GoesStale(end) PROVE Promised
  BY <1>8, SenderPromises DEF GoesStale
<1>9. CASE Closes("S")
  <2>1. UNCHANGED rcv /\ (snd'.status = snd.status \/ (Sending /\ snd'.status = "FAILED"))
    BY <1>1, <1>9 DEF Closes
  <2> QED  BY <2>1, OfferOf, SenderPromises DEF Sending
<1>10. CASE Closes("R")
  <2>1. UNCHANGED snd /\ (UNCHANGED rcv \/ (Receiving /\ rcv'.status = "FAILED"))
    BY <1>10, FreshTyped DEF Closes
  <2> QED  BY <2>1, ReceiverPromises
<1>11. CASE UNCHANGED vars
  BY <1>11, SenderPromises DEF vars
<1> QED  BY <1>2, <1>3, <1>4, <1>5, <1>6, <1>7, <1>8, <1>9, <1>10, <1>11 DEF Next

\* The two ends keep the promise of Transfer: receipt is proved to the sender only
\* when the receiver holds the whole payload, and the receiver is given it at most
\* once, whichever packets are lost and however often the transfer is advertised.
THEOREM PromiseKept == Spec => KeepsPromise
<1>1. Init => Promise!Init
  BY DEF Init, Promise!Init, Fresh
<1>2. IInv /\ IInv' /\ [Next]_vars => [Promise!Next]_(Promise!vars)
  BY StepPromised DEF Promised
<1> QED  BY <1>1, <1>2, Invariance, PTL DEF Spec, KeepsPromise, Promise!Spec
=============================================================================
