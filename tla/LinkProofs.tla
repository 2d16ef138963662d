----------------------------- MODULE LinkProofs -----------------------------
(***************************************************************************)
(* Proofs about Link, about the requests made on one, LinkRequests, and    *)
(* about the interface they go over, PostInterface.  The three share no    *)
(* state: each has its own invariant.  Of the link: it closes once, a      *)
(* stale link has its grace unless the establishment timer cuts it short,  *)
(* and the two cases in which a network that delivers in time costs a live *)
(* peer its link, for every keepalive, grace, timeout and delay.  Of its   *)
(* requests: each is decided, once.  Of the interface, last: every packet  *)
(* and acknowledgement is accounted for.                                   *)
(***************************************************************************)
EXTENDS Link, LinkRequests, PostInterface, TLAPS

-----------------------------------------------------------------------------
(* What the link's periods have to be, where a network in time has to keep *)
(* a link: a packet and its answer take less than the grace and than the   *)
(* attempt, the grace is less than what makes a link stale, and an         *)
(* initiator that is quiet for either is heard before the responder's link *)
(* is.                                                                     *)
Longest == 1 + (IF Keepalive[I] < Grace THEN Grace ELSE Keepalive[I])
InTime == /\ 2 * Delay < Grace /\ 2 * Delay < Establish
          /\ Grace < StaleTime(I) /\ Longest + Delay < StaleTime(R)

-----------------------------------------------------------------------------
(* The inductive invariant, of any network.                                *)

\* A clock is no further than anything compares it, and each ping is a send.
Clocks ==
  /\ \A e \in Ends : heard[e] <= StaleTime(e) /\ quiet[e] <= Keepalive[e]
  /\ quiet[I] <= pinged

\* Only a closed link has a reason, and a watchdog that has looked left a stale
\* one some of its grace.
ClosedReasons == \A e \in Ends : why[e] # "no" => status[e] = "closed"
InGrace == status[I] = "stale" /\ ~due[I] => staleFor[I] < Grace

Base == TypeOK /\ ClosedOnce /\ Clocks /\ ClosedReasons /\ InGrace

-----------------------------------------------------------------------------
(* And of a network that loses nothing, while both ends live.              *)

Calm == ~lossy /\ ~dead
LinkPackets == [kind : Kinds, age : 0..Delay]

\* What is on its way to an end, and what an end that is up takes of it.
On(e) == {net[e][k] : k \in 1..Len(net[e])}
ToI == {p \in On(I) : p.kind \in {"pong", "data", "packetproof", "close"}}
ToR == {p \in On(R) : p.kind \in {"rtt", "ping", "data", "packetproof", "close"}}
Coming(e, kind) == \E p \in On(e) : p.kind = kind

\* An attempt: the request is on its way, then its proof, in time.
Begins ==
  /\ status[I] # "handshake"
  /\ status[I] = "none" => status[R] = "none" /\ net[I] = <<>> /\ net[R] = <<>> /\ armed = Off
  /\ status[I] = "pending" =>
       \/ /\ status[R] = "none" /\ net[I] = <<>> /\ Len(net[R]) = 1
          /\ net[R][1].kind = "request" /\ armed + net[R][1].age >= Establish
       \/ /\ status[R] \in {"handshake", "closed"} /\ net[R] = <<>>
          /\ Len(net[I]) \in {1, 2}
          /\ net[I][1].kind = "proof" /\ armed + net[I][1].age + Delay >= Establish
          /\ Len(net[I]) = 2 => net[I][2].kind = "close" /\ status[R] = "closed"
          /\ status[R] = "closed" => Len(net[I]) = 2

\* An end that has closed has said so, unless the other closed first.
Ordered ==
  /\ status[R] # "pending"
  /\ Coming(I, "close") => status[R] = "closed"
  /\ Coming(R, "close") => status[I] = "closed"
  /\ Coming(R, "rtt") => status[R] # "none"
  /\ Up(I) => /\ status[R] # "none"
              /\ status[R] = "handshake" => Coming(R, "rtt")
              /\ status[R] = "closed" => Coming(I, "close")
  /\ status[I] = "closed" /\ status[R] # "closed" /\ (Up(R) \/ Coming(R, "rtt")) => Coming(R, "close")
  /\ Up(R) => Up(I) \/ status[I] = "closed"

\* The RTT packet was sent as the link came up.
RttFirst == Up(I) => \A p \in On(R) : p.kind = "rtt" => heard[I] <= p.age

\* The initiator hears no less than the responder sends; one that went stale
\* has pinged, and what answers it comes within its grace, be it a proof.
AnswerDue ==
  /\ Up(I) => ToI # {} \/ heard[I] <= quiet[R] \/ Keepalive[I] <= quiet[R]
  /\ status[I] = "stale" =>
       /\ quiet[I] <= staleFor[I]
       /\ \/ heard[I] <= staleFor[I]
          \/ \E p \in ToI : staleFor[I] <= Delay + p.age
          \/ /\ Up(R) /\ Keepalive[I] <= quiet[R]
             /\ \E p \in On(R) : p.kind = "ping" /\ staleFor[I] <= p.age

\* The responder hears from the initiator before its own link is stale: the
\* initiator is quiet for a period at most, or for its grace if that is longer.
PingDue ==
  Up(R) =>
    /\ status[R] = "active"
    /\ \/ \E p \in ToR : heard[R] <= Longest + p.age
       \/ Up(I) /\ heard[R] <= quiet[I]
       \/ status[I] = "stale" /\ quiet[I] = Keepalive[I] /\ heard[R] <= staleFor[I]
       \/ /\ status[I] = "active" /\ quiet[I] = Keepalive[I]
          /\ heard[R] < Longest \/ (due[I] /\ heard[R] = Longest)

Path == Begins /\ Ordered /\ RttFirst /\ AnswerDue /\ PingDue
IInv == Base /\ (Calm /\ why[I] # "timeout" => Path)

-----------------------------------------------------------------------------
(* Packets on their way.                                                   *)

\* The two ends.
LEMMA TwoEnds == /\ Ends = {I, R} /\ I # R /\ Other(I) = R /\ Other(R) = I
                 /\ Keepalive[I] \in Nat \ {0} /\ Keepalive[R] \in Nat \ {0}
                 /\ Keepalive[I] <= Keepalive[R]
                 /\ Grace \in Nat \ {0} /\ Establish \in Nat \ {0} /\ Delay \in Nat \ {0}
                 /\ StaleTime(I) = 2 * Keepalive[I] /\ StaleTime(R) = 2 * Keepalive[R]
BY LinkAssumption DEF Ends, I, R, Other, StaleTime

\* One more packet.
LEMMA Appended ==
  ASSUME NEW s \in Seq(LinkPackets), NEW x \in LinkPackets
  PROVE  /\ Append(s, x) \in Seq(LinkPackets)
         /\ {Append(s, x)[k] : k \in 1..Len(Append(s, x))} = {s[k] : k \in 1..Len(s)} \cup {x}
<1>1. /\ Append(s, x) \in Seq(LinkPackets) /\ Len(Append(s, x)) = Len(s) + 1 /\ Len(s) \in Nat
      /\ \A k \in 1..Len(s) : Append(s, x)[k] = s[k]
      /\ Append(s, x)[Len(s) + 1] = x
  OBVIOUS
<1>2. 1..Len(Append(s, x)) = 1..Len(s) \cup {Len(s) + 1}
  BY <1>1
<1> QED  BY <1>1, <1>2

\* One less.
LEMMA Taken ==
  ASSUME NEW s \in Seq(LinkPackets), s # <<>>
  PROVE  /\ Tail(s) \in Seq(LinkPackets) /\ Head(s) \in LinkPackets
         /\ {s[k] : k \in 1..Len(s)} = {Head(s)} \cup {Tail(s)[k] : k \in 1..Len(Tail(s))}
<1>1. /\ Tail(s) \in Seq(LinkPackets) /\ Len(Tail(s)) = Len(s) - 1 /\ Len(s) \in Nat \ {0}
      /\ \A k \in 1..Len(Tail(s)) : Tail(s)[k] = s[k + 1]
      /\ Head(s) = s[1] /\ s[1] \in LinkPackets
  OBVIOUS
<1>2. ASSUME NEW k \in 1..Len(s) PROVE s[k] \in {Head(s)} \cup {Tail(s)[j] : j \in 1..Len(Tail(s))}
  <2>1. CASE k = 1
    BY <1>1, <2>1
  <2>2. CASE k # 1
    <3>1. k - 1 \in 1..Len(Tail(s)) /\ Tail(s)[k - 1] = s[k]
      BY <1>1, <2>2
    <3> QED  BY <3>1
  <2> QED  BY <2>1, <2>2
<1>3. ASSUME NEW j \in 1..Len(Tail(s)) PROVE Tail(s)[j] \in {s[k] : k \in 1..Len(s)}
  <2>1. j + 1 \in 1..Len(s)
    BY <1>1
  <2> QED  BY <1>1, <2>1
<1>4. Head(s) \in {s[k] : k \in 1..Len(s)}
  BY <1>1
<1> QED  BY <1>1, <1>2, <1>3, <1>4

\* net keeps its type, and a packet on its way is one.
NetOK == net \in [Ends -> Seq(LinkPackets)]

\* What is on its way is packets.
LEMMA OnTyped ==
  ASSUME NetOK, NEW e \in Ends
  PROVE  On(e) \subseteq LinkPackets
BY DEF NetOK, On

\* _transmit.
LEMMA Transmits ==
  ASSUME NetOK, NEW e \in Ends, NEW kind \in Kinds, Transmit(e, kind)
  PROVE  /\ NetOK' /\ On(Other(e))' = On(Other(e)) \cup {[kind |-> kind, age |-> 0]}
         /\ On(e)' = On(e) /\ net'[e] = net[e]
         /\ net'[Other(e)] = Append(net[Other(e)], [kind |-> kind, age |-> 0])
<1> DEFINE x == [kind |-> kind, age |-> 0]
           o == Other(e)
<1>1. x \in LinkPackets /\ o \in Ends /\ o # e
  BY TwoEnds DEF LinkPackets
<1>2. net' = [net EXCEPT ![o] = Append(@, x)]
  BY DEF Transmit
<1>3. net[o] \in Seq(LinkPackets) /\ net'[o] = Append(net[o], x) /\ net'[e] = net[e]
  BY <1>1, <1>2 DEF NetOK
<1> HIDE DEF x, o
<1>4. /\ Append(net[o], x) \in Seq(LinkPackets)
      /\ {Append(net[o], x)[k] : k \in 1..Len(Append(net[o], x))} = {net[o][k] : k \in 1..Len(net[o])} \cup {x}
  BY <1>1, <1>3, Appended
<1>5. NetOK'
  BY <1>1, <1>2, <1>4 DEF NetOK
<1>6. On(o)' = On(o) \cup {x} /\ On(e)' = On(e)
  BY <1>3, <1>4 DEF On
<1> QED  BY <1>3, <1>5, <1>6 DEF x, o

\* An end takes the packet that came.
LEMMA Takes ==
  ASSUME NetOK, NEW e \in Ends, net[e] # <<>>, Take(e)
  PROVE  /\ NetOK' /\ Head(net[e]) \in LinkPackets
         /\ On(e) = {Head(net[e])} \cup On(e)' /\ net'[e] = Tail(net[e])
         /\ On(Other(e))' = On(Other(e)) /\ net'[Other(e)] = net[Other(e)]
<1> DEFINE o == Other(e)
<1>1. o \in Ends /\ o # e
  BY TwoEnds
<1>2. net' = [net EXCEPT ![e] = Tail(@)]
  BY DEF Take
<1>3. net[e] \in Seq(LinkPackets) /\ net'[e] = Tail(net[e]) /\ net'[o] = net[o]
  BY <1>1, <1>2 DEF NetOK
<1> HIDE DEF o
<1>4. /\ Tail(net[e]) \in Seq(LinkPackets) /\ Head(net[e]) \in LinkPackets
      /\ {net[e][k] : k \in 1..Len(net[e])}
           = {Head(net[e])} \cup {Tail(net[e])[k] : k \in 1..Len(Tail(net[e]))}
  BY <1>3, Taken
<1>5. NetOK'
  BY <1>2, <1>4 DEF NetOK
<1>6. On(e) = {Head(net[e])} \cup On(e)' /\ On(o)' = On(o)
  BY <1>3, <1>4 DEF On
<1> QED  BY <1>3, <1>4, <1>5, <1>6 DEF o

\* An end takes a packet and answers it.
LEMMA Answers ==
  ASSUME NetOK, NEW e \in Ends, net[e] # <<>>, NEW kind \in Kinds, Answer(e, kind)
  PROVE  /\ NetOK' /\ Head(net[e]) \in LinkPackets
         /\ On(e) = {Head(net[e])} \cup On(e)' /\ net'[e] = Tail(net[e])
         /\ On(Other(e))' = On(Other(e)) \cup {[kind |-> kind, age |-> 0]}
         /\ net'[Other(e)] = Append(net[Other(e)], [kind |-> kind, age |-> 0])
<1> DEFINE o == Other(e)
           x == [kind |-> kind, age |-> 0]
<1>1. o \in Ends /\ o # e /\ x \in LinkPackets
  BY TwoEnds DEF LinkPackets
<1>2. net' = [net EXCEPT ![e] = Tail(@), ![o] = Append(@, x)]
  BY DEF Answer
<1>3. /\ net[e] \in Seq(LinkPackets) /\ net'[e] = Tail(net[e])
      /\ net[o] \in Seq(LinkPackets) /\ net'[o] = Append(net[o], x)
  BY <1>1, <1>2 DEF NetOK
<1> HIDE DEF o, x
<1>4. /\ Tail(net[e]) \in Seq(LinkPackets) /\ Head(net[e]) \in LinkPackets
      /\ {net[e][k] : k \in 1..Len(net[e])}
           = {Head(net[e])} \cup {Tail(net[e])[k] : k \in 1..Len(Tail(net[e]))}
  BY <1>3, Taken
<1>5. /\ Append(net[o], x) \in Seq(LinkPackets)
      /\ {Append(net[o], x)[k] : k \in 1..Len(Append(net[o], x))} = {net[o][k] : k \in 1..Len(net[o])} \cup {x}
  BY <1>1, <1>3, Appended
<1>6. NetOK'
  BY <1>1, <1>2, <1>4, <1>5 DEF NetOK
<1>7. On(e) = {Head(net[e])} \cup On(e)' /\ On(o)' = On(o) \cup {x}
  BY <1>3, <1>4, <1>5 DEF On
<1> QED  BY <1>3, <1>4, <1>6, <1>7 DEF o, x

\* A tick later.
Aged(p) == [p EXCEPT !.age = @ + 1]

\* No packet is on its way for longer than Delay.
LEMMA Ages ==
  ASSUME NetOK, Tick
  PROVE  /\ NetOK'
         /\ \A e \in Ends : /\ On(e)' = {Aged(p) : p \in On(e)} /\ Len(net'[e]) = Len(net[e])
                            /\ \A k \in 1..Len(net[e]) : net'[e][k] = Aged(net[e][k])
         /\ \A e \in Ends : \A p \in On(e) : p.age < Delay
<1>1. \A e \in Ends : \A k \in 1..Len(net[e]) : net[e][k].age < Delay
  BY DEF Tick
<1>2. ASSUME NEW e \in Ends
      PROVE  /\ net'[e] \in Seq(LinkPackets) /\ On(e)' = {Aged(p) : p \in On(e)}
             /\ Len(net'[e]) = Len(net[e])
             /\ \A k \in 1..Len(net[e]) : net'[e][k] = Aged(net[e][k])
  <2> DEFINE s == net[e]
             t == [k \in 1..Len(s) |-> Aged(s[k])]
  <2>1. net'[e] = t
    BY DEF Tick, Aged
  <2>2. s \in Seq(LinkPackets) /\ Len(s) \in Nat
    BY DEF NetOK
  <2>3. ASSUME NEW k \in 1..Len(s) PROVE Aged(s[k]) \in LinkPackets
    <3>1. s[k] \in LinkPackets /\ s[k].age < Delay
      BY <1>1, <2>2
    <3>2. s[k].age + 1 \in 0..Delay
      BY <3>1, TwoEnds DEF LinkPackets
    <3> HIDE DEF s
    <3> QED  BY <3>1, <3>2 DEF LinkPackets, Aged
  <2>4. t \in Seq(LinkPackets) /\ Len(t) = Len(s)
    BY <2>2, <2>3
  <2>5. {t[k] : k \in 1..Len(t)} = {Aged(p) : p \in {s[k] : k \in 1..Len(s)}}
    <3> HIDE DEF s
    <3> QED  BY <2>4
  <2> QED  BY <2>1, <2>4, <2>5 DEF On
<1>3. NetOK'
  <2>1. net' = [e \in Ends |-> net'[e]]
    BY DEF Tick
  <2> QED  BY <1>2, <2>1 DEF NetOK
<1>4. \A e \in Ends : \A p \in On(e) : p.age < Delay
  BY <1>1 DEF On
<1> QED  BY <1>2, <1>3, <1>4
-----------------------------------------------------------------------------
(* One lemma per action: what any network keeps.                           *)

\* What the base of the invariant says of types.
LEMMA BaseIsTyped ==
  ASSUME Base
  PROVE  /\ NetOK
         /\ status \in [Ends -> Statuses] /\ heard \in [Ends -> Nat] /\ quiet \in [Ends -> Nat]
         /\ staleFor \in [Ends -> 0..Grace] /\ pinged \in 0..Keepalive[I] /\ armed \in Off..Establish
         /\ due \in [Ends -> BOOLEAN] /\ why \in [Ends -> {"no", "timeout", "local", "peer"}]
         /\ closes \in [Ends -> Nat] /\ lossy \in BOOLEAN /\ dead \in BOOLEAN
         /\ I \in Ends /\ R \in Ends
BY TwoEnds DEF Base, TypeOK, NetOK, LinkPackets

\* Status CLOSED and _linkClosed().
LEMMA CloseBase ==
  ASSUME Base, NEW e \in Ends, NEW reason \in {"timeout", "local", "peer"},
         status[e] \notin {"closed"}, Close(e, reason), NetOK',
         heard' \in [Ends -> Nat], quiet' \in [Ends -> Nat], staleFor' = staleFor,
         \A x \in Ends : heard'[x] <= heard[x] /\ quiet'[x] <= quiet[x],
         \A x \in Ends : x # e => heard'[x] = heard[x],
         quiet'[I] <= pinged', pinged' \in 0..Keepalive[I],
         lossy' \in BOOLEAN, dead' \in BOOLEAN
  PROVE  Base'
<1>1. TypeOK'
  <2>1. /\ status' \in [Ends -> Statuses] /\ why' \in [Ends -> {"no", "timeout", "local", "peer"}]
        /\ due' \in [Ends -> BOOLEAN] /\ armed' \in Off..Establish
    BY BaseIsTyped, TwoEnds DEF Close, Statuses, Off
  <2>2. closes' \in [Ends -> Nat]
    BY BaseIsTyped DEF Close
  <2> QED  BY <2>1, <2>2, BaseIsTyped DEF TypeOK, NetOK, LinkPackets
<1>2. ClosedOnce'
  BY BaseIsTyped, TwoEnds DEF Base, ClosedOnce, Close, Off
<1>3. Clocks'
  BY BaseIsTyped, TwoEnds DEF Base, Clocks
<1>4. ClosedReasons'
  BY BaseIsTyped, TwoEnds DEF Base, ClosedReasons, Close
<1>5. InGrace'
  <2>1. /\ status'[e] = "closed" /\ \A x \in Ends : x # e => status'[x] = status[x] /\ due'[x] = due[x]
    BY BaseIsTyped DEF Close
  <2> QED  BY <2>1, BaseIsTyped, TwoEnds DEF Base, InGrace
<1> QED  BY <1>1, <1>2, <1>3, <1>4, <1>5 DEF Base

\* A step that closes no end.
LEMMA OpenBase ==
  ASSUME Base, UNCHANGED <<why, closes>>, NetOK',
         status' \in [Ends -> Statuses],
         \A e \in Ends : status'[e] = "closed" <=> status[e] = "closed",
         heard' \in [Ends -> Nat], quiet' \in [Ends -> Nat], staleFor' \in [Ends -> 0..Grace],
         pinged' \in 0..Keepalive[I], armed' \in Off..Establish, due' \in [Ends -> BOOLEAN],
         lossy' \in BOOLEAN, dead' \in BOOLEAN,
         \A e \in Ends : status[e] = "closed" => ~due'[e],
         status[I] = "closed" => armed' = Off,
         Clocks', InGrace'
  PROVE  Base'
<1>1. TypeOK'
  BY BaseIsTyped DEF TypeOK, NetOK, LinkPackets
<1>2. ClosedOnce' /\ ClosedReasons'
  BY BaseIsTyped, TwoEnds DEF Base, ClosedOnce, ClosedReasons
<1> QED  BY <1>1, <1>2 DEF Base

\* What is on an end, and both of them.
LEMMA ClosedQuiet ==
  ASSUME Base
  PROVE  /\ \A e \in Ends : status[e] = "closed" => ~due[e]
         /\ status[I] = "closed" => armed = Off
         /\ \A e \in Ends : heard[e] <= StaleTime(e) /\ quiet[e] <= Keepalive[e]
         /\ quiet[I] <= pinged
         /\ status[I] = "stale" /\ ~due[I] => staleFor[I] < Grace
BY TwoEnds DEF Base, ClosedOnce, Clocks, InGrace

\* establish().
LEMMA RequestBase ==
  ASSUME Base, Request
  PROVE  Base'
<1>1. NetOK'
  BY BaseIsTyped, Transmits DEF Request, Kinds
<1>2. /\ UNCHANGED <<why, closes, heard, staleFor, pinged, due, lossy, dead>>
      /\ status' = [status EXCEPT ![I] = "pending"] /\ status[I] = "none"
      /\ armed' = Establish /\ quiet' = [quiet EXCEPT ![I] = 0]
  BY DEF Request, Transmit
<1>3. /\ Clocks' /\ InGrace'
  BY <1>2, BaseIsTyped, ClosedQuiet, TwoEnds DEF Clocks, InGrace
<1>4. armed' \in Off..Establish /\ status' \in [Ends -> Statuses]
  BY <1>2, BaseIsTyped, TwoEnds DEF Off, Statuses
<1> QED  BY <1>1, <1>2, <1>3, <1>4, BaseIsTyped, ClosedQuiet, OpenBase

\* accept() of a link request.
LEMMA AcceptBase ==
  ASSUME Base, Accept
  PROVE  Base'
<1>1. NetOK'
  BY BaseIsTyped, Answers DEF Accept, Kinds
<1>2. /\ UNCHANGED <<why, closes, armed, staleFor, pinged, due, lossy, dead>>
      /\ status' = [status EXCEPT ![R] = "handshake"] /\ status[R] = "none"
      /\ heard' = [heard EXCEPT ![R] = 0] /\ quiet' = [quiet EXCEPT ![R] = 0]
  BY DEF Accept, Answer
<1>3. /\ Clocks' /\ InGrace'
  BY <1>2, BaseIsTyped, ClosedQuiet, TwoEnds DEF Clocks, InGrace
<1>4. status' \in [Ends -> Statuses]
  BY <1>2, BaseIsTyped, TwoEnds DEF Statuses
<1> QED  BY <1>1, <1>2, <1>3, <1>4, BaseIsTyped, ClosedQuiet, OpenBase

\* validateProof().
LEMMA ProvedBase ==
  ASSUME Base, Proved
  PROVE  Base'
<1>1. NetOK'
  BY BaseIsTyped, Answers DEF Proved, Kinds
<1>2. /\ UNCHANGED <<why, closes, armed, staleFor, pinged, due, lossy, dead>>
      /\ status' = [status EXCEPT ![I] = "active"] /\ status[I] = "pending"
      /\ heard' = [heard EXCEPT ![I] = 0] /\ quiet' = [quiet EXCEPT ![I] = 0]
  BY DEF Proved, Answer
<1>3. /\ Clocks' /\ InGrace'
  BY <1>2, BaseIsTyped, ClosedQuiet, TwoEnds DEF Clocks, InGrace
<1>4. status' \in [Ends -> Statuses]
  BY <1>2, BaseIsTyped, TwoEnds DEF Statuses
<1> QED  BY <1>1, <1>2, <1>3, <1>4, BaseIsTyped, ClosedQuiet, OpenBase

\* A proof that does not validate.
LEMMA BadProofBase ==
  ASSUME Base, BadProof
  PROVE  Base'
<1>1. NetOK'
  BY BaseIsTyped, Takes DEF BadProof, Take
<1>2. /\ UNCHANGED <<why, closes, heard, quiet, armed, staleFor, pinged, due, lossy, dead>>
      /\ status' = [status EXCEPT ![I] = "handshake"] /\ status[I] = "pending"
  BY DEF BadProof, clocks
<1>3. /\ Clocks' /\ InGrace'
  BY <1>2, BaseIsTyped, ClosedQuiet, TwoEnds DEF Clocks, InGrace
<1>4. status' \in [Ends -> Statuses]
  BY <1>2, BaseIsTyped, TwoEnds DEF Statuses
<1> QED  BY <1>1, <1>2, <1>3, <1>4, BaseIsTyped, ClosedQuiet, OpenBase

\* onLinkRequestRtt().
LEMMA RttBase ==
  ASSUME Base, Rtt
  PROVE  Base'
<1>1. NetOK'
  BY BaseIsTyped, Takes DEF Rtt, Receive
<1>2. /\ UNCHANGED <<why, closes, quiet, armed, staleFor, pinged, due, lossy, dead>>
      /\ status' = [status EXCEPT ![R] = "active"] /\ status[R] # "closed"
      /\ heard' = [heard EXCEPT ![R] = 0]
  BY DEF Rtt
<1>3. /\ Clocks' /\ InGrace'
  BY <1>2, BaseIsTyped, ClosedQuiet, TwoEnds DEF Clocks, InGrace
<1>4. status' \in [Ends -> Statuses]
  BY <1>2, BaseIsTyped, TwoEnds DEF Statuses
<1> QED  BY <1>1, <1>2, <1>3, <1>4, BaseIsTyped, ClosedQuiet, OpenBase

\* _hadInbound, of whatever an end hears.
LEMMA HeardBase ==
  ASSUME Base, NetOK', NEW e \in Ends, HadInbound(e), quiet' \in [Ends -> Nat],
         \A x \in Ends : quiet'[x] <= quiet[x],
         UNCHANGED <<pinged, armed, due, why, closes, lossy, dead>>
  PROVE  Base'
<1>1. /\ heard' = [heard EXCEPT ![e] = 0] /\ staleFor' = [staleFor EXCEPT ![e] = 0]
      /\ status' = [status EXCEPT ![e] = IF @ = "stale" THEN "active" ELSE @]
  BY DEF HadInbound
<1>2. /\ Clocks' /\ InGrace'
  BY <1>1, BaseIsTyped, ClosedQuiet, TwoEnds DEF Clocks, InGrace
<1>3. status' \in [Ends -> Statuses] /\ staleFor' \in [Ends -> 0..Grace] /\ heard' \in [Ends -> Nat]
  BY <1>1, BaseIsTyped, TwoEnds DEF Statuses
<1>4. \A x \in Ends : status'[x] = "closed" <=> status[x] = "closed"
  BY <1>1, BaseIsTyped
<1> QED  BY <1>1, <1>2, <1>3, <1>4, BaseIsTyped, ClosedQuiet, OpenBase

\* Pings, pongs and data arrive.
LEMMA TrafficBase ==
  ASSUME Base, Ping \/ Pong \/ \E e \in Ends : Data(e)
  PROVE  Base'
<1>1. CASE Ping
  <2>1. net[R] # <<>> /\ HadInbound(R) /\ UNCHANGED <<pinged, armed, due, why, closes, lossy, dead>>
    BY <1>1 DEF Ping, Receive
  <2>2. CASE Answer(R, "pong")
    <3>1. NetOK'
      BY <2>1, <2>2, BaseIsTyped, Answers DEF Kinds
    <3>2. quiet' \in [Ends -> Nat] /\ \A x \in Ends : quiet'[x] <= quiet[x]
      BY SMTT(30), <2>2, BaseIsTyped DEF Answer
    <3> QED  BY <2>1, <3>1, <3>2, BaseIsTyped, HeardBase
  <2>3. CASE Take(R) /\ UNCHANGED quiet
    <3>1. NetOK'
      BY <2>1, <2>3, BaseIsTyped, Takes
    <3>2. quiet' \in [Ends -> Nat] /\ \A x \in Ends : quiet'[x] <= quiet[x]
      BY <2>3, BaseIsTyped
    <3> QED  BY <2>1, <3>1, <3>2, BaseIsTyped, HeardBase
  <2> QED  BY <1>1, <2>2, <2>3 DEF Ping
<1>2. CASE Pong
  <2>1. /\ net[I] # <<>> /\ HadInbound(I) /\ UNCHANGED <<quiet, pinged, armed, due, why, closes, lossy, dead>>
        /\ Take(I)
    BY <1>2 DEF Pong, Receive
  <2>2. NetOK'
    BY <2>1, BaseIsTyped, Takes
  <2>3. quiet' \in [Ends -> Nat] /\ \A x \in Ends : quiet'[x] <= quiet[x]
    BY <2>1, BaseIsTyped
  <2> QED  BY <2>1, <2>2, <2>3, BaseIsTyped, HeardBase
<1>3. ASSUME NEW e \in Ends, Data(e) PROVE Base'
  <2>1. net[e] # <<>> /\ HadInbound(e) /\ UNCHANGED <<pinged, armed, due, why, closes, lossy, dead>>
    BY <1>3 DEF Data, Receive
  <2>2. CASE Answer(e, "packetproof")
    <3>1. NetOK'
      BY <2>1, <2>2, BaseIsTyped, Answers DEF Kinds
    <3>2. quiet' \in [Ends -> Nat] /\ \A x \in Ends : quiet'[x] <= quiet[x]
      BY SMTT(30), <2>2, BaseIsTyped DEF Answer
    <3> QED  BY <2>1, <3>1, <3>2, BaseIsTyped, HeardBase
  <2>3. CASE Take(e) /\ UNCHANGED quiet
    <3>1. NetOK'
      BY <2>1, <2>3, BaseIsTyped, Takes
    <3>2. quiet' \in [Ends -> Nat] /\ \A x \in Ends : quiet'[x] <= quiet[x]
      BY SMTT(30), <2>3, BaseIsTyped
    <3> QED  BY <2>1, <3>1, <3>2, BaseIsTyped, HeardBase
  <2> QED  BY <1>3, <2>2, <2>3 DEF Data
<1> QED  BY <1>1, <1>2, <1>3

\* onPacketProof().
LEMMA PacketProofBase ==
  ASSUME Base, NEW e \in Ends, PacketProof(e)
  PROVE  Base'
<1>1. /\ net[e] # <<>> /\ Take(e) /\ heard' = [heard EXCEPT ![e] = 0]
      /\ UNCHANGED <<status, quiet, pinged, staleFor, armed, due, why, closes, lossy, dead>>
  BY DEF PacketProof, Receive
<1>2. NetOK'
  BY <1>1, BaseIsTyped, Takes
<1>3. heard' \in [Ends -> Nat] /\ \A x \in Ends : heard'[x] <= heard[x]
  <2>1. \A x \in Ends : heard'[x] = (IF x = e THEN 0 ELSE heard[x]) /\ heard[x] \in Nat
    BY <1>1, BaseIsTyped
  <2>2. heard' \in [Ends -> Nat]
    BY <1>1, BaseIsTyped
  <2> QED  BY <2>1, <2>2
<1>4. Clocks'
  <2>1. UNCHANGED <<quiet, pinged>> /\ \A x \in Ends : heard[x] \in Nat /\ heard'[x] \in Nat
    BY <1>1, <1>3, BaseIsTyped
  <2>2. \A x \in Ends : heard[x] <= StaleTime(x) /\ StaleTime(x) \in Nat
    BY ClosedQuiet, TwoEnds
  <2>3. \A x \in Ends : heard'[x] <= StaleTime(x)
    BY <1>3, <2>1, <2>2
  <2>4. (\A x \in Ends : quiet'[x] <= Keepalive[x]) /\ quiet'[I] <= pinged'
    BY <2>1, ClosedQuiet
  <2> QED  BY <2>3, <2>4 DEF Clocks, StaleTime
<1>5. InGrace'
  BY <1>1 DEF InGrace, Base
<1> QED  BY <1>1, <1>2, <1>3, <1>4, <1>5, BaseIsTyped, ClosedQuiet, OpenBase

\* A packet lost, or nobody is there for.
LEMMA DroppedBase ==
  ASSUME Base, NEW e \in Ends, Dropped(e) \/ Lost(e)
  PROVE  Base'
<1>1. net[e] # <<>> /\ Take(e) /\ UNCHANGED <<status, clocks, why, closes, lossy, dead>>
  BY DEF Dropped, Lost
<1>2. NetOK'
  BY <1>1, BaseIsTyped, Takes
<1>3. /\ Clocks' /\ InGrace'
  BY <1>1, BaseIsTyped, ClosedQuiet, TwoEnds DEF Clocks, InGrace, clocks
<1> QED  BY <1>1, <1>2, <1>3, BaseIsTyped, ClosedQuiet, OpenBase DEF clocks

\* send().
LEMMA LinkSendBase ==
  ASSUME Base, NEW e \in Ends, LinkSend(e)
  PROVE  Base'
<1>1. Transmit(e, "data") /\ UNCHANGED <<status, heard, pinged, staleFor, armed, due, why, closes, lossy, dead>>
  BY DEF LinkSend
<1>2. NetOK' /\ quiet' = [quiet EXCEPT ![e] = 0]
  BY <1>1, BaseIsTyped, Transmits DEF Kinds, Transmit
<1>3. /\ Clocks' /\ InGrace'
  BY <1>1, <1>2, BaseIsTyped, ClosedQuiet, TwoEnds DEF Clocks, InGrace
<1> QED  BY <1>1, <1>2, <1>3, BaseIsTyped, ClosedQuiet, OpenBase

\* The responder goes.
LEMMA DieBase ==
  ASSUME Base, Die
  PROVE  Base'
<1>1. /\ UNCHANGED <<status, heard, quiet, pinged, staleFor, armed, why, closes, net, lossy>>
      /\ due' = [due EXCEPT ![R] = FALSE] /\ dead' = TRUE
  BY DEF Die
<1>2. /\ Clocks' /\ InGrace'
  BY <1>1, BaseIsTyped, ClosedQuiet, TwoEnds DEF Clocks, InGrace
<1>3. NetOK' /\ \A e \in Ends : status[e] = "closed" => ~due'[e]
  BY <1>1, BaseIsTyped, ClosedQuiet DEF NetOK
<1> QED  BY <1>1, <1>2, <1>3, BaseIsTyped, ClosedQuiet, OpenBase

\* A second passes.
LEMMA TickBase ==
  ASSUME Base, Tick
  PROVE  Base'
<1>1. NetOK'
  BY BaseIsTyped, Ages
<1>2. UNCHANGED <<status, why, closes, lossy, dead>>
  BY DEF Tick
<1>3. heard' = [e \in Ends |-> IF Watched(e) THEN Older(heard[e], StaleTime(e)) ELSE 0]
  BY DEF Tick
<1>4. quiet' = [e \in Ends |-> IF Gone(e) THEN 0 ELSE Older(quiet[e], Keepalive[e])]
  BY DEF Tick
<1>5. /\ pinged' = Older(pinged, Keepalive[I]) /\ armed # 0
      /\ armed' = IF armed = Off THEN Off ELSE armed - 1
      /\ due' = [e \in Ends |-> Watched(e)]
  BY DEF Tick
<1>6. staleFor' = [e \in Ends |-> IF status[e] = "stale" THEN Older(staleFor[e], Grace) ELSE 0]
  BY DEF Tick
<1>7. /\ heard' \in [Ends -> Nat] /\ \A e \in Ends : heard'[e] <= StaleTime(e)
      /\ heard'[I] <= heard[I] + 1
  BY <1>3, BaseIsTyped, ClosedQuiet, TwoEnds DEF Older
<1>8. quiet' \in [Ends -> Nat] /\ \A e \in Ends : quiet'[e] <= Keepalive[e]
  BY <1>4, BaseIsTyped, ClosedQuiet, TwoEnds DEF Older
<1>9. pinged' \in 0..Keepalive[I] /\ quiet'[I] <= pinged'
  BY <1>4, <1>5, BaseIsTyped, ClosedQuiet, TwoEnds DEF Older
<1>10. staleFor' \in [Ends -> 0..Grace]
  BY <1>6, BaseIsTyped, TwoEnds DEF Older
<1>11. armed' \in Off..Establish /\ (armed = Off => armed' = Off)
       /\ (armed # Off => armed' = armed - 1 /\ armed \in Nat \ {0})
  BY <1>5, BaseIsTyped, TwoEnds DEF Off
<1>12. due' \in [Ends -> BOOLEAN] /\ \A e \in Ends : status[e] = "closed" => ~due'[e]
  BY <1>5 DEF Watched, Up
<1>13. InGrace'
  BY <1>2, <1>5, TwoEnds DEF InGrace, Watched, Up
<1>14. Clocks'
  BY <1>7, <1>8, <1>9 DEF Clocks, StaleTime
<1> QED  BY <1>1, <1>2, <1>7, <1>8, <1>9, <1>10, <1>11, <1>12, <1>13, <1>14, BaseIsTyped,
            ClosedQuiet, OpenBase

\* requestLost().
LEMMA RequestLostBase ==
  ASSUME Base, RequestLost
  PROVE  Base'
<1>1. /\ status[I] = "pending" /\ Close(I, "timeout")
      /\ UNCHANGED <<heard, quiet, pinged, staleFor, net, lossy, dead>>
  BY DEF RequestLost
<1>2. NetOK' /\ quiet'[I] <= pinged'
  BY <1>1, BaseIsTyped, ClosedQuiet DEF NetOK
<1> QED  BY <1>1, <1>2, BaseIsTyped, CloseBase

\* The establishment watchdog, whether it ends the attempt or not.
LEMMA EstablishmentTimeoutBase ==
  ASSUME Base, EstablishmentTimeout
  PROVE  Base'
<1>1. UNCHANGED <<heard, quiet, pinged, staleFor, net, lossy, dead>> /\ armed = 0
  BY DEF EstablishmentTimeout
<1>2. NetOK' /\ quiet'[I] <= pinged'
  BY <1>1, BaseIsTyped, ClosedQuiet DEF NetOK
<1>3. CASE EstablishmentEnds
  <2>1. Close(I, "timeout") /\ status[I] # "closed"
    BY <1>3 DEF EstablishmentTimeout, EstablishmentEnds
  <2> QED  BY <1>1, <1>2, <2>1, BaseIsTyped, CloseBase
<1>4. CASE ~EstablishmentEnds
  <2>1. armed' = Off /\ UNCHANGED <<status, why, closes, due>>
    BY <1>4 DEF EstablishmentTimeout
  <2>2. /\ Clocks' /\ InGrace' /\ armed' \in Off..Establish
    BY <1>1, <2>1, BaseIsTyped, ClosedQuiet, TwoEnds DEF Clocks, InGrace, Off
  <2> QED  BY <1>1, <1>2, <2>1, <2>2, BaseIsTyped, ClosedQuiet, OpenBase
<1> QED  BY <1>3, <1>4

\* LINKCLOSE from the peer.
LEMMA LinkCloseBase ==
  ASSUME Base, NEW e \in Ends, LinkClose(e)
  PROVE  Base'
<1>1. /\ net[e] # <<>> /\ status[e] # "closed" /\ Close(e, "peer") /\ Take(e)
      /\ heard' = [heard EXCEPT ![e] = 0]
      /\ UNCHANGED <<quiet, pinged, staleFor, lossy, dead>>
  BY DEF LinkClose, Receive
<1>2. NetOK' /\ quiet'[I] <= pinged'
  BY <1>1, BaseIsTyped, ClosedQuiet, Takes
<1>3. /\ heard' \in [Ends -> Nat] /\ quiet' \in [Ends -> Nat]
      /\ \A x \in Ends : heard'[x] <= heard[x] /\ quiet'[x] <= quiet[x]
  <2>1. /\ heard \in [Ends -> Nat] /\ quiet \in [Ends -> Nat]
        /\ heard' = [heard EXCEPT ![e] = 0] /\ quiet' = quiet
    BY <1>1, BaseIsTyped
  <2>2. heard' \in [Ends -> Nat] /\ \A x \in Ends : heard'[x] <= heard[x]
    BY <2>1
  <2> QED  BY <2>1, <2>2
<1> QED  BY <1>1, <1>2, <1>3, BaseIsTyped, CloseBase

\* close().
LEMMA CloseLinkBase ==
  ASSUME Base, NEW e \in Ends, CloseLink(e)
  PROVE  Base'
<1>1. /\ status[e] # "closed" /\ Close(e, "local")
      /\ UNCHANGED <<heard, pinged, staleFor, lossy, dead>>
      /\ UNCHANGED <<net, quiet>> \/ Transmit(e, "close")
  BY DEF CloseLink
<1>2. NetOK' /\ quiet' \in [Ends -> Nat] /\ \A x \in Ends : quiet'[x] <= quiet[x]
  <2>1. CASE UNCHANGED <<net, quiet>>
    BY SMTT(30), <2>1, BaseIsTyped DEF NetOK
  <2>2. CASE Transmit(e, "close")
    <3>1. NetOK' /\ quiet' = [quiet EXCEPT ![e] = 0]
      BY <2>2, BaseIsTyped, Transmits DEF Kinds, Transmit
    <3> QED  BY <3>1, BaseIsTyped
  <2> QED  BY <1>1, <2>1, <2>2
<1>3. quiet'[I] <= pinged' /\ pinged' \in 0..Keepalive[I]
  BY <1>1, <1>2, BaseIsTyped, ClosedQuiet, TwoEnds
<1> QED  BY <1>1, <1>2, <1>3, BaseIsTyped, CloseBase

\* The watchdog's step.
LEMMA WatchdogBase ==
  ASSUME Base, NEW e \in Ends, Watchdog(e)
  PROVE  Base'
<1> DEFINE action == KeepaliveAction(e)
<1>1. /\ due[e] /\ UNCHANGED <<heard, lossy, dead>> /\ status[e] # "closed"
  BY ClosedQuiet DEF Watchdog
<1>2. NetOK' /\ quiet' \in [Ends -> Nat] /\ (\A x \in Ends : quiet'[x] <= quiet[x])
      /\ pinged' \in 0..Keepalive[I] /\ quiet'[I] <= pinged'
  <2>1. CASE action.ping
    <3>1. Transmit(e, "ping") /\ pinged' = 0 /\ e = I
      BY <2>1 DEF Watchdog, KeepaliveAction
    <3>2. NetOK' /\ quiet' = [quiet EXCEPT ![e] = 0]
      BY <3>1, BaseIsTyped, Transmits DEF Kinds, Transmit
    <3> QED  BY <3>1, <3>2, BaseIsTyped, ClosedQuiet, TwoEnds
  <2>2. CASE ~action.ping /\ action.next = "teardown"
    <3>1. Transmit(e, "close") /\ UNCHANGED pinged
      BY <2>2 DEF Watchdog
    <3>2. NetOK' /\ quiet' = [quiet EXCEPT ![e] = 0]
      BY <3>1, BaseIsTyped, Transmits DEF Kinds, Transmit
    <3> QED  BY <3>1, <3>2, BaseIsTyped, ClosedQuiet, TwoEnds
  <2>3. CASE ~action.ping /\ action.next # "teardown"
    <3>1. UNCHANGED <<net, quiet, pinged>>
      BY <2>3 DEF Watchdog
    <3> QED  BY SMTT(30), <3>1, BaseIsTyped, ClosedQuiet DEF NetOK
  <2> QED  BY <2>1, <2>2, <2>3
<1>3. CASE action.next = "teardown"
  <2>1. Close(e, "timeout") /\ UNCHANGED staleFor
    BY <1>3 DEF Watchdog
  <2> QED  BY <1>1, <1>2, <2>1, BaseIsTyped, CloseBase
<1>4. CASE action.next # "teardown"
  <2>1. /\ status' = [status EXCEPT ![e] = IF action.next = "stale" THEN "stale" ELSE @]
        /\ staleFor' = [staleFor EXCEPT ![e] = IF action.next = "stale" THEN 0 ELSE @]
        /\ due' = [due EXCEPT ![e] = FALSE]
        /\ UNCHANGED <<why, closes, armed>>
    BY <1>4 DEF Watchdog
  <2>2. status[e] = "stale" => staleFor[e] < Grace
    BY <1>4, BaseIsTyped, TwoEnds DEF KeepaliveAction, GraceOver
  <2> HIDE DEF action
  <2>3. /\ status' \in [Ends -> Statuses] /\ staleFor' \in [Ends -> 0..Grace] /\ due' \in [Ends -> BOOLEAN]
        /\ \A x \in Ends : status'[x] = "closed" <=> status[x] = "closed"
        /\ \A x \in Ends : status[x] = "closed" => ~due'[x]
    BY <1>1, <2>1, BaseIsTyped, ClosedQuiet, TwoEnds DEF Statuses
  <2>4. Clocks'
    BY <1>1, <1>2, BaseIsTyped, ClosedQuiet, TwoEnds DEF Clocks
  <2>5. InGrace'
    <3>1. CASE e = I
      <4>1. /\ status'[I] = (IF action.next = "stale" THEN "stale" ELSE status[I])
            /\ staleFor'[I] = (IF action.next = "stale" THEN 0 ELSE staleFor[I])
        BY <2>1, <3>1, BaseIsTyped
      <4> QED  BY <2>2, <3>1, <4>1, TwoEnds DEF InGrace
    <3>2. CASE e # I
      <4>1. status'[I] = status[I] /\ staleFor'[I] = staleFor[I] /\ due'[I] = due[I]
        BY <2>1, <3>2, BaseIsTyped
      <4> QED  BY <4>1 DEF InGrace, Base
    <3> QED  BY <3>1, <3>2
  <2> QED  BY <1>1, <1>2, <2>1, <2>3, <2>4, <2>5, BaseIsTyped, ClosedQuiet, OpenBase
<1> QED  BY <1>3, <1>4

\* Any network keeps the base of the invariant.
LEMMA StepBase ==
  ASSUME Base, [Next]_vars
  PROVE  Base'
<1>1. ASSUME NEW e \in Ends, Deliver(e) \/ Lost(e) \/ LinkSend(e) \/ CloseLink(e) \/ Watchdog(e)
      PROVE  Base'
  BY <1>1, AcceptBase, RttBase, TrafficBase, PacketProofBase, ProvedBase, LinkCloseBase, DroppedBase,
     LinkSendBase, CloseLinkBase, WatchdogBase DEF Deliver
<1>2. CASE UNCHANGED vars
  BY <1>2 DEF vars, clocks, Base, TypeOK, ClosedOnce, Clocks, ClosedReasons, InGrace
<1> QED  BY <1>1, <1>2, RequestBase, BadProofBase, RequestLostBase, EstablishmentTimeoutBase,
            DieBase, TickBase DEF Next

\* A link not yet asked for.
LEMMA InitBase == Init => Base
<1> SUFFICES ASSUME Init PROVE Base
  OBVIOUS
<1>1. TypeOK
  <2>1. net \in [Ends -> Seq([kind : Kinds, age : 0..Delay])]
    BY DEF Init
  <2>2. /\ status \in [Ends -> Statuses] /\ heard \in [Ends -> Nat] /\ quiet \in [Ends -> Nat]
        /\ staleFor \in [Ends -> 0..Grace] /\ due \in [Ends -> BOOLEAN]
    BY TwoEnds DEF Init, Statuses
  <2>3. /\ why \in [Ends -> {"no", "timeout", "local", "peer"}] /\ closes \in [Ends -> Nat]
        /\ lossy \in BOOLEAN /\ dead \in BOOLEAN
    BY DEF Init
  <2>4. pinged \in 0..Keepalive[I] /\ armed \in Off..Establish
    BY TwoEnds DEF Init, Off
  <2> QED  BY <2>1, <2>2, <2>3, <2>4 DEF TypeOK
<1>2. ClosedOnce /\ ClosedReasons /\ InGrace /\ Clocks
  BY TwoEnds DEF Init, ClosedOnce, ClosedReasons, InGrace, Clocks
<1> QED  BY <1>1, <1>2 DEF Base
-----------------------------------------------------------------------------
(* What a network in time brings with it.                                  *)

Course == Base /\ InTime /\ Calm /\ Path

\* The packet that comes next.
LEMMA First ==
  ASSUME NEW s \in Seq(LinkPackets), Len(s) # 0
  PROVE  s # <<>> /\ s[1] \in LinkPackets /\ Head(s) = s[1] /\ s[1].age \in 0..Delay
<1>1. s # <<>> /\ s[1] \in LinkPackets /\ Head(s) = s[1]
  OBVIOUS
<1> QED  BY <1>1 DEF LinkPackets

\* An attempt that is pending has only its own packets on the way, in time.
LEMMA RttPending ==
  ASSUME Course
  PROVE  /\ status[I] = "none" => On(I) = {} /\ On(R) = {} /\ status[R] = "none" /\ armed = Off
         /\ status[I] = "pending" =>
              /\ ~Up(R) /\ armed \in Nat \ {0}
              /\ \A p \in On(R) : p.kind = "request"
              /\ \A p \in On(I) : p.kind \in {"proof", "close"}
              /\ net[I] # <<>> => Head(net[I]).kind = "proof" /\ status[R] # "none"
              /\ net[R] # <<>> => Head(net[R]).kind = "request" /\ status[R] = "none"
<1>0. NetOK /\ net[I] \in Seq(LinkPackets) /\ net[R] \in Seq(LinkPackets)
  BY BaseIsTyped, TwoEnds DEF Course, NetOK
<1>a. armed \in Off..Establish /\ Establish \in Nat /\ Delay \in Nat /\ 2 * Delay < Establish /\ Off = -1
  BY BaseIsTyped, TwoEnds DEF Course, InTime, Off
<1>1. ASSUME status[I] = "none"
      PROVE  On(I) = {} /\ On(R) = {} /\ status[R] = "none" /\ armed = Off
  BY <1>1 DEF Course, Path, Begins, On
<1>2. ASSUME status[I] = "pending"
      PROVE  /\ ~Up(R) /\ armed \in Nat \ {0}
             /\ \A p \in On(R) : p.kind = "request"
             /\ \A p \in On(I) : p.kind \in {"proof", "close"}
             /\ net[I] # <<>> => Head(net[I]).kind = "proof" /\ status[R] # "none"
             /\ net[R] # <<>> => Head(net[R]).kind = "request" /\ status[R] = "none"
  <2>1. CASE /\ status[R] = "none" /\ net[I] = <<>> /\ Len(net[R]) = 1
             /\ net[R][1].kind = "request" /\ armed + net[R][1].age >= Establish
    <3>1. Head(net[R]) = net[R][1] /\ net[R][1].age \in 0..Delay
      BY <1>0, <2>1, First
    <3>2. On(I) = {} /\ On(R) = {net[R][1]}
      BY <2>1 DEF On
    <3>3. armed \in Nat \ {0}
      BY <1>a, <2>1, <3>1
    <3> QED  BY <2>1, <3>1, <3>2, <3>3 DEF Up
  <2>2. CASE /\ status[R] \in {"handshake", "closed"} /\ net[R] = <<>>
             /\ Len(net[I]) \in {1, 2}
             /\ net[I][1].kind = "proof" /\ armed + net[I][1].age + Delay >= Establish
             /\ Len(net[I]) = 2 => net[I][2].kind = "close" /\ status[R] = "closed"
    <3>1. Head(net[I]) = net[I][1] /\ net[I][1].age \in 0..Delay
      BY <1>0, <2>2, First
    <3>2. On(R) = {} /\ \A p \in On(I) : p.kind \in {"proof", "close"}
      BY <2>2 DEF On
    <3>3. armed \in Nat \ {0}
      BY <1>a, <2>2, <3>1
    <3> QED  BY <2>2, <3>1, <3>2, <3>3 DEF Up
  <2> QED  BY <1>2, <2>1, <2>2 DEF Course, Path, Begins
<1> QED  BY <1>1, <1>2

\* What a stale link's ping is answered with comes within the grace; an end that
\* has nothing to wait for has been heard since.
LEMMA StaleInTime ==
  ASSUME Course, status[I] = "stale"
  PROVE  /\ heard[I] <= staleFor[I] \/ staleFor[I] <= 2 * Delay
         /\ quiet[I] <= staleFor[I]
         /\ staleFor[I] >= Grace => heard[I] < StaleTime(I)
<1>1. /\ \A p \in On(I) \cup On(R) : p.age \in 0..Delay
      /\ ToI \subseteq On(I)
  BY BaseIsTyped, OnTyped, TwoEnds DEF Course, LinkPackets, ToI
<1>2. heard[I] <= staleFor[I] \/ \E p \in On(I) \cup On(R) : staleFor[I] <= Delay + p.age
  <2>1. CASE \E p \in ToI : staleFor[I] <= Delay + p.age
    BY <1>1, <2>1
  <2>2. CASE \E p \in On(R) : p.kind = "ping" /\ staleFor[I] <= p.age
    <3>1. PICK p \in On(R) : staleFor[I] <= p.age
      BY <2>2
    <3>2. staleFor[I] <= Delay + p.age
      BY <1>1, <3>1, BaseIsTyped, TwoEnds DEF Course
    <3> QED  BY <3>2
  <2> QED  BY <2>1, <2>2 DEF Course, Path, AnswerDue
<1>3. heard[I] <= staleFor[I] \/ staleFor[I] <= 2 * Delay
  BY <1>1, <1>2, BaseIsTyped, TwoEnds DEF Course
<1>4. quiet[I] <= staleFor[I]
  BY DEF Course, Path, AnswerDue
<1> QED  BY <1>3, <1>4, BaseIsTyped, TwoEnds DEF Course, InTime

\* Longest is the longest of the two waits, and a tick.
LEMMA LongestIs ==
  /\ Longest \in Nat /\ Keepalive[I] + 1 <= Longest /\ Grace + 1 <= Longest
BY TwoEnds DEF Longest

\* The responder's link is never stale, and it was never without a word for as
\* long as that takes.
LEMMA HeardInTime ==
  ASSUME Course, Up(R)
  PROVE  /\ status[R] = "active" /\ heard[R] \in Nat
         /\ heard[R] <= Longest + Delay /\ heard[R] < StaleTime(R)
         /\ ~(\E p \in ToR : heard[R] <= Longest + p.age) => heard[R] <= Longest
<1>1. /\ heard[R] \in Nat /\ quiet[I] \in Nat /\ quiet[I] <= Keepalive[I]
      /\ staleFor[I] \in 0..Grace /\ Delay \in Nat
  BY BaseIsTyped, ClosedQuiet, TwoEnds DEF Course
<1>2. \A p \in ToR : p.age \in 0..Delay
  BY BaseIsTyped, OnTyped DEF Course, LinkPackets, ToR
<1>3. status[R] = "active"
  BY DEF Course, Path, PingDue
<1>4. (\E p \in ToR : heard[R] <= Longest + p.age) \/ heard[R] <= Longest
  <2>1. CASE Up(I) /\ heard[R] <= quiet[I]
    BY <1>1, <2>1, LongestIs, TwoEnds
  <2>2. CASE heard[R] <= staleFor[I]
    BY <1>1, <2>2, LongestIs, TwoEnds
  <2>3. CASE heard[R] < Longest \/ heard[R] = Longest
    BY <1>1, <2>3, LongestIs
  <2> QED  BY <2>1, <2>2, <2>3 DEF Course, Path, PingDue
<1>5. heard[R] <= Longest + Delay
  <2>1. CASE \E p \in ToR : heard[R] <= Longest + p.age
    BY <1>1, <1>2, <2>1, LongestIs
  <2>2. CASE heard[R] <= Longest
    BY <1>1, <2>2, LongestIs
  <2> QED  BY <1>4, <2>1, <2>2
<1>6. heard[R] < StaleTime(R)
  BY <1>1, <1>5, LongestIs, TwoEnds DEF Course, InTime
<1> QED  BY <1>1, <1>3, <1>4, <1>5, <1>6

\* What an end that is up has of the other.
LEMMA UpOrder ==
  ASSUME Course
  PROVE  /\ status[I] # "handshake" /\ status[R] # "pending"
         /\ Coming(I, "close") => status[R] = "closed"
         /\ Coming(R, "close") => status[I] = "closed"
         /\ Coming(R, "rtt") => status[R] # "none"
         /\ Up(I) => /\ status[R] # "none"
                     /\ status[R] = "handshake" => Coming(R, "rtt")
                     /\ status[R] = "closed" => Coming(I, "close")
         /\ status[I] = "closed" /\ status[R] # "closed" /\ (Up(R) \/ Coming(R, "rtt"))
              => Coming(R, "close")
         /\ Up(R) => Up(I) \/ status[I] = "closed"
BY DEF Course, Path, Ordered, Begins

-----------------------------------------------------------------------------
(* One lemma per action: what a network in time keeps.                     *)

\* establish(): the attempt begins.
LEMMA RequestPath ==
  ASSUME Course, Request
  PROVE  Path'
<1>0. NetOK
  BY BaseIsTyped DEF Course
<1>1. /\ status[I] = "none" /\ On(I) = {} /\ On(R) = {} /\ status[R] = "none"
      /\ net[I] = <<>> /\ net[R] = <<>>
  BY RttPending DEF Request, Course, Path, Begins
<1>2. /\ On(R)' = On(R) \cup {[kind |-> "request", age |-> 0]} /\ On(I)' = On(I) /\ net'[I] = net[I]
      /\ net'[R] = Append(net[R], [kind |-> "request", age |-> 0])
  BY <1>0, Transmits, TwoEnds DEF Request, Kinds
<1>3. status' = [status EXCEPT ![I] = "pending"] /\ armed' = Establish
  BY DEF Request
<1>4. status'[I] = "pending" /\ status'[R] = "none"
  BY <1>1, <1>3, BaseIsTyped, TwoEnds DEF Course
<1>5. Begins'
  <2>1. Len(net'[R]) = 1 /\ net'[R][1] = [kind |-> "request", age |-> 0]
    BY <1>1, <1>2
  <2> QED  BY <1>1, <1>2, <1>3, <1>4, <2>1, TwoEnds DEF Begins
<1>6. Ordered'
  BY <1>1, <1>2, <1>4 DEF Ordered, Coming, Up
<1> QED  BY <1>4, <1>5, <1>6 DEF Path, RttFirst, AnswerDue, PingDue, Up

\* accept(): its proof is on the way.
LEMMA AcceptPath ==
  ASSUME Course, Accept
  PROVE  Path'
<1>0. NetOK /\ net[R] # <<>> /\ Head(net[R]).kind = "request" /\ status[R] = "none"
  BY BaseIsTyped DEF Course, Accept
<1> DEFINE x == [kind |-> "proof", age |-> 0]
<1>1. /\ On(R) = {Head(net[R])} \cup On(R)' /\ net'[R] = Tail(net[R])
      /\ On(I)' = On(I) \cup {x} /\ net'[I] = Append(net[I], x)
  BY <1>0, Answers, TwoEnds DEF Accept, Kinds
<1>2. /\ status' = [status EXCEPT ![R] = "handshake"] /\ armed' = armed
  BY DEF Accept
<1>3. status'[I] = status[I] /\ status'[R] = "handshake" /\ x.kind = "proof" /\ x.age = 0
  BY <1>2, BaseIsTyped, TwoEnds DEF Course
<1>4. status[I] # "none" /\ ~Up(I) /\ ~Up(R)
  BY <1>0, <1>1, RttPending, UpOrder DEF Up
<1>5. Begins'
  <2>1. ASSUME status[I] = "pending"
        PROVE  /\ net'[R] = <<>> /\ Len(net'[I]) = 1
               /\ net'[I][1].kind = "proof" /\ armed + net'[I][1].age + Delay >= Establish
    <3>1. net[I] = <<>> /\ Len(net[R]) = 1 /\ armed + net[R][1].age >= Establish
      BY <1>0, <2>1 DEF Course, Path, Begins
    <3>2. net[R] \in Seq(LinkPackets) /\ net[R][1].age \in 0..Delay
      BY <1>0, <3>1, First, TwoEnds DEF NetOK
    <3>3. net'[R] = <<>> /\ Len(net'[I]) = 1 /\ net'[I][1] = x
      <4>1. Tail(net[R]) = <<>>
        <5>1. Tail(net[R]) \in Seq(LinkPackets) /\ Len(Tail(net[R])) = 0
          BY <3>1, <3>2
        <5>2. \A s \in Seq(LinkPackets) : Len(s) = 0 => s = <<>>
          OBVIOUS
        <5> QED  BY <5>1, <5>2
      <4>2. Len(Append(<<>>, x)) = 1 /\ Append(<<>>, x)[1] = x
        OBVIOUS
      <4> HIDE DEF x
      <4> QED  BY <1>1, <3>1, <4>1, <4>2
    <3>4. armed + 0 + Delay >= Establish
      <4>1. armed \in Off..Establish /\ Off = -1 /\ Establish \in Nat /\ Delay \in Nat
        BY BaseIsTyped, TwoEnds DEF Course, Off
      <4> QED  BY <3>1, <3>2, <4>1
    <3> QED  BY <1>3, <3>3, <3>4
  <2> QED  BY <1>2, <1>3, <1>4, <2>1, UpOrder DEF Begins
<1>6. Ordered'
  BY <1>0, <1>1, <1>3, <1>4, UpOrder DEF Ordered, Coming, Up
<1> QED  BY <1>3, <1>4, <1>5, <1>6 DEF Path, RttFirst, AnswerDue, PingDue, Up

\* validateProof(): the link is up, and its RTT packet on the way.
LEMMA ProvedPath ==
  ASSUME Course, Proved
  PROVE  Path'
<1>0. NetOK /\ net[I] # <<>> /\ Head(net[I]).kind = "proof" /\ status[I] = "pending"
  BY BaseIsTyped DEF Course, Proved
<1> DEFINE x == [kind |-> "rtt", age |-> 0]
<1>1. /\ On(I) = {Head(net[I])} \cup On(I)' /\ net'[I] = Tail(net[I])
      /\ On(R)' = On(R) \cup {x}
  BY <1>0, Answers, TwoEnds DEF Proved, Kinds
<1>2. /\ status' = [status EXCEPT ![I] = "active"] /\ heard' = [heard EXCEPT ![I] = 0]
      /\ quiet' = [quiet EXCEPT ![I] = 0]
  BY DEF Proved, Answer
<1>3. /\ status'[I] = "active" /\ status'[R] = status[R] /\ x.kind = "rtt" /\ x.age = 0
      /\ heard'[I] = 0 /\ quiet'[R] = quiet[R]
  BY <1>2, BaseIsTyped, TwoEnds DEF Course
<1>4. ~Up(R) /\ status[R] \in {"handshake", "closed"} /\ \A p \in On(R) : p.kind = "request"
  BY <1>0, RttPending DEF Course, Path, Begins
<1>5. status[R] = "closed" => \E p \in On(I)' : p.kind = "close"
  <2>1. ASSUME status[R] = "closed" PROVE \E p \in On(I) : p.kind = "close"
    <3>1. Len(net[I]) = 2 /\ net[I][2].kind = "close"
      BY <1>0, <2>1 DEF Course, Path, Begins
    <3> QED  BY <3>1 DEF On
  <2> QED  BY <1>0, <1>1, <2>1
<1>6. Begins'
  BY <1>3 DEF Begins
<1>7. Ordered'
  BY <1>1, <1>3, <1>4, <1>5, UpOrder DEF Ordered, Coming, Up
<1>8. RttFirst'
  BY <1>1, <1>3, <1>4 DEF RttFirst
<1>9. AnswerDue' /\ PingDue'
  BY <1>3, <1>4, BaseIsTyped DEF AnswerDue, PingDue, Up, Course
<1> QED  BY <1>6, <1>7, <1>8, <1>9 DEF Path

\* The responder has just been heard from.
LEMMA ResponderHeard ==
  ASSUME Course, heard'[R] = 0, status'[I] = status[I], Up(R)' => status'[R] = "active",
         quiet'[I] = quiet[I], On(R)' \subseteq On(R),
         Up(R)' => Up(I) \/ (\E p \in On(R)' : p.kind = "close")
  PROVE  PingDue'
<1>1. CASE Up(I)
  BY <1>1, BaseIsTyped DEF PingDue, Up, Course
<1>2. CASE \E p \in On(R)' : p.kind = "close"
  <2>1. PICK p \in On(R)' : p.kind = "close"
    BY <1>2
  <2>2. p \in ToR' /\ p.age \in 0..Delay
    BY <2>1, BaseIsTyped, OnTyped DEF Course, ToR, LinkPackets
  <2>3. 0 <= Longest + p.age
    BY <2>2, LongestIs, TwoEnds
  <2> QED  BY <2>2, <2>3 DEF PingDue
<1> QED  BY <1>1, <1>2 DEF PingDue

\* onLinkRequestRtt(): the responder is up, too.
LEMMA RttPath ==
  ASSUME Course, Rtt
  PROVE  Path'
<1>0. NetOK /\ net[R] # <<>> /\ Head(net[R]).kind = "rtt" /\ status[R] \notin {"none", "closed"}
  BY BaseIsTyped DEF Course, Rtt, Receive
<1>1. /\ On(R) = {Head(net[R])} \cup On(R)' /\ On(I)' = On(I)
  BY <1>0, Takes, TwoEnds DEF Rtt
<1>2. /\ status' = [status EXCEPT ![R] = "active"] /\ heard' = [heard EXCEPT ![R] = 0]
      /\ UNCHANGED <<quiet, staleFor, due>>
  BY DEF Rtt
<1>3. /\ status'[I] = status[I] /\ status'[R] = "active"
      /\ heard'[I] = heard[I] /\ heard'[R] = 0
  BY <1>2, BaseIsTyped, TwoEnds DEF Course
<1>4. status[I] \notin {"none", "pending", "handshake"} /\ Coming(R, "rtt")
  BY <1>0, <1>1, RttPending, UpOrder DEF Coming
<1>5. Up(I) \/ (status[I] = "closed" /\ \E p \in On(R)' : p.kind = "close")
  BY <1>0, <1>1, <1>4, UpOrder, BaseIsTyped DEF Up, Statuses, Course, Coming
<1>6. Begins'
  BY <1>3, <1>4 DEF Begins
<1>7. Ordered'
  BY <1>0, <1>1, <1>3, <1>5, UpOrder DEF Ordered, Coming, Up
<1>8. RttFirst'
  BY <1>1, <1>3 DEF RttFirst, Course, Path, Up
<1>9. AnswerDue'
  BY <1>0, <1>1, <1>2, <1>3 DEF AnswerDue, ToI, Course, Path, Up
<1>10. PingDue'
  BY <1>0, <1>1, <1>2, <1>3, <1>5, ResponderHeard
<1> QED  BY <1>6, <1>7, <1>8, <1>9, <1>10 DEF Path

\* The initiator sends: the responder will hear of it.
LEMMA InitiatorSends ==
  ASSUME Course, NetOK', NEW x \in LinkPackets, x.kind \in {"ping", "data", "packetproof", "close"},
         x.age = 0, On(R)' = On(R) \cup {x}, heard'[R] = heard[R], status'[R] = status[R]
  PROVE  PingDue'
<1>1. ToR' = ToR \cup {x} /\ (Up(R)' <=> Up(R))
  BY DEF ToR, Up
<1>2. ASSUME Up(R) PROVE \E p \in ToR' : heard[R] <= Longest + p.age
  <2>1. CASE \E p \in ToR : heard[R] <= Longest + p.age
    BY <1>1, <2>1
  <2>2. CASE heard[R] <= Longest
    <3>1. heard[R] <= Longest + x.age
      BY <2>2, LongestIs
    <3> QED  BY <1>1, <3>1
  <2> QED  BY <1>2, <2>1, <2>2, HeardInTime
<1> QED  BY <1>1, <1>2, HeardInTime DEF PingDue

\* The responder hears a ping, data or the proof of its own; it may answer.
LEMMA ResponderHears ==
  ASSUME Course, NetOK', net[R] # <<>>, Head(net[R]).kind \in {"ping", "data", "packetproof"},
         status[R] \notin {"none", "closed"}, UNCHANGED status, heard' = [heard EXCEPT ![R] = 0],
         On(R) = {Head(net[R])} \cup On(R)', staleFor'[I] = staleFor[I],
         NEW answer \in {"pong", "packetproof"},
         \/ On(I)' = On(I) /\ UNCHANGED quiet
            /\ (Head(net[R]).kind = "ping" => status[R] = "handshake" \/ ~(Keepalive[I] <= quiet[R]))
         \/ On(I)' = On(I) \cup {[kind |-> answer, age |-> 0]} /\ quiet' = [quiet EXCEPT ![R] = 0]
  PROVE  Path'
<1>1. /\ heard'[I] = heard[I] /\ heard'[R] = 0 /\ quiet'[I] = quiet[I]
  BY BaseIsTyped, TwoEnds DEF Course
<1>2. status[I] \notin {"none", "pending", "handshake"}
  BY RttPending, UpOrder
<1>3. Begins'
  BY <1>2 DEF Begins
<1>4. (Up(R)' <=> Up(R)) /\ (Up(I)' <=> Up(I))
  BY DEF Up
<1>5. Ordered'
  BY <1>1, <1>4, UpOrder DEF Ordered, Coming
<1>6. RttFirst'
  BY <1>1, <1>4 DEF RttFirst, Course, Path
<1>7. AnswerDue'
  <2>1. CASE On(I)' = On(I) /\ UNCHANGED quiet
            /\ (Head(net[R]).kind = "ping" => status[R] = "handshake" \/ ~(Keepalive[I] <= quiet[R]))
    BY <1>1, <1>4, <2>1 DEF AnswerDue, ToI, Course, Path, Up
  <2>2. CASE On(I)' = On(I) \cup {[kind |-> answer, age |-> 0]} /\ quiet' = [quiet EXCEPT ![R] = 0]
    <3> DEFINE x == [kind |-> answer, age |-> 0]
    <3>1. x \in ToI' /\ x.age = 0 /\ ToI \subseteq ToI'
      BY <2>2 DEF ToI
    <3>2. \A p \in On(R) : p.age \in 0..Delay
      BY BaseIsTyped, OnTyped DEF Course, LinkPackets
    <3>3. ASSUME NEW p \in On(R), staleFor[I] <= p.age PROVE staleFor[I] <= Delay + x.age
      <4>1. /\ x.age = 0 /\ p.age \in 0..Delay /\ Delay \in Nat
            /\ staleFor[I] \in Int /\ staleFor[I] <= p.age
        BY SMTT(30), <3>1, <3>2, <3>3, BaseIsTyped, TwoEnds DEF Course
      <4> HIDE DEF x
      <4> QED  BY <4>1
    <3> HIDE DEF x
    <3> QED  BY <1>1, <1>4, <3>1, <3>3 DEF AnswerDue, Course, Path
  <2> QED  BY <2>1, <2>2
<1>8. PingDue'
  <2>1. Up(R)' => status'[R] = "active"
    BY <1>4, HeardInTime
  <2>2. Up(R)' => Up(I) \/ \E p \in On(R)' : p.kind = "close"
    BY <1>4, UpOrder DEF Coming, Up
  <2>3. On(R)' \subseteq On(R)
    OBVIOUS
  <2> QED  BY <1>1, <2>1, <2>2, <2>3, ResponderHeard
<1> QED  BY <1>3, <1>5, <1>6, <1>7, <1>8 DEF Path

\* What the initiator has just sent or heard leaves of what it owes.
LEMMA InitiatorHeard ==
  ASSUME Course, Up(I), heard'[I] = 0, status'[R] = status[R], status'[I] \in {"active", "stale"},
         status'[I] = "stale" => UNCHANGED <<staleFor[I], quiet[I], status[I]>>,
         \A kind \in {"close", "rtt"} : Coming(R, kind)' <=> Coming(R, kind),
         \A p \in On(R)' : p.age \in 0..Delay, NEW x \in LinkPackets, x.kind # "close",
         On(I) = {x} \cup On(I)', quiet'[R] = quiet[R]
  PROVE  Begins' /\ Ordered' /\ RttFirst' /\ AnswerDue'
<1>1. Up(I)' /\ (Up(R)' <=> Up(R)) /\ (Coming(I, "close")' <=> Coming(I, "close"))
  BY DEF Up, Coming
<1>2. Begins'
  BY DEF Begins
<1>3. Ordered'
  BY <1>1, UpOrder DEF Ordered, Up
<1>4. RttFirst'
  BY DEF RttFirst
<1>5. AnswerDue'
  <2>1. quiet[R] \in Nat /\ staleFor[I] \in Nat /\ (status[I] = "stale" => quiet[I] <= staleFor[I])
    BY StaleInTime, BaseIsTyped DEF Course
  <2> QED  BY <2>1 DEF AnswerDue
<1> QED  BY <1>2, <1>3, <1>4, <1>5

\* The initiator hears a pong or data; it may prove what it took.
LEMMA InitiatorHears ==
  ASSUME Course, NetOK', net[I] # <<>>, Head(net[I]).kind \in {"pong", "data"},
         Up(I), HadInbound(I), On(I) = {Head(net[I])} \cup On(I)', UNCHANGED due,
         \/ On(R)' = On(R) /\ UNCHANGED quiet
         \/ /\ On(R)' = On(R) \cup {[kind |-> "packetproof", age |-> 0]}
            /\ quiet' = [quiet EXCEPT ![I] = 0]
  PROVE  Path'
<1> DEFINE x == [kind |-> "packetproof", age |-> 0]
<1>1. /\ status'[R] = status[R] /\ status'[I] = "active"
      /\ heard'[R] = heard[R] /\ heard'[I] = 0 /\ quiet'[R] = quiet[R]
  BY BaseIsTyped, TwoEnds DEF Course, HadInbound, Up
<1>2. \A kind \in {"close", "rtt"} : Coming(R, kind)' <=> Coming(R, kind)
  BY DEF Coming
<1>3. x \in LinkPackets /\ x.kind = "packetproof" /\ x.age = 0
  BY TwoEnds DEF LinkPackets, Kinds
<1>4. Head(net[I]) \in LinkPackets
  BY BaseIsTyped, OnTyped DEF Course
<1>5. \A p \in On(R)' : p.age \in 0..Delay
  <2>1. On(R)' \subseteq LinkPackets
    BY TwoEnds DEF NetOK, On
  <2> QED  BY <2>1 DEF LinkPackets
<1> HIDE DEF x
<1>6. Begins' /\ Ordered' /\ RttFirst' /\ AnswerDue'
  BY <1>1, <1>2, <1>4, <1>5, InitiatorHeard
<1>7. PingDue'
  <2>1. CASE On(R)' = On(R) /\ UNCHANGED quiet
    <3>1. ToR' = ToR /\ (Up(R)' <=> Up(R)) /\ Up(I)'
      BY <1>1, <2>1 DEF ToR, Up
    <3>2. heard[R] <= staleFor[I] => heard[R] < Longest
      BY BaseIsTyped, LongestIs, TwoEnds DEF Course
    <3> QED  BY <1>1, <2>1, <3>1, <3>2 DEF PingDue, Course, Path
  <2>2. CASE On(R)' = On(R) \cup {x}
    BY <1>1, <1>3, <2>2, InitiatorSends
  <2> QED  BY <2>1, <2>2 DEF x
<1> QED  BY <1>6, <1>7 DEF Path

\* Pings, pongs and data arrive.
LEMMA TrafficPath ==
  ASSUME Course, Ping \/ Pong \/ \E e \in Ends : Data(e)
  PROVE  Path'
<1>0. NetOK
  BY BaseIsTyped DEF Course
<1>a. ASSUME status[R] \notin {"none", "closed"}, HadInbound(R)
      PROVE  UNCHANGED status /\ heard' = [heard EXCEPT ![R] = 0] /\ staleFor'[I] = staleFor[I]
  <2>1. status[R] # "stale"
    BY HeardInTime DEF Up
  <2> QED  BY <1>a, <2>1, BaseIsTyped, TwoEnds DEF HadInbound, Course
<1>1. CASE Ping
  <2>1. /\ net[R] # <<>> /\ Head(net[R]).kind = "ping" /\ status[R] \notin {"none", "closed"}
        /\ HadInbound(R)
    BY <1>1 DEF Ping, Receive
  <2>2. CASE Pongs /\ Answer(R, "pong")
    <3>1. /\ NetOK' /\ On(R) = {Head(net[R])} \cup On(R)'
          /\ On(I)' = On(I) \cup {[kind |-> "pong", age |-> 0]}
      BY <1>0, <2>1, <2>2, Answers, TwoEnds DEF Kinds
    <3>2. quiet' = [quiet EXCEPT ![R] = 0]
      BY <2>2 DEF Answer
    <3> QED  BY <1>a, <2>1, <3>1, <3>2, ResponderHears
  <2>3. CASE ~Pongs /\ Take(R) /\ UNCHANGED quiet
    <3>1. NetOK' /\ On(R) = {Head(net[R])} \cup On(R)' /\ On(I)' = On(I)
      BY <1>0, <2>1, <2>3, Takes, TwoEnds
    <3>2. status[R] = "handshake" \/ ~(Keepalive[I] <= quiet[R])
      BY <2>3, BaseIsTyped, TwoEnds DEF Pongs, Course
    <3> QED  BY <1>a, <2>1, <2>3, <3>1, <3>2, ResponderHears
  <2> QED  BY <1>1, <2>2, <2>3 DEF Ping
<1>2. CASE Pong
  <2>1. /\ net[I] # <<>> /\ HadInbound(I) /\ UNCHANGED <<quiet, due>>
        /\ Take(I) /\ Head(net[I]).kind = "pong" /\ Up(I)
    BY <1>2 DEF Pong, Receive
  <2>2. NetOK' /\ On(I) = {Head(net[I])} \cup On(I)' /\ On(R)' = On(R)
    BY <1>0, <2>1, Takes, TwoEnds
  <2> QED  BY <2>1, <2>2, InitiatorHears
<1>3. CASE Data(I)
  <2>1. /\ net[I] # <<>> /\ HadInbound(I) /\ UNCHANGED due
        /\ Head(net[I]).kind = "data" /\ status[I] \notin {"none", "pending", "closed"}
    BY <1>3 DEF Data, Receive
  <2>2. Up(I)
    BY <2>1, UpOrder, BaseIsTyped DEF Up, Statuses, Course
  <2>3. CASE Answer(I, "packetproof")
    <3>1. /\ NetOK' /\ On(I) = {Head(net[I])} \cup On(I)'
          /\ On(R)' = On(R) \cup {[kind |-> "packetproof", age |-> 0]}
      BY <1>0, <2>1, <2>3, Answers, TwoEnds DEF Kinds
    <3>2. quiet' = [quiet EXCEPT ![I] = 0]
      BY <2>3 DEF Answer
    <3> QED  BY <2>1, <2>2, <3>1, <3>2, InitiatorHears
  <2>4. CASE Take(I) /\ UNCHANGED quiet
    <3>1. NetOK' /\ On(I) = {Head(net[I])} \cup On(I)' /\ On(R)' = On(R)
      BY <1>0, <2>1, <2>4, Takes, TwoEnds
    <3> QED  BY <2>1, <2>2, <2>4, <3>1, InitiatorHears
  <2> QED  BY <1>3, <2>3, <2>4 DEF Data
<1>4. CASE Data(R)
  <2>1. /\ net[R] # <<>> /\ HadInbound(R)
        /\ Head(net[R]).kind = "data" /\ status[R] \notin {"none", "closed"}
    BY <1>4 DEF Data, Receive
  <2>2. CASE Answer(R, "packetproof")
    <3>1. /\ NetOK' /\ On(R) = {Head(net[R])} \cup On(R)'
          /\ On(I)' = On(I) \cup {[kind |-> "packetproof", age |-> 0]}
      BY <1>0, <2>1, <2>2, Answers, TwoEnds DEF Kinds
    <3>2. quiet' = [quiet EXCEPT ![R] = 0]
      BY <2>2 DEF Answer
    <3> QED  BY <1>a, <2>1, <3>1, <3>2, ResponderHears
  <2>3. CASE Take(R) /\ UNCHANGED quiet
    <3>1. NetOK' /\ On(R) = {Head(net[R])} \cup On(R)' /\ On(I)' = On(I)
      BY <1>0, <2>1, <2>3, Takes, TwoEnds
    <3> QED  BY <1>a, <2>1, <2>3, <3>1, ResponderHears
  <2> QED  BY <1>4, <2>2, <2>3 DEF Data
<1> QED  BY <1>1, <1>2, <1>3, <1>4, TwoEnds

\* onPacketProof(), at either end: a stale link stays so, but was heard.
LEMMA PacketProofPath ==
  ASSUME Course, NEW e \in Ends, PacketProof(e)
  PROVE  Path'
<1>1. /\ NetOK /\ net[e] # <<>> /\ Head(net[e]).kind = "packetproof" /\ Take(e)
      /\ status[e] \notin {"none", "closed"} /\ heard' = [heard EXCEPT ![e] = 0]
      /\ UNCHANGED <<status, quiet, staleFor, due>>
  BY BaseIsTyped DEF Course, PacketProof, Receive
<1>2. CASE e = I
  <2>1. NetOK' /\ On(I) = {Head(net[I])} \cup On(I)' /\ On(R)' = On(R) /\ Head(net[I]) \in LinkPackets
    BY <1>1, <1>2, Takes, TwoEnds
  <2>2. Up(I)
    <3>1. status[I] # "pending"
      BY <1>1, <1>2, <2>1, RttPending
    <3> QED  BY <1>1, <1>2, <3>1, UpOrder, BaseIsTyped DEF Up, Statuses, Course
  <2>3. heard'[I] = 0 /\ heard'[R] = heard[R]
    BY <1>1, <1>2, BaseIsTyped, TwoEnds DEF Course
  <2>4. \A p \in On(R)' : p.age \in 0..Delay
    BY <1>1, <2>1, OnTyped, TwoEnds DEF LinkPackets
  <2>5. \A kind \in {"close", "rtt"} : Coming(R, kind)' <=> Coming(R, kind)
    BY <2>1 DEF Coming
  <2>6. Begins' /\ Ordered' /\ RttFirst' /\ AnswerDue'
    BY <1>1, <1>2, <2>1, <2>2, <2>3, <2>4, <2>5, InitiatorHeard DEF Up
  <2>7. PingDue'
    BY <1>1, <2>1, <2>3 DEF PingDue, ToR, Up, Course, Path
  <2> QED  BY <2>6, <2>7 DEF Path
<1>3. CASE e = R
  <2>1. NetOK' /\ On(R) = {Head(net[R])} \cup On(R)' /\ On(I)' = On(I)
    BY <1>1, <1>3, Takes, TwoEnds
  <2> QED  BY <1>1, <1>3, <2>1, ResponderHears
<1> QED  BY <1>2, <1>3, TwoEnds

\* LINKCLOSE arrives: the one that sent it has closed.
LEMMA LinkClosePath ==
  ASSUME Course, NEW e \in Ends, LinkClose(e)
  PROVE  Path'
<1>0. /\ NetOK /\ net[e] # <<>> /\ Head(net[e]).kind = "close" /\ Take(e)
      /\ status[e] \notin {"none", "pending", "closed"} /\ status' = [status EXCEPT ![e] = "closed"]
  BY BaseIsTyped DEF Course, LinkClose, Receive, Close
<1>1. CASE e = I
  <2>1. On(I) = {Head(net[I])} \cup On(I)' /\ On(R)' = On(R)
    BY <1>0, <1>1, Takes, TwoEnds
  <2>2. status[R] = "closed" /\ status'[R] = "closed" /\ status'[I] = "closed"
    BY <1>0, <1>1, <2>1, UpOrder, BaseIsTyped, TwoEnds DEF Coming, Course
  <2>3. Ordered'
    BY <2>2 DEF Ordered, Up
  <2> QED  BY <2>2, <2>3 DEF Path, Begins, RttFirst, AnswerDue, PingDue, Up
<1>2. CASE e = R
  <2>1. On(R) = {Head(net[R])} \cup On(R)' /\ On(I)' = On(I)
    BY <1>0, <1>2, Takes, TwoEnds
  <2>2. status[I] = "closed" /\ status'[R] = "closed" /\ status'[I] = "closed"
    BY <1>0, <1>2, <2>1, UpOrder, BaseIsTyped, TwoEnds DEF Coming, Course
  <2>3. Ordered'
    BY <2>2 DEF Ordered, Up
  <2> QED  BY <2>2, <2>3 DEF Path, Begins, RttFirst, AnswerDue, PingDue, Up
<1> QED  BY <1>1, <1>2, TwoEnds

\* A packet nobody is there for.
LEMMA DroppedPath ==
  ASSUME Course, NEW e \in Ends, Dropped(e)
  PROVE  Path'
<1>0. /\ NetOK /\ net[e] # <<>> /\ Take(e) /\ ~Wanted(e, Head(net[e]).kind) /\ ~dead
      /\ UNCHANGED <<status, heard, quiet, pinged, staleFor, armed, due>>
  BY BaseIsTyped DEF Course, Dropped, clocks, Calm
<1>1. UNCHANGED <<Up(I), Up(R)>>
  BY <1>0 DEF Up
<1>2. CASE e = I
  <2>1. On(I) = {Head(net[I])} \cup On(I)' /\ On(R)' = On(R) /\ net'[R] = net[R]
    BY <1>0, <1>2, Takes, TwoEnds
  <2>2. status[I] \notin {"none", "pending"}
    <3>1. status[I] # "none"
      BY <2>1, RttPending
    <3>2. ~(status[I] = "pending" /\ Head(net[I]).kind = "proof")
      BY <1>0, <1>2, TwoEnds DEF Wanted
    <3> QED  BY <1>0, <1>2, <3>1, <3>2, RttPending
  <2>3. Up(I) => Head(net[I]).kind \notin {"pong", "data", "packetproof", "close"}
    BY <1>0, <1>2, TwoEnds DEF Wanted
  <2>4. Up(I) => ToI' = ToI /\ (Coming(I, "close")' <=> Coming(I, "close"))
    BY <2>1, <2>3 DEF ToI, Coming
  <2>5. Coming(I, "close")' => Coming(I, "close")
    BY <2>1 DEF Coming
  <2>6. ToR' = ToR /\ UNCHANGED <<Coming(R, "close"), Coming(R, "rtt")>>
    BY <2>1 DEF ToR, Coming
  <2>7. Begins'
    BY <1>0, <2>2, UpOrder DEF Begins
  <2>8. Ordered'
    BY <1>0, <1>1, <2>4, <2>5, <2>6 DEF Ordered, Course, Path
  <2>9. RttFirst' /\ AnswerDue' /\ PingDue'
    BY <1>0, <1>1, <2>1, <2>4, <2>6 DEF RttFirst, AnswerDue, PingDue, Course, Path, Up
  <2> QED  BY <2>7, <2>8, <2>9 DEF Path
<1>3. CASE e = R
  <2>1. On(R) = {Head(net[R])} \cup On(R)' /\ On(I)' = On(I) /\ net'[I] = net[I]
    BY <1>0, <1>3, Takes, TwoEnds
  <2>2. status[I] \notin {"none", "pending"}
    <3>1. status[I] # "none"
      BY <2>1, RttPending
    <3>2. ~(status[R] = "none" /\ Head(net[R]).kind = "request")
      BY <1>0, <1>3, TwoEnds DEF Wanted
    <3> QED  BY <1>0, <1>3, <3>1, <3>2, RttPending
  <2>3. status[R] \notin {"none", "closed"} => Head(net[R]).kind \notin {"rtt", "ping", "data", "packetproof", "close"}
    BY <1>0, <1>3, TwoEnds DEF Wanted
  <2>4. status[R] \notin {"none", "closed"} =>
          /\ ToR' = ToR /\ \A p \in On(R) : p.kind = "ping" => p \in On(R)'
          /\ UNCHANGED <<Coming(R, "close"), Coming(R, "rtt")>>
    BY <2>1, <2>3 DEF ToR, Coming
  <2>5. (Coming(R, "close")' => Coming(R, "close")) /\ (Coming(R, "rtt")' => Coming(R, "rtt"))
    BY <2>1 DEF Coming
  <2>6. ToI' = ToI /\ UNCHANGED Coming(I, "close")
    BY <2>1 DEF ToI, Coming
  <2>7. Begins'
    BY <1>0, <2>2, UpOrder DEF Begins
  <2>8. Ordered'
    <3>1. CASE status[R] \in {"none", "closed"}
      <4>1. ~Up(R) /\ status'[R] = status[R] /\ status'[I] = status[I] /\ ~Up(R)' /\ (Up(I)' <=> Up(I))
        BY <1>0, <3>1 DEF Up
      <4>2. (Coming(R, "close")' => status[I] = "closed") /\ (Coming(R, "rtt")' => status[R] # "none")
        BY <2>5, UpOrder
      <4>3. Coming(I, "close")' = Coming(I, "close")
        BY <2>6
      <4>4. status[R] = "none" => ~Coming(R, "rtt")'
        BY <4>2
      <4> QED  BY <3>1, <4>1, <4>2, <4>3, <4>4, UpOrder DEF Ordered
    <3>2. CASE status[R] \notin {"none", "closed"}
      <4>1. /\ Coming(R, "close")' = Coming(R, "close") /\ Coming(R, "rtt")' = Coming(R, "rtt")
            /\ Coming(I, "close")' = Coming(I, "close")
        BY <2>4, <2>6, <3>2
      <4> QED  BY <1>0, <1>1, <4>1 DEF Ordered, Course, Path
    <3> QED  BY <3>1, <3>2
  <2>9. RttFirst'
    BY <1>0, <1>1, <2>1 DEF RttFirst, Course, Path
  <2>10. AnswerDue' /\ PingDue'
    BY <1>0, <1>1, <2>4, <2>6 DEF AnswerDue, PingDue, Course, Path, Up
  <2> QED  BY <2>7, <2>8, <2>9, <2>10 DEF Path
<1> QED  BY <1>2, <1>3, TwoEnds

\* The responder sends: the initiator will hear of it, within its grace.
LEMMA ResponderSends ==
  ASSUME Course, NEW x \in LinkPackets, x.kind \in {"data", "close"}, x.age = 0,
         On(I)' = On(I) \cup {x}, status'[I] = status[I],
         heard'[I] = heard[I], quiet'[I] = quiet[I], staleFor'[I] = staleFor[I]
  PROVE  AnswerDue'
<1>1. ToI' = ToI \cup {x} /\ (Up(I)' <=> Up(I))
  BY DEF ToI, Up
<1>2. \A p \in On(R) : p.age \in 0..Delay
  BY BaseIsTyped, OnTyped DEF Course, LinkPackets
<1>3. ASSUME status[I] = "stale" PROVE heard[I] <= staleFor[I] \/ \E p \in ToI' : staleFor[I] <= Delay + p.age
  <2>1. CASE \E p \in ToI : staleFor[I] <= Delay + p.age
    BY <1>1, <2>1
  <2>2. CASE \E p \in On(R) : staleFor[I] <= p.age
    <3>1. staleFor[I] <= Delay + x.age
      BY <1>2, <2>2, BaseIsTyped, TwoEnds DEF Course
    <3> QED  BY <1>1, <3>1
  <2> QED  BY <1>3, <2>1, <2>2 DEF Course, Path, AnswerDue
<1> QED  BY <1>1, <1>3 DEF AnswerDue, Course, Path

\* send(), at either end.
LEMMA LinkSendPath ==
  ASSUME Course, NEW e \in Ends, LinkSend(e)
  PROVE  Path'
<1> DEFINE x == [kind |-> "data", age |-> 0]
<1>0. /\ NetOK /\ Up(e) /\ Transmit(e, "data") /\ UNCHANGED <<status, heard, pinged, staleFor, armed, due>>
      /\ quiet' = [quiet EXCEPT ![e] = 0] /\ x \in LinkPackets /\ x.kind = "data" /\ x.age = 0
  BY BaseIsTyped, TwoEnds DEF Course, LinkSend, Transmit, LinkPackets, Kinds
<1>1. UNCHANGED <<Up(I), Up(R)>>
  BY <1>0 DEF Up
<1>2. CASE e = I
  <2>1. NetOK' /\ On(R)' = On(R) \cup {x} /\ On(I)' = On(I)
    BY <1>0, <1>2, Transmits, TwoEnds DEF Kinds
  <2>2. quiet'[I] = 0 /\ quiet'[R] = quiet[R]
    BY <1>0, <1>2, BaseIsTyped, TwoEnds DEF Course
  <2> HIDE DEF x
  <2>3. Begins'
    BY <1>0, <1>2 DEF Begins, Up
  <2>4. Ordered'
    BY <1>0, <1>1, <2>1, UpOrder DEF Ordered, Coming
  <2>5. RttFirst'
    BY <1>0, <1>1, <2>1 DEF RttFirst, Course, Path
  <2>6. AnswerDue'
    BY <1>0, <1>1, <2>1, <2>2, BaseIsTyped DEF AnswerDue, ToI, Course, Path
  <2>7. PingDue'
    BY <1>0, <1>1, <2>1, InitiatorSends
  <2> QED  BY <2>3, <2>4, <2>5, <2>6, <2>7 DEF Path
<1>3. CASE e = R
  <2>1. On(I)' = On(I) \cup {x} /\ On(R)' = On(R)
    BY <1>0, <1>3, Transmits, TwoEnds DEF Kinds
  <2>2. quiet'[R] = 0 /\ quiet'[I] = quiet[I]
    BY <1>0, <1>3, BaseIsTyped, TwoEnds DEF Course
  <2>3. status[I] \notin {"none", "pending", "handshake"}
    BY <1>0, <1>3, RttPending, UpOrder DEF Up
  <2> HIDE DEF x
  <2>4. Begins'
    BY <1>0, <2>3 DEF Begins
  <2>5. Ordered'
    BY <1>0, <1>1, <2>1, UpOrder DEF Ordered, Coming
  <2>6. RttFirst' /\ PingDue'
    BY <1>0, <1>1, <2>1, <2>2 DEF RttFirst, PingDue, ToR, Course, Path
  <2>7. AnswerDue'
    BY <1>0, <2>1, <2>2, ResponderSends
  <2> QED  BY <2>4, <2>5, <2>6, <2>7 DEF Path
<1> QED  BY <1>2, <1>3, TwoEnds

\* close(), by whatever uses the link.
LEMMA CloseLinkPath ==
  ASSUME Course, NEW e \in Ends, CloseLink(e)
  PROVE  Path'
<1> DEFINE x == [kind |-> "close", age |-> 0]
<1>0. /\ NetOK /\ status[e] \notin {"none", "closed"} /\ status' = [status EXCEPT ![e] = "closed"]
      /\ UNCHANGED <<heard, pinged, staleFor>>
      /\ status[e] = "pending" => UNCHANGED <<net, quiet>>
      /\ status[e] # "pending" => Transmit(e, "close")
      /\ x \in LinkPackets /\ x.kind = "close" /\ x.age = 0
  BY BaseIsTyped, TwoEnds DEF Course, CloseLink, Close, LinkPackets, Kinds
<1>1. /\ status'[e] = "closed" /\ \A o \in Ends : o # e => status'[o] = status[o]
  BY <1>0, BaseIsTyped DEF Course
<1>2. CASE e = I
  <2>1. status'[I] = "closed" /\ status'[R] = status[R] /\ (Up(R)' <=> Up(R)) /\ ~Up(I)'
    BY <1>1, <1>2, TwoEnds DEF Up
  <2>2. Begins' /\ RttFirst' /\ AnswerDue'
    BY <2>1 DEF Begins, RttFirst, AnswerDue, Up
  <2>4. CASE status[I] = "pending"
    <3>1. ~Up(R) /\ ~Coming(R, "rtt") /\ UNCHANGED net
      BY <1>0, <1>2, <2>4, RttPending DEF Coming
    <3>2. UNCHANGED <<On(I), On(R)>>
      BY <3>1 DEF On
    <3>3. Ordered'
      BY <2>1, <3>1, <3>2, UpOrder DEF Ordered, Coming
    <3> QED  BY <2>1, <2>2, <3>1, <3>3 DEF Path, PingDue
  <2>5. CASE status[I] # "pending"
    <3>1. NetOK' /\ On(R)' = On(R) \cup {x} /\ On(I)' = On(I)
      BY <1>0, <1>2, <2>5, Transmits, TwoEnds DEF Kinds
    <3> HIDE DEF x
    <3>2. PingDue'
      BY <1>0, <2>1, <3>1, InitiatorSends
    <3>3. status[R] # "none"
      BY <1>0, <1>2, <2>5, UpOrder, BaseIsTyped DEF Up, Course, Statuses
    <3>4. Ordered'
      BY <1>0, <2>1, <3>1, <3>3, UpOrder DEF Ordered, Coming
    <3> QED  BY <2>2, <3>2, <3>4 DEF Path
  <2> QED  BY <2>4, <2>5
<1>3. CASE e = R
  <2>1. status'[R] = "closed" /\ status'[I] = status[I] /\ (Up(I)' <=> Up(I)) /\ ~Up(R)'
    BY <1>1, <1>3, TwoEnds DEF Up
  <2>2. status[I] # "none" /\ status[R] # "pending"
    BY <1>0, <1>3, RttPending, UpOrder
  <2>3. /\ NetOK' /\ On(I)' = On(I) \cup {x} /\ On(R)' = On(R)
        /\ net'[I] = Append(net[I], x) /\ net'[R] = net[R] /\ net[I] \in Seq(LinkPackets)
    BY <1>0, <1>3, <2>2, Transmits, TwoEnds DEF Kinds, NetOK
  <2>4. quiet'[I] = quiet[I] /\ armed' = armed
    BY <1>0, <1>3, <2>2, BaseIsTyped, TwoEnds DEF Transmit, Course, CloseLink, Close
  <2> HIDE DEF x
  <2>5. AnswerDue'
    BY <1>0, <2>1, <2>3, <2>4, ResponderSends
  <2>6. RttFirst' /\ PingDue'
    BY <1>0, <2>1, <2>3 DEF RttFirst, PingDue, Course, Path
  <2>7. Ordered'
    BY <1>0, <2>1, <2>3, UpOrder DEF Ordered, Coming
  <2>8. ASSUME status[I] = "pending"
        PROVE  /\ net'[R] = <<>> /\ Len(net'[I]) = 2
               /\ net'[I][1].kind = "proof" /\ armed' + net'[I][1].age + Delay >= Establish
               /\ net'[I][2].kind = "close"
    <3>1. /\ status[R] = "handshake" /\ net[R] = <<>> /\ Len(net[I]) = 1 /\ net[I][1].kind = "proof"
          /\ armed + net[I][1].age + Delay >= Establish
      BY <1>0, <1>3, <2>8 DEF Course, Path, Begins
    <3>2. Len(net'[I]) = 2 /\ net'[I][1] = net[I][1] /\ net'[I][2] = x
      BY <1>0, <2>3, <3>1
    <3> QED  BY <1>0, <2>3, <2>4, <3>1, <3>2
  <2>9. Begins'
    <3>1. status'[I] # "handshake" /\ status'[I] # "none"
      BY <2>1, <2>2, UpOrder
    <3> QED  BY <2>1, <2>8, <3>1 DEF Begins
  <2> QED  BY <2>5, <2>6, <2>7, <2>9 DEF Path
<1> QED  BY <1>2, <1>3, TwoEnds

\* A packet a tick later.
LEMMA AgedIs ==
  ASSUME NEW p \in LinkPackets
  PROVE  Aged(p).kind = p.kind /\ Aged(p).age = p.age + 1 /\ p.age \in 0..Delay
BY DEF Aged, LinkPackets

\* A second passes.
LEMMA TickPath ==
  ASSUME Course, Tick
  PROVE  Path'
<1>0. /\ NetOK /\ ~dead /\ On(I) \subseteq LinkPackets /\ On(R) \subseteq LinkPackets
      /\ UNCHANGED <<status, dead>> /\ armed # 0 /\ ~due[I]
  BY BaseIsTyped, OnTyped, TwoEnds DEF Course, Calm, Tick
<1>1. /\ On(I)' = {Aged(p) : p \in On(I)} /\ On(R)' = {Aged(p) : p \in On(R)}
      /\ \A p \in On(I) \cup On(R) : p.age < Delay
      /\ Len(net'[I]) = Len(net[I]) /\ Len(net'[R]) = Len(net[R])
      /\ \A e \in Ends : \A k \in 1..Len(net[e]) : net'[e][k] = Aged(net[e][k])
      /\ net'[I] \in Seq(LinkPackets) /\ net'[R] \in Seq(LinkPackets)
  BY <1>0, Ages, TwoEnds DEF NetOK
<1>2. /\ heard'[I] = (IF Up(I) THEN Older(heard[I], 2 * Keepalive[I]) ELSE 0)
      /\ heard'[R] = (IF Up(R) THEN Older(heard[R], 2 * Keepalive[R]) ELSE 0)
      /\ Up(I) => due'[I]
  <2>1. (Watched(I) <=> Up(I)) /\ (Watched(R) <=> Up(R))
    BY <1>0, TwoEnds DEF Watched
  <2>2. /\ heard' = [e \in Ends |-> IF Watched(e) THEN Older(heard[e], StaleTime(e)) ELSE 0]
        /\ due' = [e \in Ends |-> Watched(e)]
    BY DEF Tick
  <2>3. /\ heard'[I] = (IF Watched(I) THEN Older(heard[I], 2 * Keepalive[I]) ELSE 0)
        /\ heard'[R] = (IF Watched(R) THEN Older(heard[R], 2 * Keepalive[R]) ELSE 0)
    BY <2>2, TwoEnds
  <2>4. due'[I] = Watched(I)
    BY <2>2, TwoEnds
  <2> QED  BY <2>1, <2>3, <2>4, Zenon
<1>3. /\ quiet'[I] = (IF status[I] \in {"none", "closed"} THEN 0 ELSE Older(quiet[I], Keepalive[I]))
      /\ quiet'[R] = (IF status[R] \in {"none", "closed"} THEN 0 ELSE Older(quiet[R], Keepalive[R]))
  BY <1>0, TwoEnds DEF Tick, Gone
<1>4. /\ staleFor'[I] = (IF status[I] = "stale" THEN Older(staleFor[I], Grace) ELSE 0)
      /\ staleFor'[R] = (IF status[R] = "stale" THEN Older(staleFor[R], Grace) ELSE 0)
      /\ armed' = IF armed = Off THEN Off ELSE armed - 1
  BY TwoEnds DEF Tick
<1>5. /\ heard[I] \in Nat /\ heard[R] \in Nat /\ quiet[I] \in Nat /\ quiet[R] \in Nat
      /\ staleFor[I] \in 0..Grace /\ staleFor[R] \in 0..Grace /\ armed \in Off..Establish
      /\ heard[I] <= 2 * Keepalive[I] /\ heard[R] <= 2 * Keepalive[R]
      /\ quiet[I] <= Keepalive[I] /\ quiet[R] <= Keepalive[R]
  BY BaseIsTyped, ClosedQuiet, TwoEnds DEF Course
<1>6. \A e \in Ends : \A kind : Coming(e, kind)' <=> Coming(e, kind)
  <2>1. ASSUME NEW e \in Ends, NEW kind PROVE Coming(e, kind)' <=> Coming(e, kind)
    <3>1. On(e)' = {Aged(p) : p \in On(e)} /\ On(e) \subseteq LinkPackets
      BY <1>0, <1>1, TwoEnds
    <3>2. ASSUME NEW p \in On(e), p.kind = kind PROVE Coming(e, kind)'
      <4>1. Aged(p) \in On(e)' /\ Aged(p).kind = kind
        BY <3>1, <3>2, AgedIs
      <4> QED  BY <4>1 DEF Coming
    <3>3. ASSUME NEW q \in On(e)', q.kind = kind PROVE Coming(e, kind)
      <4>1. PICK p \in On(e) : q = Aged(p)
        BY <3>1
      <4>2. p.kind = kind
        BY <3>1, <3>3, <4>1, AgedIs
      <4> QED  BY <4>2 DEF Coming
    <3> QED  BY <3>2, <3>3 DEF Coming
  <2> QED  BY <2>1
<1>7. ToI' = {Aged(p) : p \in ToI} /\ ToR' = {Aged(p) : p \in ToR}
  <2>1. \A p \in On(I) \cup On(R) : Aged(p).kind = p.kind
    BY <1>0, AgedIs
  <2>2. ToI' = {Aged(p) : p \in ToI}
    BY <1>1, <2>1 DEF ToI
  <2>3. ToR' = {Aged(p) : p \in ToR}
    BY <1>1, <2>1 DEF ToR
  <2> QED  BY <2>2, <2>3
<1>8. ToI \subseteq LinkPackets /\ ToR \subseteq LinkPackets
  BY <1>0 DEF ToI, ToR
<1>9. (Up(I)' <=> Up(I)) /\ (Up(R)' <=> Up(R))
  BY <1>0 DEF Up
<1>10. Begins'
  <2>1. ASSUME NEW e \in Ends, net[e] = <<>> PROVE net'[e] = <<>>
    BY <1>1, <2>1, TwoEnds
  <2>2. CASE status[I] = "pending"
    <3>1. armed \in Nat \ {0} /\ armed' = armed - 1
      BY <1>4, <2>2, RttPending DEF Off
    <3>2. ASSUME NEW e \in Ends, Len(net[e]) # 0
          PROVE  /\ net'[e][1].kind = net[e][1].kind /\ net'[e][1].age = net[e][1].age + 1
                 /\ net[e][1].age \in Nat
      <4>1. net[e] \in Seq(LinkPackets) /\ 1 \in 1..Len(net[e])
        BY <1>0, <3>2 DEF NetOK
      <4>2. net[e][1] \in LinkPackets /\ net'[e][1] = Aged(net[e][1])
        BY <1>1, <3>2, <4>1
      <4> QED  BY <4>2, AgedIs, TwoEnds
    <3>3. CASE /\ status[R] = "none" /\ net[I] = <<>> /\ Len(net[R]) = 1
               /\ net[R][1].kind = "request" /\ armed + net[R][1].age >= Establish
      <4>1. armed' + net'[R][1].age >= Establish /\ net'[R][1].kind = "request"
        BY SMTT(30), <3>1, <3>2, <3>3, TwoEnds
      <4> QED  BY <1>0, <1>1, <2>1, <2>2, <3>3, <4>1, TwoEnds DEF Begins
    <3>4. CASE /\ status[R] \in {"handshake", "closed"} /\ net[R] = <<>>
               /\ Len(net[I]) \in {1, 2}
               /\ net[I][1].kind = "proof" /\ armed + net[I][1].age + Delay >= Establish
               /\ Len(net[I]) = 2 => net[I][2].kind = "close" /\ status[R] = "closed"
               /\ status[R] = "closed" => Len(net[I]) = 2
      <4>1. armed' + net'[I][1].age + Delay >= Establish /\ net'[I][1].kind = "proof"
        <5>1. I \in Ends /\ Len(net[I]) # 0 /\ Delay \in Nat /\ Establish \in Nat
          BY <3>4, TwoEnds
        <5>2. /\ net'[I][1].kind = net[I][1].kind /\ net'[I][1].age = net[I][1].age + 1
              /\ net[I][1].age \in Nat
          BY <3>2, <5>1
        <5>3. armed + net[I][1].age + Delay >= Establish /\ net[I][1].kind = "proof"
          BY <3>4
        <5> QED  BY SMTT(60), <3>1, <5>1, <5>2, <5>3
      <4>2. Len(net[I]) = 2 => net'[I][2].kind = "close"
        <5>1. ASSUME Len(net[I]) = 2 PROVE net'[I][2].kind = "close"
          <6>1. net[I] \in Seq(LinkPackets) /\ 2 \in 1..Len(net[I])
            BY <1>0, <5>1, TwoEnds DEF NetOK
          <6>2. net[I][2] \in LinkPackets /\ net'[I][2] = Aged(net[I][2])
            BY <1>1, <5>1, <6>1, TwoEnds
          <6> QED  BY <3>4, <5>1, <6>2, AgedIs
        <5> QED  BY <5>1
      <4> QED  BY <1>0, <1>1, <2>1, <2>2, <3>4, <4>1, <4>2, TwoEnds DEF Begins
    <3> QED  BY <2>2, <3>3, <3>4 DEF Course, Path, Begins
  <2>3. CASE status[I] # "pending"
    BY <1>0, <1>4, <2>1, <2>3, TwoEnds DEF Begins, Course, Path
  <2> QED  BY <2>2, <2>3
<1>11. Ordered'
  BY <1>0, <1>6, <1>9, UpOrder, TwoEnds DEF Ordered
<1>12. RttFirst'
  <2>1. ASSUME Up(I), NEW q \in On(R)', q.kind = "rtt" PROVE heard'[I] <= q.age
    <3>1. PICK p \in On(R) : q = Aged(p)
      BY <1>1, <2>1
    <3>2. p.kind = "rtt" /\ q.age = p.age + 1 /\ p.age \in 0..Delay
      BY <1>0, <2>1, <3>1, AgedIs
    <3>3. heard[I] <= p.age
      BY <2>1, <3>2 DEF Course, Path, RttFirst
    <3> QED  BY <1>2, <1>5, <2>1, <3>2, <3>3, TwoEnds DEF Older
  <2> QED  BY <1>9, <2>1 DEF RttFirst
<1>13. AnswerDue'
  <2>1. ASSUME Up(I) PROVE ToI' # {} \/ heard'[I] <= quiet'[R] \/ Keepalive[I] <= quiet'[R]
    <3>1. CASE ToI # {}
      BY <1>7, <3>1
    <3>2. CASE ToI = {}
      <4>1. status[R] \notin {"none", "closed"}
        BY <2>1, <3>2, UpOrder DEF Coming, ToI
      <4>2. heard[I] <= quiet[R] \/ Keepalive[I] <= quiet[R]
        BY <2>1, <3>2 DEF Course, Path, AnswerDue
      <4> QED  BY <1>2, <1>3, <1>5, <2>1, <4>1, <4>2, TwoEnds DEF Older
    <3> QED  BY <3>1, <3>2
  <2>2. ASSUME status[I] = "stale"
        PROVE  /\ quiet'[I] <= staleFor'[I]
               /\ \/ heard'[I] <= staleFor'[I]
                  \/ \E p \in ToI' : staleFor'[I] <= Delay + p.age
                  \/ /\ Up(R)' /\ Keepalive[I] <= quiet'[R]
                     /\ \E p \in On(R)' : p.kind = "ping" /\ staleFor'[I] <= p.age
    <3>1. quiet[I] <= staleFor[I] /\ staleFor[I] < Grace
      BY <1>0, <2>2, StaleInTime, ClosedQuiet DEF Course
    <3>2. staleFor'[I] = staleFor[I] + 1
      BY <1>4, <2>2, <3>1 DEF Older
    <3>3. quiet'[I] <= staleFor'[I]
      BY <1>2, <1>3, <1>5, <2>2, <3>1, <3>2, TwoEnds DEF Older
    <3>6. CASE heard[I] <= staleFor[I]
      <4>1. heard'[I] <= staleFor'[I]
        BY <1>2, <1>5, <3>2, <3>6, TwoEnds DEF Older
      <4> QED  BY <3>3, <4>1
    <3>4. CASE \E p \in ToI : staleFor[I] <= Delay + p.age
      <4>1. PICK p \in ToI : staleFor[I] <= Delay + p.age
        BY <3>4
      <4>2. Aged(p) \in ToI' /\ Aged(p).age = p.age + 1 /\ p.age \in 0..Delay
        BY <1>7, <1>8, AgedIs
      <4>3. staleFor'[I] <= Delay + Aged(p).age
        BY <1>5, <3>2, <4>1, <4>2, TwoEnds
      <4> QED  BY <3>3, <4>2, <4>3, TwoEnds
    <3>5. CASE /\ Up(R) /\ Keepalive[I] <= quiet[R]
               /\ \E p \in On(R) : p.kind = "ping" /\ staleFor[I] <= p.age
      <4>1. PICK p \in On(R) : p.kind = "ping" /\ staleFor[I] <= p.age
        BY <3>5
      <4>2. Aged(p) \in On(R)' /\ Aged(p).kind = "ping" /\ Aged(p).age = p.age + 1 /\ p.age \in 0..Delay
        BY <1>0, <1>1, <4>1, AgedIs
      <4>3. staleFor'[I] <= Aged(p).age
        BY <1>5, <3>2, <4>1, <4>2
      <4>4. Keepalive[I] <= quiet'[R]
        BY <1>3, <1>5, <3>5, TwoEnds DEF Older, Up
      <4> QED  BY <1>9, <3>3, <3>5, <4>2, <4>3, <4>4, TwoEnds
    <3> QED  BY <2>2, <3>4, <3>5, <3>6 DEF Course, Path, AnswerDue
  <2> QED  BY <1>0, <1>9, <2>1, <2>2, TwoEnds DEF AnswerDue
<1>14. PingDue'
  <2>1. ASSUME Up(R)
        PROVE  \/ \E p \in ToR' : heard'[R] <= Longest + p.age
               \/ Up(I)' /\ heard'[R] <= quiet'[I]
               \/ status'[I] = "stale" /\ quiet'[I] = Keepalive[I] /\ heard'[R] <= staleFor'[I]
               \/ /\ status'[I] = "active" /\ quiet'[I] = Keepalive[I]
                  /\ due'[I] /\ heard'[R] <= Longest
    <3>1. heard'[R] \in Nat /\ heard'[R] <= heard[R] + 1
      BY <1>2, <1>5, <2>1, TwoEnds DEF Older
    <3>2. Up(I) /\ quiet[I] = Keepalive[I] => quiet'[I] = Keepalive[I]
      BY <1>3, TwoEnds DEF Up, Older
    <3>3. status[I] = "stale" => staleFor'[I] = staleFor[I] + 1
      BY <1>0, <1>4, <1>5, ClosedQuiet DEF Course, Older
    <3>4. CASE \E p \in ToR : heard[R] <= Longest + p.age
      <4>1. PICK p \in ToR : heard[R] <= Longest + p.age
        BY <3>4
      <4>2. Aged(p) \in ToR' /\ Aged(p).age = p.age + 1 /\ p.age \in 0..Delay
        BY <1>7, <1>8, AgedIs
      <4>3. heard'[R] <= Longest + Aged(p).age
        BY <1>5, <3>1, <4>1, <4>2, LongestIs
      <4> QED  BY <4>2, <4>3
    <3>5. CASE Up(I) /\ heard[R] <= quiet[I]
      <4>1. CASE quiet[I] < Keepalive[I]
        <5>1. heard'[R] <= quiet'[I]
          BY <1>3, <1>5, <3>1, <3>5, <4>1 DEF Older, Up
        <5> QED  BY <1>9, <3>5, <5>1
      <4>2. CASE quiet[I] = Keepalive[I] /\ status[I] = "stale"
        <5>1. heard[R] <= staleFor[I]
          <6>1. quiet[I] <= staleFor[I]
            BY <4>2, StaleInTime
          <6> QED  BY <1>5, <3>5, <6>1
        <5>2. heard'[R] <= staleFor'[I]
          BY <1>5, <3>1, <3>3, <4>2, <5>1
        <5> QED  BY <1>0, <3>2, <3>5, <4>2, <5>2
      <4>3. CASE quiet[I] = Keepalive[I] /\ status[I] = "active"
        <5>1. heard'[R] <= Longest
          BY <1>5, <3>1, <3>5, <4>3, LongestIs, TwoEnds
        <5> QED  BY <1>0, <1>2, <3>2, <3>5, <4>3, <5>1
      <4> QED  BY <1>5, <3>5, <4>1, <4>2, <4>3, TwoEnds DEF Up
    <3>6. CASE status[I] = "stale" /\ quiet[I] = Keepalive[I] /\ heard[R] <= staleFor[I]
      <4>1. heard'[R] <= staleFor'[I]
        BY <1>5, <3>1, <3>3, <3>6
      <4> QED  BY <1>0, <3>2, <3>6, <4>1 DEF Up
    <3>7. CASE status[I] = "active" /\ quiet[I] = Keepalive[I] /\ heard[R] < Longest
      <4>1. heard'[R] <= Longest
        BY <1>5, <3>1, <3>7, LongestIs
      <4> QED  BY <1>0, <1>2, <3>2, <3>7, <4>1 DEF Up
    <3> QED  BY <1>0, <2>1, <3>4, <3>5, <3>6, <3>7 DEF Course, Path, PingDue
  <2>2. ASSUME Up(R) PROVE status'[R] = "active" /\ heard'[R] \in Nat
    BY <1>0, <1>2, <1>5, <2>2, HeardInTime, TwoEnds DEF Older
  <2>3. Up(R) /\ heard'[R] <= Longest => heard'[R] < Longest \/ heard'[R] = Longest
    BY <2>2, LongestIs
  <2> QED  BY <1>9, <2>1, <2>2, <2>3 DEF PingDue
<1> QED  BY <1>10, <1>11, <1>12, <1>13, <1>14 DEF Path

\* The establishment watchdog comes due on a link that is up by then; one that
\* is stale it ends.
LEMMA EstablishmentDue ==
  ASSUME Course, armed = 0
  PROVE  Up(I)
BY RttPending, UpOrder, BaseIsTyped, ClosedQuiet, TwoEnds DEF Course, Statuses, Off, Up

\* One that is active it leaves alone.
LEMMA EstablishmentTimeoutPath ==
  ASSUME Course, EstablishmentTimeout, why'[I] # "timeout"
  PROVE  Path'
<1>1. armed = 0 /\ UNCHANGED <<heard, quiet, pinged, staleFor, net, lossy, dead>>
  BY DEF EstablishmentTimeout
<1>2. ~EstablishmentEnds
  BY BaseIsTyped DEF EstablishmentTimeout, Close, Course
<1>3. UNCHANGED <<status, why, due>> /\ status[I] = "active"
  BY <1>1, <1>2, EstablishmentDue DEF EstablishmentTimeout, EstablishmentEnds, Up
<1>4. UNCHANGED <<On(I), On(R), ToI, ToR, Up(I), Up(R)>>
  BY <1>1, <1>3 DEF On, ToI, ToR, Up
<1>5. Begins'
  BY <1>3 DEF Begins
<1>6. Ordered' /\ RttFirst' /\ AnswerDue' /\ PingDue'
  BY <1>1, <1>3, <1>4 DEF Ordered, Coming, RttFirst, AnswerDue, PingDue, Course, Path
<1> QED  BY <1>5, <1>6 DEF Path

\* The initiator's watchdog: a link it finds stale it pings.
LEMMA InitiatorWatchdogPath ==
  ASSUME Course, Watchdog(I), why'[I] # "timeout"
  PROVE  Path'
<1> DEFINE x == [kind |-> "ping", age |-> 0]
           action == KeepaliveAction(I)
           acts == status[I] = "active" /\ (heard[I] >= Keepalive[I] \/ quiet[I] >= Keepalive[I])
<1>0. /\ NetOK /\ x \in LinkPackets /\ x.kind = "ping" /\ x.age = 0 /\ due[I] /\ UNCHANGED heard
      /\ heard[I] \in Nat /\ quiet[I] \in Nat /\ pinged \in Nat /\ quiet[I] <= pinged
      /\ heard[I] <= 2 * Keepalive[I]
  BY BaseIsTyped, ClosedQuiet, TwoEnds DEF Course, Watchdog, LinkPackets, Kinds
<1>1. /\ action.ping <=> acts /\ (heard[I] >= 2 * Keepalive[I] \/ pinged >= Keepalive[I])
      /\ action.next = (IF status[I] = "stale" /\ staleFor[I] >= Grace THEN "teardown"
                        ELSE IF acts /\ heard[I] >= 2 * Keepalive[I] THEN "stale" ELSE "idle")
  BY TwoEnds DEF KeepaliveAction, Unheard, GraceOver
<1>2. action.next # "teardown"
  BY BaseIsTyped DEF Watchdog, Close, Course
<1>3. action.next = "stale" <=> acts /\ heard[I] >= 2 * Keepalive[I]
  BY <1>1, <1>2
<1>4. /\ status' = [status EXCEPT ![I] = IF action.next = "stale" THEN "stale" ELSE @]
      /\ staleFor' = [staleFor EXCEPT ![I] = IF action.next = "stale" THEN 0 ELSE @]
      /\ due' = [due EXCEPT ![I] = FALSE] /\ UNCHANGED <<why, armed>>
  BY <1>2 DEF Watchdog
<1>5. /\ status'[I] = (IF action.next = "stale" THEN "stale" ELSE status[I])
      /\ staleFor'[I] = (IF action.next = "stale" THEN 0 ELSE staleFor[I])
      /\ status'[R] = status[R] /\ staleFor'[R] = staleFor[R] /\ heard' = heard
  BY <1>0, <1>4, BaseIsTyped, TwoEnds DEF Course
<1>6. Up(R)' <=> Up(R)
  BY <1>5 DEF Up
<1>7. CASE action.ping
  <2>1. Transmit(I, "ping")
    BY <1>7 DEF Watchdog
  <2>2. NetOK' /\ On(R)' = On(R) \cup {x} /\ On(I)' = On(I)
    BY <1>0, <2>1, Transmits, TwoEnds DEF Kinds
  <2>3. quiet'[I] = 0 /\ quiet'[R] = quiet[R]
    BY <2>1, BaseIsTyped, TwoEnds DEF Transmit, Course
  <2>4. acts /\ status[I] = "active" /\ status'[I] \in {"active", "stale"} /\ Up(I) /\ Up(I)'
    BY <1>1, <1>5, <1>7 DEF Up
  <2>5. status'[I] = "stale" => action.next = "stale"
    BY <1>5, <2>4
  <2> HIDE DEF x, action, acts
  <2>6. Begins'
    BY <2>4 DEF Begins
  <2>7. Ordered'
    BY <1>0, <1>5, <1>6, <2>2, <2>4, UpOrder DEF Ordered, Coming, Up
  <2>8. RttFirst'
    BY <1>0, <1>5, <2>2, <2>4 DEF RttFirst, Course, Path
  <2>9. PingDue'
    BY <1>0, <1>5, <1>6, <2>2, InitiatorSends
  <2>10. ToI' = ToI /\ ToI \subseteq LinkPackets
    BY <1>0, <2>2, OnTyped, TwoEnds DEF ToI
  <2>11. ASSUME status'[I] = "stale"
         PROVE  /\ quiet'[I] <= staleFor'[I]
                /\ \/ heard'[I] <= staleFor'[I]
                   \/ \E p \in ToI' : staleFor'[I] <= Delay + p.age
                   \/ /\ Up(R)' /\ Keepalive[I] <= quiet'[R]
                      /\ \E p \in On(R)' : p.kind = "ping" /\ staleFor'[I] <= p.age
    <3>1. staleFor'[I] = 0 /\ heard[I] = 2 * Keepalive[I]
      BY <1>0, <1>3, <1>5, <2>5, <2>11, TwoEnds
    <3>2. CASE ToI # {}
      <4>1. PICK p \in ToI : TRUE
        BY <3>2
      <4>2. p.age \in 0..Delay
        BY <2>10 DEF LinkPackets
      <4>3. 0 <= Delay + p.age
        BY <4>2, TwoEnds
      <4> QED  BY <1>5, <2>3, <2>10, <3>1, <4>3, TwoEnds
    <3>3. CASE ToI = {}
      <4>1. Keepalive[I] <= quiet[R]
        <5>1. heard[I] <= quiet[R] \/ Keepalive[I] <= quiet[R]
          BY <2>4, <3>3 DEF Course, Path, AnswerDue
        <5> QED  BY <3>1, <5>1, BaseIsTyped, TwoEnds DEF Course
      <4>2. status[R] # "handshake"
        <5>1. ASSUME status[R] = "handshake" PROVE FALSE
          <6>1. PICK p \in On(R) : p.kind = "rtt"
            BY <2>4, <5>1, UpOrder DEF Coming
          <6>2. heard[I] <= p.age /\ p.age \in 0..Delay
            BY <1>0, <2>4, <6>1, OnTyped, TwoEnds DEF Course, Path, RttFirst, LinkPackets
          <6> QED  BY <3>1, <6>2, TwoEnds DEF Course, InTime
        <5> QED  BY <5>1
      <4>3. status[R] \notin {"none", "closed", "pending"}
        BY <2>4, <3>3, UpOrder DEF Coming, ToI
      <4>4. Up(R)
        BY <4>2, <4>3, BaseIsTyped, TwoEnds DEF Up, Course, Statuses
      <4> QED  BY <1>0, <1>5, <1>6, <2>2, <2>3, <3>1, <4>1, <4>4, TwoEnds
    <3> QED  BY <3>2, <3>3
  <2>12. AnswerDue'
    <3>1. ToI' # {} \/ heard'[I] <= quiet'[R] \/ Keepalive[I] <= quiet'[R]
      BY <1>5, <2>3, <2>4, <2>10 DEF AnswerDue, Course, Path
    <3> QED  BY <2>11, <3>1, TwoEnds DEF AnswerDue
  <2> QED  BY <1>4, <2>6, <2>7, <2>8, <2>9, <2>12 DEF Path
<1>8. CASE ~action.ping
  <2>1. UNCHANGED <<net, quiet, pinged>>
    BY <1>2, <1>8 DEF Watchdog
  <2>2. ~(acts /\ heard[I] >= 2 * Keepalive[I]) /\ action.next # "stale"
    BY <1>1, <1>3, <1>8
  <2>3. UNCHANGED <<status[I], staleFor[I], status[R], staleFor[R], heard>>
    BY <1>5, <2>2
  <2>4. ~(status[I] = "active" /\ quiet[I] = Keepalive[I])
    BY <1>0, <1>1, <1>8, TwoEnds
  <2>5. UNCHANGED <<On(I), On(R), ToI, ToR, Up(I), Up(R)>>
    BY <2>1, <2>3 DEF On, ToI, ToR, Up
  <2> HIDE DEF action, acts
  <2>6. Begins' /\ Ordered' /\ RttFirst' /\ AnswerDue'
    BY <1>4, <2>1, <2>3, <2>5 DEF Begins, Ordered, Coming, RttFirst, AnswerDue, Course, Path
  <2>7. PingDue'
    BY <1>6, <2>1, <2>3, <2>4, <2>5 DEF PingDue, Course, Path
  <2> QED  BY <1>4, <2>6, <2>7 DEF Path
<1> QED  BY <1>7, <1>8

\* The responder's watchdog: it finds nothing to do.
LEMMA ResponderWatchdogPath ==
  ASSUME Course, Watchdog(R)
  PROVE  Path' /\ why' = why
<1> DEFINE action == KeepaliveAction(R)
<1>1. ~action.ping /\ action.next = "idle"
  <2>1. status[R] # "stale" /\ (status[R] = "active" => heard[R] < StaleTime(R) /\ heard[R] \in Nat)
    BY HeardInTime DEF Up
  <2>2. status[R] = "active" => ~Unheard(R)
    BY <2>1, TwoEnds DEF Unheard
  <2> QED  BY <2>1, <2>2, TwoEnds DEF KeepaliveAction
<1>2. /\ UNCHANGED <<net, quiet, pinged, heard, why, armed>>
      /\ status' = [status EXCEPT ![R] = @] /\ staleFor' = [staleFor EXCEPT ![R] = @]
      /\ due' = [due EXCEPT ![R] = FALSE]
  BY <1>1 DEF Watchdog
<1>3. status' = status /\ staleFor' = staleFor /\ due'[I] = due[I]
  BY <1>2, BaseIsTyped, TwoEnds DEF Course
<1>4. UNCHANGED <<On(I), On(R), ToI, ToR, Up(I), Up(R)>>
  BY <1>2, <1>3 DEF On, ToI, ToR, Up
<1>5. Begins'
  BY <1>2, <1>3 DEF Begins, Course, Path
<1>6. Ordered'
  BY <1>3, <1>4 DEF Ordered, Coming, Course, Path
<1>7. RttFirst' /\ AnswerDue'
  BY <1>2, <1>3, <1>4 DEF RttFirst, AnswerDue, Course, Path
<1>8. PingDue'
  BY <1>2, <1>3, <1>4 DEF PingDue, Course, Path
<1> QED  BY <1>2, <1>5, <1>6, <1>7, <1>8 DEF Path

-----------------------------------------------------------------------------
(* The theorems.                                                           *)

\* A network that loses nothing does not begin to, nor does a dead end return.
LEMMA CalmBefore ==
  ASSUME Base, [Next]_vars, Calm'
  PROVE  Calm
<1>1. ASSUME NEW e \in Ends, Deliver(e) \/ Lost(e) \/ LinkSend(e) \/ CloseLink(e) \/ Watchdog(e)
      PROVE  UNCHANGED <<lossy, dead>>
  <2>1. CASE Deliver(e)
    BY <2>1 DEF Deliver, Accept, Rtt, Ping, Proved, Pong, Data, PacketProof, LinkClose, Dropped
  <2> QED  BY <1>1, <2>1 DEF Lost, LinkSend, CloseLink, Watchdog
<1>2. lossy' = lossy /\ (dead => dead')
  BY <1>1 DEF Next, Request, BadProof, RequestLost, EstablishmentTimeout, Die, Tick, vars
<1> QED  BY <1>2 DEF Calm

\* No step of a network in time leaves the path, unless it ends the link of the
\* initiator.
LEMMA StepPath ==
  ASSUME Course, [Next]_vars, Calm', why'[I] # "timeout"
  PROVE  Path'
<1>0. ~lossy /\ ~dead /\ ~dead'
  BY DEF Course, Calm
<1>1. CASE Request
  BY <1>1, RequestPath
<1>2. CASE EstablishmentTimeout
  BY <1>2, EstablishmentTimeoutPath
<1>3. CASE Tick
  BY <1>3, TickPath
<1>4. ASSUME NEW e \in Ends, Deliver(e)
      PROVE  Path'
  <2>1. CASE Accept
    BY <2>1, AcceptPath
  <2>2. CASE Rtt
    BY <2>2, RttPath
  <2>3. CASE Ping
    BY <2>3, TrafficPath
  <2>4. CASE Proved
    BY <2>4, ProvedPath
  <2>5. CASE Pong
    BY <2>5, TrafficPath
  <2>6. CASE Data(e)
    BY <2>6, TrafficPath
  <2>7. CASE PacketProof(e)
    BY <2>7, PacketProofPath
  <2>8. CASE LinkClose(e)
    BY <2>8, LinkClosePath
  <2>9. CASE Dropped(e)
    BY <2>9, DroppedPath
  <2> QED  BY <1>4, <2>1, <2>2, <2>3, <2>4, <2>5, <2>6, <2>7, <2>8, <2>9 DEF Deliver
<1>5. ASSUME NEW e \in Ends, LinkSend(e)
      PROVE  Path'
  BY <1>5, LinkSendPath
<1>6. ASSUME NEW e \in Ends, CloseLink(e)
      PROVE  Path'
  BY <1>6, CloseLinkPath
<1>7. ASSUME NEW e \in Ends, Watchdog(e)
      PROVE  Path'
  BY <1>7, InitiatorWatchdogPath, ResponderWatchdogPath, TwoEnds
<1>8. CASE UNCHANGED vars
  <2>1. UNCHANGED <<status, heard, quiet, pinged, staleFor, armed, due, net, why>>
    BY <1>8 DEF vars, clocks
  <2>2. UNCHANGED <<On(I), On(R), ToI, ToR, Up(I), Up(R)>>
    BY <2>1 DEF On, ToI, ToR, Up
  <2> QED  BY <2>1, <2>2 DEF Course, Path, Begins, Ordered, Coming, RttFirst, AnswerDue, PingDue
<1>9. ~BadProof /\ ~RequestLost /\ ~Die /\ \A e \in Ends : ~Lost(e)
  BY <1>0 DEF BadProof, RequestLost, Die, Lost
<1> QED  BY <1>1, <1>2, <1>3, <1>4, <1>5, <1>6, <1>7, <1>8, <1>9 DEF Next

\* A link not yet asked for is on the path.
LEMMA InitPath == Init => Path
<1> SUFFICES ASSUME Init PROVE Path
  OBVIOUS
<1>1. /\ status[I] = "none" /\ status[R] = "none" /\ net[I] = <<>> /\ net[R] = <<>> /\ armed = Off
  BY TwoEnds DEF Init
<1>2. On(I) = {} /\ On(R) = {}
  BY <1>1 DEF On
<1>3. Begins /\ Ordered /\ RttFirst /\ AnswerDue /\ PingDue
  BY <1>1, <1>2 DEF Begins, Ordered, Coming, RttFirst, AnswerDue, PingDue, Up
<1> QED  BY <1>3 DEF Path

\* What a step may make of an end: a closed one stays closed and keeps its
\* reason, and only three things give an end up for "timeout".
GivenUp(e) ==
  \/ Watchdog(e) /\ status[e] = "stale" /\ GraceOver(e)
  \/ e = I /\ EstablishmentTimeout /\ EstablishmentEnds
  \/ e = I /\ RequestLost

LEMMA CloseReasons ==
  ASSUME Base, [Next]_vars, NEW e \in Ends
  PROVE  /\ status[e] = "closed" => status'[e] = "closed" /\ why'[e] = why[e]
         /\ why'[e] = "timeout" => why[e] = "timeout" \/ GivenUp(e)
<1>0. /\ status \in [Ends -> Statuses] /\ why \in [Ends -> {"no", "timeout", "local", "peer"}]
      /\ I \in Ends
  BY BaseIsTyped
<1>1. CASE Request \/ BadProof \/ Die \/ Tick \/ Accept \/ Rtt \/ Ping \/ Proved \/ Pong
           \/ (\E o \in Ends : Data(o) \/ PacketProof(o) \/ Dropped(o) \/ Lost(o) \/ LinkSend(o))
           \/ UNCHANGED vars
  <2>1. UNCHANGED why /\ (status[e] = "closed" => status'[e] = "closed")
    BY <1>0, <1>1, TwoEnds DEF Request, BadProof, Die, Tick, Accept, Rtt, Ping, Proved, Pong, Data,
      PacketProof, Dropped, Lost, LinkSend, HadInbound, vars, Up
  <2> QED  BY <2>1
<1>2. ASSUME NEW o \in Ends, LinkClose(o) \/ CloseLink(o)
      PROVE  /\ status[e] = "closed" => status'[e] = "closed" /\ why'[e] = why[e]
             /\ why'[e] = "timeout" => why[e] = "timeout"
  <2>1. /\ status[o] # "closed" /\ status' = [status EXCEPT ![o] = "closed"]
        /\ \E reason \in {"peer", "local"} : why' = [why EXCEPT ![o] = reason]
    BY <1>2 DEF LinkClose, CloseLink, Close
  <2> QED  BY <1>0, <2>1
<1>3. CASE RequestLost
  <2>1. status[I] = "pending" /\ status' = [status EXCEPT ![I] = "closed"] /\ why' = [why EXCEPT ![I] = "timeout"]
    BY <1>3 DEF RequestLost, Close
  <2> QED  BY <1>0, <1>3, <2>1 DEF GivenUp
<1>4. CASE EstablishmentTimeout
  <2>1. CASE EstablishmentEnds
    <3>1. status[I] # "closed" /\ status' = [status EXCEPT ![I] = "closed"] /\ why' = [why EXCEPT ![I] = "timeout"]
      BY <1>4, <2>1 DEF EstablishmentTimeout, EstablishmentEnds, Close
    <3> QED  BY <1>0, <1>4, <2>1, <3>1 DEF GivenUp
  <2>2. CASE ~EstablishmentEnds
    BY <1>4, <2>2 DEF EstablishmentTimeout
  <2> QED  BY <2>1, <2>2
<1>5. ASSUME NEW o \in Ends, Watchdog(o)
      PROVE  /\ status[e] = "closed" => status'[e] = "closed" /\ why'[e] = why[e]
             /\ why'[e] = "timeout" => why[e] = "timeout" \/ GivenUp(e)
  <2>1. CASE KeepaliveAction(o).next = "teardown"
    <3>1. status[o] = "stale" /\ GraceOver(o)
      BY <2>1 DEF KeepaliveAction
    <3>2. status' = [status EXCEPT ![o] = "closed"] /\ why' = [why EXCEPT ![o] = "timeout"]
      BY <1>5, <2>1 DEF Watchdog, Close
    <3>3. CASE e = o
      BY <1>0, <1>5, <3>1, <3>2, <3>3 DEF GivenUp
    <3>4. CASE e # o
      BY <1>0, <3>2, <3>4
    <3> QED  BY <3>3, <3>4
  <2>2. CASE KeepaliveAction(o).next # "teardown"
    <3>1. /\ status' = [status EXCEPT ![o] = IF KeepaliveAction(o).next = "stale" THEN "stale" ELSE @]
          /\ UNCHANGED why
      BY <1>5, <2>2 DEF Watchdog
    <3>2. KeepaliveAction(o).next = "stale" => status[o] = "active"
      BY DEF KeepaliveAction
    <3> QED  BY <1>0, <3>1, <3>2
  <2> QED  BY <2>1, <2>2
<1> QED  BY <1>1, <1>2, <1>3, <1>4, <1>5 DEF Next, Deliver

\* Any link, in any network: "close" comes once, when the link closes, and no
\* timer runs on after it.
THEOREM ClosesOnce == Spec => [](TypeOK /\ ClosedOnce)
<1>1. Init => Base
  BY InitBase
<1>2. Base /\ [Next]_vars => Base'
  BY StepBase
<1>3. Base => TypeOK /\ ClosedOnce
  BY DEF Base
<1> QED  BY <1>1, <1>2, <1>3, PTL DEF Spec

\* Any step keeps the inductive invariant of the link.
LEMMA StepIInv ==
  ASSUME InTime, IInv, [Next]_vars
  PROVE  IInv'
<1>1. Base'
  BY StepBase DEF IInv
<1>2. ASSUME Calm', why'[I] # "timeout" PROVE Path'
  <2>1. Calm
    BY <1>2, CalmBefore DEF IInv
  <2>2. why[I] # "timeout"
    BY <1>2, CloseReasons, TwoEnds DEF IInv, Base, ClosedReasons
  <2>3. Course
    BY <2>1, <2>2 DEF IInv, Course
  <2> QED  BY <1>2, <2>3, StepPath
<1> QED  BY <1>1, <1>2 DEF IInv

\* What the two ends keep of each other, whatever they send: the inductive
\* invariant of the link, for periods that are in time.
THEOREM Invariance == InTime => (Spec => []IInv)
<1> SUFFICES ASSUME InTime PROVE Spec => []IInv
  OBVIOUS
<1>1. Init => IInv
  BY InitBase, InitPath DEF IInv
<1>2. IInv /\ [Next]_vars => IInv'
  BY StepIInv
<1> QED  BY <1>1, <1>2, PTL DEF Spec

\* A network that delivers everything in time costs a live peer its link in the
\* two cases NoFalseTeardown names and in no other (LinkSound), for any periods
\* of the two watchdogs that are in time.
THEOREM LivePeerKept == InTime => (Spec => LinkSound)
<1> SUFFICES ASSUME InTime PROVE Spec => LinkSound
  OBVIOUS
<1> DEFINE GaveUpInitiator == status[I] = "stale" /\ (armed = 0 \/ heard[I] < StaleTime(I))
           TwoCases == ~lossy /\ ~dead =>
             /\ why[I] = "no" /\ why'[I] = "timeout" => GaveUpInitiator
             /\ why[R] = "no" /\ why'[R] = "timeout" => why[I] = "timeout"
<1>1. IInv /\ [Next]_vars => TwoCases
  <2> SUFFICES ASSUME IInv, [Next]_vars, ~lossy, ~dead, why[I] # "timeout"
               PROVE  /\ why'[I] = "timeout" => GaveUpInitiator
                      /\ why'[R] = "timeout" => why[R] = "timeout"
    OBVIOUS
  <2>1. Course
    BY DEF IInv, Course, Calm
  <2>2. ASSUME why'[I] = "timeout" PROVE GaveUpInitiator
    <3>1. GivenUp(I)
      BY <2>2, CloseReasons, TwoEnds DEF IInv
    <3>2. CASE Watchdog(I) /\ status[I] = "stale" /\ GraceOver(I)
      BY <2>1, <3>2, StaleInTime DEF GraceOver
    <3>3. CASE EstablishmentTimeout /\ EstablishmentEnds
      BY <2>1, <3>3, EstablishmentDue DEF EstablishmentTimeout, EstablishmentEnds, Up
    <3>4. ~RequestLost
      BY DEF RequestLost
    <3> QED  BY <3>1, <3>2, <3>3, <3>4 DEF GivenUp
  <2>3. ASSUME why'[R] = "timeout" PROVE why[R] = "timeout"
    <3>1. status[R] # "stale"
      BY <2>1, HeardInTime DEF Up
    <3> QED  BY <2>3, <3>1, CloseReasons, TwoEnds DEF IInv, GivenUp
  <2> QED  BY <2>2, <2>3
<1>2. IInv => TypeOK /\ ClosedOnce
  BY DEF IInv, Base
<1>3. IInv /\ [Next]_vars => [TwoCases]_vars
  BY <1>1
<1> QED  BY <1>2, <1>3, Invariance, PTL DEF Spec, LinkSound, NoFalseTeardown, TwoCases

\* A closed link stays closed, and a stale one is given up only after its grace
\* or by the establishment timer (GraceKept), in any network and whatever the
\* periods are.
THEOREM StaleHadGrace == Spec => GraceKept
<1> DEFINE Graced == \A e \in Ends :
              /\ status[e] = "closed" => status'[e] = "closed"
              /\ status[e] = "stale" /\ why'[e] = "timeout" =>
                   staleFor[e] >= Grace \/ (e = I /\ armed = 0)
<1>1. Base /\ [Next]_vars => Graced
  <2> SUFFICES ASSUME Base, [Next]_vars, NEW e \in Ends
               PROVE  /\ status[e] = "closed" => status'[e] = "closed"
                      /\ status[e] = "stale" /\ why'[e] = "timeout" =>
                           staleFor[e] >= Grace \/ (e = I /\ armed = 0)
    BY DEF Graced
  <2>1. ASSUME status[e] = "stale", why'[e] = "timeout"
        PROVE  staleFor[e] >= Grace \/ (e = I /\ armed = 0)
    <3>1. GivenUp(e)
      <4>1. why[e] # "timeout"
        BY <2>1, BaseIsTyped DEF Base, ClosedReasons
      <4> QED  BY <2>1, <4>1, CloseReasons
    <3> QED  BY <2>1, <3>1 DEF GivenUp, GraceOver, EstablishmentTimeout, RequestLost
  <2> QED  BY <2>1, CloseReasons
<1>2. Init => Base
  BY InitBase
<1>3. Base /\ [Next]_vars => Base'
  BY StepBase
<1>4. Base /\ [Next]_vars => [Graced]_vars
  BY <1>1
<1> QED  BY <1>2, <1>3, <1>4, PTL DEF Spec, GraceKept, Graced

-----------------------------------------------------------------------------
(***************************************************************************)
(* The safety of LinkRequests, for every set of requests, every number of  *)
(* segments and every bound.                                               *)
(***************************************************************************)

\* What holds of one request between any two steps.  The outcome of a request
\* rests on what runs for it: that a Resource concluded late starts no clock
\* beside a transfer needs that nothing transfers for a request still SENT.
RequestIsSound(r) ==
  /\ receipt[r].status = "none" => sending[r] = "none" /\ arriving[r] = 0
  /\ Pending(r) => open
  /\ receipt[r].status = "SENT" => sending[r] \in {"moving", "proved", "failed"} /\ arriving[r] = 0
  /\ receipt[r].status = "DELIVERED" => receipt[r].clock /\ arriving[r] = 0
  /\ receipt[r].status = "RECEIVING" => ~receipt[r].clock /\ arriving[r] # 0

RequestInvariant == RequestTypeOK /\ \A r \in Requests : RequestIsSound(r)

-----------------------------------------------------------------------------
(* The receipt's operations. *)

\* Each returns a receipt, whose status, clock and reason are these.
LEMMA ReceiptOps ==
  ASSUME NEW x \in Receipts, NEW cause \in Reasons
  PROVE  /\ Failed(x, cause) \in Receipts /\ Failed(x, cause).status = "FAILED" /\ Failed(x, cause).why = cause
         /\ Ready(x) \in Receipts /\ Ready(x).status = "READY"
         /\ Delivered(x) \in Receipts /\ Delivered(x).status = "DELIVERED" /\ Delivered(x).clock
         /\ Receiving(x) \in Receipts /\ Receiving(x).status = "RECEIVING" /\ ~Receiving(x).clock
         /\ BetweenSegments(x) \in Receipts
         /\ x.status = "RECEIVING" => BetweenSegments(x).status = "DELIVERED" /\ BetweenSegments(x).clock
         /\ x.status # "RECEIVING" => BetweenSegments(x) = x
<1>1. x = [status |-> x.status, clock |-> x.clock, why |-> x.why]
      /\ x.status \in ReceiptStatuses /\ x.clock \in BOOLEAN /\ x.why \in Reasons
  BY DEF Receipts
<1>2. /\ Failed(x, cause) \in Receipts /\ Failed(x, cause).status = "FAILED" /\ Failed(x, cause).why = cause
      /\ Ready(x) \in Receipts /\ Ready(x).status = "READY"
  BY <1>1 DEF Failed, Ready, Receipts, ReceiptStatuses
<1>3. Receiving(x) \in Receipts /\ Receiving(x).status = "RECEIVING" /\ ~Receiving(x).clock
  BY <1>1 DEF Receiving, Receipts, ReceiptStatuses
<1>4. Delivered(x) \in Receipts /\ Delivered(x).status = "DELIVERED" /\ Delivered(x).clock
  BY <1>1 DEF Delivered, Receipts, ReceiptStatuses
<1> QED  BY <1>2, <1>3, <1>4 DEF BetweenSegments

\* Failing one, by itself.
LEMMA FailedOp ==
  ASSUME NEW x \in Receipts, NEW cause \in Reasons
  PROVE  Failed(x, cause) \in Receipts /\ Failed(x, cause).status = "FAILED" /\ Failed(x, cause).why = cause
BY ReceiptOps

\* The others, whose result has no reason of its own.
LEMMA AnswerOps ==
  ASSUME NEW x \in Receipts
  PROVE  /\ Ready(x) \in Receipts /\ Ready(x).status = "READY"
         /\ Receiving(x) \in Receipts /\ Receiving(x).status = "RECEIVING" /\ ~Receiving(x).clock
         /\ BetweenSegments(x) \in Receipts
         /\ x.status = "RECEIVING" => BetweenSegments(x).status = "DELIVERED" /\ BetweenSegments(x).clock
         /\ x.status # "RECEIVING" => BetweenSegments(x) = x
<1>1. "none" \in Reasons
  BY DEF Reasons
<1> QED  BY <1>1, ReceiptOps

\* A step that changes the rows of one request at most, and leaves the link
\* as it is, need only keep that request's.
LEMMA OneRow ==
  ASSUME RequestInvariant, RequestTypeOK', NEW r \in Requests, open' = open,
         \A q \in Requests \ {r} :
           receipt'[q] = receipt[q] /\ sending'[q] = sending[q] /\ arriving'[q] = arriving[q],
         RequestIsSound(r)'
  PROVE  RequestInvariant'
<1> SUFFICES ASSUME NEW q \in Requests, q # r PROVE RequestIsSound(q)'
  BY DEF RequestInvariant
<1> QED  BY DEF RequestInvariant, RequestIsSound, Pending

\* What failing a request does to its own rows.
LEMMA Failing ==
  ASSUME RequestTypeOK, NEW r \in Requests, NEW cause \in Reasons, FailRequest(r, cause)
  PROVE  /\ receipt' \in [Requests -> Receipts] /\ held' \in [Requests -> 0 .. Segments]
         /\ \A q \in Requests \ {r} : receipt'[q] = receipt[q]
         /\ ~Pending(r)'
         /\ Pending(r) => receipt'[r].status = "FAILED"
         /\ ~Pending(r) => receipt'[r] = receipt[r]
<1>0. receipt[r] \in Receipts
  BY DEF RequestTypeOK
<1>1. Failed(receipt[r], cause) \in Receipts /\ Failed(receipt[r], cause).status = "FAILED"
  BY <1>0, FailedOp
<1>2. 0 \in 0 .. Segments
  BY RequestsAssumption
<1> QED  BY <1>1, <1>2 DEF FailRequest, RequestTypeOK, Pending

\* What the end of an incoming Resource does to its request's.
LEMMA Dropping ==
  ASSUME RequestTypeOK, NEW r \in Requests, IncomingDropped(r)
  PROVE  /\ receipt' \in [Requests -> Receipts] /\ held' \in [Requests -> 0 .. Segments]
         /\ \A q \in Requests \ {r} : receipt'[q] = receipt[q]
         /\ ~Pending(r)'
         /\ Pending(r) => receipt'[r].status = "FAILED"
         /\ ~Pending(r) => receipt'[r] = receipt[r]
<1>1. receipt[r] \in Receipts /\ "transfer" \in Reasons
  BY DEF RequestTypeOK, Reasons
<1>2. Failed(receipt[r], "transfer") \in Receipts /\ Failed(receipt[r], "transfer").status = "FAILED"
  BY <1>1, FailedOp
<1>3. 0 \in 0 .. Segments
  BY RequestsAssumption
<1> QED  BY <1>1, <1>2, <1>3 DEF IncomingDropped, RequestTypeOK, Pending

-----------------------------------------------------------------------------
(* The client's steps. *)

LEMMA SendPacketKeeps ==
  ASSUME RequestInvariant, NEW r \in Requests, SendPacket(r) PROVE RequestInvariant'
<1>1. receipt[r] \in Receipts /\ "closed" \in Reasons
  BY DEF RequestInvariant, RequestTypeOK, Reasons
<1>2. Delivered(receipt[r]) \in Receipts /\ Delivered(receipt[r]).status = "DELIVERED" /\ Delivered(receipt[r]).clock
  BY <1>1, ReceiptOps
<1>3. RequestTypeOK'
  BY <1>2 DEF RequestInvariant, RequestTypeOK, SendPacket
<1>4. RequestIsSound(r)'
  BY <1>2 DEF RequestInvariant, RequestTypeOK, SendPacket, RequestIsSound, Pending
<1> QED  BY <1>3, <1>4, OneRow DEF SendPacket, RequestInvariant, RequestTypeOK

LEMMA SendResourceKeeps ==
  ASSUME RequestInvariant, NEW r \in Requests, SendResource(r) PROVE RequestInvariant'
<1>1. receipt'[r] \in Receipts /\ receipt'[r].status = "SENT"
  BY DEF RequestInvariant, RequestTypeOK, SendResource, Receipts, ReceiptStatuses
<1>2. RequestTypeOK'
  BY <1>1 DEF RequestInvariant, RequestTypeOK, SendResource
<1>3. RequestIsSound(r)'
  BY <1>1 DEF RequestInvariant, RequestTypeOK, SendResource, RequestIsSound, Pending
<1> QED  BY <1>2, <1>3, OneRow DEF SendResource, RequestInvariant, RequestTypeOK

LEMMA TimersKeep ==
  ASSUME RequestInvariant, NEW r \in Requests, Timers(r) PROVE RequestInvariant'
<1>1. CASE TimesOut(r)
  <2>1. "timeout" \in Reasons /\ FailRequest(r, "timeout")
    BY <1>1 DEF TimesOut, Reasons
  <2>2. RequestTypeOK'
    BY <1>1, <2>1, Failing DEF RequestInvariant, RequestTypeOK, TimesOut
  <2>3. RequestIsSound(r)'
    BY <1>1, <2>1, Failing DEF RequestInvariant, TimesOut, RequestIsSound, Pending
  <2> QED  BY <1>1, <2>1, <2>2, <2>3, Failing, OneRow DEF TimesOut, RequestInvariant
<1>2. CASE SendingFails(r)
  <2>1. RequestTypeOK'
    BY <1>2 DEF RequestInvariant, RequestTypeOK, SendingFails
  <2>2. RequestIsSound(r)'
    BY <1>2 DEF RequestInvariant, RequestTypeOK, SendingFails, RequestIsSound, Pending
  <2> QED  BY <1>2, <2>1, <2>2, OneRow DEF SendingFails, RequestInvariant, RequestTypeOK
<1>3. CASE SendingConcluded(r)
  <2>1. receipt[r] \in Receipts /\ "unsent" \in Reasons
    BY DEF RequestInvariant, RequestTypeOK, Reasons
  <2>2. Delivered(receipt[r]) \in Receipts /\ Delivered(receipt[r]).status = "DELIVERED"
        /\ Delivered(receipt[r]).clock
    BY <2>1, ReceiptOps
  <2>3. CASE sending[r] = "proved"
    <3>1. receipt' = (IF receipt[r].status = "SENT" THEN [receipt EXCEPT ![r] = Delivered(@)] ELSE receipt)
          /\ UNCHANGED held
      BY <1>3, <2>3 DEF SendingConcluded
    <3>2. RequestTypeOK'
      BY <1>3, <2>2, <3>1 DEF RequestInvariant, RequestTypeOK, SendingConcluded
    <3>3. RequestIsSound(r)'
      BY <1>3, <2>2, <3>1 DEF RequestInvariant, RequestTypeOK, SendingConcluded, RequestIsSound, Pending
    <3> QED  BY <1>3, <3>1, <3>2, <3>3, OneRow DEF SendingConcluded, RequestInvariant, RequestTypeOK
  <2>4. CASE sending[r] = "failed"
    <3>1. FailRequest(r, "unsent")
      BY <1>3, <2>4 DEF SendingConcluded
    <3>2. RequestTypeOK'
      BY <1>3, <2>1, <3>1, Failing DEF RequestInvariant, RequestTypeOK, SendingConcluded
    <3>3. RequestIsSound(r)'
      BY <1>3, <2>1, <3>1, Failing DEF RequestInvariant, RequestTypeOK, SendingConcluded, RequestIsSound, Pending
    <3> QED  BY <1>3, <2>1, <3>1, <3>2, <3>3, Failing, OneRow DEF SendingConcluded, RequestInvariant, RequestTypeOK
  <2> QED  BY <1>3, <2>3, <2>4 DEF SendingConcluded
<1>4. CASE TransferEnds(r)
  <2>1. 0 \in 0 .. Segments
    BY RequestsAssumption
  <2>2. RequestTypeOK'
    BY <1>4, <2>1, Dropping DEF RequestInvariant, RequestTypeOK, TransferEnds
  <2>3. RequestIsSound(r)'
    BY <1>4, Dropping DEF RequestInvariant, RequestTypeOK, TransferEnds, RequestIsSound, Pending
  <2> QED  BY <1>4, <2>2, <2>3, Dropping, OneRow DEF TransferEnds, RequestInvariant, RequestTypeOK
<1> QED  BY <1>1, <1>2, <1>3, <1>4 DEF Timers

LEMMA ClientKeeps ==
  ASSUME RequestInvariant, NEW r \in Requests, Client(r) PROVE RequestInvariant'
<1>1. CASE PacketLost(r)
  <2>1. "lost" \in Reasons /\ FailRequest(r, "lost")
    BY <1>1 DEF PacketLost, Reasons
  <2>2. RequestTypeOK'
    BY <1>1, <2>1, Failing DEF RequestInvariant, RequestTypeOK, PacketLost
  <2>3. RequestIsSound(r)'
    BY <1>1, <2>1, Failing DEF RequestInvariant, PacketLost, RequestIsSound, Pending
  <2> QED  BY <1>1, <2>1, <2>2, <2>3, Failing, OneRow DEF PacketLost, RequestInvariant
<1>2. CASE Ask(r)
  <2>1. peer'[r] \in [at: {"away", "holds", "advertised", "asked", "sent", "proved", "over"},
                      segment: 0 .. Segments, total: 0 .. Segments]
    BY <1>2 DEF Ask, RequestInvariant, RequestTypeOK
  <2>2. RequestTypeOK'
    BY <1>2, <2>1 DEF Ask, RequestInvariant, RequestTypeOK
  <2> QED  BY <1>2, <2>2 DEF Ask, RequestInvariant, RequestIsSound, Pending
<1> QED  BY <1>1, <1>2, SendPacketKeeps, SendResourceKeeps, TimersKeep DEF Client

-----------------------------------------------------------------------------
(* The close. *)

LEMMA ClosedKeeps ==
  ASSUME RequestInvariant, LinkClosed PROVE RequestInvariant'
<1>1. \A r \in Requests : receipt'[r] \in Receipts /\ ~Pending(r)'
        /\ (~Pending(r) => receipt'[r] = receipt[r])
  <2> SUFFICES ASSUME NEW r \in Requests
               PROVE  receipt'[r] \in Receipts /\ ~Pending(r)' /\ (~Pending(r) => receipt'[r] = receipt[r])
    OBVIOUS
  <2>1. receipt[r] \in Receipts /\ "closed" \in Reasons
    BY DEF RequestInvariant, RequestTypeOK, Reasons
  <2>2. Failed(receipt[r], "closed") \in Receipts /\ Failed(receipt[r], "closed").status = "FAILED"
    BY <2>1, ReceiptOps
  <2>3. receipt'[r] = IF Pending(r) THEN Failed(receipt[r], "closed") ELSE receipt[r]
    BY DEF LinkClosed
  <2> QED  BY <2>1, <2>2, <2>3 DEF Pending
<1>2. 0 \in 0 .. Segments
  BY RequestsAssumption
<1>3. receipt' \in [Requests -> Receipts]
  BY <1>1 DEF LinkClosed
<1>4. RequestTypeOK'
  <2>1. sending' \in [Requests -> {"none", "moving", "proved", "failed", "over"}]
    BY DEF RequestInvariant, RequestTypeOK, LinkClosed
  <2>2. arriving' \in [Requests -> 0 .. Segments] /\ held' \in [Requests -> 0 .. Segments]
    BY <1>2 DEF LinkClosed
  <2>3. wire' = <<>> /\ open' = FALSE /\ peer' = peer
    BY DEF LinkClosed
  <2>4. <<>> \in Seq(Packets)
    OBVIOUS
  <2> QED  BY <1>3, <2>1, <2>2, <2>3, <2>4 DEF RequestInvariant, RequestTypeOK
<1>5. ASSUME NEW r \in Requests PROVE RequestIsSound(r)'
  <2>1. RequestIsSound(r) /\ sending[r] = "none" => sending'[r] = "none"
    BY DEF RequestInvariant, LinkClosed
  <2>2. arriving'[r] = 0
    BY DEF LinkClosed
  <2>3. receipt'[r].status = "none" => receipt[r].status = "none" \/ Pending(r)
    BY <1>1 DEF Pending
  <2>4. Pending(r) => receipt'[r].status = "FAILED"
    <3>1. receipt[r] \in Receipts /\ "closed" \in Reasons
      BY DEF RequestInvariant, RequestTypeOK, Reasons
    <3>2. Failed(receipt[r], "closed").status = "FAILED"
      BY <3>1, FailedOp
    <3>3. Pending(r) => receipt'[r] = Failed(receipt[r], "closed")
      BY DEF LinkClosed
    <3> QED  BY <3>2, <3>3
  <2> QED  BY <1>1, <2>1, <2>2, <2>3, <2>4 DEF RequestIsSound, Pending, RequestInvariant
<1> QED  BY <1>4, <1>5 DEF RequestInvariant

-----------------------------------------------------------------------------
(* The peer's steps: they leave every receipt, and what runs for it, alone. *)

PeerStates == [at: {"away", "holds", "advertised", "asked", "sent", "proved", "over"},
               segment: 0 .. Segments, total: 0 .. Segments]

\* A step of the peer that puts packets on the wire keeps what is RequestIsSound.
LEMMA ClientUntouched ==
  ASSUME RequestInvariant, UNCHANGED <<open, receipt, sending, arriving, held>>,
         wire' \in Seq(Packets), peer' \in [Requests -> PeerStates]
  PROVE  RequestInvariant'
<1>1. RequestTypeOK'
  BY DEF RequestInvariant, RequestTypeOK, PeerStates
<1> QED  BY <1>1 DEF RequestInvariant, RequestIsSound, Pending

\* The packets of a request, as the peer is, and as it will be.
LEMMA PacketTyped ==
  ASSUME RequestTypeOK, NEW r \in Requests,
         NEW kind \in {"proof", "refusal", "response", "advert", "compressed", "part", "last", "cancel", "close"}
  PROVE  /\ Packet(kind, r) \in Packets
         /\ \A s \in 0 .. Segments, t \in 0 .. Segments :
              [Packet(kind, r) EXCEPT !.segment = s, !.total = t] \in Packets
         /\ \A s \in 0 .. Segments : [Packet(kind, r) EXCEPT !.segment = s] \in Packets
BY DEF RequestTypeOK, Packet, Packets

LEMMA PeerKeeps ==
  ASSUME RequestInvariant, NEW r \in Requests, Peer(r) PROVE RequestInvariant'
<1>0. /\ RequestTypeOK /\ wire \in Seq(Packets) /\ peer \in [Requests -> PeerStates] /\ peer[r] \in PeerStates
      /\ 1 .. Segments \subseteq 0 .. Segments /\ 1 \in 0 .. Segments
  BY RequestsAssumption DEF RequestInvariant, RequestTypeOK, PeerStates
<1>1. CASE PeerTakes(r)
  <2>1. Packet("proof", r) \in Packets
    BY <1>0, PacketTyped
  <2>2. wire' \in Seq(Packets)
    BY <1>0, <1>1, <2>1 DEF PeerTakes
  <2>3. peer' \in [Requests -> PeerStates]
    BY <1>0, <1>1 DEF PeerTakes, PeerStates
  <2> QED  BY <1>1, <2>2, <2>3, ClientUntouched DEF PeerTakes
<1>2. CASE PeerRefuses(r)
  <2>1. Packet("refusal", r) \in Packets
    BY <1>0, PacketTyped
  <2>2. wire' \in Seq(Packets)
    BY <1>0, <1>2, <2>1 DEF PeerRefuses
  <2>3. peer' \in [Requests -> PeerStates]
    BY <1>0, <1>2 DEF PeerRefuses, PeerStates
  <2> QED  BY <1>2, <2>2, <2>3, ClientUntouched DEF PeerRefuses
<1>3. CASE PeerAnswers(r)
  <2>1. CASE /\ peer' = [peer EXCEPT ![r].at = "over"]
             /\ \E kind \in {"response", "compressed"} : wire' = Append(wire, Packet(kind, r))
    <3>1. \A kind \in {"response", "compressed"} : Packet(kind, r) \in Packets
      BY <1>0, PacketTyped
    <3>2. wire' \in Seq(Packets)
      BY <1>0, <2>1, <3>1
    <3>3. peer' \in [Requests -> PeerStates]
      BY <1>0, <2>1 DEF PeerStates
    <3> QED  BY <1>3, <3>2, <3>3, ClientUntouched DEF PeerAnswers
  <2>2. CASE \E n \in 1 .. Segments :
               /\ peer' = [peer EXCEPT ![r] = [at |-> "advertised", segment |-> 1, total |-> n]]
               /\ wire' = Append(wire, [Packet("advert", r) EXCEPT !.segment = 1, !.total = n])
    <3>1. PICK n \in 1 .. Segments :
               /\ peer' = [peer EXCEPT ![r] = [at |-> "advertised", segment |-> 1, total |-> n]]
               /\ wire' = Append(wire, [Packet("advert", r) EXCEPT !.segment = 1, !.total = n])
      BY <2>2
    <3>2. n \in 0 .. Segments
      BY <1>0
    <3>3. [Packet("advert", r) EXCEPT !.segment = 1, !.total = n] \in Packets
      BY <1>0, <3>2, PacketTyped
    <3>4. wire' \in Seq(Packets)
      BY <1>0, <3>1, <3>3
    <3>5. [at |-> "advertised", segment |-> 1, total |-> n] \in PeerStates
      BY <1>0, <3>2 DEF PeerStates
    <3>6. peer' \in [Requests -> PeerStates]
      BY <1>0, <3>1, <3>5
    <3> QED  BY <1>3, <3>4, <3>6, ClientUntouched DEF PeerAnswers
  <2> QED  BY <1>3, <2>1, <2>2 DEF PeerAnswers
<1>4. CASE PeerAdvertisesAgain(r)
  <2>1. Packet("advert", r) \in Packets
    BY <1>0, PacketTyped
  <2>2. wire' \in Seq(Packets) /\ peer' \in [Requests -> PeerStates]
    BY <1>0, <1>4, <2>1 DEF PeerAdvertisesAgain
  <2> QED  BY <1>4, <2>2, ClientUntouched DEF PeerAdvertisesAgain
<1>5. CASE PeerSendsParts(r)
  <2>1. Packet("part", r) \in Packets /\ Packet("last", r) \in Packets
    BY <1>0, PacketTyped
  <2>2. <<Packet("part", r), Packet("last", r)>> \in Seq(Packets)
    BY <2>1
  <2>3. wire' \in Seq(Packets)
    BY <1>0, <1>5, <2>2 DEF PeerSendsParts
  <2>4. peer' \in [Requests -> PeerStates]
    BY <1>0, <1>5 DEF PeerSendsParts, PeerStates
  <2> QED  BY <1>5, <2>3, <2>4, ClientUntouched DEF PeerSendsParts
<1>6. CASE PeerGoesOn(r)
  <2>1. peer[r].segment + 1 \in 0 .. Segments
    BY <1>0, <1>6, RequestsAssumption DEF PeerGoesOn, PeerStates
  <2>2. Packet("advert", r).segment = peer[r].segment
    BY DEF Packet
  <2>3. [Packet("advert", r) EXCEPT !.segment = @ + 1] \in Packets
    BY <1>0, <2>1, <2>2, PacketTyped
  <2>4. wire' \in Seq(Packets)
    BY <1>0, <1>6, <2>3 DEF PeerGoesOn
  <2>5. peer' \in [Requests -> PeerStates]
    BY <1>0, <1>6, <2>1 DEF PeerGoesOn, PeerStates
  <2> QED  BY <1>6, <2>4, <2>5, ClientUntouched DEF PeerGoesOn
<1>7. CASE PeerGivesUp(r)
  <2>1. Packet("cancel", r) \in Packets
    BY <1>0, PacketTyped
  <2>2. wire' \in Seq(Packets)
    BY <1>0, <1>7, <2>1 DEF PeerGivesUp
  <2>3. peer' \in [Requests -> PeerStates]
    BY <1>0, <1>7 DEF PeerGivesUp, PeerStates
  <2> QED  BY <1>7, <2>2, <2>3, ClientUntouched DEF PeerGivesUp
<1> QED  BY <1>1, <1>2, <1>3, <1>4, <1>5, <1>6, <1>7 DEF Peer

\* A close on its way, and a packet lost.
LEMMA WireKeeps ==
  ASSUME RequestInvariant, PeerCloses \/ Lose PROVE RequestInvariant'
<1>0. RequestTypeOK /\ wire \in Seq(Packets) /\ peer \in [Requests -> PeerStates]
  BY DEF RequestInvariant, RequestTypeOK, PeerStates
<1>1. CASE PeerCloses
  <2>1. \A r \in Requests : Packet("close", r) \in Packets
    BY <1>0, PacketTyped
  <2>2. wire' \in Seq(Packets)
    BY <1>0, <1>1, <2>1 DEF PeerCloses
  <2> QED  BY <1>0, <1>1, <2>2, ClientUntouched DEF PeerCloses
<1>2. CASE Lose
  <2>1. wire' \in Seq(Packets)
    BY <1>0, <1>2 DEF Lose
  <2> QED  BY <1>0, <1>2, <2>1, ClientUntouched DEF Lose
<1> QED  BY <1>1, <1>2

-----------------------------------------------------------------------------
(* What arrives. *)

\* The peer may move to another of its stages.
LEMMA PeerMoves ==
  ASSUME peer \in [Requests -> PeerStates], NEW r \in Requests,
         NEW at \in {"away", "holds", "advertised", "asked", "sent", "proved", "over"}
  PROVE  [peer EXCEPT ![r].at = at] \in [Requests -> PeerStates]
BY DEF PeerStates

\* A stage the peer reaches only from another.
LEMMA PeerMovesFrom ==
  ASSUME peer \in [Requests -> PeerStates], NEW r \in Requests,
         NEW from, NEW to \in {"away", "holds", "advertised", "asked", "sent", "proved", "over"}
  PROVE  [peer EXCEPT ![r].at = IF @ = from THEN to ELSE @] \in [Requests -> PeerStates]
<1>1. peer[r].at \in {"away", "holds", "advertised", "asked", "sent", "proved", "over"}
  BY DEF PeerStates
<1>2. (IF peer[r].at = from THEN to ELSE peer[r].at)
        \in {"away", "holds", "advertised", "asked", "sent", "proved", "over"}
  BY <1>1
<1> QED  BY <1>2, PeerMoves

\* A handler is given a packet p of the request r that the wire held first.
LEMMA HandledKeeps ==
  ASSUME RequestInvariant, NEW r \in Requests, NEW p \in Packets, p.of = r, open' = open,
         wire' \in Seq(Packets),
         \/ p.kind = "proof" /\ OnProof(r, "proved")
         \/ p.kind = "refusal" /\ OnProof(r, "failed")
         \/ p.kind = "response" /\ OnResponse(r)
         \/ p.kind \in {"advert", "compressed"} /\ OnAdvert(r, p)
         \/ p.kind = "part" /\ OnPart(r, p)
         \/ p.kind = "last" /\ OnLast(r, p)
         \/ p.kind = "cancel" /\ OnCancel(r)
  PROVE  RequestInvariant'
<1>0. /\ RequestTypeOK /\ RequestIsSound(r) /\ receipt[r] \in Receipts /\ 0 \in 0 .. Segments
      /\ p.segment \in 0 .. Segments /\ {"closed", "refused", "transfer"} \subseteq Reasons
      /\ peer \in [Requests -> PeerStates]
  BY RequestsAssumption DEF RequestInvariant, RequestTypeOK, Packets, Reasons, PeerStates
<1>1. ASSUME NEW end \in {"proved", "failed"}, OnProof(r, end) PROVE RequestInvariant'
  <2>1. RequestTypeOK'
    BY <1>0, <1>1 DEF OnProof, RequestTypeOK
  <2>2. RequestIsSound(r)'
    BY <1>0, <1>1 DEF OnProof, RequestIsSound, Pending, RequestTypeOK
  <2> QED  BY <1>0, <1>1, <2>1, <2>2, OneRow DEF OnProof, RequestTypeOK
<1>2. CASE OnResponse(r)
  <2>1. Ready(receipt[r]) \in Receipts /\ Ready(receipt[r]).status = "READY"
    BY <1>0, AnswerOps
  <2>2. RequestTypeOK'
    BY <1>0, <1>2, <2>1 DEF OnResponse, RequestTypeOK
  <2>3. RequestIsSound(r)'
    BY <1>0, <1>2, <2>1 DEF OnResponse, RequestIsSound, Pending, RequestTypeOK
  <2> QED  BY <1>0, <1>2, <2>2, <2>3, OneRow DEF OnResponse, RequestTypeOK
<1>3. CASE OnAdvert(r, p)
  <2>1. CASE UNCHANGED <<receipt, sending, arriving, held, peer>>
    <3>1. RequestTypeOK'
      BY <1>0, <2>1 DEF RequestTypeOK
    <3> QED  BY <2>1, <3>1 DEF RequestInvariant, RequestIsSound, Pending
  <2>2. CASE OnRefusedAdvert(r) /\ receipt[r].status # "RECEIVING"
    <3>1. FailRequest(r, "refused") /\ "refused" \in Reasons
      BY <1>0, <2>2 DEF OnRefusedAdvert
    <3>2. RequestTypeOK'
      BY <1>0, <2>2, <3>1, Failing DEF OnRefusedAdvert, RequestTypeOK
    <3>3. RequestIsSound(r)'
      BY <1>0, <2>2, <3>1, Failing DEF OnRefusedAdvert, RequestIsSound, Pending
    <3> QED  BY <1>0, <2>2, <3>1, <3>2, <3>3, Failing, OneRow DEF OnRefusedAdvert
  <2>3. CASE Pending(r) /\ InOrder(p) /\ OnAccepted(r, p) /\ arriving[r] # p.segment
    <3>1. Receiving(receipt[r]) \in Receipts /\ Receiving(receipt[r]).status = "RECEIVING"
          /\ ~Receiving(receipt[r]).clock
      BY <1>0, AnswerOps
    <3>2. peer' \in [Requests -> PeerStates]
      <4>1. [peer EXCEPT ![r].at = IF @ = "advertised" THEN "asked" ELSE @] \in [Requests -> PeerStates]
        BY <1>0, PeerMovesFrom
      <4>2. peer' \in {peer, [peer EXCEPT ![r].at = IF @ = "advertised" THEN "asked" ELSE @]}
        BY <2>3 DEF OnAccepted
      <4> QED  BY <1>0, <4>1, <4>2
    <3>3. RequestTypeOK'
      <4>1. receipt' \in [Requests -> Receipts] /\ arriving' \in [Requests -> 0 .. Segments]
            /\ sending' = sending /\ held' = held
        BY ZenonT(40), <1>0, <2>3, <3>1 DEF OnAccepted, RequestTypeOK
      <4> QED  BY <1>0, <3>2, <4>1 DEF RequestTypeOK, PeerStates
    <3>4. p.segment # 0
      BY <1>0, <2>3 DEF InOrder, RequestTypeOK
    <3>5. RequestIsSound(r)'
      BY <1>0, <2>3, <3>1, <3>4 DEF OnAccepted, RequestIsSound, Pending, RequestTypeOK
    <3> QED  BY <1>0, <2>3, <3>3, <3>5, OneRow DEF OnAccepted, RequestTypeOK
  <2> QED  BY <1>3, <2>1, <2>2, <2>3 DEF OnAdvert, OnAccepted, OnRefusedAdvert
<1>4. CASE OnPart(r, p)
  <2>1. RequestTypeOK'
    BY ZenonT(40), <1>0, <1>4 DEF OnPart, RequestTypeOK
  <2>2. RequestIsSound(r)'
    BY <1>0, <1>4 DEF OnPart, RequestIsSound, Pending, RequestTypeOK
  <2> QED  BY <1>0, <1>4, <2>1, <2>2, OneRow DEF OnPart, RequestTypeOK
<1>5. CASE OnLast(r, p)
  <2>1. /\ peer' \in [Requests -> PeerStates]
        /\ arriving' \in [Requests -> 0 .. Segments]
        /\ arriving' = [arriving EXCEPT ![r] = IF @ = p.segment THEN 0 ELSE @]
        /\ sending' = sending
    <3>1. [peer EXCEPT ![r].at = IF @ = "sent" THEN "proved" ELSE @] \in [Requests -> PeerStates]
      BY <1>0, PeerMovesFrom
    <3>2. peer' \in {peer, [peer EXCEPT ![r].at = IF @ = "sent" THEN "proved" ELSE @]}
      BY <1>5 DEF OnLast
    <3>3. arriving' = [arriving EXCEPT ![r] = IF @ = p.segment THEN 0 ELSE @] /\ sending' = sending
      BY <1>5 DEF OnLast
    <3>4. arriving' \in [Requests -> 0 .. Segments]
      BY <1>0, <3>3 DEF RequestTypeOK
    <3> QED  BY <1>0, <3>1, <3>2, <3>3, <3>4
  <2>2. CASE arriving[r] # p.segment /\ UNCHANGED <<receipt, held>>
    <3>1. RequestTypeOK'
      BY <1>0, <2>1, <2>2 DEF RequestTypeOK, PeerStates
    <3>2. arriving' = arriving
      BY <1>0, <2>1, <2>2 DEF RequestTypeOK
    <3> QED  BY <2>1, <2>2, <3>1, <3>2 DEF RequestInvariant, RequestIsSound, Pending
  <2>3. CASE IncomingDropped(r)
    <3>1. RequestTypeOK'
      BY <1>0, <2>1, <2>3, Dropping DEF RequestTypeOK, PeerStates
    <3>2. RequestIsSound(r)'
      BY <1>0, <2>1, <2>3, Dropping DEF RequestTypeOK, RequestIsSound, Pending
    <3>3. \A q \in Requests \ {r} :
            receipt'[q] = receipt[q] /\ sending'[q] = sending[q] /\ arriving'[q] = arriving[q]
      BY <1>0, <2>1, <2>3, Dropping DEF RequestTypeOK
    <3> QED  BY <1>0, <3>1, <3>2, <3>3, OneRow
  <2>4. CASE /\ arriving[r] = p.segment /\ InOrder(p)
             /\ receipt' = [receipt EXCEPT ![r] = BetweenSegments(@)]
             /\ held' = [held EXCEPT ![r] = p.segment]
    <3>1. BetweenSegments(receipt[r]) \in Receipts
          /\ (receipt[r].status = "RECEIVING" =>
                BetweenSegments(receipt[r]).status = "DELIVERED" /\ BetweenSegments(receipt[r]).clock)
          /\ (receipt[r].status # "RECEIVING" => BetweenSegments(receipt[r]) = receipt[r])
      BY <1>0, AnswerOps
    <3>2. RequestTypeOK'
      BY <1>0, <2>1, <2>4, <3>1 DEF RequestTypeOK, PeerStates
    <3>3. arriving[r] # 0
      BY <1>0, <2>4 DEF InOrder, RequestTypeOK
    <3>4. RequestIsSound(r)'
      BY <1>0, <2>1, <2>4, <3>1, <3>3 DEF RequestTypeOK, RequestIsSound, Pending
    <3> QED  BY <1>0, <2>1, <2>4, <3>2, <3>4, OneRow DEF RequestTypeOK
  <2>5. CASE /\ arriving[r] = p.segment
             /\ receipt' = (IF Pending(r) THEN [receipt EXCEPT ![r] = Ready(@)] ELSE receipt)
             /\ held' = [held EXCEPT ![r] = 0]
    <3>1. Ready(receipt[r]) \in Receipts /\ Ready(receipt[r]).status = "READY"
      BY <1>0, AnswerOps
    <3>2. RequestTypeOK'
      BY <1>0, <2>1, <2>5, <3>1 DEF RequestTypeOK, PeerStates
    <3>3. RequestIsSound(r)'
      BY <1>0, <2>1, <2>5, <3>1 DEF RequestTypeOK, RequestIsSound, Pending
    <3> QED  BY <1>0, <2>1, <2>5, <3>2, <3>3, OneRow DEF RequestTypeOK
  <2> QED  BY <1>5, <2>2, <2>3, <2>4, <2>5 DEF OnLast, DispatchConcluded
<1>6. CASE OnCancel(r)
  <2>1. CASE UNCHANGED <<receipt, sending, arriving, held, peer>>
    <3>1. RequestTypeOK'
      BY <1>0, <2>1 DEF RequestTypeOK
    <3> QED  BY <2>1, <3>1 DEF RequestInvariant, RequestIsSound, Pending
  <2>2. CASE IncomingDropped(r) /\ arriving' = [arriving EXCEPT ![r] = 0] /\ UNCHANGED <<sending, peer>>
    <3>1. RequestTypeOK'
      BY <1>0, <2>2, Dropping DEF RequestTypeOK
    <3>2. RequestIsSound(r)'
      BY <1>0, <2>2, Dropping DEF RequestTypeOK, RequestIsSound, Pending
    <3> QED  BY SMTT(30), <1>0, <2>2, <3>1, <3>2, Dropping, OneRow DEF RequestTypeOK
  <2> QED  BY <1>6, <2>1, <2>2 DEF OnCancel
<1> QED  BY <1>1, <1>2, <1>3, <1>4, <1>5, <1>6

LEMMA ReceiveKeeps ==
  ASSUME RequestInvariant, ReceivePacket PROVE RequestInvariant'
<1>1. CASE LinkClosed
  BY <1>1, ClosedKeeps
<1>2. CASE wire' = Tail(wire) /\ open' = open /\ ~LinkClosed
  <2> DEFINE p == Head(wire)
  <2>1. wire # <<>> /\ wire \in Seq(Packets)
    BY DEF ReceivePacket, RequestInvariant, RequestTypeOK
  <2>2. p \in Packets /\ p.of \in Requests /\ wire' \in Seq(Packets)
    <3>1. Head(wire) \in Packets /\ Tail(wire) \in Seq(Packets)
      BY <2>1
    <3>2. \A x \in Packets : x.of \in Requests
      BY DEF Packets
    <3> QED  BY <1>2, <3>1, <3>2
  <2>3. \/ p.kind = "proof" /\ OnProof(p.of, "proved")
        \/ p.kind = "refusal" /\ OnProof(p.of, "failed")
        \/ p.kind = "response" /\ OnResponse(p.of)
        \/ p.kind \in {"advert", "compressed"} /\ OnAdvert(p.of, p)
        \/ p.kind = "part" /\ OnPart(p.of, p)
        \/ p.kind = "last" /\ OnLast(p.of, p)
        \/ p.kind = "cancel" /\ OnCancel(p.of)
    BY <1>2 DEF ReceivePacket
  <2> HIDE DEF p
  <2> QED  BY <1>2, <2>2, <2>3, HandledKeeps
<1> QED  BY <1>1, <1>2 DEF ReceivePacket

-----------------------------------------------------------------------------
(* The theorems. *)

LEMMA RequestInitSound == ASSUME RequestsInit PROVE RequestInvariant
<1>1. 0 \in 0 .. Segments
  BY RequestsAssumption
<1>2. [status |-> "none", clock |-> FALSE, why |-> "none"] \in Receipts
  BY <1>1 DEF Receipts, ReceiptStatuses, Reasons
<1>3. [at |-> "away", segment |-> 0, total |-> 0] \in PeerStates
  BY <1>1 DEF PeerStates
<1>4. RequestTypeOK
  BY <1>1, <1>2, <1>3 DEF RequestsInit, RequestTypeOK, PeerStates
<1> QED  BY <1>4 DEF RequestsInit, RequestInvariant, RequestIsSound, Pending

LEMMA RequestNextKeeps == ASSUME RequestInvariant, [RequestsNext]_requestVars PROVE RequestInvariant'
<1>1. CASE UNCHANGED requestVars
  BY <1>1 DEF requestVars, RequestInvariant, RequestTypeOK, RequestIsSound, Pending
<1>2. CASE RequestsNext
  BY <1>2, ClientKeeps, PeerKeeps, ReceiveKeeps, WireKeeps, ClosedKeeps DEF RequestsNext
<1> QED  BY <1>1, <1>2

\* The receipt of a request that is over is left as it is, but for its reason,
\* by a step: what each handler changes is a request that is pending, or one
\* that was never made.
LEMMA OverIsOver ==
  ASSUME RequestInvariant, RequestsNext, NEW q \in Requests, receipt[q].status \in {"READY", "FAILED"}
  PROVE  receipt'[q].status = receipt[q].status
<1>0. RequestTypeOK /\ receipt \in [Requests -> Receipts] /\ receipt[q] \in Receipts /\ ~Pending(q)
      /\ {"closed", "refused", "transfer", "lost", "timeout", "unsent"} \subseteq Reasons
  BY DEF RequestInvariant, RequestTypeOK, Pending, Reasons
<1>1. ASSUME NEW r \in Requests, NEW cause \in Reasons, FailRequest(r, cause)
      PROVE  receipt'[q].status = receipt[q].status
  BY <1>0, <1>1, Failing
<1>2. ASSUME NEW r \in Requests, IncomingDropped(r)
      PROVE  receipt'[q].status = receipt[q].status
  BY <1>0, <1>2, Dropping
<1>3. ASSUME NEW r \in Requests, Client(r) PROVE receipt'[q].status = receipt[q].status
  <2>1. CASE SendPacket(r) \/ SendResource(r)
    BY <1>0, <2>1 DEF SendPacket, SendResource
  <2>2. CASE PacketLost(r)
    BY <1>0, <1>1, <2>2 DEF PacketLost
  <2>3. CASE Ask(r) \/ SendingFails(r)
    BY <2>3 DEF Ask, SendingFails
  <2>4. CASE TimesOut(r)
    BY <1>0, <1>1, <2>4 DEF TimesOut
  <2>5. CASE SendingConcluded(r)
    BY <1>0, <1>1, <2>5 DEF SendingConcluded
  <2>6. CASE TransferEnds(r)
    BY <1>2, <2>6 DEF TransferEnds
  <2> QED  BY <1>3, <2>1, <2>2, <2>3, <2>4, <2>5, <2>6 DEF Client, Timers
<1>4. ASSUME NEW r \in Requests, Peer(r) PROVE receipt'[q].status = receipt[q].status
  BY <1>4 DEF Peer, PeerTakes, PeerRefuses, PeerAnswers, PeerAdvertisesAgain, PeerSendsParts,
              PeerGoesOn, PeerGivesUp
<1>5. CASE LinkClosed
  BY <1>0, <1>5 DEF LinkClosed
<1>6. CASE ReceivePacket /\ ~LinkClosed
  <2> DEFINE p == Head(wire)
  <2>1. p.of \in Requests
    <3>1. Head(wire) \in Packets
      BY <1>0, <1>6 DEF ReceivePacket, RequestTypeOK
    <3> QED  BY <3>1 DEF Packets
  <2>2. CASE OnProof(p.of, "proved") \/ OnProof(p.of, "failed") \/ OnPart(p.of, p)
    BY <2>2 DEF OnProof, OnPart
  <2>3. CASE OnResponse(p.of)
    BY <1>0, <2>1, <2>3 DEF OnResponse
  <2>4. CASE OnAdvert(p.of, p)
    BY <1>0, <1>1, <2>1, <2>4 DEF OnAdvert, OnRefusedAdvert, OnAccepted
  <2>5. CASE OnLast(p.of, p)
    <3>1. receipt[q].status # "RECEIVING" => BetweenSegments(receipt[q]) = receipt[q]
      BY <1>0, AnswerOps
    <3> QED  BY <1>0, <1>2, <2>1, <2>5, <3>1 DEF OnLast, DispatchConcluded
  <2>6. CASE OnCancel(p.of)
    BY <1>2, <2>1, <2>6 DEF OnCancel
  <2> QED  BY <1>6, <2>2, <2>3, <2>4, <2>5, <2>6 DEF ReceivePacket
<1>7. CASE PeerCloses \/ Lose
  BY <1>7 DEF PeerCloses, Lose
<1> QED  BY <1>3, <1>4, <1>5, <1>6, <1>7 DEF RequestsNext

\* Only a link that reaches CLOSED is down after a step, and its pending
\* requests fail as closed.
LEMMA ClosedAsClosed ==
  ASSUME RequestInvariant, RequestsNext, open, ~open', NEW q \in Requests, Pending(q)
  PROVE  receipt'[q].status = "FAILED" /\ receipt'[q].why = "closed"
<1>1. LinkClosed
  <2>1. ASSUME NEW r \in Requests, Client(r) PROVE FALSE
    BY <2>1 DEF Client, Timers, SendPacket, SendResource, PacketLost, Ask, TimesOut, SendingFails,
                SendingConcluded, TransferEnds
  <2>2. ASSUME NEW r \in Requests, Peer(r) PROVE FALSE
    BY <2>2 DEF Peer, PeerTakes, PeerRefuses, PeerAnswers, PeerAdvertisesAgain, PeerSendsParts,
                PeerGoesOn, PeerGivesUp
  <2>3. CASE ReceivePacket
    BY <2>3 DEF ReceivePacket
  <2> QED  BY <2>1, <2>2, <2>3 DEF RequestsNext, PeerCloses, Lose
<1>2. receipt[q] \in Receipts /\ "closed" \in Reasons
  BY DEF RequestInvariant, RequestTypeOK, Reasons
<1>3. receipt'[q] = Failed(receipt[q], "closed")
  BY <1>1 DEF LinkClosed
<1> QED  BY <1>2, <1>3, FailedOp

\* The types, and what runs for each request, in every state.
THEOREM RequestInvariantHolds == RequestsSpec => []RequestInvariant
<1>1. RequestsInit => RequestInvariant
  BY RequestInitSound
<1>2. RequestInvariant /\ [RequestsNext]_requestVars => RequestInvariant'
  BY RequestNextKeeps
<1> QED  BY <1>1, <1>2, PTL DEF RequestsSpec

\* link.js keeps every receipt, Resource and reassembly well formed.
THEOREM RequestTypesHold == RequestsSpec => []RequestTypeOK
<1>1. RequestInvariant => RequestTypeOK
  BY DEF RequestInvariant
<1> QED  BY <1>1, RequestInvariantHolds, PTL

\* A pending request is on a link that is up, and always has something left
\* that will decide it: its Resource, its response clock or its transfer.
THEOREM SomethingAlwaysDecides == RequestsSpec => []SomethingDecides
<1>1. RequestInvariant => SomethingDecides
  BY DEF RequestInvariant, RequestIsSound, SomethingDecides, Pending
<1> QED  BY <1>1, RequestInvariantHolds, PTL

\* No response clock runs beside the transfer of the response.
THEOREM NeverTimedMidTransfer == RequestsSpec => []NotTimedMidTransfer
<1>1. RequestInvariant => NotTimedMidTransfer
  BY DEF RequestInvariant, RequestIsSound, NotTimedMidTransfer, Pending
<1> QED  BY <1>1, RequestInvariantHolds, PTL

\* A request answered is never failed, and one failed never answered.
THEOREM OutcomesStand == RequestsSpec => OutcomeStands
<1>1. RequestInvariant /\ [RequestsNext]_requestVars =>
        [\A r \in Requests : receipt[r].status \in {"READY", "FAILED"} =>
           receipt'[r].status = receipt[r].status]_requestVars
  BY OverIsOver
<1> QED  BY <1>1, RequestInvariantHolds, PTL DEF RequestsSpec, OutcomeStands

\* The close of the link is the reason of every request it decides.
THEOREM CloseSaysSo == RequestsSpec => CloseIsTheReason
<1>1. RequestInvariant /\ [RequestsNext]_requestVars =>
        [\A r \in Requests : open /\ ~open' /\ Pending(r) =>
           receipt'[r].status = "FAILED" /\ receipt'[r].why = "closed"]_requestVars
  BY ClosedAsClosed
<1> QED  BY <1>1, RequestInvariantHolds, PTL DEF RequestsSpec, CloseIsTheReason

\* What the run checks of the states, for every set of requests and every
\* number of segments.
THEOREM RequestsSound == RequestsSpec => []RequestSound
<1>1. RequestTypeOK /\ SomethingDecides /\ NotTimedMidTransfer => RequestSound
  BY DEF RequestSound
<1> QED  BY <1>1, RequestTypesHold, SomethingAlwaysDecides, NeverTimedMidTransfer, PTL

\* What the run checks of the outcomes, for every set of requests.
THEOREM OutcomesSound == RequestsSpec => OutcomeSound
<1>1. OutcomeStands /\ CloseIsTheReason => OutcomeSound
  BY DEF OutcomeSound
<1> QED  BY <1>1, OutcomesStand, CloseSaysSo

-----------------------------------------------------------------------------
(* The interface: its queue and batches, whatever the node answers.        *)

\* No element of a sequence is there twice.
Distinct(s) == \A i, j \in 1..Len(s) : s[i] = s[j] => i = j

-----------------------------------------------------------------------------
(* What the operations on a queue do to its elements. *)

\* Appending a packet adds it to the elements, and nothing else.
LEMMA ElemsAppend ==
  ASSUME NEW S, NEW s \in Seq(S), NEW x \in S
  PROVE  /\ Append(s, x) \in Seq(S)
         /\ Elems(Append(s, x)) = Elems(s) \cup {x}
         /\ Distinct(s) /\ x \notin Elems(s) => Distinct(Append(s, x))
<1> DEFINE t == Append(s, x)
<1>1. t \in Seq(S) /\ Len(t) = Len(s) + 1 /\ t[Len(s) + 1] = x
      /\ \A k \in 1..Len(s) : t[k] = s[k]
  OBVIOUS
<1>2. Len(s) \in Nat
  OBVIOUS
<1> HIDE DEF t
<1>3. Elems(t) = Elems(s) \cup {x}
  <2>1. 1..Len(t) = 1..Len(s) \cup {Len(s) + 1}
    BY <1>1, <1>2
  <2> QED  BY <1>1, <2>1 DEF Elems
<1>4. Distinct(s) /\ x \notin Elems(s) => Distinct(t)
  BY <1>1, <1>2 DEF Distinct, Elems
<1> QED  BY <1>1, <1>3, <1>4 DEF t

\* A concatenation holds the elements of both sequences.
LEMMA ElemsConcat ==
  ASSUME NEW S, NEW s \in Seq(S), NEW t \in Seq(S)
  PROVE  /\ s \o t \in Seq(S)
         /\ Elems(s \o t) = Elems(s) \cup Elems(t)
<1> DEFINE u == s \o t
<1>1. u \in Seq(S) /\ Len(u) = Len(s) + Len(t) /\ Len(s) \in Nat /\ Len(t) \in Nat
      /\ \A k \in 1..Len(u) : u[k] = IF k <= Len(s) THEN s[k] ELSE t[k - Len(s)]
  OBVIOUS
<1> HIDE DEF u
<1>2. \A k \in 1..Len(t) : u[k + Len(s)] = t[k] /\ k + Len(s) \in 1..Len(u)
  BY <1>1
<1>3. \A k \in 1..Len(s) : u[k] = s[k] /\ k \in 1..Len(u)
  BY <1>1
<1>4. \A k \in 1..Len(u) : (k \in 1..Len(s) /\ u[k] = s[k])
                           \/ (k - Len(s) \in 1..Len(t) /\ u[k] = t[k - Len(s)])
  BY <1>1
<1>5. Elems(u) \subseteq Elems(s) \cup Elems(t)
  BY <1>4 DEF Elems
<1>6. Elems(s) \subseteq Elems(u)
  BY <1>3 DEF Elems
<1>7. Elems(t) \subseteq Elems(u)
  <2> SUFFICES ASSUME NEW k \in 1..Len(t) PROVE t[k] \in Elems(u)
    BY DEF Elems
  <2> QED  BY <1>2 DEF Elems
<1> QED  BY <1>1, <1>5, <1>6, <1>7 DEF u

\* Taking the first n packets off a queue without duplicates parts its
\* elements in two.
LEMMA ElemsSplit ==
  ASSUME NEW S, NEW s \in Seq(S), NEW n \in Nat, n <= Len(s)
  PROVE  /\ SubSeq(s, 1, n) \in Seq(S) /\ SubSeq(s, n + 1, Len(s)) \in Seq(S)
         /\ Elems(s) = Elems(SubSeq(s, 1, n)) \cup Elems(SubSeq(s, n + 1, Len(s)))
         /\ Distinct(s) => /\ Distinct(SubSeq(s, n + 1, Len(s)))
                           /\ Elems(SubSeq(s, 1, n)) \cap Elems(SubSeq(s, n + 1, Len(s))) = {}
<1> DEFINE a == SubSeq(s, 1, n)
           b == SubSeq(s, n + 1, Len(s))
<1>1. a \in Seq(S) /\ Len(a) = n /\ \A k \in 1..n : a[k] = s[k]
  OBVIOUS
<1>2. b \in Seq(S) /\ Len(b) = Len(s) - n /\ \A k \in 1..Len(s) - n : b[k] = s[k + n]
  OBVIOUS
<1>3. Len(s) \in Nat
  OBVIOUS
<1> HIDE DEF a, b
<1>4. \A k \in 1..Len(s) : (k \in 1..Len(a) /\ a[k] = s[k])
                           \/ (k - n \in 1..Len(b) /\ b[k - n] = s[k])
  BY <1>1, <1>2, <1>3
<1>5. \A k \in 1..Len(a) : k \in 1..Len(s) /\ a[k] = s[k]
  BY <1>1, <1>3
<1>6. \A k \in 1..Len(b) : k + n \in 1..Len(s) /\ b[k] = s[k + n]
  BY <1>2, <1>3
<1>7. Elems(s) = Elems(a) \cup Elems(b)
  <2>1. Elems(s) \subseteq Elems(a) \cup Elems(b)
    BY <1>4 DEF Elems
  <2>2. Elems(a) \subseteq Elems(s)
    BY <1>5 DEF Elems
  <2>3. Elems(b) \subseteq Elems(s)
    <3> SUFFICES ASSUME NEW k \in 1..Len(b) PROVE b[k] \in Elems(s)
      BY DEF Elems
    <3> QED  BY <1>6 DEF Elems
  <2> QED  BY <2>1, <2>2, <2>3
<1>8. ASSUME Distinct(s) PROVE Distinct(b) /\ Elems(a) \cap Elems(b) = {}
  <2>1. Distinct(b)
    <3> SUFFICES ASSUME NEW i \in 1..Len(b), NEW j \in 1..Len(b), b[i] = b[j] PROVE i = j
      BY DEF Distinct
    <3>1. s[i + n] = s[j + n] /\ i + n \in 1..Len(s) /\ j + n \in 1..Len(s)
      BY <1>6
    <3>2. i + n = j + n
      BY <3>1, <1>8 DEF Distinct
    <3>3. i \in Int /\ j \in Int
      BY <1>2, <1>3
    <3> QED  BY <3>2, <3>3
  <2>2. Elems(a) \cap Elems(b) = {}
    <3> SUFFICES ASSUME NEW i \in 1..Len(a), NEW j \in 1..Len(b), a[i] = b[j] PROVE FALSE
      BY DEF Elems
    <3>1. i \in 1..Len(s) /\ j + n \in 1..Len(s) /\ s[i] = s[j + n]
      BY <1>5, <1>6
    <3>2. i = j + n
      BY <3>1, <1>8 DEF Distinct
    <3>3. i <= n /\ j >= 1 /\ i \in Int /\ j \in Int
      BY <1>1, <1>2, <1>3
    <3> QED  BY <3>2, <3>3
  <2> QED  BY <2>1, <2>2
<1> QED  BY <1>1, <1>2, <1>7, <1>8 DEF a, b

LEMMA ElemsEmpty == Elems(<<>>) = {} /\ Distinct(<<>>)
  BY DEF Elems, Distinct

-----------------------------------------------------------------------------
(* The inductive invariant. *)

\* Before connect() nothing was exchanged.
Fresh ==
  phase # "start" /\ immediate = 0 =>
    /\ ~running /\ phase = "idle" /\ up = "null" /\ told = "none" /\ stales = 0
    /\ sent = {} /\ processed = {} /\ lost = {}

\* Where the exchange cycle can be in which state.
Cycle ==
  /\ phase \in {"start", "send"} => running
  /\ phase = "start" => immediate < MaxImmediate
  /\ phase \notin {"exchange", "landed"} => batch = NoBatch
  /\ running => ~stopped

\* Each packet is in one place.
Places ==
  /\ Elems(queue) \cup sent \cup lost \subseteq given
  /\ Elems(batch.packets) \cup answered \subseteq sent
  /\ unsent \subseteq lost
  /\ Distinct(queue)
  /\ Elems(queue) \cap (sent \cup lost) = {}
  /\ unsent \cap sent = {}
  /\ phase = "exchange" => Elems(batch.packets) \cap (answered \cup lost) = {}
  /\ answered \cap lost = {}
  /\ \A p \in given \ Oversized :
       p \in InQueue \cup InFlight \cup answered \cup lost \/ (~running /\ p \in sent)

\* The extra round is taken once.
StaleCount == running => stales <= 1 /\ (~staleTaken => stales = 0)

Inv == InterfaceTypeOK /\ Fresh /\ Cycle /\ Places /\ ToldTruth /\ AcksKept /\ StaleCount

-----------------------------------------------------------------------------
(* Types. *)

\* The elements of a sequence over S are in S.
LEMMA ElemsIn == ASSUME NEW S, NEW s \in Seq(S) PROVE Elems(s) \subseteq S
  BY DEF Elems

\* What the app is told keeps its type.
LEMMA LifeType ==
  ASSUME LifeOK, InterfaceNext PROVE LifeOK'
<1> USE DEF life, LifeOK
<1>1. CASE Storm \/ Poll \/ Start \/ Send \/ Loop
  BY <1>1 DEF Storm, Poll, BeginRun, Start, Send, Loop, BackOff
<1>12. CASE (\E p \in Outbound : SendData(p)) \/ PageEvent
  BY ZenonT(40), <1>12 DEF SendData, Flush, BeginRun, PageEvent, Check, AbortInFlight
<1>11. CASE LandsGone \/ LandsAborted \/ Challenged \/ ChallengeUnknown
          \/ StaleChallenge
  BY <1>11 DEF LandsGone, Landing, LandsAborted, LoseBatch, OweAcks,
       Challenged, Answered, Task, NextRequest, ChallengeUnknown,
       StaleChallenge, StaleRound
<1>2. CASE Connect
  BY <1>2 DEF Connect, BeginRun
<1>3. CASE Disconnect
  BY <1>3 DEF Disconnect
<1>4. CASE Block
  BY <1>4 DEF Block
<1>5. CASE LandsFailed
  BY <1>5 DEF LandsFailed, Landing, Fail, FailDown, QueueUnsent, OweAcks,
       BackOff
<1>6. CASE LandsRefused
  BY <1>6 DEF LandsRefused, Landing, Stop, OweAcks
<1>7. CASE StaleTwice
  BY <1>7 DEF StaleTwice, Landing, Stop, OweAcks
<1>8. CASE Registered
  BY <1>8 DEF Registered, Answered, Task
<1>9. CASE Exchanged
  BY <1>9 DEF Exchanged, Landing, Answered, SayUp
<1>10. CASE ExchangeRefused401
  BY <1>10 DEF ExchangeRefused401, Landing, Answered, Stop, SessionLost,
       FailDown, QueueUnsent, OweAcks
<1> QED  BY <1>1, <1>2, <1>3, <1>4, <1>5, <1>6, <1>7, <1>8, <1>9, <1>10,
         <1>11, <1>12 DEF InterfaceNext, Lands, Step

\* The session keeps its type.
LEMMA SessionType ==
  ASSUME SessionOK, InterfaceNext PROVE SessionOK'
<1> USE DEF session, SessionOK
<1>1. CASE (\E p \in Outbound : SendData(p)) \/ Connect \/ PageEvent \/ Storm
          \/ Disconnect \/ Block \/ Poll \/ LandsGone \/ LandsAborted
          \/ Challenged \/ ChallengeUnknown \/ Exchanged \/ Start \/ Loop
  BY <1>1 DEF SendData, Flush, BeginRun, Connect, PageEvent, Check,
       AbortInFlight, Storm, Disconnect, Block, Poll, LandsGone, Landing,
       LandsAborted, LoseBatch, OweAcks, Challenged, Answered, Task,
       NextRequest, ChallengeUnknown, Exchanged, SayUp, Start, Loop, BackOff
<1>2. CASE LandsFailed
  BY <1>2 DEF LandsFailed, Landing, Fail, FailDown, QueueUnsent, OweAcks,
       BackOff
<1>3. CASE LandsRefused
  BY <1>3 DEF LandsRefused, Landing, Stop, OweAcks
<1>4. CASE StaleChallenge
  BY <1>4 DEF StaleChallenge, Answered, Task, NextRequest, StaleRound
<1>5. CASE StaleTwice
  <2>1. stales' \in Nat
    BY <1>5 DEF StaleTwice
  <2> QED  BY <1>5, <2>1 DEF StaleTwice, Stop
<1>6. CASE Registered
  BY <1>6 DEF Registered, Answered, Task
<1>7. CASE ExchangeRefused401
  BY <1>7 DEF ExchangeRefused401, Landing, Answered, Stop, SessionLost,
       FailDown, QueueUnsent, OweAcks
<1>8. CASE Send
  BY <1>8 DEF Send
<1> QED  BY <1>1, <1>2, <1>3, <1>4, <1>5, <1>6, <1>7, <1>8 DEF InterfaceNext, Lands, Step

\* The timer and the backoff keep their type: the cap is never passed.
LEMMA ClockType ==
  ASSUME ClockOK, InterfaceNext PROVE ClockOK'
<1> USE PostInterfaceAssumption DEF clock, ClockOK
<1>1. CASE Storm \/ LandsGone \/ LandsAborted \/ Challenged
          \/ ChallengeUnknown \/ StaleChallenge \/ Start \/ Send
  BY <1>1 DEF Storm, LandsGone, Landing, LandsAborted, LoseBatch, OweAcks,
       Challenged, Answered, Task, NextRequest, ChallengeUnknown,
       StaleChallenge, StaleRound, Start, Send
<1>2. CASE \E p \in Outbound : SendData(p)
  BY <1>2 DEF SendData, Flush, BeginRun
<1>3. CASE Connect
  BY <1>3 DEF Connect, BeginRun
<1>4. CASE PageEvent
  BY <1>4 DEF PageEvent, Check, BeginRun, AbortInFlight
<1>5. CASE Disconnect
  BY <1>5 DEF Disconnect
<1>6. CASE Block
  BY <1>6 DEF Block
<1>7. CASE Poll
  BY <1>7 DEF Poll, BeginRun
<1>8. CASE LandsFailed
  BY <1>8 DEF LandsFailed, Landing, Fail, FailDown, QueueUnsent, OweAcks,
       BackOff
<1>9. CASE LandsRefused
  BY <1>9 DEF LandsRefused, Landing, Stop, OweAcks
<1>10. CASE StaleTwice
  BY <1>10 DEF StaleTwice, Landing, Stop, OweAcks
<1>11. CASE Registered
  BY <1>11 DEF Registered, Answered, Task
<1>12. CASE Exchanged
  BY <1>12 DEF Exchanged, Landing, Answered, SayUp
<1>13. CASE ExchangeRefused401
  BY <1>13 DEF ExchangeRefused401, Landing, Answered, Stop, SessionLost,
       FailDown, QueueUnsent, OweAcks
<1>14. CASE Loop
  BY <1>14 DEF Loop, BackOff
<1> QED  BY <1>1, <1>2, <1>3, <1>4, <1>5, <1>6, <1>7, <1>8, <1>9, <1>10,
         <1>11, <1>12, <1>13, <1>14 DEF InterfaceNext, Lands, Step

\* The network keeps its type.
LEMMA WorldType ==
  ASSUME WorldOK, InterfaceNext PROVE WorldOK'
<1> USE PostInterfaceAssumption DEF world, WorldOK
<1>1. CASE (\E p \in Outbound : SendData(p)) \/ Connect \/ Disconnect \/ Block
          \/ Poll \/ LandsGone \/ LandsAborted
  BY <1>1 DEF SendData, Flush, BeginRun, Connect, Disconnect, Block, Poll,
       LandsGone, Landing, LandsAborted, LoseBatch, OweAcks
<1>2. CASE LandsFailed \/ LandsRefused \/ StaleTwice \/ Registered
          \/ Exchanged \/ ExchangeRefused401 \/ Loop
  BY <1>2 DEF LandsFailed, Landing, Fail, FailDown, QueueUnsent, OweAcks,
       BackOff, LandsRefused, Stop, StaleTwice, Registered, Answered, Task,
       Exchanged, SayUp, ExchangeRefused401, SessionLost, Loop
<1>3. CASE PageEvent
  <2>1. calm' \in BOOLEAN
    BY <1>3 DEF PageEvent
  <2>2. checks' \in 0..MaxChecks
    BY <1>3 DEF PageEvent
  <2> QED  BY <1>3, <2>1, <2>2 DEF PageEvent
<1>4. CASE Storm
  BY <1>4 DEF Storm
<1>5. CASE Challenged
  BY <1>5 DEF Challenged, Answered, Task, NextRequest
<1>6. CASE ChallengeUnknown
  BY <1>6 DEF ChallengeUnknown, Answered, Task, NextRequest
<1>7. CASE StaleChallenge
  BY <1>7 DEF StaleChallenge, Answered, Task, NextRequest, StaleRound
<1>8. CASE Start
  BY <1>8 DEF Start
<1>9. CASE Send
  BY <1>9 DEF Send
<1> QED  BY <1>1, <1>2, <1>3, <1>4, <1>5, <1>6, <1>7, <1>8, <1>9 DEF InterfaceNext, Lands, Step

\* A new run starts within the bound on exchanges.
LEMMA BeginRunType ==
  ASSUME CycleOK, BeginRun, outcome' = outcome, pending' \in BOOLEAN,
         checkRequested' \in BOOLEAN, aborted' \in BOOLEAN
  PROVE  CycleOK'
<1>1. phase' \in Waiting \cup Busy \cup {"idle"}
  BY DEF BeginRun, Busy
<1>2. immediate' \in 0..MaxImmediate
  BY PostInterfaceAssumption DEF BeginRun
<1> QED  BY <1>1, <1>2 DEF CycleOK, BeginRun

\* The cycle keeps its type: MAX_IMMEDIATE_EXCHANGES is never passed.
LEMMA CycleType ==
  ASSUME CycleOK, Cycle, InterfaceNext PROVE CycleOK'
<1> USE PostInterfaceAssumption DEF cycle, CycleOK
<1>1. CASE Storm \/ Block
  BY <1>1 DEF Storm, Block
<1>2. CASE \E p \in Outbound : SendData(p)
  <2> PICK p \in Outbound : SendData(p)
    BY <1>2
  <2>1. CASE Flush
    BY <2>1, BeginRunType DEF Flush, SendData
  <2>2. CASE ~Flush
    BY <2>2 DEF SendData
  <2> QED  BY <2>1, <2>2
<1>3. CASE Connect
  BY <1>3 DEF Connect, BeginRun, Waiting, Busy
<1>4. CASE PageEvent
  <2>1. Check /\ UNCHANGED <<outcome, pending>>
    BY <1>4 DEF PageEvent
  <2>2. CASE BeginRun
    BY <2>1, <2>2, BeginRunType DEF Check, AbortInFlight
  <2>3. CASE ~BeginRun
    BY <2>1, <2>3 DEF Check, AbortInFlight
  <2> QED  BY <2>2, <2>3
<1>5. CASE Disconnect
  BY <1>5 DEF Disconnect, Waiting, Busy
<1>6. CASE Poll
  <2>1. BeginRun /\ UNCHANGED <<outcome, pending, checkRequested, aborted>>
    BY <1>6 DEF Poll
  <2> QED  BY <2>1, BeginRunType
<1>7. CASE LandsGone
  BY <1>7 DEF LandsGone, Landing, Waiting, Busy
<1>8. CASE LandsAborted
  BY <1>8 DEF LandsAborted, Landing, LoseBatch, OweAcks, Waiting, Busy
<1>9. CASE LandsFailed
  BY <1>9 DEF LandsFailed, Landing, Fail, FailDown, QueueUnsent, OweAcks,
       BackOff, Waiting, Busy
<1>10. CASE LandsRefused
  BY <1>10 DEF LandsRefused, Landing, Stop, OweAcks, Waiting, Busy
<1>11. CASE Challenged
  BY <1>11 DEF Challenged, Answered, Task, NextRequest, Waiting, Busy
<1>12. CASE ChallengeUnknown
  BY <1>12 DEF ChallengeUnknown, Answered, Task, NextRequest, Waiting, Busy
<1>13. CASE StaleChallenge
  BY <1>13 DEF StaleChallenge, Answered, Task, NextRequest, StaleRound,
       Waiting, Busy
<1>14. CASE StaleTwice
  BY <1>14 DEF StaleTwice, Landing, Stop, OweAcks, Waiting, Busy
<1>15. CASE Registered
  BY <1>15 DEF Registered, Answered, Task, Waiting, Busy
<1>16. CASE Exchanged
  BY <1>16 DEF Exchanged, Landing, Answered, SayUp, Waiting, Busy
<1>17. CASE ExchangeRefused401
  BY <1>17 DEF ExchangeRefused401, Landing, Answered, Stop, SessionLost,
       FailDown, QueueUnsent, OweAcks, Waiting, Busy
<1>18. CASE Start
  <2>1. immediate' = immediate + 1 /\ immediate < MaxImmediate
    BY <1>18 DEF Start, Cycle
  <2>2. immediate' \in 0..MaxImmediate
    BY <2>1
  <2> QED  BY <1>18, <2>2 DEF Start, Waiting, Busy
<1>19. CASE Send
  BY <1>19 DEF Send, Waiting, Busy
<1>20. CASE Loop
  BY <1>20 DEF Loop, BackOff, Waiting, Busy
<1> QED  BY <1>1, <1>2, <1>3, <1>4, <1>5, <1>6, <1>7, <1>8, <1>9, <1>10,
         <1>11, <1>12, <1>13, <1>14, <1>15, <1>16, <1>17, <1>18, <1>19, <1>20 DEF InterfaceNext, Lands, Step

\* The queues keep their type.
LEMMA DataType ==
  ASSUME DataOK, InterfaceNext PROVE DataOK'
<1> USE PostInterfaceAssumption DEF data, DataOK
<1>1. CASE Connect \/ PageEvent \/ Storm \/ Disconnect \/ Poll
  BY <1>1 DEF Connect, BeginRun, PageEvent, Check, AbortInFlight, Storm,
       Disconnect, Poll
<1>2. CASE LandsGone \/ Challenged \/ ChallengeUnknown \/ StaleChallenge
          \/ Registered
  BY <1>2 DEF LandsGone, Landing, Challenged, Answered, Task, NextRequest,
       ChallengeUnknown, StaleChallenge, StaleRound, Registered
<1>3. CASE \E p \in Outbound : SendData(p)
  <2> PICK p \in Outbound : SendData(p)
    BY <1>3
  <2>1. queue' \in {queue, Append(queue, p)} /\ UNCHANGED <<acks, batch>>
    BY DEF SendData
  <2>2. Append(queue, p) \in Seq(Outbound)
    OBVIOUS
  <2> HIDE DEF SendData
  <2> QED  BY <2>1, <2>2
<1>4. CASE Block
  BY <1>4 DEF Block
<1>5. CASE LandsAborted
  BY <1>5, ElemsConcat DEF LandsAborted, Landing, LoseBatch, OweAcks
<1>6. CASE LandsFailed
  BY <1>6, ElemsConcat DEF LandsFailed, Landing, Fail, FailDown, QueueUnsent,
       OweAcks, BackOff
<1>7. CASE LandsRefused
  BY <1>7, ElemsConcat DEF LandsRefused, Landing, Stop, OweAcks
<1>8. CASE StaleTwice
  BY <1>8, ElemsConcat DEF StaleTwice, Landing, Stop, OweAcks
<1>9. CASE Exchanged
  <2>1. UNCHANGED <<queue, batch>>
    BY <1>9 DEF Exchanged
  <2>2. acks' = acks \/ \E d \in 1..Deliveries : acks' = Append(acks, d)
    BY <1>9 DEF Exchanged
  <2>3. ASSUME NEW d \in 1..Deliveries PROVE Append(acks, d) \in Seq(1..Deliveries)
    OBVIOUS
  <2>4. acks' \in Seq(1..Deliveries)
    BY <2>2, <2>3
  <2> QED  BY <2>1, <2>4
<1>10. CASE ExchangeRefused401
  <2>1. CASE Stop
    BY <1>10, <2>1, ElemsConcat DEF ExchangeRefused401, Stop, OweAcks
  <2>2. CASE SessionLost
    BY <1>10, <2>2, ElemsConcat DEF ExchangeRefused401, SessionLost, FailDown, OweAcks
  <2> QED  BY <1>10, <2>1, <2>2 DEF ExchangeRefused401
<1>11. CASE Start
  BY <1>11 DEF Start, NoBatch
<1>12. CASE Send
  BY <1>12, ElemsSplit DEF Send
<1>13. CASE Loop
  BY <1>13 DEF Loop, BackOff, NoBatch
<1> QED  BY <1>1, <1>2, <1>3, <1>4, <1>5, <1>6, <1>7, <1>8, <1>9, <1>10,
         <1>11, <1>12, <1>13 DEF InterfaceNext, Lands, Step

\* The fates of packets keep their type.
LEMMA FatesType ==
  ASSUME FatesOK, DataOK, InterfaceNext PROVE FatesOK'
<1> USE PostInterfaceAssumption DEF fates, FatesOK
<1>1. CASE Connect \/ PageEvent \/ Storm \/ Disconnect \/ Poll \/ LandsGone
  BY <1>1 DEF Connect, BeginRun, PageEvent, Check, AbortInFlight, Storm,
       Disconnect, Poll, LandsGone, Landing
<1>2. CASE Challenged \/ ChallengeUnknown \/ StaleChallenge \/ Registered
          \/ Start \/ Loop
  BY <1>2 DEF Challenged, Answered, Task, NextRequest, ChallengeUnknown,
       StaleChallenge, StaleRound, Registered, Start, Loop, BackOff
<1>3. CASE \E p \in Outbound : SendData(p)
  BY <1>3 DEF SendData, Flush, BeginRun
<1>4. CASE Block
  BY <1>4, ElemsIn DEF Block, DataOK
<1>5. CASE LandsAborted
  BY <1>5, ElemsIn DEF LandsAborted, Landing, LoseBatch, OweAcks, DataOK
<1>6. CASE LandsFailed
  BY <1>6, ElemsIn DEF LandsFailed, Landing, Fail, FailDown, QueueUnsent,
       OweAcks, BackOff, DataOK
<1>7. CASE LandsRefused
  BY <1>7, ElemsIn DEF LandsRefused, Landing, Stop, OweAcks, DataOK
<1>8. CASE StaleTwice
  BY <1>8, ElemsIn DEF StaleTwice, Landing, Stop, OweAcks, DataOK
<1>9. CASE Exchanged
  BY <1>9, ElemsIn DEF Exchanged, Landing, Answered, SayUp, DataOK
<1>10. CASE ExchangeRefused401
  BY <1>10, ElemsIn DEF ExchangeRefused401, Landing, Answered, Stop,
       SessionLost, FailDown, QueueUnsent, OweAcks, DataOK
<1>11. CASE Send
  <2> DEFINE n == IF Len(queue) < MaxBatch THEN Len(queue) ELSE MaxBatch
  <2>1. n \in Nat /\ n <= Len(queue) /\ queue \in Seq(Outbound)
    BY PostInterfaceAssumption DEF DataOK
  <2>2. sent' = sent \cup Elems(SubSeq(queue, 1, n)) /\ UNCHANGED <<given, answered, lost, unsent>>
    BY <1>11 DEF Send
  <2> HIDE DEF n
  <2>3. SubSeq(queue, 1, n) \in Seq(Outbound)
    BY <2>1, ElemsSplit
  <2> QED  BY <2>2, <2>3, ElemsIn
<1> QED  BY <1>1, <1>2, <1>3, <1>4, <1>5, <1>6, <1>7, <1>8, <1>9, <1>10, <1>11 DEF InterfaceNext, Lands, Step

\* Delivery batches keep their type.
LEMMA NodeType ==
  ASSUME NodeOK, DataOK, InterfaceNext PROVE NodeOK'
<1> USE DEF node, NodeOK
<1>1. CASE (\E p \in Outbound : SendData(p)) \/ Connect \/ PageEvent \/ Storm
          \/ Disconnect \/ Block \/ Poll \/ LandsGone \/ LandsRefused
  BY <1>1 DEF SendData, Flush, BeginRun, Connect, PageEvent, Check,
       AbortInFlight, Storm, Disconnect, Block, Poll, LandsGone, Landing,
       LandsRefused, Stop, OweAcks
<1>2. CASE Challenged \/ ChallengeUnknown \/ StaleChallenge \/ StaleTwice
          \/ Registered \/ ExchangeRefused401 \/ Start \/ Send \/ Loop
  BY <1>2 DEF Challenged, Answered, Task, NextRequest, ChallengeUnknown,
       StaleChallenge, StaleRound, StaleTwice, Landing, Stop, OweAcks,
       Registered, ExchangeRefused401, SessionLost, FailDown, QueueUnsent,
       Start, Send, Loop, BackOff
<1>3. CASE LandsAborted
  BY <1>3, ElemsIn DEF LandsAborted, Landing, LoseBatch, OweAcks, DataOK
<1>4. CASE LandsFailed
  BY <1>4, ElemsIn DEF LandsFailed, Landing, Fail, FailDown, QueueUnsent,
       OweAcks, BackOff, DataOK
<1>5. CASE Exchanged
  BY <1>5, ElemsIn DEF Exchanged, Landing, Answered, SayUp, DataOK
<1> QED  BY <1>1, <1>2, <1>3, <1>4, <1>5 DEF InterfaceNext, Lands, Step

-----------------------------------------------------------------------------
(* The rest of the invariant. *)

LEMMA Bounded == 0 < MaxImmediate
  BY PostInterfaceAssumption

\* Nothing was exchanged before the first exchange.
LEMMA FreshStep ==
  ASSUME Fresh, CycleOK, InterfaceNext PROVE Fresh'
<1> USE DEF Fresh, Waiting, life, session, data, cycle, fates, node
<1>1. CASE Storm \/ Disconnect \/ Challenged \/ ChallengeUnknown
  BY <1>1 DEF Storm, Disconnect, Challenged, Answered, Task, NextRequest,
       ChallengeUnknown
<1>2. CASE \E p \in Outbound : SendData(p)
  BY <1>2 DEF SendData, Flush, BeginRun
<1>3. CASE Connect
  BY <1>3 DEF Connect, BeginRun
<1>4. CASE PageEvent
  BY <1>4 DEF PageEvent, Check, BeginRun, AbortInFlight
<1>5. CASE Block
  BY <1>5 DEF Block
<1>6. CASE Poll
  BY <1>6 DEF Poll, BeginRun
<1>7. CASE LandsGone
  BY <1>7 DEF LandsGone, Landing
<1>8. CASE LandsAborted
  BY <1>8 DEF LandsAborted, Landing, LoseBatch, OweAcks
<1>9. CASE LandsFailed
  BY <1>9 DEF LandsFailed, Landing, Fail, FailDown, QueueUnsent, OweAcks,
       BackOff
<1>10. CASE LandsRefused
  BY <1>10 DEF LandsRefused, Landing, Stop, OweAcks
<1>11. CASE StaleChallenge
  BY <1>11 DEF StaleChallenge, Answered, Task, NextRequest, StaleRound
<1>12. CASE StaleTwice
  BY <1>12 DEF StaleTwice, Landing, Stop, OweAcks
<1>13. CASE Registered
  BY <1>13 DEF Registered, Answered, Task
<1>14. CASE Exchanged
  BY <1>14 DEF Exchanged, Landing, Answered, SayUp
<1>15. CASE ExchangeRefused401
  BY <1>15 DEF ExchangeRefused401, Landing, Answered, Stop, SessionLost,
       FailDown, QueueUnsent, OweAcks
<1>16. CASE Start
  BY <1>16 DEF Start, CycleOK
<1>17. CASE Send
  BY <1>17 DEF Send
<1>18. CASE Loop
  BY <1>18 DEF Loop, BackOff
<1> QED  BY <1>1, <1>2, <1>3, <1>4, <1>5, <1>6, <1>7, <1>8, <1>9, <1>10,
         <1>11, <1>12, <1>13, <1>14, <1>15, <1>16, <1>17, <1>18 DEF InterfaceNext, Lands, Step

\* The cycle runs only on a running interface, and only an exchange has a batch.
LEMMA CycleStep ==
  ASSUME Cycle, Fresh, CycleOK, InterfaceNext PROVE Cycle'
<1> USE DEF Cycle, Waiting, Busy, Task, life, session, data, cycle, fates,
        node
<1>1. CASE Storm
  BY <1>1 DEF Storm
<1>2. CASE \E p \in Outbound : SendData(p)
  BY <1>2, Bounded DEF SendData, Flush, BeginRun
<1>3. CASE Connect
  BY <1>3, Bounded DEF Connect, BeginRun, Fresh, Busy
<1>4. CASE PageEvent
  BY <1>4, Bounded DEF PageEvent, Check, BeginRun, AbortInFlight
<1>5. CASE Disconnect
  BY <1>5 DEF Disconnect
<1>6. CASE Block
  BY <1>6 DEF Block
<1>7. CASE Poll
  BY <1>7, Bounded DEF Poll, BeginRun
<1>8. CASE LandsGone
  BY <1>8 DEF LandsGone, Landing
<1>9. CASE LandsAborted
  BY <1>9 DEF LandsAborted, Landing, LoseBatch, OweAcks
<1>10. CASE LandsFailed
  BY <1>10 DEF LandsFailed, Landing, Fail, FailDown, QueueUnsent, OweAcks,
       BackOff
<1>11. CASE LandsRefused
  BY <1>11 DEF LandsRefused, Landing, Stop, OweAcks
<1>12. CASE Challenged
  BY <1>12 DEF Challenged, Answered, Task, NextRequest
<1>13. CASE ChallengeUnknown
  BY <1>13 DEF ChallengeUnknown, Answered, Task, NextRequest
<1>14. CASE StaleChallenge
  BY <1>14 DEF StaleChallenge, Answered, Task, NextRequest, StaleRound
<1>15. CASE StaleTwice
  BY <1>15 DEF StaleTwice, Landing, Stop, OweAcks
<1>16. CASE Registered
  BY <1>16 DEF Registered, Answered, Task
<1>17. CASE Exchanged
  BY <1>17 DEF Exchanged, Landing, Answered, SayUp
<1>18. CASE ExchangeRefused401
  BY <1>18 DEF ExchangeRefused401, Landing, Answered, Stop, SessionLost,
       FailDown, QueueUnsent, OweAcks
<1>19. CASE Start
  BY <1>19 DEF Start
<1>20. CASE Send
  BY <1>20 DEF Send
<1>21. CASE Loop
  BY <1>21 DEF Loop, BackOff
<1> QED  BY <1>1, <1>2, <1>3, <1>4, <1>5, <1>6, <1>7, <1>8, <1>9, <1>10,
         <1>11, <1>12, <1>13, <1>14, <1>15, <1>16, <1>17, <1>18, <1>19, <1>20,
         <1>21 DEF InterfaceNext, Lands, Step

\* What the app was told is so.
LEMMA ToldStep ==
  ASSUME ToldTruth, Fresh, Cycle, LifeOK, InterfaceNext PROVE ToldTruth'
<1> USE DEF ToldTruth, Cycle, life, session, data, cycle, fates, node
<1>1. CASE Storm \/ Poll \/ LandsGone
  BY <1>1 DEF Storm, Poll, BeginRun, LandsGone, Landing
<1>2. CASE LandsAborted \/ Challenged \/ ChallengeUnknown
  BY <1>2 DEF LandsAborted, Landing, LoseBatch, OweAcks, Challenged, Answered,
       Task, NextRequest, ChallengeUnknown
<1>3. CASE StaleChallenge \/ Start \/ Send
  BY <1>3 DEF StaleChallenge, Answered, Task, NextRequest, StaleRound, Start,
       Send
<1>4. CASE Loop
  BY <1>4 DEF Loop, BackOff
<1>5. CASE \E p \in Outbound : SendData(p)
  BY <1>5 DEF SendData
<1>6. CASE Connect
  BY <1>6 DEF Connect, BeginRun, Fresh, CycleOK
<1>7. CASE PageEvent
  BY <1>7 DEF PageEvent
<1>8. CASE Disconnect
  BY <1>8 DEF Disconnect
<1>9. CASE Block
  BY <1>9 DEF Block
<1>10. CASE LandsFailed
  BY <1>10 DEF LandsFailed, Landing, Fail, FailDown, QueueUnsent, OweAcks,
       BackOff
<1>11. CASE LandsRefused
  BY <1>11 DEF LandsRefused, Landing, Stop, OweAcks
<1>12. CASE StaleTwice
  BY <1>12 DEF StaleTwice, Landing, Stop, OweAcks
<1>13. CASE Registered
  BY <1>13 DEF Registered, Answered, Task
<1>14. CASE Exchanged
  BY <1>14 DEF Exchanged, Landing, Answered, SayUp
<1>15. CASE ExchangeRefused401
  BY <1>15 DEF ExchangeRefused401, Landing, Answered, Stop, SessionLost,
       FailDown, QueueUnsent, OweAcks
<1> QED  BY <1>1, <1>2, <1>3, <1>4, <1>5, <1>6, <1>7, <1>8, <1>9, <1>10,
         <1>11, <1>12, <1>13, <1>14, <1>15 DEF InterfaceNext, Lands, Step

\* A second stale challenge stops the interface.
LEMMA StaleStep ==
  ASSUME StaleCount, Fresh, SessionOK, InterfaceNext PROVE StaleCount'
<1> USE DEF StaleCount, SessionOK, life, session, data, cycle, fates, node
<1>1. CASE (\E p \in Outbound : SendData(p)) \/ PageEvent \/ Storm \/ Poll
          \/ LandsGone \/ LandsAborted \/ LandsFailed
  BY <1>1 DEF SendData, Flush, BeginRun, PageEvent, Check, AbortInFlight,
       Storm, Poll, LandsGone, Landing, LandsAborted, LoseBatch, OweAcks,
       LandsFailed, Fail, FailDown, QueueUnsent, BackOff
<1>2. CASE Challenged \/ ChallengeUnknown \/ Exchanged \/ Start \/ Send
          \/ Loop
  BY <1>2 DEF Challenged, Answered, Task, NextRequest, ChallengeUnknown,
       Exchanged, Landing, SayUp, Start, Send, Loop, BackOff
<1>3. CASE Connect
  BY <1>3 DEF Connect, BeginRun, Fresh, Task, Busy
<1>4. CASE Disconnect
  BY <1>4 DEF Disconnect
<1>5. CASE Block
  BY <1>5 DEF Block
<1>6. CASE LandsRefused
  BY <1>6 DEF LandsRefused, Landing, Stop, OweAcks
<1>7. CASE StaleChallenge
  BY <1>7 DEF StaleChallenge, Answered, Task, NextRequest, StaleRound
<1>8. CASE StaleTwice
  BY <1>8 DEF StaleTwice, Landing, Stop, OweAcks
<1>9. CASE Registered
  BY <1>9 DEF Registered, Answered, Task
<1>10. CASE ExchangeRefused401
  BY <1>10 DEF ExchangeRefused401, Landing, Answered, Stop, SessionLost,
       FailDown, QueueUnsent, OweAcks
<1> QED  BY <1>1, <1>2, <1>3, <1>4, <1>5, <1>6, <1>7, <1>8, <1>9, <1>10 DEF InterfaceNext, Lands, Step

\* A failure that empties the queue leaves every packet one fate.
LEMMA AllLost ==
  ASSUME Places, Cycle, phase \in Waiting, phase' = "landed", queue' = <<>>,
         lost' = lost \cup Elems(batch.packets) \cup Elems(queue),
         unsent' = unsent \cup Elems(queue),
         running' => running, UNCHANGED <<given, sent, answered, batch>>
  PROVE  Places'
<1>1. phase # "exchange" => Elems(batch.packets) = {}
  BY ElemsEmpty DEF Cycle, Waiting, NoBatch
<1>2. phase = "exchange" => Elems(batch.packets) \cap (answered \cup lost) = {}
  BY DEF Places
<1>3. InQueue' = {} /\ InFlight' = {} /\ Elems(queue') = {} /\ Distinct(queue')
  BY ElemsEmpty DEF InQueue, InFlight
<1>4. InQueue = Elems(queue) /\ InFlight \subseteq Elems(batch.packets)
  BY DEF InQueue, InFlight
<1> QED  BY <1>1, <1>2, <1>3, <1>4 DEF Places


\* Every packet keeps to one place.
LEMMA PlacesStep ==
  ASSUME Places, Fresh, Cycle, InterfaceTypeOK, InterfaceNext PROVE Places'
<1> USE DEF life, data, fates
<1>1. CASE \E p \in Outbound : SendData(p)
  <2> PICK p \in Outbound \ given : SendData(p)
    BY <1>1 DEF SendData
  <2>1. InFlight' = InFlight /\ (phase' = "exchange" => phase = "exchange")
    BY DEF SendData, Flush, BeginRun, InFlight
  <2>2. given' = given \cup {p} /\ UNCHANGED <<running, sent, answered, batch>>
    BY DEF SendData
  <2>3. CASE queue' = Append(queue, p) /\ UNCHANGED <<lost, unsent>>
    <3>1. Elems(queue') = Elems(queue) \cup {p} /\ Distinct(queue')
      BY <2>3, ElemsAppend DEF Places, InterfaceTypeOK, DataOK
    <3> QED  BY <2>1, <2>2, <2>3, <3>1 DEF Places, InQueue
  <2>4. CASE lost' = lost \cup {p} /\ unsent' = unsent \cup {p} /\ queue' = queue
    BY <2>1, <2>2, <2>4 DEF Places, InQueue
  <2>5. CASE p \in Oversized /\ UNCHANGED <<queue, lost, unsent>>
    BY <2>1, <2>2, <2>5 DEF Places, InQueue
  <2> QED  BY <2>3, <2>4, <2>5 DEF SendData
<1>2. CASE Connect
  <2>1. InFlight' = InFlight /\ phase' # "exchange" /\ sent = {}
    BY <1>2 DEF Connect, BeginRun, InFlight, Fresh, Task, Busy
  <2> QED  BY <1>2, <2>1 DEF Connect, Places, InQueue
<1>3. CASE PageEvent
  <2>1. InFlight' = InFlight /\ (phase' = "exchange" => phase = "exchange")
    BY <1>3 DEF PageEvent, Check, BeginRun, InFlight
  <2> QED  BY <1>3, <2>1 DEF PageEvent, Places, InQueue
<1>4. CASE Storm
  BY <1>4 DEF Storm, cycle, Places, InQueue, InFlight
<1>5. CASE Disconnect
  BY <1>5 DEF Disconnect, Places, InQueue, InFlight
<1>6. CASE Block
  <2>1. Elems(queue') = {} /\ Distinct(queue')
    BY <1>6, ElemsEmpty DEF Block
  <2> QED  BY <1>6, <2>1 DEF Block, Places, InQueue, InFlight
<1>7. CASE Poll
  <2>1. InFlight' = InFlight /\ phase' # "exchange"
    BY <1>7 DEF Poll, BeginRun, InFlight
  <2> QED  BY <1>7, <2>1 DEF Poll, Places, InQueue
<1>8. CASE LandsGone
  <2>1. InFlight' = {} /\ InFlight \subseteq sent /\ phase' = "landed"
    BY <1>8 DEF LandsGone, Landing, InFlight, Places
  <2> QED  BY <1>8, <2>1 DEF LandsGone, Landing, Places, InQueue
<1>9. CASE LandsAborted
  <2>1. phase # "exchange" => Elems(batch.packets) = {}
    BY <1>9, ElemsEmpty DEF LandsAborted, Landing, Cycle, Waiting, NoBatch
  <2>2. InFlight' = {} /\ InFlight \subseteq Elems(batch.packets) /\ phase' = "landed"
    BY <1>9 DEF LandsAborted, Landing, InFlight
  <2>3. lost' = lost \cup Elems(batch.packets)
        /\ UNCHANGED <<running, queue, batch, given, sent, answered, unsent>>
    BY <1>9 DEF LandsAborted, Landing, LoseBatch
  <2> QED  BY <2>1, <2>2, <2>3 DEF Places, InQueue
<1>10. CASE LandsFailed
  <2>1. queue' = <<>> /\ lost' = lost \cup Elems(batch.packets) \cup Elems(queue)
        /\ unsent' = unsent \cup Elems(queue)
    BY <1>10 DEF LandsFailed, Fail, FailDown, QueueUnsent
  <2>2. (running' => running) /\ phase \in Waiting /\ phase' = "landed"
        /\ UNCHANGED <<given, sent, answered, batch>>
    BY <1>10 DEF LandsFailed, Fail, FailDown, Landing
  <2> QED  BY <2>1, <2>2, AllLost
<1>11. CASE LandsRefused
  <2>1. queue' = <<>> /\ lost' = lost \cup Elems(batch.packets) \cup Elems(queue)
        /\ unsent' = unsent \cup Elems(queue)
    BY <1>11 DEF LandsRefused, Stop
  <2>2. (running' => running) /\ phase \in Waiting /\ phase' = "landed"
        /\ UNCHANGED <<given, sent, answered, batch>>
    BY <1>11 DEF LandsRefused, Stop, Landing
  <2> QED  BY <2>1, <2>2, AllLost
<1>12. CASE Challenged
  <2>1. InFlight' = InFlight /\ phase' # "exchange"
    BY <1>12 DEF Challenged, Answered, NextRequest, InFlight
  <2> QED  BY <1>12, <2>1 DEF Challenged, NextRequest, Places, InQueue
<1>13. CASE ChallengeUnknown
  <2>1. InFlight' = InFlight /\ phase' # "exchange"
    BY <1>13 DEF ChallengeUnknown, Answered, NextRequest, InFlight
  <2> QED  BY <1>13, <2>1 DEF ChallengeUnknown, NextRequest, Places, InQueue
<1>14. CASE StaleChallenge
  <2>1. InFlight' = InFlight /\ phase' # "exchange"
    BY <1>14 DEF StaleChallenge, Answered, NextRequest, InFlight
  <2> QED  BY <1>14, <2>1 DEF StaleChallenge, NextRequest, Places, InQueue
<1>15. CASE StaleTwice
  <2>1. queue' = <<>> /\ lost' = lost \cup Elems(batch.packets) \cup Elems(queue)
        /\ unsent' = unsent \cup Elems(queue)
    BY <1>15 DEF StaleTwice, Stop
  <2>2. (running' => running) /\ phase \in Waiting /\ phase' = "landed"
        /\ UNCHANGED <<given, sent, answered, batch>>
    BY <1>15 DEF StaleTwice, Stop, Landing
  <2> QED  BY <2>1, <2>2, AllLost
<1>16. CASE Registered
  <2>1. InFlight' = InFlight /\ phase' # "exchange"
    BY <1>16 DEF Registered, Answered, InFlight
  <2> QED  BY <1>16, <2>1 DEF Registered, Places, InQueue
<1>17. CASE Exchanged
  <2>1. InFlight' = {} /\ InFlight = Elems(batch.packets) /\ phase' = "landed" /\ phase = "exchange"
    BY <1>17 DEF Exchanged, Landing, Answered, InFlight
  <2>2. answered' = answered \cup Elems(batch.packets)
        /\ UNCHANGED <<running, queue, batch, given, sent, lost, unsent>>
    BY <1>17 DEF Exchanged, Landing
  <2> QED  BY <2>1, <2>2 DEF Places, InQueue
<1>18. CASE ExchangeRefused401
  <2>1. queue' = <<>> /\ lost' = lost \cup Elems(batch.packets) \cup Elems(queue)
        /\ unsent' = unsent \cup Elems(queue)
    BY <1>18 DEF ExchangeRefused401, Stop, SessionLost, FailDown, QueueUnsent
  <2>2. (running' => running) /\ phase \in Waiting /\ phase' = "landed"
        /\ UNCHANGED <<given, sent, answered, batch>>
    BY <1>18 DEF ExchangeRefused401, Stop, SessionLost, FailDown, Landing
  <2> QED  BY <2>1, <2>2, AllLost
<1>19. CASE Start
  <2>1. batch' = batch
    BY <1>19 DEF Start, Cycle
  <2>2. InFlight' = InFlight /\ phase' # "exchange"
    BY <1>19 DEF Start, InFlight
  <2> QED  BY <1>19, <2>1, <2>2 DEF Start, Places, InQueue
<1>20. CASE Send
  <2> DEFINE n == IF Len(queue) < MaxBatch THEN Len(queue) ELSE MaxBatch
             b == SubSeq(queue, 1, n)
  <2>1. n \in Nat /\ n <= Len(queue) /\ queue \in Seq(Outbound)
    BY PostInterfaceAssumption DEF InterfaceTypeOK, DataOK
  <2>2. batch'.packets = b /\ queue' = SubSeq(queue, n + 1, Len(queue))
        /\ sent' = sent \cup Elems(b) /\ phase' = "exchange" /\ phase = "send"
        /\ UNCHANGED <<running, given, answered, lost, unsent>>
    BY <1>20 DEF Send
  <2> HIDE DEF n
  <2>3. Elems(queue) = Elems(b) \cup Elems(queue') /\ Distinct(queue')
        /\ Elems(b) \cap Elems(queue') = {}
    BY <2>1, <2>2, ElemsSplit DEF Places
  <2> HIDE DEF b
  <2>4. InFlight' = Elems(b) /\ InFlight = {}
    BY <2>2 DEF InFlight
  <2> QED  BY <2>2, <2>3, <2>4 DEF Places, InQueue
<1>21. CASE Loop
  <2>1. Elems(batch'.packets) = {}
    BY <1>21, ElemsEmpty DEF Loop, NoBatch
  <2>2. InFlight' = InFlight /\ phase' # "exchange"
    BY <1>21 DEF Loop, InFlight
  <2> QED  BY <1>21, <2>1, <2>2 DEF Loop, Places, InQueue
<1> QED  BY <1>1, <1>2, <1>3, <1>4, <1>5, <1>6, <1>7, <1>8, <1>9, <1>10,
         <1>11, <1>12, <1>13, <1>14, <1>15, <1>16, <1>17, <1>18, <1>19, <1>20,
         <1>21 DEF InterfaceNext, Lands, Step

\* What a failed exchange carried is owed again.
LEMMA AcksOwed ==
  ASSUME AcksKept, DataOK, OweAcks, phase' = "landed", running' => running,
         UNCHANGED <<batch, processed>>, acked' \in {acked, acked \cup Elems(batch.acks)}
  PROVE  AcksKept'
<1>1. Elems(acks') = Elems(batch.acks) \cup Elems(acks)
  BY ElemsConcat DEF DataOK, OweAcks
<1>2. AcksInFlight \subseteq Elems(batch.acks) /\ AcksInFlight' = {}
  BY DEF AcksInFlight
<1> QED  BY <1>1, <1>2 DEF AcksKept


\* An acknowledgement is owed until it was carried.
LEMMA AcksStep ==
  ASSUME AcksKept, Fresh, Cycle, InterfaceTypeOK, InterfaceNext PROVE AcksKept'
<1> USE DEF life, data, node
<1>1. CASE \E p \in Outbound : SendData(p)
  <2>1. AcksInFlight' = AcksInFlight /\ (running' => running)
        /\ UNCHANGED <<acks, batch, processed, acked>>
    BY <1>1 DEF SendData, Flush, BeginRun, AcksInFlight
  <2> QED  BY <2>1 DEF AcksKept
<1>2. CASE Connect
  <2>1. processed = {} /\ UNCHANGED <<acks, batch, processed, acked>>
    BY <1>2 DEF Connect, Fresh, Task, Busy
  <2> QED  BY <2>1 DEF AcksKept
<1>3. CASE PageEvent
  <2>1. AcksInFlight' = AcksInFlight /\ (running' => running)
        /\ UNCHANGED <<acks, batch, processed, acked>>
    BY <1>3 DEF PageEvent, Check, BeginRun, AbortInFlight, AcksInFlight
  <2> QED  BY <2>1 DEF AcksKept
<1>4. CASE Storm
  <2>1. AcksInFlight' = AcksInFlight /\ (running' => running)
        /\ UNCHANGED <<acks, batch, processed, acked>>
    BY <1>4 DEF Storm, cycle, AcksInFlight
  <2> QED  BY <2>1 DEF AcksKept
<1>5. CASE Disconnect
  <2>1. AcksInFlight' = AcksInFlight /\ (running' => running)
        /\ UNCHANGED <<acks, batch, processed, acked>>
    BY <1>5 DEF Disconnect, AcksInFlight
  <2> QED  BY <2>1 DEF AcksKept
<1>6. CASE Block
  <2>1. AcksInFlight' = AcksInFlight /\ (running' => running)
        /\ UNCHANGED <<acks, batch, processed, acked>>
    BY <1>6 DEF Block, AcksInFlight
  <2> QED  BY <2>1 DEF AcksKept
<1>7. CASE Poll
  <2>1. AcksInFlight' = AcksInFlight /\ (running' => running)
        /\ UNCHANGED <<acks, batch, processed, acked>>
    BY <1>7 DEF Poll, BeginRun, AcksInFlight
  <2> QED  BY <2>1 DEF AcksKept
<1>8. CASE LandsGone
  <2>1. ~running' /\ UNCHANGED <<acks, batch, processed, acked>>
    BY <1>8 DEF LandsGone
  <2> QED  BY <2>1 DEF AcksKept
<1>9. CASE LandsAborted
  <2>1. OweAcks /\ phase' = "landed" /\ (running' => running) /\ UNCHANGED <<batch, processed>>
        /\ acked' \in {acked, acked \cup Elems(batch.acks)}
    BY <1>9 DEF LandsAborted, Landing
  <2> QED  BY <2>1, AcksOwed DEF InterfaceTypeOK
<1>10. CASE LandsFailed
  <2>1. OweAcks /\ phase' = "landed" /\ (running' => running) /\ UNCHANGED <<batch, processed>>
        /\ acked' \in {acked, acked \cup Elems(batch.acks)}
    BY <1>10 DEF LandsFailed, Fail, FailDown, Landing
  <2> QED  BY <2>1, AcksOwed DEF InterfaceTypeOK
<1>11. CASE LandsRefused
  <2>1. OweAcks /\ phase' = "landed" /\ (running' => running) /\ UNCHANGED <<batch, processed>>
        /\ acked' \in {acked, acked \cup Elems(batch.acks)}
    BY <1>11 DEF LandsRefused, Stop, Landing
  <2> QED  BY <2>1, AcksOwed DEF InterfaceTypeOK
<1>12. CASE Challenged
  <2>1. AcksInFlight' = AcksInFlight /\ (running' => running)
        /\ UNCHANGED <<acks, batch, processed, acked>>
    BY <1>12 DEF Challenged, Answered, NextRequest, AcksInFlight
  <2> QED  BY <2>1 DEF AcksKept
<1>13. CASE ChallengeUnknown
  <2>1. AcksInFlight' = AcksInFlight /\ (running' => running)
        /\ UNCHANGED <<acks, batch, processed, acked>>
    BY <1>13 DEF ChallengeUnknown, Answered, NextRequest, AcksInFlight
  <2> QED  BY <2>1 DEF AcksKept
<1>14. CASE StaleChallenge
  <2>1. AcksInFlight' = AcksInFlight /\ (running' => running)
        /\ UNCHANGED <<acks, batch, processed, acked>>
    BY <1>14 DEF StaleChallenge, Answered, NextRequest, StaleRound, AcksInFlight
  <2> QED  BY <2>1 DEF AcksKept
<1>15. CASE StaleTwice
  <2>1. OweAcks /\ phase' = "landed" /\ (running' => running) /\ UNCHANGED <<batch, processed>>
        /\ acked' \in {acked, acked \cup Elems(batch.acks)}
    BY <1>15 DEF StaleTwice, Stop, Landing
  <2> QED  BY <2>1, AcksOwed DEF InterfaceTypeOK
<1>16. CASE Registered
  <2>1. AcksInFlight' = AcksInFlight /\ (running' => running)
        /\ UNCHANGED <<acks, batch, processed, acked>>
    BY <1>16 DEF Registered, Answered, AcksInFlight
  <2> QED  BY <2>1 DEF AcksKept
<1>17. CASE Exchanged
  <2> DEFINE seen == acked \cup Elems(batch.acks)
  <2>1. AcksInFlight = Elems(batch.acks) /\ AcksInFlight' = {} /\ acked' = seen
        /\ UNCHANGED <<running, batch>>
    BY <1>17 DEF Exchanged, Landing, Answered, AcksInFlight
  <2>2. CASE UNCHANGED <<acks, processed>>
    BY <2>1, <2>2 DEF AcksKept
  <2>3. CASE \E d \in 1..Deliveries : processed' = processed \cup {d} /\ acks' = Append(acks, d)
    <3> PICK d \in 1..Deliveries : processed' = processed \cup {d} /\ acks' = Append(acks, d)
      BY <2>3
    <3> DEFINE D == 1..Deliveries
    <3>1. acks \in Seq(D) /\ d \in D
      BY DEF InterfaceTypeOK, DataOK
    <3> HIDE DEF D
    <3>2. Elems(acks') = Elems(acks) \cup {d}
      BY <3>1, ElemsAppend
    <3> QED  BY <2>1, <3>2 DEF AcksKept
  <2> QED  BY <1>17, <2>2, <2>3 DEF Exchanged
<1>18. CASE ExchangeRefused401
  <2>1. OweAcks /\ phase' = "landed" /\ (running' => running) /\ UNCHANGED <<batch, processed>>
        /\ acked' \in {acked, acked \cup Elems(batch.acks)}
    BY <1>18 DEF ExchangeRefused401, Stop, SessionLost, FailDown, Landing
  <2> QED  BY <2>1, AcksOwed DEF InterfaceTypeOK
<1>19. CASE Start
  <2>1. AcksInFlight' = AcksInFlight /\ UNCHANGED <<running, acks, batch, processed, acked>>
    BY <1>19 DEF Start, Cycle, AcksInFlight
  <2> QED  BY <2>1 DEF AcksKept
<1>20. CASE Send
  <2>1. Elems(acks') = {} /\ batch'.acks = acks /\ AcksInFlight = {} /\ AcksInFlight' = Elems(acks)
        /\ UNCHANGED <<running, processed, acked>>
    BY <1>20, ElemsEmpty DEF Send, AcksInFlight
  <2> QED  BY <2>1 DEF AcksKept
<1>21. CASE Loop
  <2>1. Elems(batch'.acks) = {} /\ AcksInFlight = {} /\ AcksInFlight' = {}
        /\ UNCHANGED <<running, acks, processed, acked>>
    BY <1>21, ElemsEmpty DEF Loop, NoBatch, AcksInFlight
  <2> QED  BY <2>1 DEF AcksKept
<1> QED  BY <1>1, <1>2, <1>3, <1>4, <1>5, <1>6, <1>7, <1>8, <1>9, <1>10,
         <1>11, <1>12, <1>13, <1>14, <1>15, <1>16, <1>17, <1>18, <1>19, <1>20,
         <1>21 DEF InterfaceNext, Lands, Step

-----------------------------------------------------------------------------
(* The theorems. *)

\* The invariant holds in every state of every behaviour.
LEMMA InterfaceInvariance == InterfaceSpec => []Inv
<1>1. InterfaceInit => Inv
  <2> SUFFICES ASSUME InterfaceInit PROVE Inv
    OBVIOUS
  <2>1. InterfaceTypeOK
    <3>1. LifeOK /\ SessionOK
      BY DEF InterfaceInit, LifeOK, SessionOK
    <3>2. WorldOK
      BY PostInterfaceAssumption DEF InterfaceInit, WorldOK
    <3>3. DataOK
      BY DEF InterfaceInit, DataOK, NoBatch
    <3>4. 0 \in 0..MaxImmediate
      BY PostInterfaceAssumption
    <3>5. CycleOK
      BY <3>4 DEF InterfaceInit, CycleOK
    <3>6. ClockOK
      BY PostInterfaceAssumption DEF InterfaceInit, ClockOK
    <3>7. FatesOK /\ NodeOK
      BY DEF InterfaceInit, FatesOK, NodeOK
    <3> QED  BY <3>1, <3>2, <3>3, <3>5, <3>6, <3>7 DEF InterfaceTypeOK
  <2>2. Fresh /\ Cycle /\ ToldTruth /\ StaleCount
    BY DEF InterfaceInit, Fresh, Cycle, ToldTruth, StaleCount
  <2>3. Places
    BY ElemsEmpty DEF InterfaceInit, Places, NoBatch
  <2>4. AcksKept
    BY ElemsEmpty DEF InterfaceInit, AcksKept, NoBatch
  <2> QED  BY <2>1, <2>2, <2>3, <2>4 DEF Inv
<1>2. Inv /\ [InterfaceNext]_interfaceVars => Inv'
  <2> SUFFICES ASSUME Inv, [InterfaceNext]_interfaceVars PROVE Inv'
    OBVIOUS
  <2>1. CASE InterfaceNext
    <3>1. InterfaceTypeOK'
      BY <2>1, LifeType, SessionType, ClockType, WorldType, CycleType, DataType, FatesType,
         NodeType DEF Inv, InterfaceTypeOK
    <3>2. Fresh' /\ Cycle' /\ ToldTruth' /\ StaleCount'
      BY <2>1, FreshStep, CycleStep, ToldStep, StaleStep DEF Inv, InterfaceTypeOK
    <3>3. Places' /\ AcksKept'
      BY <2>1, PlacesStep, AcksStep DEF Inv
    <3> QED  BY <3>1, <3>2, <3>3 DEF Inv
  <2>2. CASE UNCHANGED interfaceVars
    <3> USE <2>2 DEF interfaceVars, life, session, data, cycle, clock, world, fates, node, Inv
    <3>1. LifeOK' /\ SessionOK' /\ DataOK' /\ CycleOK'
      BY DEF InterfaceTypeOK, LifeOK, SessionOK, DataOK, CycleOK
    <3>2. ClockOK' /\ WorldOK' /\ FatesOK' /\ NodeOK'
      BY DEF InterfaceTypeOK, ClockOK, WorldOK, FatesOK, NodeOK
    <3>3. Fresh' /\ Cycle' /\ ToldTruth' /\ StaleCount'
      BY DEF Fresh, Cycle, ToldTruth, StaleCount
    <3>4. InQueue' = InQueue /\ InFlight' = InFlight /\ AcksInFlight' = AcksInFlight
      BY DEF InQueue, InFlight, AcksInFlight
    <3>5. Places' /\ AcksKept'
      BY <3>4 DEF Places, AcksKept
    <3> QED  BY <3>1, <3>2, <3>3, <3>5 DEF InterfaceTypeOK
  <2> QED  BY <2>1, <2>2
<1> QED  BY <1>1, <1>2, PTL DEF InterfaceSpec

\* Every variable keeps its type and its bound: the backoff its cap, a run of
\* exchanges MAX_IMMEDIATE_EXCHANGES.
THEOREM TypeCorrect == InterfaceSpec => []InterfaceTypeOK
<1>1. Inv => InterfaceTypeOK
  BY DEF Inv
<1> QED  BY <1>1, InterfaceInvariance, PTL

\* No packet handed to sendData vanishes, and none has two fates.
THEOREM PacketsAccounted == InterfaceSpec => []Accounted
<1>1. Inv => Accounted
  <2> SUFFICES ASSUME Inv PROVE Accounted
    OBVIOUS
  <2>1. Elems(queue) \cap Elems(batch.packets) = {} /\ InFlight \subseteq Elems(batch.packets)
    BY DEF Inv, Places, InFlight
  <2>2. Elems(queue) \cap (answered \cup lost) = {}
    BY DEF Inv, Places
  <2>3. InFlight \cap (answered \cup lost) = {}
    BY DEF Inv, Places, InFlight
  <2> QED  BY <2>1, <2>2, <2>3 DEF Inv, Places, Accounted, InQueue
<1> QED  BY <1>1, InterfaceInvariance, PTL

\* A packet reported unsent was in no request.
THEOREM UnsentIsUnsent == InterfaceSpec => []UnsentNeverSent
<1>1. Inv => UnsentNeverSent
  BY DEF Inv, Places, UnsentNeverSent
<1> QED  BY <1>1, InterfaceInvariance, PTL

\* The app is never left believing what is no longer so.
THEOREM AppToldTheTruth == InterfaceSpec => []ToldTruth
<1>1. Inv => ToldTruth
  BY DEF Inv
<1> QED  BY <1>1, InterfaceInvariance, PTL

\* No acknowledgement is forgotten, and none is given for what was not had.
THEOREM AcknowledgementsKept == InterfaceSpec => []AcksKept
<1>1. Inv => AcksKept
  BY DEF Inv
<1> QED  BY <1>1, InterfaceInvariance, PTL

\* Two pages of one identity do not outbid each other for ever.
THEOREM OneExtraRound == InterfaceSpec => []StaleOnce
<1>1. Inv => StaleOnce
  BY DEF Inv, StaleCount, StaleOnce
<1> QED  BY <1>1, InterfaceInvariance, PTL

\* What the run checks of the packets, for every number of them and every
\* bound.
THEOREM InterfaceSound == InterfaceSpec => []PacketsSound
<1>1. InterfaceTypeOK /\ Accounted /\ UnsentNeverSent /\ StaleOnce => PacketsSound
  BY DEF PacketsSound
<1> QED  BY <1>1, TypeCorrect, PacketsAccounted, UnsentIsUnsent, OneExtraRound, PTL
=============================================================================
