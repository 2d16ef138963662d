--------------------------- MODULE InboundProofs ---------------------------
(***************************************************************************)
(* Proofs of Inbound: each message kept once, none lost that was proved or *)
(* taken off the node, what was announced still opens, and a conversation  *)
(* reads right.                                                            *)
(***************************************************************************)
EXTENDS Inbound, FiniteSetTheorems, SequenceTheorems, WellFoundedInduction, TLAPS

-----------------------------------------------------------------------------
(* Numbers, sequences and the operators the model takes from its helpers.   *)

\* The limits are positive.
LEMMA LimitsAre ==
  /\ SeenLimit \in Nat /\ SeenLimit > 0 /\ HeldLimit \in Nat /\ HeldLimit > 0
  /\ KeepLimit \in Nat /\ KeepLimit > 0 /\ RatchetCount \in Nat /\ RatchetCount > 0
<1>1. SeenLimit \in Nat \ {0} /\ HeldLimit \in Nat \ {0} /\ KeepLimit \in Nat \ {0} /\ RatchetCount \in Nat \ {0}
  BY LimitsPositive
<1> QED  BY <1>1

Less == {p \in Nat \X Nat : p[1] < p[2]}

\* A set of natural numbers that is not empty has a least element,
LEMMA LeastNumber ==
  ASSUME NEW T \in SUBSET Nat, T # {}
  PROVE  \E m \in T : \A k \in T : m <= k
<1>1. IsWellFoundedOn(Less, Nat)
  BY Zenon, NatLessThanWellFounded DEF OpToRel, Less
<1>2. PICK m \in T : \A k \in T : <<k, m>> \notin Less
  BY <1>1, WFMin, Zenon
<1>3. \A k \in Nat : k < m => <<k, m>> \in Less
  BY DEF Less
<1>4. \A k \in T : ~(k < m)
  BY <1>2, <1>3, Zenon
<1> QED  BY <1>4

\* which Min is,
LEMMA MinIs ==
  ASSUME NEW T \in SUBSET Nat, T # {}
  PROVE  Min(T) \in T /\ \A k \in T : Min(T) <= k
BY LeastNumber, Zenon DEF Min

\* and one that is bounded has a greatest, which Max is.
LEMMA MaxIs ==
  ASSUME NEW T \in SUBSET Nat, T # {}, NEW n \in Nat, \A k \in T : k <= n
  PROVE  Max(T) \in T /\ \A k \in T : k <= Max(T)
<1> DEFINE U == {u \in 0..n : n - u \in T}
<1>1. U \in SUBSET Nat
  OBVIOUS
<1>2. \A k \in T : n - k \in U
  OBVIOUS
<1>3. U # {}
  BY <1>2, Zenon
<1>4. PICK m \in U : \A u \in U : m <= u
  <2> HIDE DEF U
  <2> QED  BY <1>1, <1>3, LeastNumber
<1>5. n - m \in T /\ \A k \in T : k <= n - m
  BY <1>2, <1>4
<1> QED  BY <1>5, Zenon DEF Max

\* Of two numbers.
LEMMA MaxOfTwo ==
  ASSUME NEW a \in Int, NEW b \in Int
  PROVE  Max({a, b}) = IF a >= b THEN a ELSE b
BY DEF Max

\* The lesser of two numbers.
LEMMA MinOfTwo ==
  ASSUME NEW a \in Int, NEW b \in Int
  PROVE  Min({a, b}) = IF a <= b THEN a ELSE b
BY DEF Min

\* What is in a sequence.
LEMMA InSeq ==
  ASSUME NEW S, NEW q \in Seq(S)
  PROVE  /\ Len(q) \in Nat /\ DOMAIN q = 1..Len(q)
         /\ \A i \in 1..Len(q) : q[i] \in S /\ q[i] \in ToSet(q)
         /\ ToSet(q) \subseteq S
         /\ \A x : x \in ToSet(q) <=> \E i \in 1..Len(q) : q[i] = x
BY DEF ToSet

\* The last n of a sequence.
LEMMA LastOf ==
  ASSUME NEW S, NEW q \in Seq(S), NEW n \in Nat, n > 0
  PROVE  LET t == SubSeq(q, Max({1, Len(q) - n + 1}), Len(q)) IN
         /\ t \in Seq(S)
         /\ Len(t) = IF Len(q) <= n THEN Len(q) ELSE n
         /\ \A i \in 1..Len(t) : t[i] = q[Len(q) - Len(t) + i]
<1> DEFINE m == IF Len(q) <= n THEN 1 ELSE Len(q) - n + 1
           t == SubSeq(q, m, Len(q))
<1>1. Max({1, Len(q) - n + 1}) = m
  BY MaxOfTwo
<1>2. m \in Int /\ m >= 1 /\ m <= Len(q) + 1
  OBVIOUS
<1>3. \A i \in m..Len(q) : q[i] \in S
  BY <1>2
<1>4. /\ t \in Seq(S) /\ Len(t) = IF m <= Len(q) THEN Len(q) - m + 1 ELSE 0
      /\ \A i \in 1..Len(q) - m + 1 : t[i] = q[m + i - 1]
  <2> HIDE DEF m
  <2> QED  BY <1>2, <1>3, SubSeqProperties
<1>5. Len(t) = (IF Len(q) <= n THEN Len(q) ELSE n) /\ Len(t) = Len(q) - m + 1
  <2>1. Len(q) \in Nat /\ (m = IF Len(q) <= n THEN 1 ELSE Len(q) - n + 1)
    OBVIOUS
  <2>2. Len(t) = IF m <= Len(q) THEN Len(q) - m + 1 ELSE 0
    BY <1>4
  <2> HIDE DEF t, m
  <2>3. CASE Len(q) <= n
    BY <2>1, <2>2, <2>3
  <2>4. CASE Len(q) > n
    <3>1. ~(Len(q) <= n) /\ n \in Nat /\ n > 0 /\ Len(q) \in Nat
      BY <2>1, <2>4
    <3>2. m = Len(q) - n + 1
      BY <2>1, <3>1
    <3>3. m <= Len(q)
      BY <3>1, <3>2
    <3>4. Len(t) = Len(q) - m + 1
      BY <2>2, <3>3
    <3> QED  BY <3>1, <3>2, <3>4
  <2> QED  BY <2>1, <2>3, <2>4
<1>6. \A i \in 1..Len(t) : t[i] = q[Len(q) - Len(t) + i]
  <2> SUFFICES ASSUME NEW i \in 1..Len(t) PROVE t[i] = q[Len(q) - Len(t) + i]
    BY Zenon
  <2>1. t[i] = q[m + i - 1] /\ Len(t) \in Nat
    BY <1>4, <1>5
  <2>2. m + i - 1 = Len(q) - Len(t) + i
    <3>1. Len(q) \in Nat /\ i \in Nat
      BY <2>1
    <3>2. Len(t) = Len(q) - m + 1 /\ m \in Int
      BY <1>2, <1>5, Zenon
    <3> HIDE DEF m, t
    <3> QED  BY <3>1, <3>2
  <2> QED  BY <2>1, <2>2, Zenon
<1> HIDE DEF m, t
<1> QED  BY <1>1, <1>4, <1>5, <1>6, Zenon DEF t

\* Recording an id keeps it, and what is not kept is what Dropped says.
LEMMA Recording ==
  ASSUME NEW S, NEW ids \in Seq(S), NEW id \in S, NEW n \in Nat, n > 0
  PROVE  /\ Record(ids, id, n) \in Seq(S)
         /\ id \in ToSet(Record(ids, id, n))
         /\ ToSet(Record(ids, id, n)) \subseteq ToSet(ids) \cup {id}
         /\ ToSet(ids) \subseteq ToSet(Record(ids, id, n)) \cup Dropped(ids, id, n)
         /\ Dropped(ids, id, n) \subseteq ToSet(ids)
<1>1. CASE Seen(ids, id)
  BY <1>1 DEF Record, Seen, Dropped
<1>2. CASE ~Seen(ids, id)
  <2> DEFINE all == Append(ids, id)
             new == SubSeq(all, Max({1, Len(all) - n + 1}), Len(all))
  <2>1. all \in Seq(S) /\ Len(all) = Len(ids) + 1 /\ all[Len(all)] = id
        /\ \A i \in 1..Len(ids) : all[i] = ids[i]
    OBVIOUS
  <2>2. /\ new \in Seq(S) /\ Len(new) = (IF Len(all) <= n THEN Len(all) ELSE n)
        /\ \A i \in 1..Len(new) : new[i] = all[Len(all) - Len(new) + i]
    <3> HIDE DEF all
    <3> QED  BY <2>1, LastOf, Zenon
  <2>3. Record(ids, id, n) = new
    BY <1>2, Zenon DEF Record
  <2> HIDE DEF all, new
  <2>4. Len(new) >= 1 /\ Len(new) <= Len(all) /\ Len(new) \in Nat /\ Len(ids) \in Nat
    BY <2>1, <2>2
  <2>5. new[Len(new)] = id /\ id \in ToSet(new)
    <3>1. Len(all) - Len(new) + Len(new) = Len(all) /\ Len(new) \in 1..Len(new)
      BY <2>1, <2>4
    <3>2. new[Len(new)] = all[Len(all)]
      BY <2>2, <3>1, Zenon
    <3> QED  BY <2>1, <2>2, <3>1, <3>2, InSeq
  <2>6. ASSUME NEW x \in ToSet(new) PROVE x \in ToSet(ids) \cup {id}
    <3>1. PICK i \in 1..Len(new) : new[i] = x
      BY <2>2, InSeq
    <3> DEFINE j == Len(all) - Len(new) + i
    <3>2. x = all[j] /\ j \in 1..Len(all)
      <4>1. Len(all) \in Nat /\ i \in Nat /\ i >= 1 /\ i <= Len(new)
        BY <2>1, <2>4
      <4>2. j \in 1..Len(all)
        BY <2>4, <4>1
      <4>3. new[i] = all[j]
        BY <2>2, Zenon
      <4> QED  BY <3>1, <4>2, <4>3
    <3> HIDE DEF j
    <3>3. j = Len(all) \/ j \in 1..Len(ids)
      BY <3>2, <2>1, <2>4
    <3> QED  BY <3>2, <3>3, <2>1, InSeq
  <2> QED  BY <2>2, <2>3, <2>5, <2>6 DEF Dropped
<1> QED  BY <1>1, <1>2

-----------------------------------------------------------------------------
(* Putting a record where it belongs, and taking the first out.             *)

\* What is where after an insertion,
LEMMA Inserted ==
  ASSUME NEW S, NEW q \in Seq(S), NEW e \in S, NEW k \in 1..Len(q) + 1
  PROVE  /\ InsertAt(q, k, e) \in Seq(S)
         /\ Len(InsertAt(q, k, e)) = Len(q) + 1
         /\ \A i \in 1..Len(q) + 1 :
              InsertAt(q, k, e)[i] = IF i < k THEN q[i] ELSE IF i = k THEN e ELSE q[i - 1]
<1> DEFINE a == SubSeq(q, 1, k - 1)
           b == SubSeq(q, k, Len(q))
           c == a \o <<e>>
<1>1. /\ a \in Seq(S) /\ Len(a) = k - 1 /\ \A i \in 1..k - 1 : a[i] = q[i]
      /\ b \in Seq(S) /\ Len(b) = Len(q) - k + 1 /\ \A i \in 1..Len(b) : b[i] = q[k + i - 1]
  BY SubSeqProperties
<1>2. <<e>> \in Seq(S) /\ Len(<<e>>) = 1 /\ <<e>>[1] = e
  OBVIOUS
<1> HIDE DEF a, b
<1>3. c \in Seq(S) /\ Len(c) = k /\ \A i \in 1..k : c[i] = IF i < k THEN q[i] ELSE e
  <2>1. /\ c \in Seq(S) /\ Len(c) = Len(a) + 1
        /\ \A i \in 1..Len(a) + 1 : c[i] = IF i <= Len(a) THEN a[i] ELSE <<e>>[i - Len(a)]
    BY <1>1, <1>2, ConcatProperties
  <2> HIDE DEF c
  <2>2. Len(a) + 1 = k /\ k - Len(a) = 1 /\ k \in Nat
    BY <1>1
  <2>3. \A i \in 1..k : i < k => i <= Len(a) /\ i \in 1..k - 1
    BY <1>1, <2>2
  <2>4. ASSUME NEW i \in 1..k PROVE c[i] = IF i < k THEN q[i] ELSE e
    <3>1. CASE i < k
      BY <3>1, <2>1, <2>2, <2>3, <1>1, Zenon
    <3>2. CASE i = k
      BY <3>2, <2>1, <2>2, <1>2
    <3> QED  BY <3>1, <3>2
  <2> QED  BY <2>1, <2>2, <2>4
<1> HIDE DEF c
<1>4. /\ c \o b \in Seq(S) /\ Len(c \o b) = Len(c) + Len(b)
      /\ \A i \in 1..Len(c) + Len(b) : (c \o b)[i] = IF i <= Len(c) THEN c[i] ELSE b[i - Len(c)]
  BY <1>1, <1>3, ConcatProperties, Zenon
<1>5. InsertAt(q, k, e) = c \o b
  BY DEF InsertAt, a, b, c
<1> QED  BY <1>1, <1>3, <1>4, <1>5

\* and after a removal.
LEMMA Removed ==
  ASSUME NEW S, NEW q \in Seq(S), NEW k \in 1..Len(q)
  PROVE  /\ RemoveAt(q, k) \in Seq(S)
         /\ Len(RemoveAt(q, k)) = Len(q) - 1
         /\ \A i \in 1..Len(q) - 1 : RemoveAt(q, k)[i] = IF i < k THEN q[i] ELSE q[i + 1]
<1> DEFINE a == SubSeq(q, 1, k - 1)
           b == SubSeq(q, k + 1, Len(q))
<1>1. /\ a \in Seq(S) /\ Len(a) = k - 1 /\ \A i \in 1..k - 1 : a[i] = q[i]
      /\ b \in Seq(S) /\ Len(b) = Len(q) - k /\ \A i \in 1..Len(b) : b[i] = q[k + i]
  BY SubSeqProperties
<1> HIDE DEF a, b
<1>2. /\ a \o b \in Seq(S) /\ Len(a \o b) = Len(a) + Len(b)
      /\ \A i \in 1..Len(a) + Len(b) : (a \o b)[i] = IF i <= Len(a) THEN a[i] ELSE b[i - Len(a)]
  BY <1>1, ConcatProperties, Zenon
<1>3. RemoveAt(q, k) = a \o b
  BY DEF RemoveAt, a, b
<1>4. Len(a) + Len(b) = Len(q) - 1 /\ Len(q) \in Nat /\ k \in Nat
  BY <1>1
<1>5. ASSUME NEW i \in 1..Len(q) - 1 PROVE (a \o b)[i] = IF i < k THEN q[i] ELSE q[i + 1]
  <2>1. CASE i < k
    BY <2>1, <1>1, <1>2, <1>4
  <2>2. CASE i >= k
    <3>1. i - Len(a) \in 1..Len(b) /\ k + (i - Len(a)) = i + 1 /\ ~(i <= Len(a))
      BY <2>2, <1>1, <1>4
    <3>2. (a \o b)[i] = b[i - Len(a)]
      BY <3>1, <1>2, <1>4, Zenon
    <3>3. b[i - Len(a)] = q[k + (i - Len(a))]
      BY <3>1, <1>1
    <3> QED  BY <2>2, <3>1, <3>2, <3>3, <1>4
  <2> QED  BY <2>1, <2>2, <1>4
<1> QED  BY <1>2, <1>3, <1>4, <1>5

\* A sequence of a finite set's elements holds them all.
LEMMA SeqOfSet ==
  ASSUME NEW S, IsFiniteSet(S)
  PROVE  /\ SetToSeq(S) \in Seq(S) /\ ToSet(SetToSeq(S)) = S
         /\ \A q \in SetToSeqs(S) : q \in Seq(S) /\ ToSet(q) = S
<1> DEFINE n == Cardinality(S)
<1>1. n \in Nat /\ ExistsBijection(1..n, S)
  BY FS_CardinalityType
<1>2. PICK f \in Bijection(1..n, S) : TRUE
  BY <1>1 DEF ExistsBijection
<1>3. f \in [1..n -> S] /\ IsInjective(f)
  BY <1>2 DEF Bijection, Injection, IsInjective
<1>4. SetToSeq(S) \in [1..n -> S] /\ IsInjective(SetToSeq(S))
  BY <1>3 DEF SetToSeq
<1>5. ASSUME NEW q \in [1..n -> S], \A i, j \in 1..n : i # j => q[i] # q[j]
      PROVE  q \in Seq(S) /\ ToSet(q) = S
  <2>1. IsFiniteSet(1..n) /\ Cardinality(1..n) = n
    BY <1>1, FS_Interval
  <2>2. q \in Injection(1..n, S)
    BY <1>5 DEF Injection, IsInjective
  <2>3. q \in Surjection(1..n, S)
    BY <2>1, <2>2, FS_Injection
  <2> QED  BY <2>3, <1>1 DEF Surjection, ToSet
<1>6. \A i, j \in 1..n : i # j => SetToSeq(S)[i] # SetToSeq(S)[j]
  BY <1>4 DEF IsInjective
<1> QED  BY <1>4, <1>5, <1>6, Zenon DEF SetToSeqs

-----------------------------------------------------------------------------
(* Types.  A state of the device is s.dev, s.page and s.past.               *)

Msgs == DOMAIN world.mail
Copies == [m : Msgs, key : Nat]
Sigs == {"validated", "unknown"}
Tasks == [what : {"packet", "link", "resource", "message"}, m : Msgs, sig : Sigs]
Scans == [how : {"packet", "push", "get"}, copy : Copies, opens : BOOLEAN]
Gets == [at : {"idle", "list", "ask", "read", "purge"}, left : Seq(Copies),
         asking : SUBSET Copies, have : SUBSET Copies]
Names == {"none"} \cup {Mail(m).name : m \in Msgs}
Slots == [name : Names, at : Nat]
Emojis == {"none"} \cup {Mail(m).emoji : m \in Msgs}
Places == {"none", "saving", "persisted", "failed", "session"}
Recs == [m : Msgs, at : Nat, arrival : Nat, chip : [emoji : Emojis, at : Nat], stored : Places]
Keys == Sources \X Nat
Works == [op : {"put", "delete"}, key : Keys]
Files == [opens : BOOLEAN, disk : SUBSET Keys, mem : SUBSET Keys, work : Seq(Works)]

WorldOK ==
  /\ world = [mail |-> world.mail, direct |-> world.direct, linked |-> world.linked,
              stored |-> world.stored, live |-> world.live, rows |-> world.rows,
              knows |-> world.knows, allows |-> world.allows, adds |-> world.adds,
              tells |-> world.tells, rotate |-> world.rotate, refuse |-> world.refuse,
              fail |-> world.fail, lose |-> world.lose, reload |-> world.reload,
              opens |-> world.opens]
  /\ world.direct \cup world.linked \cup world.stored \subseteq Msgs
  /\ world.live \cup world.opens \subseteq BOOLEAN
  /\ \A m \in Msgs :
       /\ Mail(m).kind \in {"text", "react", "control", "bad", "refused"}
       /\ Mail(m).at \in Nat \ {0} /\ Mail(m).file \in BOOLEAN

NetOK ==
  /\ net = [air |-> net.air, node |-> net.node, push |-> net.push, told |-> net.told, heard |-> net.heard]
  /\ net.air \cup net.node \cup net.push \subseteq Copies
  /\ IsFiniteSet(net.node)
  /\ net.told \in Nat /\ net.heard \in Nat

\* A state of the device has these parts,
Form(s) ==
  /\ s = [dev |-> s.dev, page |-> s.page, past |-> s.past]
  /\ s.dev = [held |-> s.dev.held, seen |-> s.dev.seen, inbox |-> s.dev.inbox, slot |-> s.dev.slot,
              rows |-> s.dev.rows, knows |-> s.dev.knows, allows |-> s.dev.allows,
              ratchets |-> s.dev.ratchets]
  /\ s.page = [scans |-> s.page.scans, tasks |-> s.page.tasks, get |-> s.page.get,
               ratchets |-> s.page.ratchets, rotated |-> s.page.rotated, files |-> s.page.files]
  /\ s.past = [proved |-> s.past.proved, stored |-> s.past.stored, dropped |-> s.past.dropped,
               cut |-> s.past.cut, forgot |-> s.past.forgot, arrived |-> s.past.arrived,
               offered |-> s.past.offered, reacted |-> s.past.reacted,
               announced |-> s.past.announced, made |-> s.past.made,
               earlier |-> s.past.earlier, left |-> s.past.left]

\* of these types.
ReadTyped(s) ==
  /\ s.dev.held \in Seq(Copies)
  /\ s.page.scans \subseteq Scans /\ s.page.tasks \in Seq(Tasks) /\ s.page.get \in Gets
  /\ s.past.proved \subseteq Msgs /\ s.past.dropped \subseteq Msgs

KeptTyped(s) ==
  /\ s.dev.seen \in Seq(Msgs) /\ s.past.forgot \subseteq Msgs
  /\ s.dev.inbox \in [Sources -> Seq(Recs)] /\ s.past.arrived \in [Sources -> Seq(Msgs)]
  /\ s.dev.slot \in [Sources -> Slots] /\ s.past.offered \subseteq [m : Msgs, sig : Sigs]
  /\ s.past.reacted \subseteq Msgs /\ s.past.cut \subseteq Msgs
  /\ s.page.files \in Files /\ s.past.earlier \subseteq Keys /\ s.past.left \subseteq Keys

KeyTyped(s) ==
  /\ s.dev.ratchets \in Seq(Nat) /\ s.page.ratchets = s.dev.ratchets
  /\ s.past.announced \in Seq(Nat) /\ s.past.made \in Nat
  /\ s.past.stored \subseteq Copies

-----------------------------------------------------------------------------
(* The inductive invariant. *)

\* The stored ratchets are the last announced, the newest first.
RatchetsSound(s) ==
  LET told == s.past.announced IN
  /\ Len(s.dev.ratchets) <= Len(told)
  /\ Len(s.dev.ratchets) <= RatchetCount
  /\ Len(s.dev.ratchets) < RatchetCount => Len(s.dev.ratchets) = Len(told)
  /\ \A i \in 1..Len(s.dev.ratchets) : s.dev.ratchets[i] = told[Len(told) + 1 - i]
  /\ \A i \in 1..Len(told) : told[i] \in 1..s.past.made

\* No copy is encrypted to a ratchet yet to be made.
Copied(s) ==
  s.past.stored \cup {x.copy : x \in s.page.scans} \cup ToSet(s.dev.held)
  \cup s.page.get.have \cup s.page.get.asking \cup ToSet(s.page.get.left)
KeysMade(s) == \A c \in Copied(s) : c.key <= s.past.made
NetKeysMade(s, n) ==
  /\ \A c \in n.air \cup n.node \cup n.push : c.key <= s.past.made
  /\ n.told <= s.past.made /\ n.heard <= s.past.made

\* A message that is dropped, kept at some time, cut short or still handled; but
\* for those of X, which are just being handled.
Handled(s, m) == \E i \in DOMAIN s.page.tasks :
  s.page.tasks[i].m = m /\ s.page.tasks[i].what \in {"message", "resource"}
Accounted(s, X, m) ==
  \/ m \in s.past.dropped \cup s.past.cut \cup ToSet(s.past.arrived[Source(m)]) \cup X
  \/ Handled(s, m)
Opening(s, c) == c.key = 0 \/ c.key \in ToSet(s.dev.ratchets)
Done(s, X, c) == Mail(c.m).kind = "text" /\ Opening(s, c) => Accounted(s, X, c.m)

Accounts(s, X) ==
  /\ \A m \in s.past.proved : Mail(m).kind = "text" => Accounted(s, X, m)
  /\ \A c \in ToSet(s.dev.held) \cup s.page.get.have : Done(s, X, c)
  /\ \A x \in s.page.scans : ~x.opens => ~Opening(s, x.copy)
NodeDone(s, X, node) == \A c \in s.past.stored \ node : Done(s, X, c)

\* The records of a conversation carry the numbers of the last arrivals.
Numbered(box, all) ==
  /\ Len(box) <= Len(all)
  /\ \A i \in 1..Len(box) :
       /\ box[i].arrival \in Len(all) - Len(box) .. Len(all) - 1
       /\ box[i].m = all[box[i].arrival + 1]
  /\ \A a \in Len(all) - Len(box) .. Len(all) - 1 : \E i \in 1..Len(box) : box[i].arrival = a
  /\ \A i, j \in 1..Len(box) : box[i].arrival = box[j].arrival => i = j
Full(box, all) == Len(box) <= KeepLimit /\ (Len(box) < KeepLimit => Len(box) = Len(all))
Window(s, src) ==
  Numbered(s.dev.inbox[src], s.past.arrived[src]) /\ Full(s.dev.inbox[src], s.past.arrived[src])
InTime(box) == \A i, j \in 1..Len(box) : i < j => box[i].at <= box[j].at
Sorted(s, src) == InTime(s.dev.inbox[src])

\* What came in was checked.
Checked(s, m) == m \in ToSet(s.dev.seen) \cup s.past.forgot
Once(s, src) ==
  LET box == s.dev.inbox[src] IN
  /\ \A i \in 1..Len(box) : Source(box[i].m) = src /\ Checked(s, box[i].m)
  /\ \A i, j \in 1..Len(box) : i # j /\ box[i].m = box[j].m => box[i].m \in s.past.forgot
Arrives(s, X) ==
  \A m \in ToSet(s.dev.seen) : Mail(m).kind = "text" => m \in ToSet(s.past.arrived[Source(m)]) \cup X

Told(s, src) ==
  {o.m : o \in {p \in s.past.offered : p.sig = "validated" /\ Source(p.m) = src /\ Mail(p.m).name # "absent"}}
Named(s, src) ==
  LET told == Told(s, src) IN
  /\ told = {} => s.dev.slot[src].at = 0
  /\ told # {} => \E last \in told :
       /\ \A m \in told : Mail(m).at <= Mail(last).at
       /\ s.dev.slot[src] = [name |-> Mail(last).name, at |-> Mail(last).at]
\* A source whose key is known stays known, so what is queued after a checked
\* signature of it was checked too.
Signed(s) ==
  LET tasks == s.page.tasks IN
  /\ \A i, j \in 1..Len(tasks) :
       i < j /\ Source(tasks[i].m) = Source(tasks[j].m) /\ tasks[i].sig = "validated"
       => tasks[j].sig = "validated"
  /\ \A i \in 1..Len(tasks) : tasks[i].sig = "validated" => Source(tasks[i].m) \in s.dev.knows
  /\ \A o \in s.past.offered : o.sig = "validated" =>
       /\ Source(o.m) \in s.dev.knows
       /\ \A i \in 1..Len(tasks) : Source(tasks[i].m) = Source(o.m) => tasks[i].sig = "validated"

Taken(s, m) == {r \in s.past.reacted : Mail(r).to = m}
Chip(s, r) ==
  LET taken == Taken(s, r.m) IN
  \/ taken = {} /\ r.chip.at = 0
  \/ \E last \in taken :
       /\ \A m \in taken : Mail(m).at <= Mail(last).at
       /\ r.chip = [emoji |-> Mail(last).emoji, at |-> Mail(last).at]
Chips(s) ==
  /\ \A src \in Sources : \A i \in 1..Len(s.dev.inbox[src]) :
       s.dev.inbox[src][i].m \notin s.past.forgot => Chip(s, s.dev.inbox[src][i])
  /\ \A m \in s.past.reacted : Checked(s, Mail(m).to)

\* The records' keys, the keys of what is to be deleted, and all keys.
RecordKey(s, key) == \E i \in 1..Len(s.dev.inbox[key[1]]) : s.dev.inbox[key[1]][i].arrival = key[2]
StoredKey(s, key) == \E i \in 1..Len(s.dev.inbox[key[1]]) :
  s.dev.inbox[key[1]][i].arrival = key[2] /\ s.dev.inbox[key[1]][i].stored # "none"
Asked(s, op, key, n) == \E i \in n..Len(s.page.files.work) : s.page.files.work[i] = [op |-> op, key |-> key]
Owned(s, key, n) == StoredKey(s, key) \/ key \in s.past.left \/ Asked(s, "delete", key, n)
FilesSound(s) ==
  LET files == s.page.files IN
  /\ \A src \in Sources : \A i \in 1..Len(s.dev.inbox[src]) :
       LET r == s.dev.inbox[src][i] IN
       /\ r.stored = "persisted" => KeyOf(src, r) \in files.disk
       /\ r.stored # "none" => Reads(files, KeyOf(src, r)) \/ KeyOf(src, r) \in s.past.earlier
  /\ \A key \in files.disk \cup files.mem : Owned(s, key, 1)
  /\ \A i \in 1..Len(files.work) :
       LET w == files.work[i] IN
       /\ w.op = "delete" => files.opens /\ w.key \notin files.mem /\ ~RecordKey(s, w.key)
       /\ w.op = "put" => Owned(s, w.key, i + 1) /\ (RecordKey(s, w.key) => StoredKey(s, w.key))
  /\ \A key \in files.disk \cup files.mem \cup {files.work[i].key : i \in 1..Len(files.work)} :
       key[2] < Len(s.past.arrived[key[1]])

Boxes(s) == \A src \in Sources : Window(s, src) /\ Sorted(s, src) /\ Once(s, src) /\ Named(s, src)

\* All of it, but for what is being made of the messages X.
ReadSound(s, X) == ReadTyped(s) /\ KeysMade(s) /\ Accounts(s, X) /\ Signed(s)
KeptSound(s, X) ==
  KeptTyped(s) /\ KeyTyped(s) /\ RatchetsSound(s) /\ Boxes(s) /\ Arrives(s, X) /\ Chips(s) /\ FilesSound(s)
Good(s, X) == Form(s) /\ ReadSound(s, X) /\ KeptSound(s, X)
Invariant ==
  /\ WorldOK /\ NetOK
  /\ \E s \in {State}, n \in {net} : Good(s, {}) /\ NetKeysMade(s, n) /\ NodeDone(s, {}, n.node)
-----------------------------------------------------------------------------
(* What the operators on a state change.                                    *)

\* What a step of reading leaves as it is: the part that is kept.
SameKept(s, t) ==
  /\ t.dev.seen = s.dev.seen /\ t.dev.inbox = s.dev.inbox /\ t.dev.slot = s.dev.slot
  /\ t.dev.ratchets = s.dev.ratchets /\ t.dev.knows = s.dev.knows
  /\ t.page.ratchets = s.page.ratchets /\ t.page.files = s.page.files
  /\ t.past.stored = s.past.stored /\ t.past.cut = s.past.cut /\ t.past.forgot = s.past.forgot
  /\ t.past.arrived = s.past.arrived /\ t.past.offered = s.past.offered
  /\ t.past.reacted = s.past.reacted /\ t.past.announced = s.past.announced
  /\ t.past.made = s.past.made /\ t.past.earlier = s.past.earlier /\ t.past.left = s.past.left

\* A message accounted for stays so, and a ratchet is kept.
Forward(s, t) ==
  /\ t.past.stored = s.past.stored /\ t.dev.ratchets = s.dev.ratchets /\ t.past.made = s.past.made
  /\ s.past.dropped \subseteq t.past.dropped /\ s.past.cut \subseteq t.past.cut
  /\ \A src \in Sources : ToSet(s.past.arrived[src]) \subseteq ToSet(t.past.arrived[src])
  /\ \A m \in Msgs : Handled(s, m) => Handled(t, m)

Queued(s, what, m) == [what |-> what, m |-> m, sig |-> IF Source(m) \in s.dev.knows THEN "validated" ELSE "unknown"]

\* What a change of the tasks leaves as it was,
LEMMA TasksAre ==
  ASSUME NEW s, Form(s), NEW q
  PROVE  LET t == [s EXCEPT !.page.tasks = q] IN
         /\ Form(t) /\ SameKept(s, t) /\ t.dev = s.dev /\ t.past = s.past
         /\ t.page.tasks = q /\ t.page.scans = s.page.scans /\ t.page.get = s.page.get
BY DEF Form, SameKept

\* what emit changes: a task more,
LEMMA TaskIs ==
  ASSUME NEW s, Form(s), NEW what, NEW m
  PROVE  LET t == Task(s, what, m) IN
         /\ Form(t) /\ SameKept(s, t)
         /\ t.page.tasks = Append(s.page.tasks, Queued(s, what, m))
         /\ t.dev = s.dev /\ t.past = s.past
         /\ t.page.scans = s.page.scans /\ t.page.get = s.page.get
<1>1. Task(s, what, m) = [s EXCEPT !.page.tasks = Append(@, Queued(s, what, m))]
  BY Zenon DEF Task, Queued
<1> DEFINE q == Append(s.page.tasks, Queued(s, what, m))
           t == [s EXCEPT !.page.tasks = q]
<1>2. Task(s, what, m) = t
  BY <1>1
<1> HIDE DEF q
<1>3. /\ Form(t) /\ SameKept(s, t) /\ t.dev = s.dev /\ t.past = s.past
      /\ t.page.tasks = q /\ t.page.scans = s.page.scans /\ t.page.get = s.page.get
  BY TasksAre, Zenon
<1> HIDE DEF t
<1> QED  BY <1>2, <1>3, Zenon DEF q

\* What the filter's drop changes.
LEMMA DropIs ==
  ASSUME NEW s, Form(s), NEW m
  PROVE  LET t == Drop(s, m) IN
         /\ Form(t) /\ SameKept(s, t) /\ t.dev = s.dev /\ t.page = s.page
         /\ t.past.dropped = s.past.dropped \cup {m} /\ t.past.proved = s.past.proved
<1> DEFINE t == Drop(s, m)
<1>1. /\ t.dev = s.dev /\ t.page = s.page
      /\ t.past.dropped = s.past.dropped \cup {m} /\ t.past.proved = s.past.proved
      /\ t = [dev |-> s.dev, page |-> s.page, past |-> t.past]
  BY SMTT(30) DEF Drop, Form
<1>2. t.past = [s.past EXCEPT !.dropped = s.past.dropped \cup {m}]
  BY DEF Drop, Form
<1>3. ASSUME NEW p, NEW x, p = [proved |-> p.proved, stored |-> p.stored, dropped |-> p.dropped,
              cut |-> p.cut, forgot |-> p.forgot, arrived |-> p.arrived,
              offered |-> p.offered, reacted |-> p.reacted,
              announced |-> p.announced, made |-> p.made,
              earlier |-> p.earlier, left |-> p.left]
      PROVE  LET q == [p EXCEPT !.dropped = x] IN
             /\ q = [proved |-> q.proved, stored |-> q.stored, dropped |-> q.dropped,
              cut |-> q.cut, forgot |-> q.forgot, arrived |-> q.arrived,
              offered |-> q.offered, reacted |-> q.reacted,
              announced |-> q.announced, made |-> q.made,
              earlier |-> q.earlier, left |-> q.left]
             /\ q.stored = p.stored /\ q.cut = p.cut /\ q.forgot = p.forgot /\ q.arrived = p.arrived
             /\ q.offered = p.offered /\ q.reacted = p.reacted /\ q.announced = p.announced
             /\ q.made = p.made /\ q.earlier = p.earlier /\ q.left = p.left
  BY <1>3
<1> HIDE DEF t
<1>4. s.past = [proved |-> s.past.proved, stored |-> s.past.stored, dropped |-> s.past.dropped,
              cut |-> s.past.cut, forgot |-> s.past.forgot, arrived |-> s.past.arrived,
              offered |-> s.past.offered, reacted |-> s.past.reacted,
              announced |-> s.past.announced, made |-> s.past.made,
              earlier |-> s.past.earlier, left |-> s.past.left]
  BY DEF Form
<1>5. /\ t.past = [proved |-> t.past.proved, stored |-> t.past.stored, dropped |-> t.past.dropped,
              cut |-> t.past.cut, forgot |-> t.past.forgot, arrived |-> t.past.arrived,
              offered |-> t.past.offered, reacted |-> t.past.reacted,
              announced |-> t.past.announced, made |-> t.past.made,
              earlier |-> t.past.earlier, left |-> t.past.left]
      /\ t.past.stored = s.past.stored /\ t.past.cut = s.past.cut /\ t.past.forgot = s.past.forgot
      /\ t.past.arrived = s.past.arrived
      /\ t.past.offered = s.past.offered /\ t.past.reacted = s.past.reacted /\ t.past.announced = s.past.announced
      /\ t.past.made = s.past.made /\ t.past.earlier = s.past.earlier /\ t.past.left = s.past.left
  BY SMTT(30), <1>2, <1>3, <1>4
<1>6. Form(t)
  BY <1>1, <1>5, Zenon DEF Form
<1>7. SameKept(s, t)
  BY <1>1, <1>5 DEF SameKept
<1> QED  BY <1>1, <1>6, <1>7 DEF t

\* what a proof changes,
LEMMA ProveIs ==
  ASSUME NEW s, Form(s), NEW m
  PROVE  LET t == Prove(s, m) IN
         /\ Form(t) /\ SameKept(s, t) /\ t.dev = s.dev /\ t.page = s.page
         /\ t.past.proved = s.past.proved \cup {m} /\ t.past.dropped = s.past.dropped
BY DEF Prove, Form, SameKept

\* what PropagatedHeld.add changes,
LEMMA HoldIs ==
  ASSUME NEW s, Form(s), NEW c
  PROVE  LET t == Hold(s, c) IN
         /\ Form(t) /\ SameKept(s, t) /\ t.page = s.page /\ t.past = s.past
         /\ t.dev.held = Record(s.dev.held, c, HeldLimit)
         /\ t.dev.knows = s.dev.knows /\ t.dev.allows = s.dev.allows
BY DEF Hold, Form, SameKept

\* what a turn of the /get changes,
LEMMA GetIs ==
  ASSUME NEW s, Form(s), NEW g
  PROVE  LET t == [s EXCEPT !.page.get = g] IN
         /\ Form(t) /\ SameKept(s, t) /\ t.dev = s.dev /\ t.past = s.past
         /\ t.page.scans = s.page.scans /\ t.page.tasks = s.page.tasks /\ t.page.get = g
BY DEF Form, SameKept

\* and what a decryption under way changes.
LEMMA ScansAre ==
  ASSUME NEW s, Form(s), NEW x
  PROVE  LET t == [s EXCEPT !.page.scans = x] IN
         /\ Form(t) /\ SameKept(s, t) /\ t.dev = s.dev /\ t.past = s.past
         /\ t.page.scans = x /\ t.page.tasks = s.page.tasks /\ t.page.get = s.page.get
BY DEF Form, SameKept

\* The attachments depend on the records, the store and what is left alone.
LEMMA FilesOn ==
  ASSUME NEW s, NEW t, FilesSound(s), t.page.files = s.page.files, t.dev.inbox = s.dev.inbox,
         t.past.left = s.past.left, t.past.earlier = s.past.earlier, t.past.arrived = s.past.arrived
  PROVE  FilesSound(t)
<1>1. \A key : (RecordKey(t, key) <=> RecordKey(s, key)) /\ (StoredKey(t, key) <=> StoredKey(s, key))
  BY DEF RecordKey, StoredKey
<1>2. \A key, n : Owned(t, key, n) <=> Owned(s, key, n)
  BY <1>1 DEF Owned, Asked
<1>3. ASSUME NEW src \in Sources, NEW i \in 1..Len(t.dev.inbox[src])
      PROVE  LET r == t.dev.inbox[src][i] IN
             /\ r.stored = "persisted" => KeyOf(src, r) \in t.page.files.disk
             /\ r.stored # "none" => Reads(t.page.files, KeyOf(src, r)) \/ KeyOf(src, r) \in t.past.earlier
  BY DEF FilesSound
<1>4. \A key \in t.page.files.disk \cup t.page.files.mem : Owned(t, key, 1)
  BY <1>2 DEF FilesSound
<1>5. ASSUME NEW i \in 1..Len(t.page.files.work)
      PROVE  LET w == t.page.files.work[i] IN
             /\ w.op = "delete" => t.page.files.opens /\ w.key \notin t.page.files.mem /\ ~RecordKey(t, w.key)
             /\ w.op = "put" => Owned(t, w.key, i + 1) /\ (RecordKey(t, w.key) => StoredKey(t, w.key))
  BY <1>1, <1>2 DEF FilesSound
<1>6. \A key \in t.page.files.disk \cup t.page.files.mem \cup {t.page.files.work[i].key : i \in 1..Len(t.page.files.work)} :
        key[2] < Len(t.past.arrived[key[1]])
  BY DEF FilesSound
<1> QED  BY <1>3, <1>4, <1>5, <1>6, Zenon DEF FilesSound

\* What is kept depends on no more than that.
LEMMA SameKeptSound ==
  ASSUME NEW s, NEW t, NEW X, SameKept(s, t), KeptSound(s, X)
  PROVE  KeptSound(t, X)
<1>1. KeptTyped(t) /\ KeyTyped(t)
  BY Zenon DEF KeptSound, KeptTyped, KeyTyped, SameKept
<1>2. RatchetsSound(t)
  BY DEF KeptSound, RatchetsSound, SameKept
<1>3. ASSUME NEW src \in Sources PROVE Window(t, src) /\ Sorted(t, src) /\ Once(t, src)
  <2>1. Window(s, src) /\ Sorted(s, src) /\ Once(s, src)
    BY DEF KeptSound, Boxes
  <2>2. Window(t, src)
    <3>1. t.dev.inbox = s.dev.inbox /\ t.past.arrived = s.past.arrived
      BY DEF SameKept
    <3> QED  BY <2>1, <3>1 DEF Window
  <2>3. Sorted(t, src)
    BY <2>1 DEF Sorted, SameKept
  <2>4. Once(t, src)
    BY <2>1 DEF Once, Checked, SameKept
  <2> QED  BY <2>2, <2>3, <2>4
<1>4. ASSUME NEW src \in Sources PROVE Named(t, src)
  <2>1. Told(t, src) = Told(s, src)
    BY DEF Told, SameKept
  <2> QED  BY <2>1 DEF KeptSound, Boxes, Named, SameKept
<1>5. Arrives(t, X)
  BY DEF KeptSound, Arrives, SameKept
<1>6. Chips(t)
  <2>1. /\ Chips(s) /\ t.dev.inbox = s.dev.inbox /\ t.past.reacted = s.past.reacted
        /\ t.past.forgot = s.past.forgot /\ t.dev.seen = s.dev.seen
    BY DEF KeptSound, SameKept
  <2>2. \A m : Taken(t, m) = Taken(s, m)
    BY <2>1 DEF Taken
  <2>3. ASSUME NEW r PROVE Chip(t, r) <=> Chip(s, r)
    <3>1. Taken(t, r.m) = Taken(s, r.m)
      BY <2>2
    <3> QED  BY <3>1 DEF Chip
  <2>4. \A m : Checked(t, m) <=> Checked(s, m)
    BY <2>1 DEF Checked
  <2> QED  BY <2>1, <2>3, <2>4 DEF Chips
<1>7. FilesSound(t)
  <2>1. FilesSound(s)
    BY DEF KeptSound
  <2>2. /\ t.page.files = s.page.files /\ t.dev.inbox = s.dev.inbox /\ t.past.left = s.past.left
        /\ t.past.earlier = s.past.earlier /\ t.past.arrived = s.past.arrived
    BY DEF SameKept
  <2> QED  BY <2>1, <2>2, FilesOn
<1> QED  BY <1>1, <1>2, <1>3, <1>4, <1>5, <1>6, <1>7 DEF KeptSound, Boxes
-----------------------------------------------------------------------------
(* Reading: what is kept of the invariant by each thing it does.            *)

\* What a state forward of another has accounted for.
LEMMA Onward ==
  ASSUME NEW s, NEW t, NEW X, Forward(s, t), NEW m \in Msgs, Accounted(s, X, m)
  PROVE  Accounted(t, X, m)
<1>1. Source(m) \in Sources
  BY DEF Sources, Msgs
<1> QED  BY <1>1 DEF Accounted, Forward

\* A copy that was done stays done,
LEMMA OnwardDone ==
  ASSUME NEW s, NEW t, NEW X, Forward(s, t), NEW c \in Copies, Done(s, X, c)
  PROVE  Done(t, X, c)
<1>1. c.m \in Msgs
  BY DEF Copies
<1>2. Opening(t, c) => Opening(s, c)
  BY DEF Forward, Opening
<1> QED  BY <1>1, <1>2, Onward DEF Done

\* after two steps as after one,
LEMMA ForwardTwice ==
  ASSUME NEW s, NEW t, NEW u, Forward(s, t), Forward(t, u)
  PROVE  Forward(s, u)
BY Zenon DEF Forward

\* and after none.
LEMMA ForwardNone ==
  ASSUME NEW s
  PROVE  Forward(s, s)
BY DEF Forward

\* A step of reading that leaves the tasks, or adds one.
LEMMA ReadForward ==
  ASSUME NEW s, NEW t, SameKept(s, t), s.page.tasks \in Seq(Tasks),
         s.past.dropped \subseteq t.past.dropped,
         t.page.tasks = s.page.tasks \/ \E r \in Tasks : t.page.tasks = Append(s.page.tasks, r)
  PROVE  Forward(s, t)
<1>1. ASSUME NEW m, Handled(s, m) PROVE Handled(t, m)
  <2>1. PICK i \in DOMAIN s.page.tasks :
          s.page.tasks[i].m = m /\ s.page.tasks[i].what \in {"message", "resource"}
    BY <1>1 DEF Handled
  <2>2. i \in DOMAIN t.page.tasks /\ t.page.tasks[i] = s.page.tasks[i]
    <3>1. CASE t.page.tasks = s.page.tasks
      BY <3>1
    <3>2. CASE \E r \in Tasks : t.page.tasks = Append(s.page.tasks, r)
      BY <3>2
    <3> QED  BY <3>1, <3>2
  <2> QED  BY <2>1, <2>2 DEF Handled
<1> QED  BY <1>1 DEF Forward, SameKept

\* What emit queues is a task.
LEMMA Queueing ==
  ASSUME NEW s, NEW what \in {"packet", "link", "resource", "message"}, NEW m \in Msgs
  PROVE  Queued(s, what, m) \in Tasks
BY DEF Queued, Tasks, Sigs

\* A step that changes only what is read is judged by that part.
LEMMA StaysGood ==
  ASSUME NEW s, NEW t, NEW X, Good(s, X), Form(t), SameKept(s, t),
         ReadTyped(t), KeysMade(t), Accounts(t, X), Signed(t)
  PROVE  Good(t, X)
BY SameKeptSound DEF Good, ReadSound

\* A copy's ratchet was made.
LEMMA Made ==
  ASSUME NEW s, NEW X, Good(s, X)
  PROVE  /\ \A c \in ToSet(s.dev.held) \cup s.page.get.have \cup s.page.get.asking
               \cup ToSet(s.page.get.left) : c \in Copies /\ c.key <= s.past.made
         /\ \A x \in s.page.scans : x.copy \in Copies /\ x.copy.key <= s.past.made
<1>1. ReadTyped(s) /\ KeysMade(s)
  BY DEF Good, ReadSound
<1>2. ToSet(s.dev.held) \subseteq Copies /\ ToSet(s.page.get.left) \subseteq Copies
  BY <1>1, InSeq DEF ReadTyped, Gets
<1> QED  BY <1>1, <1>2 DEF ReadTyped, KeysMade, Copied, Gets, Scans

\* emit keeps a state sound, and the message is handled until its task has run.
LEMMA TaskKeeps ==
  ASSUME NEW s, NEW X, Good(s, X), NEW what \in {"packet", "link", "resource", "message"}, NEW m \in Msgs
  PROVE  LET t == Task(s, what, m) IN
         /\ Good(t, X) /\ Forward(s, t) /\ t.dev = s.dev /\ t.past = s.past
         /\ what \in {"message", "resource"} => Handled(t, m)
<1> DEFINE t == Task(s, what, m)
           r == Queued(s, what, m)
<1>1. /\ Form(t) /\ SameKept(s, t) /\ t.page.tasks = Append(s.page.tasks, r)
      /\ t.dev = s.dev /\ t.past = s.past
      /\ t.page.scans = s.page.scans /\ t.page.get = s.page.get
  BY TaskIs DEF Good
<1>2. r \in Tasks /\ r.m = m /\ r.what = what
      /\ r.sig = (IF Source(m) \in s.dev.knows THEN "validated" ELSE "unknown")
  BY Queueing DEF Queued
<1>3. ReadTyped(s) /\ KeysMade(s) /\ Accounts(s, X) /\ Signed(s)
  BY DEF Good, ReadSound
<1> HIDE DEF t, r
<1>4. s.page.tasks \in Seq(Tasks)
  BY <1>3 DEF ReadTyped
<1>5. ReadTyped(t)
  BY <1>1, <1>2, <1>3 DEF ReadTyped
<1>6. KeysMade(t)
  BY <1>1, <1>3 DEF KeysMade, Copied
<1>7. Forward(s, t)
  BY <1>1, <1>2, <1>4, ReadForward
<1>8. Accounts(t, X)
  <2>1. \A p \in s.past.proved : p \in Msgs
    BY <1>3 DEF ReadTyped
  <2>2. \A c \in ToSet(s.dev.held) \cup s.page.get.have : c \in Copies
    BY Made
  <2>3. \A x \in s.page.scans : Opening(t, x.copy) => Opening(s, x.copy)
    BY <1>7 DEF Forward, Opening
  <2> QED  BY <1>1, <1>3, <1>7, <2>1, <2>2, <2>3, Onward, OnwardDone DEF Accounts
<1>9. Signed(t)
  <2> DEFINE old == s.page.tasks
             new == t.page.tasks
  <2>1. /\ Len(old) \in Nat /\ Len(new) = Len(old) + 1 /\ new[Len(new)] = r
        /\ \A i \in 1..Len(old) : new[i] = old[i] /\ i \in 1..Len(new)
    BY <1>1, <1>2, <1>4
  <2>2. \A i \in 1..Len(new) : i \in 1..Len(old) \/ i = Len(new)
    BY <2>1
  <2>3. /\ \A i, j \in 1..Len(old) :
             i < j /\ Source(old[i].m) = Source(old[j].m) /\ old[i].sig = "validated"
             => old[j].sig = "validated"
        /\ \A i \in 1..Len(old) : old[i].sig = "validated" => Source(old[i].m) \in s.dev.knows
        /\ \A o \in s.past.offered : o.sig = "validated" =>
             /\ Source(o.m) \in s.dev.knows
             /\ \A i \in 1..Len(old) : Source(old[i].m) = Source(o.m) => old[i].sig = "validated"
    BY <1>3 DEF Signed
  <2> HIDE DEF old, new
  <2>4. \A i \in 1..Len(new) : new[i].sig = "validated" => Source(new[i].m) \in s.dev.knows
    BY <2>1, <2>2, <2>3, <1>2
  <2>5. ASSUME NEW i \in 1..Len(new), NEW j \in 1..Len(new), i < j,
               Source(new[i].m) = Source(new[j].m), new[i].sig = "validated"
        PROVE  new[j].sig = "validated"
    <3>1. CASE j = Len(new)
      BY <3>1, <2>1, <2>4, <2>5, <1>2
    <3>2. CASE j # Len(new)
      <4>1. j \in 1..Len(old) /\ i \in 1..Len(old)
        BY <3>2, <2>1, <2>5
      <4> QED  BY <4>1, <2>1, <2>3, <2>5
    <3> QED  BY <3>1, <3>2
  <2>6. ASSUME NEW o \in s.past.offered, o.sig = "validated"
        PROVE  /\ Source(o.m) \in s.dev.knows
               /\ \A i \in 1..Len(new) : Source(new[i].m) = Source(o.m) => new[i].sig = "validated"
    BY <2>1, <2>2, <2>3, <2>6, <1>2
  <2> QED  BY <2>4, <2>5, <2>6, <1>1, Zenon DEF Signed, new
<1>10. Good(t, X)
  BY <1>1, <1>5, <1>6, <1>8, <1>9, StaysGood
<1>11. ASSUME what \in {"message", "resource"} PROVE Handled(t, m)
  <2>1. Len(s.page.tasks) + 1 \in DOMAIN t.page.tasks /\ t.page.tasks[Len(s.page.tasks) + 1] = r
    BY <1>1, <1>2, <1>4
  <2> QED  BY <2>1, <1>2, <1>11 DEF Handled
<1> QED  BY <1>1, <1>7, <1>10, <1>11 DEF t

\* Dropping and proving,
LEMMA DropKeeps ==
  ASSUME NEW s, NEW X, Good(s, X), NEW m \in Msgs
  PROVE  LET t == Drop(s, m) IN
         Good(t, X) /\ Forward(s, t) /\ t.page = s.page /\ t.dev = s.dev /\ m \in t.past.dropped
<1> DEFINE t == Drop(s, m)
<1>1. /\ Form(t) /\ SameKept(s, t) /\ t.dev = s.dev /\ t.page = s.page
      /\ t.past.dropped = s.past.dropped \cup {m} /\ t.past.proved = s.past.proved
  BY DropIs DEF Good
<1>2. ReadTyped(s) /\ KeysMade(s) /\ Accounts(s, X) /\ Signed(s)
  BY DEF Good, ReadSound
<1> HIDE DEF t
<1>3. Forward(s, t)
  BY <1>1, <1>2, ReadForward DEF ReadTyped
<1>4. ReadTyped(t) /\ KeysMade(t)
  BY <1>1, <1>2 DEF ReadTyped, KeysMade, Copied, SameKept
<1>5. Accounts(t, X)
  <2>1. \A p \in s.past.proved : p \in Msgs
    BY <1>2 DEF ReadTyped
  <2>2. \A c \in ToSet(s.dev.held) \cup s.page.get.have : c \in Copies
    BY Made
  <2>3. \A x \in s.page.scans : Opening(t, x.copy) => Opening(s, x.copy)
    BY <1>3 DEF Forward, Opening
  <2> QED  BY <1>1, <1>2, <1>3, <2>1, <2>2, <2>3, Onward, OnwardDone DEF Accounts
<1>6. Signed(t)
  BY <1>1, <1>2 DEF Signed, SameKept
<1> QED  BY <1>1, <1>3, <1>4, <1>5, <1>6, StaysGood DEF t

\* A proof keeps it sound while the message is being handled.
LEMMA ProveKeeps ==
  ASSUME NEW s, NEW X, Good(s, X), NEW m \in Msgs, m \in X
  PROVE  LET t == Prove(s, m) IN Good(t, X) /\ Forward(s, t) /\ t.page = s.page /\ t.dev = s.dev
<1> DEFINE t == Prove(s, m)
<1>1. /\ Form(t) /\ SameKept(s, t) /\ t.dev = s.dev /\ t.page = s.page
      /\ t.past.proved = s.past.proved \cup {m} /\ t.past.dropped = s.past.dropped
  BY ProveIs DEF Good
<1>2. ReadTyped(s) /\ KeysMade(s) /\ Accounts(s, X) /\ Signed(s)
  BY DEF Good, ReadSound
<1> HIDE DEF t
<1>3. Forward(s, t)
  BY <1>1, <1>2, ReadForward DEF ReadTyped
<1>4. ReadTyped(t) /\ KeysMade(t)
  BY <1>1, <1>2 DEF ReadTyped, KeysMade, Copied, SameKept
<1>5. Accounts(t, X)
  <2>1. \A p \in s.past.proved : p \in Msgs
    BY <1>2 DEF ReadTyped
  <2>2. \A c \in ToSet(s.dev.held) \cup s.page.get.have : c \in Copies
    BY Made
  <2>3. \A x \in s.page.scans : Opening(t, x.copy) => Opening(s, x.copy)
    BY <1>3 DEF Forward, Opening
  <2>4. Accounted(t, X, m)
    BY DEF Accounted
  <2> QED  BY <1>1, <1>2, <1>3, <2>1, <2>2, <2>3, <2>4, Onward, OnwardDone DEF Accounts
<1>6. Signed(t)
  BY <1>1, <1>2 DEF Signed, SameKept
<1> QED  BY <1>1, <1>3, <1>4, <1>5, <1>6, StaysGood DEF t

\* and holding a copy, its message done with.
LEMMA HoldKeeps ==
  ASSUME NEW s, NEW X, Good(s, X), NEW c \in Copies, c.key <= s.past.made, Done(s, X, c)
  PROVE  LET t == Hold(s, c) IN Good(t, X) /\ Forward(s, t) /\ t.page = s.page
<1> DEFINE t == Hold(s, c)
<1>1. /\ Form(t) /\ SameKept(s, t) /\ t.page = s.page /\ t.past = s.past
      /\ t.dev.held = Record(s.dev.held, c, HeldLimit)
  BY HoldIs DEF Good
<1>2. ReadTyped(s) /\ KeysMade(s) /\ Accounts(s, X) /\ Signed(s)
  BY DEF Good, ReadSound
<1>3. /\ t.dev.held \in Seq(Copies)
      /\ ToSet(t.dev.held) \subseteq ToSet(s.dev.held) \cup {c}
  BY <1>1, <1>2, LimitsAre, Recording DEF ReadTyped
<1> HIDE DEF t
<1>4. Forward(s, t)
  BY <1>1, <1>2, ReadForward DEF ReadTyped
<1>5. ReadTyped(t)
  BY <1>1, <1>2, <1>3 DEF ReadTyped
<1>6. KeysMade(t)
  BY <1>1, <1>2, <1>3 DEF KeysMade, Copied
<1>7. Accounts(t, X)
  <2>1. \A p \in s.past.proved : p \in Msgs
    BY <1>2 DEF ReadTyped
  <2>2. \A d \in ToSet(s.dev.held) \cup s.page.get.have : d \in Copies
    BY Made
  <2>3. \A x \in s.page.scans : Opening(t, x.copy) => Opening(s, x.copy)
    BY <1>4 DEF Forward, Opening
  <2>4. \A d \in ToSet(t.dev.held) \cup t.page.get.have : d \in Copies /\ Done(s, X, d)
    BY <1>1, <1>2, <1>3, <2>2 DEF Accounts
  <2> QED  BY <1>1, <1>2, <1>4, <2>1, <2>3, <2>4, Onward, OnwardDone DEF Accounts
<1>8. Signed(t)
  BY <1>1, <1>2 DEF Signed, SameKept
<1> QED  BY <1>1, <1>4, <1>5, <1>6, <1>7, <1>8, StaysGood DEF t

\* A /get goes on with copies that are done with.
LEMMA GetKeeps ==
  ASSUME NEW s, NEW X, Good(s, X), NEW g \in Gets,
         \A c \in g.have \cup g.asking \cup ToSet(g.left) : c.key <= s.past.made,
         \A c \in g.have : Done(s, X, c)
  PROVE  LET t == [s EXCEPT !.page.get = g] IN
         /\ Good(t, X) /\ Forward(s, t) /\ t.dev = s.dev /\ t.past = s.past
         /\ t.page.scans = s.page.scans /\ t.page.get = g
<1> DEFINE t == [s EXCEPT !.page.get = g]
<1>1. /\ Form(t) /\ SameKept(s, t) /\ t.dev = s.dev /\ t.past = s.past
      /\ t.page.scans = s.page.scans /\ t.page.tasks = s.page.tasks /\ t.page.get = g
  BY GetIs, Zenon DEF Good
<1>2. ReadTyped(s) /\ KeysMade(s) /\ Accounts(s, X) /\ Signed(s)
  BY DEF Good, ReadSound
<1> HIDE DEF t
<1>3. Forward(s, t)
  BY <1>1, <1>2, ReadForward DEF ReadTyped
<1>4. ReadTyped(t)
  BY <1>1, <1>2 DEF ReadTyped
<1>5. KeysMade(t)
  BY <1>1, <1>2 DEF KeysMade, Copied
<1>6. Accounts(t, X)
  <2>1. \A p \in s.past.proved : p \in Msgs
    BY <1>2 DEF ReadTyped
  <2>2. \A d \in ToSet(s.dev.held) \cup g.have : d \in Copies
    BY Made DEF Gets
  <2>3. \A x \in s.page.scans : Opening(t, x.copy) => Opening(s, x.copy)
    BY <1>3 DEF Forward, Opening
  <2>4. \A d \in ToSet(t.dev.held) \cup t.page.get.have : d \in Copies /\ Done(s, X, d)
    BY <1>1, <1>2, <2>2 DEF Accounts
  <2> QED  BY <1>1, <1>2, <1>3, <2>1, <2>3, <2>4, Onward, OnwardDone DEF Accounts
<1>7. Signed(t)
  BY <1>1, <1>2 DEF Signed, SameKept
<1> QED  BY <1>1, <1>3, <1>4, <1>5, <1>6, <1>7, StaysGood DEF t

\* Scans under way, those that will not read it without its key.
LEMMA ScansKeep ==
  ASSUME NEW s, NEW X, Good(s, X), NEW w \in SUBSET Scans,
         \A x \in w : x.copy.key <= s.past.made /\ (~x.opens => ~Opening(s, x.copy))
  PROVE  LET t == [s EXCEPT !.page.scans = w] IN
         Good(t, X) /\ Forward(s, t) /\ t.dev = s.dev /\ t.past = s.past /\ t.page.get = s.page.get
<1> DEFINE t == [s EXCEPT !.page.scans = w]
<1>1. /\ Form(t) /\ SameKept(s, t) /\ t.dev = s.dev /\ t.past = s.past
      /\ t.page.scans = w /\ t.page.tasks = s.page.tasks /\ t.page.get = s.page.get
  BY ScansAre, Zenon DEF Good
<1>2. ReadTyped(s) /\ KeysMade(s) /\ Accounts(s, X) /\ Signed(s)
  BY DEF Good, ReadSound
<1> HIDE DEF t
<1>3. Forward(s, t)
  BY <1>1, <1>2, ReadForward DEF ReadTyped
<1>4. ReadTyped(t)
  BY <1>1, <1>2 DEF ReadTyped
<1>5. KeysMade(t)
  BY <1>1, <1>2 DEF KeysMade, Copied
<1>6. Accounts(t, X)
  <2>1. \A p \in s.past.proved : p \in Msgs
    BY <1>2 DEF ReadTyped
  <2>2. \A d \in ToSet(s.dev.held) \cup s.page.get.have : d \in Copies
    BY Made
  <2>3. \A x \in w : Opening(t, x.copy) => Opening(s, x.copy)
    BY <1>3 DEF Forward, Opening
  <2> QED  BY <1>1, <1>2, <1>3, <2>1, <2>2, <2>3, Onward, OnwardDone DEF Accounts
<1>7. Signed(t)
  BY <1>1, <1>2 DEF Signed, SameKept
<1> QED  BY <1>1, <1>3, <1>4, <1>5, <1>6, <1>7, StaysGood DEF t

\* The /get's next turn,
LEMMA TurnKeeps ==
  ASSUME NEW s, NEW X, Good(s, X)
  PROVE  Good(Turn(s), X) /\ Forward(s, Turn(s))
<1> DEFINE g == s.page.get
           new == {i \in DOMAIN g.left : ~Held(s, g.left[i])}
           at == IF new = {} THEN Len(g.left) ELSE Min(new)
           had == g.have \cup {g.left[i] : i \in 1..at \ new}
           asks == [at |-> "ask", left |-> SubSeq(g.left, at + 1, Len(g.left)), asking |-> {g.left[at]},
                    have |-> had]
           purges == [at |-> "purge", left |-> <<>>, asking |-> {}, have |-> had]
           next == IF new # {} THEN asks ELSE IF had = {} THEN NoGet ELSE purges
<1>1. Turn(s) = [s EXCEPT !.page.get = next]
  BY Zenon DEF Turn
<1>2. g \in Gets /\ s.dev.held \in Seq(Copies)
  BY DEF Good, ReadSound, ReadTyped
<1>3. /\ Len(g.left) \in Nat /\ DOMAIN g.left = 1..Len(g.left) /\ g.left \in Seq(Copies)
      /\ \A i \in 1..Len(g.left) : g.left[i] \in Copies /\ g.left[i] \in ToSet(g.left)
  <2>1. g.left \in Seq(Copies)
    BY <1>2 DEF Gets
  <2> QED  BY <2>1, InSeq
<1>4. new \in SUBSET Nat /\ new \subseteq 1..Len(g.left)
  BY <1>3
<1>5. at \in 0..Len(g.left) /\ (new # {} => at \in 1..Len(g.left))
  <2> HIDE DEF g
  <2>1. CASE new = {}
    BY <2>1, <1>3
  <2>2. CASE new # {}
    <3>1. Min(new) \in new
      <4> HIDE DEF new
      <4> QED  BY <2>2, <1>4, MinIs
    <3> QED  BY <2>2, <3>1, <1>4, <1>3
  <2> QED  BY <2>1, <2>2, Zenon
<1> HIDE DEF at
<1>6. \A c \in had : c \in Copies /\ Done(s, X, c) /\ c.key <= s.past.made
  <2>1. ASSUME NEW i \in 1..at \ new PROVE g.left[i] \in ToSet(s.dev.held)
    <3>1. i \in DOMAIN g.left
      BY <1>3, <1>5
    <3> QED  BY <2>1, <3>1 DEF Held, Seen
  <2>2. \A c \in had : c \in ToSet(s.dev.held) \cup g.have
    BY <2>1
  <2>3. Accounts(s, X)
    BY DEF Good, ReadSound
  <2> HIDE DEF had
  <2> QED  BY <2>2, <2>3, Made DEF Accounts
<1> HIDE DEF had
<1>7. \A c \in ToSet(g.left) : c.key <= s.past.made
  BY Made
<1>8. next \in Gets /\ next.have \subseteq had
      /\ \A c \in next.asking \cup ToSet(next.left) : c.key <= s.past.made
  <2>1. CASE new # {}
    <3>1. at \in 1..Len(g.left)
      BY <2>1, <1>5
    <3>2. /\ SubSeq(g.left, at + 1, Len(g.left)) \in Seq(Copies)
          /\ ToSet(SubSeq(g.left, at + 1, Len(g.left))) \subseteq ToSet(g.left)
      <4> DEFINE q == SubSeq(g.left, at + 1, Len(g.left))
      <4>1. /\ at + 1 \in Int
            /\ \A i \in at + 1 .. Len(g.left) : g.left[i] \in ToSet(g.left)
        BY <3>1, <1>3
      <4>2. q \in Seq(ToSet(g.left))
        <5> HIDE DEF g
        <5> QED  BY <4>1, <1>3, SubSeqProperties
      <4>3. ToSet(g.left) \subseteq Copies
        BY <1>3, InSeq
      <4>4. \A i \in at + 1 .. Len(g.left) : g.left[i] \in Copies
        BY <4>1, <4>3
      <4>5. q \in Seq(Copies)
        <5> HIDE DEF g
        <5> QED  BY <4>1, <4>4, <1>3, SubSeqProperties
      <4> HIDE DEF q
      <4>6. ToSet(q) \subseteq ToSet(g.left)
        BY <4>2, InSeq
      <4> QED  BY <4>5, <4>6 DEF q
    <3>3. next = asks
      BY <2>1
    <3> HIDE DEF g, new, next
    <3> QED  BY <3>1, <3>2, <3>3, <1>3, <1>6, <1>7 DEF Gets
  <2>2. CASE new = {}
    <3>1. next = NoGet \/ next = purges
      BY <2>2
    <3>2. <<>> \in Seq(Copies) /\ ToSet(<<>>) = {}
      BY DEF ToSet
    <3>3. had \in SUBSET Copies /\ {} \in SUBSET had /\ {} \in SUBSET Copies
      BY <1>6
    <3> HIDE DEF g, new, next
    <3>4. CASE next = NoGet
      BY <3>2, <3>3, <3>4 DEF Gets, NoGet
    <3>5. CASE next = purges
      BY <3>2, <3>3, <3>5 DEF Gets
    <3> QED  BY <3>1, <3>4, <3>5
  <2> QED  BY <2>1, <2>2
<1> HIDE DEF next
<1>9. \A c \in next.have \cup next.asking \cup ToSet(next.left) : c.key <= s.past.made
  BY <1>6, <1>8
<1>10. \A c \in next.have : Done(s, X, c)
  BY <1>6, <1>8
<1>11. Good([s EXCEPT !.page.get = next], X) /\ Forward(s, [s EXCEPT !.page.get = next])
  BY <1>8, <1>9, <1>10, GetKeeps, Zenon
<1> QED  BY <1>1, <1>11, Zenon

\* with what a download brought, or without.
LEMMA UntakenKeeps ==
  ASSUME NEW s, NEW X, Good(s, X)
  PROVE  LET t == Turn([s EXCEPT !.page.get.asking = {}]) IN Good(t, X) /\ Forward(s, t)
<1> DEFINE g == [s.page.get EXCEPT !.asking = {}]
           u == [s EXCEPT !.page.get = g]
<1>1. [s EXCEPT !.page.get.asking = {}] = u
  OBVIOUS
<1>2. s.page.get \in Gets /\ Accounts(s, X)
  BY DEF Good, ReadSound, ReadTyped
<1>3. g \in Gets /\ g.have = s.page.get.have /\ g.asking = {} /\ g.left = s.page.get.left
  BY <1>2 DEF Gets
<1> HIDE DEF g
<1>4. Good(u, X) /\ Forward(s, u)
  BY <1>2, <1>3, Made, GetKeeps, Zenon DEF Accounts
<1> HIDE DEF u
<1> QED  BY <1>1, <1>4, TurnKeeps, ForwardTwice

\* A message had by the /get keeps it sound when nothing is left to do for it.
LEMMA TakenKeeps ==
  ASSUME NEW s, NEW X, Good(s, X), NEW c \in Copies, c.key <= s.past.made, Done(s, X, c)
  PROVE  Good(GetTaken(s, c), X) /\ Forward(s, GetTaken(s, c))
<1> DEFINE g == [s.page.get EXCEPT !.have = @ \cup {c}, !.asking = {}]
           u == [s EXCEPT !.page.get = g]
<1>1. GetTaken(s, c) = Turn(u)
  BY Zenon DEF GetTaken
<1>2. s.page.get \in Gets /\ Accounts(s, X)
  BY DEF Good, ReadSound, ReadTyped
<1>3. g \in Gets /\ g.have = s.page.get.have \cup {c} /\ g.asking = {} /\ g.left = s.page.get.left
  BY <1>2, Zenon DEF Gets
<1> HIDE DEF g
<1>4. Good(u, X) /\ Forward(s, u)
  BY <1>2, <1>3, Made, GetKeeps, Zenon DEF Accounts
<1> HIDE DEF u
<1> QED  BY <1>1, <1>4, TurnKeeps, ForwardTwice

\* A plaintext is handed on, dropped, or was not to be kept.
LEMMA IngestKeeps ==
  ASSUME NEW s, NEW X, Good(s, X), NEW c \in Copies, NEW opens, ~opens => ~Opening(s, c)
  PROVE  LET t == Ingest(s, c, opens) IN
         Good(t, X) /\ Forward(s, t) /\ Done(t, X, c)
<1> DEFINE t == Ingest(s, c, opens)
<1>1. c.m \in Msgs
  BY DEF Copies
<1>2. CASE t = s /\ (~opens \/ ~Parses(c.m))
  <2>1. Done(s, X, c)
    BY <1>2 DEF Done, Parses
  <2> QED  BY <1>2, <2>1, ForwardNone
<1>3. CASE t = Drop(s, c.m)
  <2> HIDE DEF t
  <2>1. Good(t, X) /\ Forward(s, t) /\ c.m \in t.past.dropped
    BY <1>1, <1>3, DropKeeps
  <2> QED  BY <2>1 DEF Done, Accounted, t
<1>4. CASE t = Task(s, "message", c.m)
  <2> HIDE DEF t
  <2>1. Good(t, X) /\ Forward(s, t) /\ Handled(t, c.m)
    BY <1>1, <1>4, TaskKeeps
  <2> QED  BY <2>1 DEF Done, Accounted, t
<1> QED  BY <1>2, <1>3, <1>4 DEF Ingest

\* What was decrypted, or was not, is taken without a loss.
LEMMA OpenedKeeps ==
  ASSUME NEW s, NEW X, Good(s, X), NEW c \in Copies, c.key <= s.past.made,
         NEW how \in {"packet", "push", "get"}, NEW opens, ~opens => ~Opening(s, c)
  PROVE  LET t == Opened(s, how, c, opens) IN Good(t, X) /\ Forward(s, t)
<1> DEFINE i == Ingest(s, c, opens)
           h == Hold(i, c)
<1>1. Good(i, X) /\ Forward(s, i) /\ Done(i, X, c) /\ c.key <= i.past.made
  <2>1. Good(i, X) /\ Forward(s, i) /\ Done(i, X, c)
    BY ZenonT(30), IngestKeeps
  <2>2. i.past.made = s.past.made
    BY <2>1 DEF Forward
  <2> QED  BY <2>1, <2>2
<1>2. Good(h, X) /\ Forward(s, h) /\ Done(h, X, c) /\ c.key <= h.past.made
  <2> HIDE DEF i
  <2>1. Good(h, X) /\ Forward(i, h)
    BY <1>1, HoldKeeps
  <2> HIDE DEF h
  <2>2. Forward(s, h)
    BY <1>1, <2>1, ForwardTwice
  <2> QED  BY <1>1, <2>1, <2>2, OnwardDone DEF Forward
<1>3. CASE how = "packet"
  <2>1. Opened(s, how, c, opens) = IF opens THEN Task(s, "packet", c.m) ELSE s
    BY <1>3 DEF Opened
  <2>2. c.m \in Msgs
    BY DEF Copies
  <2>3. Good(Task(s, "packet", c.m), X) /\ Forward(s, Task(s, "packet", c.m))
    BY <2>2, TaskKeeps, Zenon
  <2> QED  BY <2>1, <2>3, ForwardNone
<1>4. CASE how = "push"
  <2>1. Opened(s, how, c, opens) = IF Unread(s, c, opens) THEN s ELSE h
    BY <1>4 DEF Opened
  <2> HIDE DEF h
  <2> QED  BY <1>2, <2>1, ForwardNone
<1>5. CASE how = "get"
  <2>1. Opened(s, how, c, opens) = GetTaken(h, c)
    BY <1>5 DEF Opened
  <2> HIDE DEF h
  <2>2. Good(GetTaken(h, c), X) /\ Forward(h, GetTaken(h, c))
    BY <1>2, TakenKeeps
  <2> QED  BY <1>2, <2>1, <2>2, ForwardTwice
<1> QED  BY <1>3, <1>4, <1>5

\* The first decryption, and those that follow.
LEMMA DecryptKeeps ==
  ASSUME NEW s, NEW X, Good(s, X), NEW c \in Copies, c.key <= s.past.made,
         NEW how \in {"packet", "push", "get"}
  PROVE  LET t == DecryptSoon(s, how, c) IN Good(t, X) /\ Forward(s, t)
<1> DEFINE first == SubSeq(s.page.ratchets, 1, 1)
           now == Decrypts(c, first)
           x == [how |-> how, copy |-> c, opens |-> Decrypts(c, s.page.ratchets)]
<1>1. s.page.ratchets = s.dev.ratchets /\ s.dev.ratchets \in Seq(Nat)
  BY DEF Good, KeptSound, KeyTyped
<1>2. Decrypts(c, s.page.ratchets) <=> Opening(s, c)
  <2>1. DOMAIN s.dev.ratchets = 1..Len(s.dev.ratchets)
    BY <1>1
  <2>2. Contains(s.page.ratchets, c.key) <=> c.key \in ToSet(s.dev.ratchets)
    BY <1>1, <2>1 DEF Contains, ToSet
  <2> QED  BY <2>2 DEF Decrypts, Opening
<1>3. CASE now \/ s.page.ratchets = <<>>
  <2>1. DecryptSoon(s, how, c) = Opened(s, how, c, now)
    BY <1>3 DEF DecryptSoon
  <2>2. ~now => ~Opening(s, c)
    <3>1. ASSUME ~now PROVE ~Opening(s, c)
      <4>1. s.dev.ratchets = <<>> /\ c.key # 0
        BY <1>1, <1>3, <3>1 DEF Decrypts
      <4> QED  BY <4>1 DEF Opening, ToSet
    <3> QED  BY <3>1
  <2> HIDE DEF now
  <2> QED  BY <2>1, <2>2, OpenedKeeps
<1>4. CASE ~(now \/ s.page.ratchets = <<>>)
  <2>1. DecryptSoon(s, how, c) = [s EXCEPT !.page.scans = @ \cup {x}]
    BY <1>4 DEF DecryptSoon
  <2>2. s.page.scans \in SUBSET Scans /\ Accounts(s, X)
    BY DEF Good, ReadSound, ReadTyped
  <2>3. x \in Scans
    BY DEF Scans, Decrypts, Contains
  <2>4. \A y \in s.page.scans \cup {x} : y.copy.key <= s.past.made /\ (~y.opens => ~Opening(s, y.copy))
    BY <1>2, <2>2, Made DEF Accounts
  <2> HIDE DEF x
  <2> DEFINE w == s.page.scans \cup {x}
  <2>5. w \in SUBSET Scans
    BY <2>2, <2>3
  <2>6. DecryptSoon(s, how, c) = [s EXCEPT !.page.scans = w]
    BY <2>1
  <2> HIDE DEF w
  <2>7. \A y \in w : y.copy.key <= s.past.made /\ (~y.opens => ~Opening(s, y.copy))
    BY <2>4 DEF w
  <2>8. Good([s EXCEPT !.page.scans = w], X) /\ Forward(s, [s EXCEPT !.page.scans = w])
    BY <2>5, <2>7, ScansKeep, Zenon
  <2> QED  BY <2>6, <2>8
<1> QED  BY <1>3, <1>4
-----------------------------------------------------------------------------
(* The tasks.                                                               *)

\* A task's checked signature is no older than those before it.
SigGood(u, t) ==
  /\ t.sig = "validated" =>
       /\ Source(t.m) \in u.dev.knows
       /\ \A i \in 1..Len(u.page.tasks) :
            Source(u.page.tasks[i].m) = Source(t.m) => u.page.tasks[i].sig = "validated"
  /\ t.sig = "unknown" => \A o \in u.past.offered : o.sig = "validated" => Source(o.m) # Source(t.m)

\* The first task is taken: its message is being handled.
LEMMA HeadGone ==
  ASSUME NEW s, Good(s, {}), s.page.tasks # <<>>
  PROVE  LET t == Head(s.page.tasks)
             u == [s EXCEPT !.page.tasks = Tail(@)]
         IN /\ t \in Tasks /\ Good(u, {t.m}) /\ KeptSound(u, {}) /\ SigGood(u, t)
            /\ u.dev = s.dev /\ u.past = s.past
            /\ \A c \in Copies : Done(s, {}, c) => Done(u, {t.m}, c)
<1> DEFINE old == s.page.tasks
           new == Tail(old)
           t == Head(old)
           u == [s EXCEPT !.page.tasks = new]
<1>1. /\ Form(u) /\ SameKept(s, u) /\ u.dev = s.dev /\ u.past = s.past
      /\ u.page.tasks = new /\ u.page.scans = s.page.scans /\ u.page.get = s.page.get
  BY TasksAre, Zenon DEF Good
<1>2. ReadTyped(s) /\ KeysMade(s) /\ Accounts(s, {}) /\ Signed(s) /\ KeptSound(s, {})
  BY DEF Good, ReadSound
<1>3. old \in Seq(Tasks) /\ Len(old) \in Nat /\ Len(old) > 0
  BY <1>2, EmptySeq DEF ReadTyped
<1>4. /\ new \in Seq(Tasks) /\ Len(new) = Len(old) - 1 /\ t \in Tasks /\ t = old[1]
      /\ \A i \in 1..Len(new) : new[i] = old[i + 1] /\ i + 1 \in 1..Len(old)
  BY <1>3
<1>5. [s EXCEPT !.page.tasks = Tail(@)] = u
  BY Zenon
<1> HIDE DEF u, new, t
<1>6. t.m \in Msgs /\ t.sig \in Sigs
  BY <1>4 DEF Tasks
<1>7. ASSUME NEW m, Handled(s, m), m # t.m PROVE Handled(u, m)
  <2>1. PICK i \in DOMAIN old : old[i].m = m /\ old[i].what \in {"message", "resource"}
    BY <1>7 DEF Handled
  <2>2. i \in 2..Len(old)
    BY <2>1, <1>3, <1>4, <1>7
  <2>3. i - 1 \in DOMAIN new /\ new[i - 1] = old[i]
    <3>1. i - 1 \in 1..Len(new) /\ (i - 1) + 1 = i
      BY <2>2, <1>3, <1>4
    <3>2. new[i - 1] = old[(i - 1) + 1]
      BY <3>1, <1>4, Zenon
    <3> QED  BY <3>1, <3>2, <1>4
  <2> QED  BY <2>1, <2>3, <1>1 DEF Handled
<1>8. ASSUME NEW m, Accounted(s, {}, m) PROVE Accounted(u, {t.m}, m)
  BY <1>1, <1>7, <1>8 DEF Accounted
<1>9. ASSUME NEW c, Done(s, {}, c) PROVE Done(u, {t.m}, c)
  BY <1>1, <1>8, <1>9, Zenon DEF Done, Opening
<1>10. ReadTyped(u) /\ KeysMade(u)
  <2>1. ReadTyped(u)
    BY <1>1, <1>2, <1>4 DEF ReadTyped
  <2>2. KeysMade(u)
    BY <1>1, <1>2 DEF KeysMade, Copied
  <2> QED  BY <2>1, <2>2
<1>11. Accounts(u, {t.m})
  <2>1. \A x \in s.page.scans : Opening(u, x.copy) <=> Opening(s, x.copy)
    BY <1>1 DEF Opening
  <2> QED  BY <1>1, <1>2, <1>8, <1>9, <2>1, Zenon DEF Accounts
<1>12. Signed(u) /\ SigGood(u, t)
  <2>1. /\ \A i, j \in 1..Len(old) :
             i < j /\ Source(old[i].m) = Source(old[j].m) /\ old[i].sig = "validated"
             => old[j].sig = "validated"
        /\ \A i \in 1..Len(old) : old[i].sig = "validated" => Source(old[i].m) \in s.dev.knows
        /\ \A o \in s.past.offered : o.sig = "validated" =>
             /\ Source(o.m) \in s.dev.knows
             /\ \A i \in 1..Len(old) : Source(old[i].m) = Source(o.m) => old[i].sig = "validated"
    BY <1>2 DEF Signed
  <2> HIDE DEF old
  <2>2. /\ \A i, j \in 1..Len(new) :
             i < j /\ Source(new[i].m) = Source(new[j].m) /\ new[i].sig = "validated"
             => new[j].sig = "validated"
        /\ \A i \in 1..Len(new) : new[i].sig = "validated" => Source(new[i].m) \in s.dev.knows
        /\ \A o \in s.past.offered : o.sig = "validated" =>
             /\ Source(o.m) \in s.dev.knows
             /\ \A i \in 1..Len(new) : Source(new[i].m) = Source(o.m) => new[i].sig = "validated"
    <3>1. ASSUME NEW i \in 1..Len(new), NEW j \in 1..Len(new), i < j,
                 Source(new[i].m) = Source(new[j].m), new[i].sig = "validated"
          PROVE  new[j].sig = "validated"
      <4>1. i + 1 < j + 1 /\ new[i] = old[i + 1] /\ new[j] = old[j + 1]
            /\ i + 1 \in 1..Len(old) /\ j + 1 \in 1..Len(old)
        BY <3>1, <1>4
      <4> QED  BY <4>1, <3>1, <2>1
    <3> QED  BY <3>1, <2>1, <1>4, Zenon
  <2>3. Signed(u)
    BY <1>1, <2>2 DEF Signed
  <2>4. ASSUME t.sig = "validated"
        PROVE  /\ Source(t.m) \in s.dev.knows
               /\ \A i \in 1..Len(new) : Source(new[i].m) = Source(t.m) => new[i].sig = "validated"
    <3>1. 1 \in 1..Len(old) /\ \A i \in 1..Len(new) : 1 < i + 1
      BY <1>3, <1>4
    <3> QED  BY <3>1, <2>1, <2>4, <1>4
  <2>5. ASSUME t.sig = "unknown", NEW o \in s.past.offered, o.sig = "validated"
        PROVE  Source(o.m) # Source(t.m)
    <3>1. 1 \in 1..Len(old)
      BY <1>3
    <3> QED  BY <3>1, <2>1, <2>5, <1>4
  <2>6. SigGood(u, t)
    BY <2>4, <2>5, <1>1 DEF SigGood
  <2> QED  BY <2>3, <2>6
<1>13. KeptSound(u, {}) /\ KeptSound(u, {t.m})
  <2>1. KeptSound(u, {})
    BY <1>1, <1>2, SameKeptSound
  <2> QED  BY <2>1 DEF KeptSound, Arrives
<1>14. Good(u, {t.m})
  BY <1>1, <1>10, <1>11, <1>12, <1>13 DEF Good, ReadSound
<1> QED  BY <1>1, <1>4, <1>5, <1>9, <1>12, <1>13, <1>14, Zenon DEF t

\* A message handled is accounted for.
LEMMA Settle ==
  ASSUME NEW t, NEW m \in Msgs, Good(t, {m}), Arrives(t, {}),
         Mail(m).kind = "text" => Accounted(t, {}, m)
  PROVE  Good(t, {}) /\ \A c : Done(t, {m}, c) => Done(t, {}, c)
<1>1. ASSUME NEW n, Mail(n).kind = "text", Accounted(t, {m}, n) PROVE Accounted(t, {}, n)
  BY <1>1 DEF Accounted
<1>2. \A c : Done(t, {m}, c) => Done(t, {}, c)
  BY <1>1 DEF Done
<1>3. Accounts(t, {})
  BY <1>1, <1>2, Zenon DEF Good, ReadSound, Accounts
<1> QED  BY <1>2, <1>3 DEF Good, ReadSound, KeptSound

\* The router's listener.
LEMMA RouterKeeps ==
  ASSUME NEW u, NEW m \in Msgs, Good(u, {m}), KeptSound(u, {}),
         NEW v, NEW p, p = u \/ p = Prove(u, m),
         \/ v = Drop(u, m)
         \/ v = p /\ ~Parses(m)
         \/ v = Task(p, "message", m)
  PROVE  Good(v, {}) /\ Forward(u, v) /\ \A c \in Copies : Done(u, {m}, c) => Done(v, {}, c)
<1>1. Good(p, {m}) /\ Forward(u, p) /\ SameKept(u, p)
  <2>1. CASE p = u
    BY <2>1, ForwardNone DEF SameKept
  <2>2. CASE p = Prove(u, m)
    BY <2>2, ProveKeeps, ProveIs DEF Good
  <2> QED  BY <2>1, <2>2
<1>2. /\ Good(v, {m}) /\ Forward(u, v) /\ v.dev.seen = u.dev.seen /\ v.past.arrived = u.past.arrived
      /\ Mail(m).kind = "text" => Accounted(v, {}, m)
  <2>1. CASE v = Drop(u, m)
    <3>1. Good(v, {m}) /\ Forward(u, v) /\ m \in v.past.dropped
      BY <2>1, DropKeeps
    <3>2. SameKept(u, v)
      BY <2>1, DropIs DEF Good
    <3> QED  BY <3>1, <3>2 DEF Accounted, SameKept
  <2>2. CASE v = p /\ ~Parses(m)
    BY <2>2, <1>1 DEF Parses, SameKept
  <2>3. CASE v = Task(p, "message", m)
    <3>1. Good(v, {m}) /\ Forward(p, v) /\ Handled(v, m) /\ v.dev = p.dev /\ v.past = p.past
      BY <2>3, <1>1, TaskKeeps, Zenon
    <3>2. Forward(u, v)
      BY <3>1, <1>1, ForwardTwice
    <3> QED  BY <3>1, <3>2, <1>1 DEF Accounted, SameKept
  <2> QED  BY <2>1, <2>2, <2>3
<1>3. Arrives(v, {})
  BY <1>2 DEF KeptSound, Arrives
<1>4. Good(v, {}) /\ \A c : Done(v, {m}, c) => Done(v, {}, c)
  BY <1>2, <1>3, Settle
<1> QED  BY <1>2, <1>4, OnwardDone

\* The router's listener hands a message on, drops it, or could not parse it,
LEMMA OnPacketKeeps ==
  ASSUME NEW u, NEW m \in Msgs, Good(u, {m}), KeptSound(u, {})
  PROVE  LET v == OnPacket(u, m) IN
         Good(v, {}) /\ Forward(u, v) /\ \A c \in Copies : Done(u, {m}, c) => Done(v, {}, c)
<1> DEFINE v == OnPacket(u, m)
           p == Prove(u, m)
<1>1. v = Drop(u, m) \/ (v = p /\ ~Parses(m)) \/ v = Task(p, "message", m)
  BY DEF OnPacket
<1> HIDE DEF v, p
<1>2. p = u \/ p = Prove(u, m)
  BY DEF p
<1> QED  BY <1>1, <1>2, RouterKeeps, Zenon DEF v

\* and so does the one of a link's payloads.
LEMMA OnLinkPayloadKeeps ==
  ASSUME NEW u, NEW t \in Tasks, Good(u, {t.m}), KeptSound(u, {})
  PROVE  LET v == OnLinkPayload(u, t) IN
         Good(v, {}) /\ Forward(u, v) /\ \A c \in Copies : Done(u, {t.m}, c) => Done(v, {}, c)
<1> DEFINE v == OnLinkPayload(u, t)
           p == IF t.what = "link" THEN Prove(u, t.m) ELSE u
<1>1. v = Drop(u, t.m) \/ (v = p /\ ~Parses(t.m)) \/ v = Task(p, "message", t.m)
  BY DEF OnLinkPayload
<1>2. p = u \/ p = Prove(u, t.m)
  OBVIOUS
<1>3. t.m \in Msgs
  BY DEF Tasks
<1> HIDE DEF v, p
<1> QED  BY <1>1, <1>2, <1>3, RouterKeeps DEF v
-----------------------------------------------------------------------------
(* A conversation takes one message more.                                   *)

NewRecord(all, m, at) == [m |-> m, at |-> at, arrival |-> Len(all), chip |-> NoReaction, stored |-> "none"]

\* A new record is a record.
LEMMA NewIsRecord ==
  ASSUME NEW all \in Seq(Msgs), NEW m \in Msgs, NEW at \in Nat
  PROVE  NewRecord(all, m, at) \in Recs
<1>1. NoReaction \in [emoji : Emojis, at : Nat]
  BY DEF NoReaction, Emojis
<1>2. Len(all) \in Nat /\ "none" \in Places
  BY DEF Places
<1> QED  BY <1>1, <1>2 DEF NewRecord, Recs

\* A record's parts.
LEMMA RecordParts ==
  ASSUME NEW r \in Recs
  PROVE  r.m \in Msgs /\ r.at \in Nat /\ r.arrival \in Nat /\ r.stored \in Places
BY DEF Recs

\* The next arrival is numbered by how many there were.
LEMMA NextArrivalIs ==
  ASSUME NEW box \in Seq(Recs), NEW all \in Seq(Msgs), Numbered(box, all),
         Len(box) = 0 => Len(all) = 0
  PROVE  NextArrival(box) = Len(all)
<1> DEFINE A == {box[i].arrival : i \in DOMAIN box}
<1>1. Len(box) \in Nat /\ Len(all) \in Nat /\ DOMAIN box = 1..Len(box) /\ (box = <<>> <=> Len(box) = 0)
  BY EmptySeq
<1>2. CASE Len(box) = 0
  BY <1>1, <1>2 DEF NextArrival
<1>3. CASE Len(box) > 0
  <2>1. \A i \in 1..Len(box) : box[i].arrival \in Nat /\ box[i].arrival <= Len(all) - 1
    BY <1>1 DEF Numbered, Recs
  <2>2. A \in SUBSET Nat /\ \A a \in A : a <= Len(all) - 1
    BY <1>1, <2>1
  <2>3. Len(box) <= Len(all)
    BY DEF Numbered
  <2>4. Len(all) - 1 \in Nat /\ Len(all) - 1 \in Len(all) - Len(box) .. Len(all) - 1
    BY <1>1, <1>3, <2>3
  <2>5. Len(all) - 1 \in A
    <3>1. PICK i \in 1..Len(box) : box[i].arrival = Len(all) - 1
      BY <2>4, Zenon DEF Numbered
    <3> QED  BY <3>1, <1>1
  <2> DEFINE n == Len(all) - 1
  <2>6. Max(A) \in A /\ \A a \in A : a <= Max(A)
    <3>1. n \in Nat /\ A \in SUBSET Nat /\ A # {} /\ \A a \in A : a <= n
      BY <2>2, <2>4, <2>5
    <3> HIDE DEF A, n
    <3> QED  BY <3>1, MaxIs, Zenon
  <2> HIDE DEF A
  <2>7. Max(A) = Len(all) - 1
    <3>1. Max(A) \in Nat /\ Max(A) <= Len(all) - 1 /\ Len(all) - 1 <= Max(A)
      BY <2>2, <2>5, <2>6, Zenon
    <3> QED  BY <3>1, <1>1
  <2>8. NextArrival(box) = Max(A) + 1
    BY <1>1, <1>3 DEF NextArrival, A
  <2> QED  BY <2>7, <2>8, <1>1
<1> QED  BY <1>1, <1>2, <1>3

\* A record's place is after the last that is not later.
LEMMA PlaceIs ==
  ASSUME NEW box \in Seq(Recs), InTime(box), NEW at \in Nat
  PROVE  LET k == Place(box, at) IN
         /\ k \in 1..Len(box) + 1
         /\ \A i \in 1..Len(box) : (i < k => box[i].at <= at) /\ (i >= k => box[i].at > at)
<1> DEFINE A == {i \in DOMAIN box : box[i].at <= at}
           B == {0} \cup A
           n == Max(B)
<1>1. Len(box) \in Nat /\ DOMAIN box = 1..Len(box) /\ \A i \in 1..Len(box) : box[i].at \in Nat
  <2>1. \A i \in 1..Len(box) : box[i] \in Recs
    OBVIOUS
  <2> QED  BY <2>1, RecordParts
<1>2. /\ B \in SUBSET Nat /\ B # {} /\ \A i \in B : i <= Len(box)
      /\ \A i \in B : i = 0 \/ (i \in 1..Len(box) /\ box[i].at <= at)
      /\ \A i \in 1..Len(box) : box[i].at <= at => i \in B
  BY <1>1
<1> HIDE DEF B
<1>3. n \in B /\ \A i \in B : i <= n
  BY <1>1, <1>2, MaxIs, Zenon
<1>4. Place(box, at) = n + 1
  BY DEF Place, B
<1> HIDE DEF n
<1>5. n \in 0..Len(box)
  BY <1>1, <1>2, <1>3
<1>6. ASSUME NEW i \in 1..Len(box), i < n + 1 PROVE box[i].at <= at
  <2>1. n \in 1..Len(box) /\ box[n].at <= at /\ i <= n
    BY <1>2, <1>3, <1>5, <1>6
  <2>2. i = n \/ box[i].at <= box[n].at
    BY <2>1 DEF InTime
  <2> QED  BY <1>1, <2>1, <2>2
<1>7. ASSUME NEW i \in 1..Len(box), i >= n + 1 PROVE box[i].at > at
  <2>1. i \notin B
    BY <1>3, <1>5, <1>7
  <2> QED  BY <1>1, <1>2, <2>1
<1> QED  BY <1>4, <1>5, <1>6, <1>7, <1>1

\* Put there, the conversation is in time and its records numbered.
LEMMA PlacedIs ==
  ASSUME NEW box \in Seq(Recs), NEW all \in Seq(Msgs), Numbered(box, all), InTime(box),
         Len(box) = 0 => Len(all) = 0, NEW m \in Msgs, NEW at \in Nat
  PROVE  LET p == Placed(box, [m |-> m, at |-> at])
             e == NewRecord(all, m, at)
         IN /\ p \in Seq(Recs) /\ Len(p) = Len(box) + 1
            /\ Numbered(p, Append(all, m)) /\ InTime(p)
            /\ \A i \in 1..Len(p) : p[i] = e \/ \E j \in 1..Len(box) : p[i] = box[j]
<1> DEFINE e == NewRecord(all, m, at)
           k == Place(box, at)
           p == InsertAt(box, k, e)
           more == Append(all, m)
<1>1. Placed(box, [m |-> m, at |-> at]) = p
  BY NextArrivalIs DEF Placed, NewRecord
<1>2. e \in Recs /\ e.m = m /\ e.at = at /\ e.arrival = Len(all)
  BY NewIsRecord DEF NewRecord
<1>3. /\ k \in 1..Len(box) + 1
      /\ \A i \in 1..Len(box) : (i < k => box[i].at <= at) /\ (i >= k => box[i].at > at)
  BY PlaceIs, Zenon
<1> HIDE DEF e, k
<1>4. /\ p \in Seq(Recs) /\ Len(p) = Len(box) + 1
      /\ \A i \in 1..Len(box) + 1 : p[i] = IF i < k THEN box[i] ELSE IF i = k THEN e ELSE box[i - 1]
  BY <1>2, <1>3, Inserted
<1>5. Len(box) \in Nat /\ Len(all) \in Nat /\ Len(box) <= Len(all)
      /\ \A i \in 1..Len(box) : box[i] \in Recs /\ box[i].at \in Nat /\ box[i].arrival \in Nat
  <2>1. \A i \in 1..Len(box) : box[i] \in Recs
    OBVIOUS
  <2> QED  BY <2>1, RecordParts DEF Numbered
<1>6. Len(more) = Len(all) + 1 /\ more[Len(all) + 1] = m /\ \A i \in 1..Len(all) : more[i] = all[i]
  BY <1>5
<1> HIDE DEF p, more
<1>7. \A i \in 1..Len(p) :
        \/ i < k /\ i \in 1..Len(box) /\ p[i] = box[i]
        \/ i = k /\ p[i] = e
        \/ i > k /\ i - 1 \in 1..Len(box) /\ i - 1 >= k /\ p[i] = box[i - 1]
  BY <1>3, <1>4, <1>5
<1>8. ASSUME NEW j \in 1..Len(box)
      PROVE  \E i \in 1..Len(p) : p[i] = box[j] /\ i = IF j < k THEN j ELSE j + 1
  <2>1. CASE j < k
    <3>1. j \in 1..Len(p) /\ p[j] = box[j]
      BY <2>1, <1>4, <1>5
    <3> QED  BY <2>1, <3>1
  <2>2. CASE j >= k
    <3>1. j + 1 \in 1..Len(p) /\ ~(j + 1 < k) /\ j + 1 # k /\ (j + 1) - 1 = j
      BY <2>2, <1>3, <1>4, <1>5
    <3>2. p[j + 1] = box[(j + 1) - 1]
      BY <3>1, <1>4
    <3> QED  BY <2>2, <3>1, <3>2, <1>3
  <2> QED  BY <2>1, <2>2, <1>3
<1>9. ASSUME NEW i \in 1..Len(p) PROVE p[i] = e \/ \E j \in 1..Len(box) : p[i] = box[j]
  BY <1>7
<1>10. InTime(p)
  <2> SUFFICES ASSUME NEW i \in 1..Len(p), NEW j \in 1..Len(p), i < j PROVE p[i].at <= p[j].at
    BY DEF InTime
  <2>1. \A a, b \in 1..Len(box) : a < b => box[a].at <= box[b].at
    BY DEF InTime
  <2>2. CASE i = k
    <3>1. j - 1 \in 1..Len(box) /\ j - 1 >= k /\ p[j] = box[j - 1] /\ p[i] = e
      BY <2>2, <1>7, <1>3
    <3> QED  BY <3>1, <1>2, <1>3, <1>5
  <2>3. CASE j = k
    <3>1. i \in 1..Len(box) /\ i < k /\ p[i] = box[i] /\ p[j] = e
      BY <2>3, <1>7, <1>3
    <3> QED  BY <3>1, <1>2, <1>3
  <2>4. CASE i # k /\ j # k
    <3>1. CASE i < k /\ j < k
      <4>1. i \in 1..Len(box) /\ p[i] = box[i]
        BY <3>1, <1>7, <1>3
      <4>2. j \in 1..Len(box) /\ p[j] = box[j]
        BY <3>1, <1>7, <1>3
      <4> QED  BY <4>1, <4>2, <2>1
    <3>2. CASE i < k /\ j > k
      <4>1. i \in 1..Len(box) /\ p[i] = box[i] /\ j - 1 \in 1..Len(box) /\ p[j] = box[j - 1] /\ i < j - 1
        BY <3>2, <1>7, <1>3
      <4> QED  BY <4>1, <2>1
    <3>3. CASE i > k
      <4>1. i - 1 \in 1..Len(box) /\ p[i] = box[i - 1] /\ j - 1 \in 1..Len(box) /\ p[j] = box[j - 1]
            /\ i - 1 < j - 1
        BY <3>3, <1>7, <1>3
      <4> QED  BY <4>1, <2>1
    <3> QED  BY <2>4, <3>1, <3>2, <3>3, <1>3
  <2> QED  BY <2>2, <2>3, <2>4
<1>11. Numbered(p, more)
  <2>1. Len(p) <= Len(more) /\ Len(more) - Len(p) = Len(all) - Len(box) /\ Len(more) - 1 = Len(all)
    BY <1>4, <1>5, <1>6
  <2>2. /\ \A j \in 1..Len(box) :
             box[j].arrival \in Len(all) - Len(box) .. Len(all) - 1 /\ box[j].m = all[box[j].arrival + 1]
        /\ \A a \in Len(all) - Len(box) .. Len(all) - 1 : \E j \in 1..Len(box) : box[j].arrival = a
        /\ \A j, l \in 1..Len(box) : box[j].arrival = box[l].arrival => j = l
    BY Zenon DEF Numbered
  <2>3. ASSUME NEW j \in 1..Len(box)
        PROVE  box[j].arrival \in Len(all) - Len(box) .. Len(all) /\ box[j].m = more[box[j].arrival + 1]
               /\ box[j].arrival # Len(all)
    <3>1. box[j].arrival \in Len(all) - Len(box) .. Len(all) - 1 /\ box[j].m = all[box[j].arrival + 1]
      BY <2>2
    <3>2. box[j].arrival + 1 \in 1..Len(all)
      BY <3>1, <1>5
    <3> QED  BY <3>1, <3>2, <1>5, <1>6
  <2>4. ASSUME NEW i \in 1..Len(p)
        PROVE  p[i].arrival \in Len(all) - Len(box) .. Len(all) /\ p[i].m = more[p[i].arrival + 1]
    <3>1. CASE p[i] = e
      BY <3>1, <1>2, <1>5, <1>6
    <3>2. CASE \E j \in 1..Len(box) : p[i] = box[j]
      BY <3>2, <2>3
    <3> QED  BY <3>1, <3>2, <1>9
  <2>5. ASSUME NEW a \in Len(all) - Len(box) .. Len(all)
        PROVE  \E i \in 1..Len(p) : p[i].arrival = a
    <3>1. CASE a = Len(all)
      <4>1. k \in 1..Len(p) /\ p[k] = e
        BY <1>3, <1>4, <1>5
      <4> QED  BY <3>1, <4>1, <1>2
    <3>2. CASE a # Len(all)
      <4>1. PICK j \in 1..Len(box) : box[j].arrival = a
        BY <3>2, <2>2, <1>5
      <4> QED  BY <4>1, <1>8, Zenon
    <3> QED  BY <3>1, <3>2
  <2>6. ASSUME NEW i \in 1..Len(p), NEW j \in 1..Len(p), p[i].arrival = p[j].arrival PROVE i = j
    <3>1. CASE i = k /\ j = k
      BY <3>1
    <3>2. CASE i = k /\ j # k
      <4>1. p[i].arrival = Len(all) /\ \E l \in 1..Len(box) : p[j] = box[l]
        BY <3>2, <1>2, <1>7, <1>3
      <4> QED  BY <4>1, <2>3, <2>6
    <3>3. CASE i # k /\ j = k
      <4>1. p[j].arrival = Len(all) /\ \E l \in 1..Len(box) : p[i] = box[l]
        BY <3>3, <1>2, <1>7, <1>3
      <4> QED  BY <4>1, <2>3, <2>6
    <3>4. CASE i # k /\ j # k
      <4> DEFINE a == IF i < k THEN i ELSE i - 1
                 b == IF j < k THEN j ELSE j - 1
      <4>0. (i < k \/ (i > k /\ ~(i < k))) /\ (j < k \/ (j > k /\ ~(j < k)))
        BY <3>4, <1>3
      <4>1. a \in 1..Len(box) /\ p[i] = box[a]
        <5>1. CASE i < k
          BY <5>1, <1>7, <1>3
        <5>2. CASE i > k /\ ~(i < k)
          BY <5>2, <1>7, <1>3
        <5> QED  BY <4>0, <5>1, <5>2
      <4>2. b \in 1..Len(box) /\ p[j] = box[b]
        <5>1. CASE j < k
          BY <5>1, <1>7, <1>3
        <5>2. CASE j > k /\ ~(j < k)
          BY <5>2, <1>7, <1>3
        <5> QED  BY <4>0, <5>1, <5>2
      <4>3. a = b
        <5> HIDE DEF a, b
        <5> QED  BY <4>1, <4>2, <2>2, <2>6, Zenon
      <4> QED  BY <4>3, <3>4, <1>3
    <3> QED  BY <3>1, <3>2, <3>3, <3>4
  <2> QED  BY <2>1, <2>4, <2>5, <2>6, Zenon DEF Numbered
<1> QED  BY <1>1, <1>4, <1>9, <1>10, <1>11 DEF e, more

\* The one that arrived first has the least number,
LEMMA FirstArrivedIs ==
  ASSUME NEW box \in Seq(Recs), NEW all \in Seq(Msgs), Numbered(box, all), Len(box) > 0
  PROVE  FirstArrived(box) \in 1..Len(box) /\ box[FirstArrived(box)].arrival = Len(all) - Len(box)
<1>1. Len(box) \in Nat /\ Len(all) \in Nat /\ Len(box) <= Len(all) /\ DOMAIN box = 1..Len(box)
  BY DEF Numbered
<1>2. \A i \in 1..Len(box) : box[i].arrival \in Len(all) - Len(box) .. Len(all) - 1
  BY DEF Numbered
<1>3. PICK k \in 1..Len(box) : box[k].arrival = Len(all) - Len(box)
  <2>1. Len(all) - Len(box) \in Len(all) - Len(box) .. Len(all) - 1
    BY <1>1
  <2> QED  BY <2>1, Zenon DEF Numbered
<1>4. \A j \in DOMAIN box : box[k].arrival <= box[j].arrival
  BY <1>1, <1>2, <1>3
<1>5. FirstArrived(box) \in DOMAIN box /\ \A j \in DOMAIN box : box[FirstArrived(box)].arrival <= box[j].arrival
  BY <1>1, <1>3, <1>4, Zenon DEF FirstArrived
<1> DEFINE f == FirstArrived(box)
<1> HIDE DEF f
<1>6. f \in 1..Len(box) /\ box[f].arrival <= box[k].arrival
  BY <1>1, <1>5 DEF f
<1>7. box[f].arrival = Len(all) - Len(box)
  BY <1>1, <1>2, <1>3, <1>6
<1> QED  BY <1>6, <1>7 DEF f

\* and without it the others stay in time and numbered.
LEMMA FirstGone ==
  ASSUME NEW box \in Seq(Recs), NEW all \in Seq(Msgs), Numbered(box, all), InTime(box), Len(box) > 0
  PROVE  LET q == RemoveAt(box, FirstArrived(box)) IN
         /\ q \in Seq(Recs) /\ Len(q) = Len(box) - 1 /\ Numbered(q, all) /\ InTime(q)
         /\ \A i \in 1..Len(q) : \E j \in 1..Len(box) : q[i] = box[j]
<1> DEFINE f == FirstArrived(box)
           q == RemoveAt(box, f)
<1>1. Len(box) \in Nat /\ Len(all) \in Nat /\ Len(box) <= Len(all)
  BY DEF Numbered
<1>2. f \in 1..Len(box) /\ box[f].arrival = Len(all) - Len(box)
  BY FirstArrivedIs
<1> HIDE DEF f
<1>3. /\ q \in Seq(Recs) /\ Len(q) = Len(box) - 1
      /\ \A i \in 1..Len(box) - 1 : q[i] = IF i < f THEN box[i] ELSE box[i + 1]
  BY <1>2, Removed
<1> HIDE DEF q
<1> DEFINE at(i) == IF i < f THEN i ELSE i + 1
<1>4. ASSUME NEW i \in 1..Len(q) PROVE at(i) \in 1..Len(box) /\ at(i) # f /\ q[i] = box[at(i)]
  <2>1. i \in 1..Len(box) - 1 /\ i \in Nat
    BY <1>1, <1>3
  <2>2. CASE i < f
    <3>1. at(i) = i /\ i \in 1..Len(box) /\ i # f
      BY <2>1, <2>2, <1>1, <1>2
    <3>2. q[i] = box[i]
      BY <2>1, <2>2, <1>3
    <3> QED  BY <3>1, <3>2
  <2>3. CASE ~(i < f)
    BY <2>1, <2>3, <1>1, <1>2, <1>3
  <2> QED  BY <2>2, <2>3
<1>5. ASSUME NEW i \in 1..Len(q), NEW j \in 1..Len(q) PROVE (i < j => at(i) < at(j)) /\ (at(i) = at(j) => i = j)
  <2>1. i \in Nat /\ j \in Nat /\ f \in Nat
    BY <1>1, <1>2, <1>3
  <2> QED  BY <2>1
<1>6. ASSUME NEW k \in 1..Len(box), k # f PROVE \E i \in 1..Len(q) : at(i) = k
  <2>1. CASE k < f
    <3>1. k \in 1..Len(q) /\ at(k) = k
      BY <2>1, <1>1, <1>2, <1>3
    <3> QED  BY <3>1
  <2>2. CASE k > f
    <3>1. k - 1 \in 1..Len(q) /\ ~(k - 1 < f) /\ (k - 1) + 1 = k
      BY <2>2, <1>1, <1>2, <1>3
    <3>2. at(k - 1) = k
      BY <3>1
    <3> QED  BY <3>1, <3>2
  <2> QED  BY <2>1, <2>2, <1>2, <1>6
<1> HIDE DEF at
<1>7. InTime(q)
  BY <1>4, <1>5, Zenon DEF InTime
<1>8. Numbered(q, all)
  <2>1. Len(q) <= Len(all) /\ Len(all) - Len(q) = Len(all) - Len(box) + 1
    BY <1>1, <1>3
  <2>2. /\ \A j \in 1..Len(box) :
             box[j].arrival \in Len(all) - Len(box) .. Len(all) - 1 /\ box[j].m = all[box[j].arrival + 1]
        /\ \A a \in Len(all) - Len(box) .. Len(all) - 1 : \E j \in 1..Len(box) : box[j].arrival = a
        /\ \A j, l \in 1..Len(box) : box[j].arrival = box[l].arrival => j = l
    BY Zenon DEF Numbered
  <2>3. ASSUME NEW i \in 1..Len(q)
        PROVE  q[i].arrival \in Len(all) - Len(q) .. Len(all) - 1 /\ q[i].m = all[q[i].arrival + 1]
    <3>1. at(i) \in 1..Len(box) /\ at(i) # f /\ q[i] = box[at(i)]
      BY <1>4
    <3>2. box[at(i)].arrival # box[f].arrival
      BY <3>1, <2>2, <1>2, Zenon
    <3>3. /\ box[at(i)].arrival \in Len(all) - Len(box) .. Len(all) - 1
          /\ box[at(i)].m = all[box[at(i)].arrival + 1]
      BY <3>1, <2>2, Zenon
    <3>4. \A l, n, lq, x, y \in Int :
             x \in l - n .. l - 1 /\ y = l - n /\ x # y /\ l - lq = l - n + 1 => x \in l - lq .. l - 1
      OBVIOUS
    <3>5. Len(all) \in Int /\ Len(box) \in Int /\ Len(q) \in Int
      BY <1>3
    <3>6. box[at(i)].arrival \in Int /\ Len(all) - Len(box) \in Int
      BY <3>3, <3>5
    <3>7. box[at(i)].arrival \in Len(all) - Len(q) .. Len(all) - 1
      BY <3>2, <3>3, <3>4, <3>5, <3>6, <2>1, <1>2, Zenon
    <3>8. q[i].arrival \in Len(all) - Len(q) .. Len(all) - 1
      BY <3>1, <3>7, Zenon
    <3> QED  BY <3>1, <3>3, <3>8, Zenon
  <2>4. ASSUME NEW a \in Len(all) - Len(q) .. Len(all) - 1 PROVE \E i \in 1..Len(q) : q[i].arrival = a
    <3>1. a \in Len(all) - Len(box) .. Len(all) - 1 /\ a # Len(all) - Len(box)
      BY <2>1, <1>1
    <3>2. PICK k \in 1..Len(box) : box[k].arrival = a
      BY <3>1, <2>2, Zenon
    <3>3. PICK i \in 1..Len(q) : at(i) = k
      BY <3>1, <3>2, <1>2, <1>6, Zenon
    <3> QED  BY <3>2, <3>3, <1>4, Zenon
  <2>5. ASSUME NEW i \in 1..Len(q), NEW j \in 1..Len(q), q[i].arrival = q[j].arrival PROVE i = j
    <3>1. at(i) \in 1..Len(box) /\ at(j) \in 1..Len(box) /\ q[i] = box[at(i)] /\ q[j] = box[at(j)]
      BY <1>4, Zenon
    <3>2. at(i) = at(j)
      BY <2>2, <2>5, <3>1, Zenon
    <3> QED  BY <3>2, <1>5, Zenon
  <2> QED  BY <2>1, <2>3, <2>4, <2>5 DEF Numbered
<1> QED  BY <1>3, <1>4, <1>7, <1>8 DEF q, f

\* What addInOrder leaves.
LEMMA AddedInOrder ==
  ASSUME NEW box \in Seq(Recs), NEW all \in Seq(Msgs), Numbered(box, all), Full(box, all),
         InTime(box), NEW m \in Msgs, NEW at \in Nat
  PROVE  LET q == AddInOrder(box, [m |-> m, at |-> at], KeepLimit)
             e == NewRecord(all, m, at)
         IN /\ q \in Seq(Recs) /\ Numbered(q, Append(all, m)) /\ Full(q, Append(all, m)) /\ InTime(q)
            /\ \A i \in 1..Len(q) : q[i] = e \/ \E j \in 1..Len(box) : q[i] = box[j]
<1> DEFINE r == [m |-> m, at |-> at]
           e == NewRecord(all, m, at)
           p == Placed(box, r)
           q == AddInOrder(box, r, KeepLimit)
           more == Append(all, m)
<1>1. /\ Len(box) \in Nat /\ Len(all) \in Nat /\ Len(box) <= KeepLimit
      /\ Len(box) < KeepLimit => Len(box) = Len(all)
      /\ more \in Seq(Msgs) /\ Len(more) = Len(all) + 1
  BY DEF Full
<1>2. Len(box) = 0 => Len(all) = 0
  BY <1>1, LimitsAre
<1>3. /\ p \in Seq(Recs) /\ Len(p) = Len(box) + 1 /\ Numbered(p, more) /\ InTime(p)
      /\ \A i \in 1..Len(p) : p[i] = e \/ \E j \in 1..Len(box) : p[i] = box[j]
  BY <1>2, PlacedIs
<1> HIDE DEF e, p, more
<1>4. CASE Len(p) <= KeepLimit
  <2>1. q = p
    BY <1>4 DEF AddInOrder, p
  <2>2. Full(p, more)
    BY <1>1, <1>3, <1>4, LimitsAre DEF Full
  <2> HIDE DEF q
  <2> QED  BY <1>3, <2>1, <2>2 DEF q, e, more
<1>5. CASE ~(Len(p) <= KeepLimit)
  <2> DEFINE g == RemoveAt(p, FirstArrived(p))
  <2>1. q = g
    BY <1>5 DEF AddInOrder, p
  <2>2. /\ g \in Seq(Recs) /\ Len(g) = Len(p) - 1 /\ Numbered(g, more) /\ InTime(g)
        /\ \A i \in 1..Len(g) : \E j \in 1..Len(p) : g[i] = p[j]
    <3>1. Len(p) > 0
      BY <1>1, <1>3
    <3> QED  BY <1>1, <1>3, <3>1, FirstGone
  <2> HIDE DEF g, q
  <2>3. Full(g, more)
    BY <1>1, <1>3, <1>5, <2>2, LimitsAre DEF Full
  <2>4. \A i \in 1..Len(g) : g[i] = e \/ \E j \in 1..Len(box) : g[i] = box[j]
    BY <1>3, <2>2
  <2> QED  BY <2>1, <2>2, <2>3, <2>4, Zenon DEF q, e, more
<1> QED  BY <1>4, <1>5
-----------------------------------------------------------------------------
(* One part of a state changes.                                             *)

\* What a change of the contacts' rows leaves as it was.
LEMMA RowsAre ==
  ASSUME NEW s, Form(s), NEW x
  PROVE  LET t == [s EXCEPT !.dev.rows = x] IN
         /\ Form(t) /\ t.page = s.page /\ t.past = s.past /\ t.dev.rows = x
         /\ t.dev.held = s.dev.held /\ t.dev.seen = s.dev.seen /\ t.dev.inbox = s.dev.inbox
         /\ t.dev.slot = s.dev.slot /\ t.dev.knows = s.dev.knows /\ t.dev.allows = s.dev.allows
         /\ t.dev.ratchets = s.dev.ratchets
BY DEF Form

\* What a change of LxmfSeen's list leaves as it was,
LEMMA SeenIs ==
  ASSUME NEW s, Form(s), NEW x
  PROVE  LET t == [s EXCEPT !.dev.seen = x] IN
         /\ Form(t) /\ t.page = s.page /\ t.past = s.past /\ t.dev.seen = x
         /\ t.dev.held = s.dev.held /\ t.dev.inbox = s.dev.inbox /\ t.dev.slot = s.dev.slot
         /\ t.dev.rows = s.dev.rows /\ t.dev.knows = s.dev.knows /\ t.dev.allows = s.dev.allows
         /\ t.dev.ratchets = s.dev.ratchets
BY DEF Form

\* what a change of the conversations leaves,
LEMMA InboxIs ==
  ASSUME NEW s, Form(s), NEW x
  PROVE  LET t == [s EXCEPT !.dev.inbox = x] IN
         /\ Form(t) /\ t.page = s.page /\ t.past = s.past /\ t.dev.inbox = x
         /\ t.dev.held = s.dev.held /\ t.dev.seen = s.dev.seen /\ t.dev.slot = s.dev.slot
         /\ t.dev.rows = s.dev.rows /\ t.dev.knows = s.dev.knows /\ t.dev.allows = s.dev.allows
         /\ t.dev.ratchets = s.dev.ratchets
BY DEF Form

\* what a change of the names leaves,
LEMMA SlotIs ==
  ASSUME NEW s, Form(s), NEW x
  PROVE  LET t == [s EXCEPT !.dev.slot = x] IN
         /\ Form(t) /\ t.page = s.page /\ t.past = s.past /\ t.dev.slot = x
         /\ t.dev.held = s.dev.held /\ t.dev.seen = s.dev.seen /\ t.dev.inbox = s.dev.inbox
         /\ t.dev.rows = s.dev.rows /\ t.dev.knows = s.dev.knows /\ t.dev.allows = s.dev.allows
         /\ t.dev.ratchets = s.dev.ratchets
BY DEF Form

\* what a change of the attachment store leaves,
LEMMA FilesAre ==
  ASSUME NEW s, Form(s), NEW x
  PROVE  LET t == [s EXCEPT !.page.files = x] IN
         /\ Form(t) /\ t.dev = s.dev /\ t.past = s.past /\ t.page.files = x
         /\ t.page.scans = s.page.scans /\ t.page.tasks = s.page.tasks /\ t.page.get = s.page.get
         /\ t.page.ratchets = s.page.ratchets /\ t.page.rotated = s.page.rotated
BY DEF Form

\* what noting a message forgotten leaves,
LEMMA ForgotIs ==
  ASSUME NEW s, Form(s), NEW x
  PROVE  LET t == [s EXCEPT !.past.forgot = x] IN
         /\ Form(t) /\ t.dev = s.dev /\ t.page = s.page /\ t.past.forgot = x
         /\ t.past.proved = s.past.proved /\ t.past.stored = s.past.stored /\ t.past.dropped = s.past.dropped
         /\ t.past.cut = s.past.cut /\ t.past.arrived = s.past.arrived /\ t.past.offered = s.past.offered
         /\ t.past.reacted = s.past.reacted /\ t.past.announced = s.past.announced /\ t.past.made = s.past.made
         /\ t.past.earlier = s.past.earlier /\ t.past.left = s.past.left
BY DEF Form

\* what noting an arrival leaves,
LEMMA ArrivedIs ==
  ASSUME NEW s, Form(s), NEW x
  PROVE  LET t == [s EXCEPT !.past.arrived = x] IN
         /\ Form(t) /\ t.dev = s.dev /\ t.page = s.page /\ t.past.arrived = x
         /\ t.past.proved = s.past.proved /\ t.past.stored = s.past.stored /\ t.past.dropped = s.past.dropped
         /\ t.past.cut = s.past.cut /\ t.past.forgot = s.past.forgot /\ t.past.offered = s.past.offered
         /\ t.past.reacted = s.past.reacted /\ t.past.announced = s.past.announced /\ t.past.made = s.past.made
         /\ t.past.earlier = s.past.earlier /\ t.past.left = s.past.left
BY DEF Form

\* what noting a name offered leaves,
LEMMA OfferedIs ==
  ASSUME NEW s, Form(s), NEW x
  PROVE  LET t == [s EXCEPT !.past.offered = x] IN
         /\ Form(t) /\ t.dev = s.dev /\ t.page = s.page /\ t.past.offered = x
         /\ t.past.proved = s.past.proved /\ t.past.stored = s.past.stored /\ t.past.dropped = s.past.dropped
         /\ t.past.cut = s.past.cut /\ t.past.forgot = s.past.forgot /\ t.past.arrived = s.past.arrived
         /\ t.past.reacted = s.past.reacted /\ t.past.announced = s.past.announced /\ t.past.made = s.past.made
         /\ t.past.earlier = s.past.earlier /\ t.past.left = s.past.left
BY DEF Form

\* what noting a reaction leaves,
LEMMA ReactedIs ==
  ASSUME NEW s, Form(s), NEW x
  PROVE  LET t == [s EXCEPT !.past.reacted = x] IN
         /\ Form(t) /\ t.dev = s.dev /\ t.page = s.page /\ t.past.reacted = x
         /\ t.past.proved = s.past.proved /\ t.past.stored = s.past.stored /\ t.past.dropped = s.past.dropped
         /\ t.past.cut = s.past.cut /\ t.past.forgot = s.past.forgot /\ t.past.arrived = s.past.arrived
         /\ t.past.offered = s.past.offered /\ t.past.announced = s.past.announced /\ t.past.made = s.past.made
         /\ t.past.earlier = s.past.earlier /\ t.past.left = s.past.left
BY DEF Form

\* and what noting bytes left behind leaves.
LEMMA LeftIs ==
  ASSUME NEW s, Form(s), NEW x
  PROVE  LET t == [s EXCEPT !.past.left = x] IN
         /\ Form(t) /\ t.dev = s.dev /\ t.page = s.page /\ t.past.left = x
         /\ t.past.proved = s.past.proved /\ t.past.stored = s.past.stored /\ t.past.dropped = s.past.dropped
         /\ t.past.cut = s.past.cut /\ t.past.forgot = s.past.forgot /\ t.past.arrived = s.past.arrived
         /\ t.past.offered = s.past.offered /\ t.past.reacted = s.past.reacted /\ t.past.announced = s.past.announced
         /\ t.past.made = s.past.made /\ t.past.earlier = s.past.earlier
BY DEF Form

-----------------------------------------------------------------------------
(* Keeping: what a message changes of what the device keeps.                *)

\* What a step of keeping leaves as it is: the part that reads.
SameRead(s, t) ==
  /\ t.dev.held = s.dev.held /\ t.dev.knows = s.dev.knows /\ t.dev.ratchets = s.dev.ratchets
  /\ t.page.scans = s.page.scans /\ t.page.tasks = s.page.tasks /\ t.page.get = s.page.get
  /\ t.page.ratchets = s.page.ratchets
  /\ t.past.proved = s.past.proved /\ t.past.stored = s.past.stored
  /\ t.past.dropped = s.past.dropped /\ t.past.cut = s.past.cut
  /\ t.past.announced = s.past.announced /\ t.past.made = s.past.made
ArrivesMore(s, t) == \A src \in Sources : ToSet(s.past.arrived[src]) \subseteq ToSet(t.past.arrived[src])

\* A step that changes only what is kept is judged by that part.
LEMMA SameReadSound ==
  ASSUME NEW s, NEW t, NEW X, Good(s, X), SameRead(s, t), ArrivesMore(s, t),
         Form(t), KeptTyped(t), Signed(t), Boxes(t), Arrives(t, X), Chips(t), FilesSound(t)
  PROVE  Good(t, X) /\ Forward(s, t)
<1>1. ReadTyped(s) /\ KeysMade(s) /\ Accounts(s, X) /\ KeyTyped(s) /\ RatchetsSound(s)
  BY DEF Good, ReadSound, KeptSound
<1>2. Forward(s, t)
  BY DEF Forward, SameRead, ArrivesMore, Handled
<1>3. ReadTyped(t) /\ KeyTyped(t)
  <2>1. ReadTyped(t)
    BY <1>1 DEF ReadTyped, SameRead
  <2>2. KeyTyped(t)
    BY <1>1 DEF KeyTyped, SameRead
  <2> QED  BY <2>1, <2>2
<1>4. KeysMade(t)
  BY <1>1 DEF KeysMade, Copied, SameRead
<1>5. RatchetsSound(t)
  BY <1>1 DEF RatchetsSound, SameRead
<1>6. Accounts(t, X)
  <2>1. \A p \in s.past.proved : p \in Msgs
    BY <1>1 DEF ReadTyped
  <2>2. \A d \in ToSet(s.dev.held) \cup s.page.get.have : d \in Copies
    BY Made
  <2>3. \A x \in s.page.scans : Opening(t, x.copy) => Opening(s, x.copy)
    BY <1>2 DEF Forward, Opening
  <2>4. /\ t.past.proved = s.past.proved /\ t.dev.held = s.dev.held
        /\ t.page.get = s.page.get /\ t.page.scans = s.page.scans
    BY DEF SameRead
  <2> QED  BY <1>1, <1>2, <2>1, <2>2, <2>3, <2>4, Onward, OnwardDone DEF Accounts
<1> QED  BY <1>2, <1>3, <1>4, <1>5, <1>6 DEF Good, ReadSound, KeptSound

\* The rows, and what else the reading and the keeping do not look at.
LEMMA RowsKeep ==
  ASSUME NEW s, NEW X, Good(s, X), NEW rows
  PROVE  LET t == [s EXCEPT !.dev.rows = rows] IN
         /\ Good(t, X) /\ Forward(s, t) /\ t.page = s.page /\ t.past = s.past
         /\ t.dev.knows = s.dev.knows /\ t.dev.inbox = s.dev.inbox /\ t.dev.seen = s.dev.seen
<1> DEFINE t == [s EXCEPT !.dev.rows = rows]
<1>1. /\ Form(t) /\ t.page = s.page /\ t.past = s.past /\ t.dev.rows = rows
      /\ t.dev.held = s.dev.held /\ t.dev.seen = s.dev.seen /\ t.dev.inbox = s.dev.inbox
      /\ t.dev.slot = s.dev.slot /\ t.dev.knows = s.dev.knows /\ t.dev.allows = s.dev.allows
      /\ t.dev.ratchets = s.dev.ratchets
  <2>1. Form(s)
    BY DEF Good
  <2> QED  BY ZenonT(40), <2>1, RowsAre
<1> HIDE DEF t
<1>2. Form(t) /\ t.page = s.page /\ t.past = s.past
  BY <1>1
<1>3. /\ t.dev.held = s.dev.held /\ t.dev.knows = s.dev.knows /\ t.dev.ratchets = s.dev.ratchets
      /\ t.dev.seen = s.dev.seen /\ t.dev.inbox = s.dev.inbox /\ t.dev.slot = s.dev.slot
  BY <1>1
<1>4. SameRead(s, t) /\ SameKept(s, t) /\ ArrivesMore(s, t)
  BY <1>2, <1>3 DEF SameRead, SameKept, ArrivesMore
<1>5. KeptSound(t, X)
  BY <1>4, SameKeptSound DEF Good
<1>6. Signed(t)
  BY <1>2, <1>3 DEF Good, ReadSound, Signed
<1>7. Good(t, X) /\ Forward(s, t)
  BY <1>2, <1>4, <1>5, <1>6, SameReadSound DEF KeptSound
<1> QED  BY <1>2, <1>3, <1>7 DEF t

\* A message not seen is in no conversation, and no reaction is to it, unless it
\* was forgotten.
Fresh(s, m) ==
  m \notin s.past.forgot =>
    /\ \A src \in Sources : \A i \in 1..Len(s.dev.inbox[src]) : s.dev.inbox[src][i].m # m
    /\ \A r \in s.past.reacted : Mail(r).to # m

\* LxmfSeen.check on a message not seen: what it records and what it forgets.
LEMMA CheckIs ==
  ASSUME NEW s, Form(s), NEW m
  PROVE  LET t == Check(s, m) IN
         /\ Form(t) /\ SameRead(s, t) /\ t.page = s.page
         /\ t.dev.seen = Record(s.dev.seen, m, SeenLimit)
         /\ t.past.forgot = s.past.forgot \cup Dropped(s.dev.seen, m, SeenLimit)
         /\ t.dev.inbox = s.dev.inbox /\ t.dev.slot = s.dev.slot
         /\ t.past.arrived = s.past.arrived /\ t.past.offered = s.past.offered
         /\ t.past.reacted = s.past.reacted /\ t.past.earlier = s.past.earlier
         /\ t.past.left = s.past.left
<1> DEFINE a == Record(s.dev.seen, m, SeenLimit)
           b == s.past.forgot \cup Dropped(s.dev.seen, m, SeenLimit)
           u == [s EXCEPT !.dev.seen = a]
           t == [u EXCEPT !.past.forgot = b]
<1>1. Check(s, m) = t
  BY Zenon DEF Check
<1> HIDE DEF a, b
<1>2. /\ Form(u) /\ u.page = s.page /\ u.past = s.past /\ u.dev.seen = a
      /\ u.dev.inbox = s.dev.inbox /\ u.dev.slot = s.dev.slot
      /\ u.dev.held = s.dev.held /\ u.dev.knows = s.dev.knows /\ u.dev.ratchets = s.dev.ratchets
  BY SeenIs
<1> HIDE DEF u
<1>3. /\ Form(t) /\ t.dev = u.dev /\ t.page = u.page /\ t.past.forgot = b
      /\ t.past.proved = u.past.proved /\ t.past.stored = u.past.stored /\ t.past.dropped = u.past.dropped
      /\ t.past.cut = u.past.cut /\ t.past.arrived = u.past.arrived /\ t.past.offered = u.past.offered
      /\ t.past.reacted = u.past.reacted /\ t.past.announced = u.past.announced /\ t.past.made = u.past.made
      /\ t.past.earlier = u.past.earlier /\ t.past.left = u.past.left
  <2>1. Form(u)
    BY <1>2
  <2> QED  BY <2>1, ForgotIs, Zenon
<1> HIDE DEF t
<1>4. SameRead(s, t)
  BY <1>2, <1>3 DEF SameRead
<1> QED  BY <1>1, <1>2, <1>3, <1>4 DEF a, b

\* After it the message is fresh: no record, reaction or arrival names it.
LEMMA CheckKeeps ==
  ASSUME NEW s, NEW m \in Msgs, Good(s, {m}), ~Seen(s.dev.seen, m)
  PROVE  LET t == Check(s, m) IN
         /\ Good(t, {m}) /\ Forward(s, t) /\ Fresh(t, m)
         /\ t.page = s.page /\ t.dev.knows = s.dev.knows /\ t.past.offered = s.past.offered
<1> DEFINE t == Check(s, m)
           a == Record(s.dev.seen, m, SeenLimit)
           b == Dropped(s.dev.seen, m, SeenLimit)
<1>1. /\ Form(t) /\ SameRead(s, t) /\ t.page = s.page /\ t.dev.seen = a /\ t.past.forgot = s.past.forgot \cup b
      /\ t.dev.inbox = s.dev.inbox /\ t.dev.slot = s.dev.slot
      /\ t.past.arrived = s.past.arrived /\ t.past.offered = s.past.offered
      /\ t.past.reacted = s.past.reacted /\ t.past.earlier = s.past.earlier
      /\ t.past.left = s.past.left
  BY CheckIs DEF Good
<1>2. KeptTyped(s) /\ Boxes(s) /\ Arrives(s, {m}) /\ Chips(s) /\ FilesSound(s) /\ Signed(s)
  BY DEF Good, ReadSound, KeptSound
<1>3. /\ a \in Seq(Msgs) /\ ToSet(a) \subseteq ToSet(s.dev.seen) \cup {m}
      /\ ToSet(s.dev.seen) \subseteq ToSet(a) \cup b /\ b \subseteq ToSet(s.dev.seen)
  <2>1. s.dev.seen \in Seq(Msgs)
    BY <1>2 DEF KeptTyped
  <2> QED  BY <2>1, LimitsAre, Recording
<1>4. ToSet(s.dev.seen) \subseteq Msgs /\ m \notin ToSet(s.dev.seen)
  BY <1>2, InSeq DEF KeptTyped, Seen
<1> HIDE DEF t, a, b
<1>5. \A n : Checked(s, n) => Checked(t, n)
  BY <1>1, <1>3 DEF Checked
<1>6. KeptTyped(t)
  BY <1>1, <1>2, <1>3, <1>4, Zenon DEF KeptTyped, SameRead
<1>7. Signed(t)
  BY <1>1, <1>2 DEF Signed, SameRead
<1>8. ASSUME NEW src \in Sources PROVE Window(t, src) /\ Sorted(t, src) /\ Once(t, src) /\ Named(t, src)
  <2>1. Window(s, src) /\ Sorted(s, src) /\ Once(s, src) /\ Named(s, src)
    BY <1>2 DEF Boxes
  <2>2. Window(t, src) /\ Sorted(t, src)
    BY <1>1, <2>1 DEF Window, Sorted
  <2>3. Once(t, src)
    BY <1>1, <1>5, <2>1, Zenon DEF Once
  <2>4. Named(t, src)
    BY <1>1, <2>1 DEF Named, Told
  <2> QED  BY <2>1, <2>2, <2>3, <2>4
<1>9. Arrives(t, {m})
  BY <1>1, <1>2, <1>3 DEF Arrives
<1>10. Chips(t)
  <2>1. \A r : Chip(s, r) => Chip(t, r)
    BY <1>1 DEF Chip, Taken
  <2>2. \A n : n \notin t.past.forgot => n \notin s.past.forgot
    BY <1>1
  <2> QED  BY <1>1, <1>2, <1>5, <2>1, <2>2 DEF Chips
<1>11. FilesSound(t)
  <2>1. t.page.files = s.page.files
    BY <1>1
  <2> QED  BY <1>1, <1>2, <2>1, FilesOn
<1>12. Fresh(t, m)
  <2> SUFFICES ASSUME m \notin t.past.forgot
               PROVE  /\ \A src \in Sources : \A i \in 1..Len(s.dev.inbox[src]) : s.dev.inbox[src][i].m # m
                      /\ \A r \in s.past.reacted : Mail(r).to # m
    BY <1>1 DEF Fresh
  <2>1. ~Checked(s, m)
    BY <1>1, <1>4 DEF Checked
  <2> QED  BY <1>2, <2>1 DEF Boxes, Once, Chips
<1>13. ArrivesMore(s, t) /\ Boxes(t)
  BY <1>1, <1>8 DEF ArrivesMore, Boxes
<1>14. Good(t, {m}) /\ Forward(s, t)
  BY <1>1, <1>6, <1>7, <1>9, <1>10, <1>11, <1>13, SameReadSound
<1>15. t.dev.knows = s.dev.knows
  BY <1>1 DEF SameRead
<1> QED  BY <1>1, <1>12, <1>14, <1>15 DEF t

\* What the world is made of.
LEMMA MailIs ==
  ASSUME WorldOK, NEW m \in Msgs
  PROVE  /\ Mail(m).at \in Nat /\ Mail(m).at > 0 /\ Mail(m).file \in BOOLEAN
         /\ Source(m) \in Sources /\ Mail(m).name \in Names /\ Mail(m).emoji \in Emojis
<1>1. Mail(m).at \in Nat \ {0} /\ Mail(m).file \in BOOLEAN
  BY DEF WorldOK
<1>2. Source(m) \in Sources /\ Mail(m).name \in Names /\ Mail(m).emoji \in Emojis
  BY DEF Sources, Msgs, Names, Emojis
<1> QED  BY <1>1, <1>2

\* A name is taken by the rule of the slot, of a row only.
LEMMA NameAcceptedIs ==
  ASSUME NEW s, Form(s), NEW k
  PROVE  LET src == Source(k.m)
             t == AcceptMessageName(s, k)
             v == AcceptName(s.dev.slot[src], Mail(k.m).name, k.sig, Mail(k.m).at)
         IN \/ t = s
            \/ /\ Form(t) /\ SameRead(s, t) /\ t.page = s.page
               /\ t.dev.seen = s.dev.seen /\ t.dev.inbox = s.dev.inbox
               /\ t.dev.slot = [s.dev.slot EXCEPT ![src] = v]
               /\ t.past.forgot = s.past.forgot /\ t.past.arrived = s.past.arrived
               /\ t.past.offered = s.past.offered \cup {[m |-> k.m, sig |-> k.sig]}
               /\ t.past.reacted = s.past.reacted /\ t.past.earlier = s.past.earlier
               /\ t.past.left = s.past.left
<1> DEFINE src == Source(k.m)
           v == AcceptName(s.dev.slot[src], Mail(k.m).name, k.sig, Mail(k.m).at)
           w == [s.dev.slot EXCEPT ![src] = v]
           o == s.past.offered \cup {[m |-> k.m, sig |-> k.sig]}
           u == [s EXCEPT !.dev.slot = w]
           t == [u EXCEPT !.past.offered = o]
<1>1. AcceptMessageName(s, k) = IF src \notin s.dev.rows THEN s ELSE t
  BY Zenon DEF AcceptMessageName
<1> HIDE DEF w, o
<1>2. /\ Form(u) /\ u.page = s.page /\ u.past = s.past /\ u.dev.slot = w
      /\ u.dev.held = s.dev.held /\ u.dev.seen = s.dev.seen /\ u.dev.inbox = s.dev.inbox
      /\ u.dev.rows = s.dev.rows /\ u.dev.knows = s.dev.knows /\ u.dev.allows = s.dev.allows
      /\ u.dev.ratchets = s.dev.ratchets
  BY SlotIs, Zenon
<1> HIDE DEF u
<1>3. /\ Form(t) /\ t.dev = u.dev /\ t.page = u.page /\ t.past.offered = o
      /\ t.past.proved = u.past.proved /\ t.past.stored = u.past.stored /\ t.past.dropped = u.past.dropped
      /\ t.past.cut = u.past.cut /\ t.past.forgot = u.past.forgot /\ t.past.arrived = u.past.arrived
      /\ t.past.reacted = u.past.reacted /\ t.past.announced = u.past.announced /\ t.past.made = u.past.made
      /\ t.past.earlier = u.past.earlier /\ t.past.left = u.past.left
  <2>1. Form(u)
    BY <1>2
  <2> QED  BY <2>1, OfferedIs, Zenon
<1> HIDE DEF t
<1>4. SameRead(s, t)
  BY <1>2, <1>3 DEF SameRead
<1> QED  BY <1>1, <1>2, <1>3, <1>4 DEF w, o

\* The name kept is the newest checked.
LEMMA NewestNamed ==
  ASSUME WorldOK, NEW s, NEW t, NEW k \in Tasks, SigGood(s, k),
         s.past.offered \subseteq [m : Msgs, sig : Sigs],
         s.dev.slot \in [Sources -> Slots], Named(s, Source(k.m)),
         t.dev.slot = [s.dev.slot EXCEPT ![Source(k.m)] =
           AcceptName(s.dev.slot[Source(k.m)], Mail(k.m).name, k.sig, Mail(k.m).at)],
         t.past.offered = s.past.offered \cup {[m |-> k.m, sig |-> k.sig]}
  PROVE  Named(t, Source(k.m)) /\ t.dev.slot[Source(k.m)] \in Slots
<1> DEFINE m == k.m
           src == Source(m)
           name == Mail(m).name
           at == Mail(m).at
           slot == s.dev.slot[src]
           v == AcceptName(slot, name, k.sig, at)
           told == Told(s, src)
           now == Told(t, src)
<1>1. m \in Msgs /\ k.sig \in {"validated", "unknown"}
  BY DEF Tasks, Sigs
<1>2. at \in Nat /\ at > 0 /\ src \in Sources /\ name \in Names
  BY <1>1, MailIs
<1>3. t.dev.slot[src] = v /\ slot \in Slots /\ slot.at \in Nat /\ slot = [name |-> slot.name, at |-> slot.at]
  BY <1>2 DEF Slots
<1>4. v \in Slots
  BY <1>2, <1>3 DEF AcceptName, NameTaken, Slots
<1>5. now = IF k.sig = "validated" /\ name # "absent" THEN told \cup {m} ELSE told
  <2>1. \A o \in t.past.offered : o \in s.past.offered \/ (o.m = m /\ o.sig = k.sig)
    OBVIOUS
  <2>2. [m |-> m, sig |-> k.sig] \in t.past.offered /\ s.past.offered \subseteq t.past.offered
    OBVIOUS
  <2>3. CASE k.sig = "validated" /\ name # "absent"
    <3>1. ASSUME NEW n \in now PROVE n \in told \cup {m}
      <4>1. PICK o \in t.past.offered : o.m = n /\ o.sig = "validated" /\ Source(o.m) = src /\ Mail(o.m).name # "absent"
        BY <3>1 DEF Told
      <4> QED  BY <2>1, <4>1 DEF Told
    <3>2. m \in now
      <4> DEFINE o == [m |-> m, sig |-> k.sig]
      <4>1. o \in t.past.offered /\ o.m = m /\ o.sig = "validated"
        BY <2>2, <2>3
      <4> HIDE DEF o
      <4> QED  BY <4>1, <2>3 DEF Told
    <3>3. told \subseteq now
      BY <2>2 DEF Told
    <3> HIDE DEF told, now
    <3> QED  BY <2>3, <3>1, <3>2, <3>3
  <2>4. CASE ~(k.sig = "validated" /\ name # "absent")
    BY <2>1, <2>2, <2>4 DEF Told
  <2> QED  BY <2>3, <2>4
<1>6. /\ told = {} => slot.at = 0
      /\ told # {} => \E last \in told :
           /\ \A n \in told : Mail(n).at <= Mail(last).at
           /\ slot = [name |-> Mail(last).name, at |-> Mail(last).at]
  BY DEF Named
<1>7. SUFFICES /\ now = {} => v.at = 0
               /\ now # {} => \E last \in now :
                    /\ \A n \in now : Mail(n).at <= Mail(last).at
                    /\ v = [name |-> Mail(last).name, at |-> Mail(last).at]
  BY <1>3, <1>4 DEF Named
<1>8. CASE k.sig = "unknown"
  <2>1. told = {} /\ now = {}
    BY <1>5, <1>8 DEF SigGood, Told
  <2>2. v.at = slot.at
    BY <1>3, <1>8 DEF AcceptName
  <2> QED  BY <2>1, <2>2, <1>6
<1>9. CASE k.sig = "validated" /\ name = "absent"
  <2>1. now = told /\ v = slot
    BY <1>5, <1>9 DEF AcceptName, NameTaken
  <2> QED  BY <2>1, <1>6
<1>10. CASE k.sig = "validated" /\ name # "absent" /\ at <= slot.at
  <2>1. now = told \cup {m} /\ v = slot /\ told # {}
    BY <1>2, <1>3, <1>5, <1>6, <1>10 DEF AcceptName
  <2>2. PICK last \in told : /\ \A n \in told : Mail(n).at <= Mail(last).at
                             /\ slot = [name |-> Mail(last).name, at |-> Mail(last).at]
    BY <2>1, <1>6
  <2>3. at <= Mail(last).at
    BY <2>2, <1>10
  <2> QED  BY <2>1, <2>2, <2>3
<1>11. CASE k.sig = "validated" /\ name # "absent" /\ at > slot.at
  <2>1. now = told \cup {m} /\ v = [name |-> name, at |-> at]
    BY <1>2, <1>3, <1>5, <1>11 DEF AcceptName, NameTaken
  <2>2. ASSUME NEW n \in told PROVE Mail(n).at <= at
    <3>1. n \in Msgs
      BY DEF Told
    <3>2. Mail(n).at <= slot.at
      <4>1. told # {}
        BY <2>2
      <4>2. PICK last \in told : /\ \A p \in told : Mail(p).at <= Mail(last).at
                                 /\ slot = [name |-> Mail(last).name, at |-> Mail(last).at]
        BY <4>1, <1>6
      <4>3. slot.at = Mail(last).at
        BY <4>2
      <4> HIDE DEF told, slot
      <4> QED  BY <2>2, <4>2, <4>3
    <3>3. Mail(n).at \in Nat
      BY <3>1, MailIs
    <3> HIDE DEF told, slot, at
    <3> QED  BY <3>2, <3>3, <1>2, <1>3, <1>11
  <2> HIDE DEF told, slot, v, now
  <2>3. \A n \in now : Mail(n).at <= Mail(m).at
    BY <2>1, <2>2, <1>2
  <2> QED  BY <2>1, <2>3
<1> QED  BY <1>1, <1>2, <1>3, <1>8, <1>9, <1>10, <1>11

\* What is sound of files and chips by the parts they look at.
LEMMA SameFilesSound ==
  ASSUME NEW s, NEW t, FilesSound(s), t.page.files = s.page.files, t.dev.inbox = s.dev.inbox,
         t.past.left = s.past.left, t.past.earlier = s.past.earlier, t.past.arrived = s.past.arrived
  PROVE  FilesSound(t)
<1>1. \A key : (RecordKey(t, key) <=> RecordKey(s, key)) /\ (StoredKey(t, key) <=> StoredKey(s, key))
  BY DEF RecordKey, StoredKey
<1>2. \A key, n : Owned(t, key, n) <=> Owned(s, key, n)
  BY <1>1 DEF Owned, Asked
<1> QED  BY <1>1, <1>2 DEF FilesSound

\* A message's name is taken, or not.
LEMMA NameKeeps ==
  ASSUME WorldOK, NEW s, NEW X, Good(s, X), NEW k \in Tasks, SigGood(s, k)
  PROVE  LET t == AcceptMessageName(s, k) IN
         /\ Good(t, X) /\ Forward(s, t)
         /\ t.dev.inbox = s.dev.inbox /\ t.past.reacted = s.past.reacted /\ t.past.forgot = s.past.forgot
         /\ t.dev.seen = s.dev.seen
<1> DEFINE t == AcceptMessageName(s, k)
           src == Source(k.m)
           v == AcceptName(s.dev.slot[src], Mail(k.m).name, k.sig, Mail(k.m).at)
<1>1. \/ t = s
      \/ /\ Form(t) /\ SameRead(s, t) /\ t.page = s.page
         /\ t.dev.seen = s.dev.seen /\ t.dev.inbox = s.dev.inbox
         /\ t.dev.slot = [s.dev.slot EXCEPT ![src] = v]
         /\ t.past.forgot = s.past.forgot /\ t.past.arrived = s.past.arrived
         /\ t.past.offered = s.past.offered \cup {[m |-> k.m, sig |-> k.sig]}
         /\ t.past.reacted = s.past.reacted /\ t.past.earlier = s.past.earlier
         /\ t.past.left = s.past.left
  BY NameAcceptedIs DEF Good
<1> HIDE DEF t
<1>2. CASE t = s
  BY <1>2, ForwardNone DEF t
<1>3. CASE t # s
  <2>1. KeptTyped(s) /\ Boxes(s) /\ Arrives(s, X) /\ Chips(s) /\ FilesSound(s) /\ Signed(s)
    BY DEF Good, ReadSound, KeptSound
  <2>2. k.m \in Msgs /\ k.sig \in Sigs
    BY DEF Tasks
  <2>3. src \in Sources
    BY <2>2, MailIs
  <2>4. s.dev.slot \in [Sources -> Slots] /\ s.past.offered \subseteq [m : Msgs, sig : Sigs]
    BY <2>1 DEF KeptTyped
  <2>5. Named(t, src) /\ t.dev.slot[src] \in Slots
    <3>1. Named(s, src)
      BY <2>1, <2>3 DEF Boxes
    <3>2. t.dev.slot = [s.dev.slot EXCEPT ![src] = v]
      BY <1>1, <1>3
    <3>3. t.past.offered = s.past.offered \cup {[m |-> k.m, sig |-> k.sig]}
      BY <1>1, <1>3
    <3> QED  BY <2>4, <3>1, <3>2, <3>3, NewestNamed, Zenon
  <2> HIDE DEF v
  <2>6. t.dev.slot \in [Sources -> Slots]
    BY <1>1, <1>3, <2>3, <2>4, <2>5
  <2>7. t.past.offered \subseteq [m : Msgs, sig : Sigs]
    BY <1>1, <1>3, <2>2, <2>4
  <2>8. KeptTyped(t)
    BY <1>1, <1>3, <2>1, <2>6, <2>7 DEF KeptTyped, SameRead
  <2>9. ASSUME NEW x \in Sources PROVE Window(t, x) /\ Sorted(t, x) /\ Once(t, x) /\ Named(t, x)
    <3>1. Window(s, x) /\ Sorted(s, x) /\ Once(s, x) /\ Named(s, x)
      BY <2>1 DEF Boxes
    <3>2. Window(t, x) /\ Sorted(t, x) /\ Once(t, x)
      BY <1>1, <1>3, <3>1, Zenon DEF Window, Sorted, Once, Checked
    <3>3. CASE x # src
      <4>1. t.dev.slot[x] = s.dev.slot[x]
        BY <1>1, <1>3, <2>4, <3>3
      <4>2. Told(t, x) = Told(s, x)
        <5>1. \A o \in t.past.offered : o \in s.past.offered \/ Source(o.m) = src
          BY <1>1, <1>3
        <5>2. s.past.offered \subseteq t.past.offered
          BY <1>1, <1>3
        <5> QED  BY <5>1, <5>2, <3>3 DEF Told
      <4> QED  BY <3>1, <3>2, <4>1, <4>2 DEF Named
    <3> QED  BY <2>5, <3>2, <3>3
  <2>10. Arrives(t, X)
    BY <1>1, <1>3, <2>1 DEF Arrives
  <2>11. Chips(t)
    <3>1. \A r : Chip(s, r) => Chip(t, r)
      BY <1>1, <1>3 DEF Chip, Taken
    <3> QED  BY <1>1, <1>3, <2>1, <3>1, Zenon DEF Chips, Checked
  <2>12. FilesSound(t)
    BY <1>1, <1>3, <2>1, SameFilesSound
  <2>13. Signed(t)
    <3>1. t.page.tasks = s.page.tasks /\ t.dev.knows = s.dev.knows
      BY <1>1, <1>3 DEF SameRead
    <3>2. \A o \in t.past.offered : o \in s.past.offered \/ (o.m = k.m /\ o.sig = k.sig)
      BY <1>1, <1>3
    <3> QED  BY <2>1, <3>1, <3>2 DEF Signed, SigGood
  <2>14. ArrivesMore(s, t) /\ Boxes(t)
    BY <1>1, <1>3, <2>9 DEF ArrivesMore, Boxes
  <2>15. Good(t, X) /\ Forward(s, t)
    BY <1>1, <1>3, <2>8, <2>10, <2>11, <2>12, <2>13, <2>14, SameReadSound
  <2> QED  BY <1>1, <1>3, <2>15 DEF t
<1> QED  BY <1>2, <1>3

\* A reaction is taken,
LEMMA ReactionTakenIs ==
  ASSUME NEW s, Form(s), NEW m
  PROVE  LET src == Source(m)
             box == s.dev.inbox[src]
             to == {i \in DOMAIN box : box[i].m = Mail(m).to}
             i == Min(to)
             t == TakeReaction(s, m)
         IN \/ t = s
            \/ /\ to # {} /\ Form(t) /\ SameRead(s, t) /\ t.page = s.page
               /\ t.dev.seen = s.dev.seen /\ t.dev.slot = s.dev.slot
               /\ t.dev.inbox = [s.dev.inbox EXCEPT ![src] = [box EXCEPT ![i] =
                    [box[i] EXCEPT !.chip = ApplyReaction(box[i].chip, Mail(m).emoji, Mail(m).at)]]]
               /\ t.past.forgot = s.past.forgot /\ t.past.arrived = s.past.arrived
               /\ t.past.offered = s.past.offered /\ t.past.reacted = s.past.reacted \cup {m}
               /\ t.past.earlier = s.past.earlier /\ t.past.left = s.past.left
<1> DEFINE src == Source(m)
           box == s.dev.inbox[src]
           to == {i \in DOMAIN box : box[i].m = Mail(m).to}
           i == Min(to)
           n == [s.dev.inbox EXCEPT ![src] = [box EXCEPT ![i] =
                   [box[i] EXCEPT !.chip = ApplyReaction(box[i].chip, Mail(m).emoji, Mail(m).at)]]]
           o == s.past.reacted \cup {m}
           u == [s EXCEPT !.dev.inbox = n]
           t == [u EXCEPT !.past.reacted = o]
<1>1. TakeReaction(s, m) = IF to = {} THEN s ELSE t
  BY Zenon DEF TakeReaction
<1> HIDE DEF n, o
<1>2. /\ Form(u) /\ u.page = s.page /\ u.past = s.past /\ u.dev.inbox = n
      /\ u.dev.held = s.dev.held /\ u.dev.seen = s.dev.seen /\ u.dev.slot = s.dev.slot
      /\ u.dev.rows = s.dev.rows /\ u.dev.knows = s.dev.knows /\ u.dev.allows = s.dev.allows
      /\ u.dev.ratchets = s.dev.ratchets
  BY InboxIs
<1> HIDE DEF u
<1>3. /\ Form(t) /\ t.dev = u.dev /\ t.page = u.page /\ t.past.reacted = o
      /\ t.past.proved = u.past.proved /\ t.past.stored = u.past.stored /\ t.past.dropped = u.past.dropped
      /\ t.past.cut = u.past.cut /\ t.past.forgot = u.past.forgot /\ t.past.arrived = u.past.arrived
      /\ t.past.offered = u.past.offered /\ t.past.announced = u.past.announced /\ t.past.made = u.past.made
      /\ t.past.earlier = u.past.earlier /\ t.past.left = u.past.left
  <2>1. Form(u)
    BY <1>2
  <2> QED  BY <2>1, ReactedIs, Zenon
<1> HIDE DEF t
<1>4. SameRead(s, t)
  BY <1>2, <1>3 DEF SameRead
<1> HIDE DEF to
<1> QED  BY <1>1, <1>2, <1>3, <1>4, Zenon DEF n, o, to

\* A conversation whose records stay where they are.
Alike(box, new) ==
  /\ Len(new) = Len(box)
  /\ \A i \in 1..Len(box) :
       new[i].m = box[i].m /\ new[i].at = box[i].at /\ new[i].arrival = box[i].arrival

\* A conversation whose records change in chips and places alone is as sound as before.
LEMMA AlikeKeeps ==
  ASSUME NEW s, NEW t, NEW src, Alike(s.dev.inbox[src], t.dev.inbox[src]),
         t.past.arrived = s.past.arrived, t.past.forgot = s.past.forgot, t.dev.seen = s.dev.seen,
         Window(s, src), Sorted(s, src), Once(s, src)
  PROVE  Window(t, src) /\ Sorted(t, src) /\ Once(t, src)
<1> DEFINE box == s.dev.inbox[src]
           new == t.dev.inbox[src]
           all == s.past.arrived[src]
<1>1. /\ Len(new) = Len(box) /\ t.past.arrived[src] = all
      /\ \A i \in 1..Len(box) :
           new[i].m = box[i].m /\ new[i].at = box[i].at /\ new[i].arrival = box[i].arrival
  BY Zenon DEF Alike
<1>2. Numbered(box, all) /\ Full(box, all) /\ InTime(box)
  BY DEF Window, Sorted
<1>3. Once(t, src)
  BY <1>1, Zenon DEF Once, Checked
<1>4. Numbered(new, all)
  <2>1. /\ Len(box) <= Len(all)
        /\ \A i \in 1..Len(box) :
             box[i].arrival \in Len(all) - Len(box) .. Len(all) - 1 /\ box[i].m = all[box[i].arrival + 1]
        /\ \A a \in Len(all) - Len(box) .. Len(all) - 1 : \E i \in 1..Len(box) : box[i].arrival = a
        /\ \A i, j \in 1..Len(box) : box[i].arrival = box[j].arrival => i = j
    BY <1>2, Zenon DEF Numbered
  <2> HIDE DEF box, new, all
  <2>2. /\ Len(new) <= Len(all)
        /\ \A i \in 1..Len(new) :
             new[i].arrival \in Len(all) - Len(new) .. Len(all) - 1 /\ new[i].m = all[new[i].arrival + 1]
    BY <1>1, <2>1
  <2>3. ASSUME NEW a \in Len(all) - Len(new) .. Len(all) - 1
        PROVE  \E i \in 1..Len(new) : new[i].arrival = a
    <3>1. Len(new) = Len(box)
      BY <1>1
    <3>2. a \in Len(all) - Len(box) .. Len(all) - 1
      BY <3>1
    <3>3. PICK i \in 1..Len(box) : box[i].arrival = a
      BY <2>1, <3>2
    <3> QED  BY <1>1, <3>1, <3>3
  <2>4. \A i, j \in 1..Len(new) : new[i].arrival = new[j].arrival => i = j
    BY <1>1, <2>1
  <2> QED  BY <2>2, <2>3, <2>4, Zenon DEF Numbered
<1>5. Full(new, all) /\ InTime(new)
  BY <1>1, <1>2 DEF Full, InTime
<1> QED  BY <1>1, <1>3, <1>4, <1>5 DEF Window, Sorted

\* and the record shows the newest that was.
LEMMA NewestTaken ==
  ASSUME WorldOK, NEW s, NEW t, NEW m \in Msgs, NEW r \in Recs, r.m = Mail(m).to,
         s.past.reacted \subseteq Msgs, t.past.reacted = s.past.reacted \cup {m}, Chip(s, r)
  PROVE  LET n == [r EXCEPT !.chip = ApplyReaction(r.chip, Mail(m).emoji, Mail(m).at)] IN
         n \in Recs /\ Chip(t, n)
<1> DEFINE at == Mail(m).at
           chip == r.chip
           v == ApplyReaction(chip, Mail(m).emoji, at)
           n == [r EXCEPT !.chip = v]
           taken == Taken(s, r.m)
           now == Taken(t, r.m)
<1>1. at \in Nat /\ at > 0 /\ Mail(m).emoji \in Emojis
  BY MailIs
<1>2. chip \in [emoji : Emojis, at : Nat] /\ chip.at \in Nat
  BY DEF Recs
<1>3. v \in [emoji : Emojis, at : Nat]
  BY <1>1, <1>2 DEF ApplyReaction
<1>4. n \in Recs /\ n.m = r.m /\ n.chip = v
  <2> HIDE DEF v
  <2> QED  BY <1>3 DEF Recs
<1>5. now = taken \cup {m}
  BY DEF Taken
<1>6. taken \subseteq Msgs
  BY DEF Taken
<1>7. Chip(t, n) <=>
        \E last \in now : /\ \A p \in now : Mail(p).at <= Mail(last).at
                          /\ v = [emoji |-> Mail(last).emoji, at |-> Mail(last).at]
  <2> HIDE DEF n, v
  <2> QED  BY <1>4, <1>5 DEF Chip
<1>8. CASE chip.at >= at
  <2>1. PICK last \in taken :
          /\ \A p \in taken : Mail(p).at <= Mail(last).at
          /\ chip = [emoji |-> Mail(last).emoji, at |-> Mail(last).at]
    BY <1>1, <1>2, <1>8 DEF Chip
  <2>2. v = chip
    BY <1>8 DEF ApplyReaction
  <2>3. at <= Mail(last).at
    BY <2>1, <1>1, <1>2, <1>8
  <2> HIDE DEF v, n, taken, now, at, chip
  <2>4. \A p \in now : Mail(p).at <= Mail(last).at
    BY <2>1, <2>3, <1>5 DEF at
  <2> QED  BY <2>1, <2>2, <2>4, <1>4, <1>5, <1>7 DEF v, n, at, chip
<1>9. CASE ~(chip.at >= at)
  <2>1. v = [emoji |-> Mail(m).emoji, at |-> at]
    BY <1>9 DEF ApplyReaction
  <2>2. ASSUME NEW p \in taken PROVE Mail(p).at <= at
    <3>1. PICK last \in taken :
            /\ \A q \in taken : Mail(q).at <= Mail(last).at
            /\ chip = [emoji |-> Mail(last).emoji, at |-> Mail(last).at]
      BY <2>2 DEF Chip
    <3>2. Mail(p).at \in Nat /\ Mail(p).at <= chip.at
      BY <3>1, <1>6, MailIs
    <3> HIDE DEF chip, at, taken
    <3> QED  BY <3>2, <1>1, <1>2, <1>9
  <2> HIDE DEF v, n, taken, now, chip
  <2>3. \A p \in now : Mail(p).at <= Mail(m).at
    BY <2>2, <1>1, <1>5
  <2> QED  BY <2>1, <2>3, <1>4, <1>5, <1>7 DEF v, n, chip
<1> QED  BY <1>8, <1>9

\* A reaction keeps a state sound: the newest one taken stays on its record.
LEMMA ReactKeeps ==
  ASSUME WorldOK, NEW s, NEW X, Good(s, X), NEW m \in Msgs
  PROVE  Good(TakeReaction(s, m), X) /\ Forward(s, TakeReaction(s, m))
<1> DEFINE src == Source(m)
           box == s.dev.inbox[src]
           to == {i \in DOMAIN box : box[i].m = Mail(m).to}
           k == Min(to)
           r == box[k]
           n == [r EXCEPT !.chip = ApplyReaction(r.chip, Mail(m).emoji, Mail(m).at)]
           new == [box EXCEPT ![k] = n]
           t == TakeReaction(s, m)
<1>1. \/ t = s
      \/ /\ to # {} /\ Form(t) /\ SameRead(s, t) /\ t.page = s.page
         /\ t.dev.seen = s.dev.seen /\ t.dev.slot = s.dev.slot
         /\ t.dev.inbox = [s.dev.inbox EXCEPT ![src] = new]
         /\ t.past.forgot = s.past.forgot /\ t.past.arrived = s.past.arrived
         /\ t.past.offered = s.past.offered /\ t.past.reacted = s.past.reacted \cup {m}
         /\ t.past.earlier = s.past.earlier /\ t.past.left = s.past.left
  BY ReactionTakenIs, Zenon DEF Good
<1> HIDE DEF t
<1>2. CASE t = s
  BY <1>2, ForwardNone DEF t
<1>3. CASE t # s
  <2>1. KeptTyped(s) /\ Boxes(s) /\ Arrives(s, X) /\ Chips(s) /\ FilesSound(s) /\ Signed(s)
    BY DEF Good, ReadSound, KeptSound
  <2>2. src \in Sources
    BY MailIs
  <2>3. s.dev.inbox \in [Sources -> Seq(Recs)] /\ box \in Seq(Recs) /\ s.past.reacted \subseteq Msgs
    BY <2>1, <2>2 DEF KeptTyped
  <2>4. Len(box) \in Nat /\ DOMAIN box = 1..Len(box) /\ k \in 1..Len(box) /\ r \in Recs /\ r.m = Mail(m).to
    <3>1. Len(box) \in Nat /\ DOMAIN box = 1..Len(box)
      BY <2>3
    <3>2. to \in SUBSET Nat /\ to # {}
      <4>1. to \in SUBSET Nat
        BY <3>1
      <4> HIDE DEF to
      <4> QED  BY <1>1, <1>3, <4>1
    <3>3. k \in to
      <4> HIDE DEF to
      <4> QED  BY <3>2, MinIs
    <3>4. k \in 1..Len(box) /\ r.m = Mail(m).to
      BY <3>1, <3>3, Zenon
    <3> HIDE DEF k
    <3> QED  BY <2>3, <3>1, <3>4
  <2> HIDE DEF k, box
  <2>5. n.m = r.m /\ n.at = r.at /\ n.arrival = r.arrival /\ n.stored = r.stored
    BY <2>4 DEF Recs
  <2>6. n \in Recs
    <3>1. ApplyReaction(r.chip, Mail(m).emoji, Mail(m).at) \in [emoji : Emojis, at : Nat]
      BY <2>4, MailIs DEF Recs, ApplyReaction
    <3> DEFINE c == ApplyReaction(r.chip, Mail(m).emoji, Mail(m).at)
    <3> HIDE DEF c
    <3>2. c \in [emoji : Emojis, at : Nat] /\ n = [r EXCEPT !.chip = c]
      BY <3>1 DEF c
    <3> HIDE DEF n, r
    <3> QED  BY <2>4, <3>2 DEF Recs
  <2> HIDE DEF n
  <2>7. /\ new \in Seq(Recs) /\ Len(new) = Len(box) /\ new[k] = n
        /\ \A i \in 1..Len(box) : i # k => new[i] = box[i]
    BY <2>3, <2>4, <2>6
  <2>8. t.dev.inbox[src] = new /\ \A x \in Sources : x # src => t.dev.inbox[x] = s.dev.inbox[x]
    BY <1>1, <1>3, <2>2, <2>3, Zenon
  <2> HIDE DEF new
  <2>9. t.dev.inbox \in [Sources -> Seq(Recs)]
    BY <1>1, <1>3, <2>2, <2>3, <2>7, Zenon
  <2>10. KeptTyped(t)
    BY <1>1, <1>3, <2>1, <2>9 DEF KeptTyped, SameRead
  <2>11. \A x \in Sources : /\ Len(t.dev.inbox[x]) = Len(s.dev.inbox[x])
                            /\ \A i \in 1..Len(s.dev.inbox[x]) :
                                 /\ t.dev.inbox[x][i].m = s.dev.inbox[x][i].m
                                 /\ t.dev.inbox[x][i].at = s.dev.inbox[x][i].at
                                 /\ t.dev.inbox[x][i].arrival = s.dev.inbox[x][i].arrival
                                 /\ t.dev.inbox[x][i].stored = s.dev.inbox[x][i].stored
    <3> SUFFICES ASSUME NEW x \in Sources, x = src
                 PROVE  /\ Len(t.dev.inbox[x]) = Len(s.dev.inbox[x])
                        /\ \A i \in 1..Len(s.dev.inbox[x]) :
                             /\ t.dev.inbox[x][i].m = s.dev.inbox[x][i].m
                             /\ t.dev.inbox[x][i].at = s.dev.inbox[x][i].at
                             /\ t.dev.inbox[x][i].arrival = s.dev.inbox[x][i].arrival
                             /\ t.dev.inbox[x][i].stored = s.dev.inbox[x][i].stored
      BY <2>8, Zenon
    <3>1. t.dev.inbox[x] = new /\ s.dev.inbox[x] = box
      BY <2>8 DEF box
    <3>2. \A i \in 1..Len(box) : new[i].m = box[i].m /\ new[i].at = box[i].at
                                 /\ new[i].arrival = box[i].arrival /\ new[i].stored = box[i].stored
      BY <2>5, <2>7
    <3> QED  BY <3>1, <3>2, <2>7
  <2>12. ASSUME NEW x \in Sources PROVE Window(t, x) /\ Sorted(t, x) /\ Once(t, x) /\ Named(t, x)
    <3>1. Window(s, x) /\ Sorted(s, x) /\ Once(s, x) /\ Named(s, x)
      BY <2>1 DEF Boxes
    <3>2. Alike(s.dev.inbox[x], t.dev.inbox[x])
      BY <2>11 DEF Alike
    <3>3. Window(t, x) /\ Sorted(t, x) /\ Once(t, x)
      BY <1>1, <1>3, <3>1, <3>2, AlikeKeeps
    <3>4. Named(t, x)
      BY <1>1, <1>3, <3>1, Zenon DEF Named, Told
    <3> QED  BY <3>3, <3>4
  <2>13. Arrives(t, X)
    BY <1>1, <1>3, <2>1 DEF Arrives
  <2>14. Chips(t)
    <3>1. Once(s, src)
      BY <2>1, <2>2 DEF Boxes
    <3>2. Checked(s, Mail(m).to) /\ Source(Mail(m).to) = src
      BY <2>4, <3>1 DEF Once, box
    <3>3. \A q \in t.past.reacted : Checked(t, Mail(q).to)
      BY <1>1, <1>3, <2>1, <3>2 DEF Chips, Checked
    <3>4. ASSUME NEW x \in Sources, NEW i \in 1..Len(t.dev.inbox[x]),
                 t.dev.inbox[x][i].m \notin t.past.forgot
          PROVE  Chip(t, t.dev.inbox[x][i])
      <4> DEFINE p == s.dev.inbox[x][i]
      <4>1. /\ i \in 1..Len(s.dev.inbox[x]) /\ p.m = t.dev.inbox[x][i].m /\ p.m \notin s.past.forgot
            /\ Once(s, x)
        BY <1>1, <1>3, <2>1, <2>11, <3>4 DEF Boxes
      <4>2. Chip(s, p)
        BY <2>1, <4>1 DEF Chips
      <4>3. CASE p.m # Mail(m).to
        <5>1. t.dev.inbox[x][i] = p
          <6>1. CASE x = src
            <7>1. i # k
              BY <2>4, <4>3, <6>1 DEF box
            <7> QED  BY <2>7, <2>8, <4>1, <6>1, <7>1 DEF box
          <6>2. CASE x # src
            BY <2>8, <6>2
          <6> QED  BY <6>1, <6>2
        <5>2. Taken(t, p.m) = Taken(s, p.m)
          BY <1>1, <1>3, <4>3 DEF Taken
        <5> HIDE DEF p
        <5> QED  BY <4>2, <5>1, <5>2 DEF Chip
      <4>4. CASE p.m = Mail(m).to
        <5>1. x = src
          BY <3>2, <4>1, <4>4 DEF Once
        <5>2. i = k
          BY <2>4, <3>1, <4>1, <4>4, <5>1 DEF Once, box
        <5>3. p = r /\ t.dev.inbox[x][i] = n
          BY <2>7, <2>8, <5>1, <5>2 DEF box
        <5>4. Chip(t, n)
          <6> HIDE DEF p, r
          <6>1. t.past.reacted = s.past.reacted \cup {m} /\ Chip(s, r)
            BY <1>1, <1>3, <4>2, <5>3
          <6> QED  BY <2>3, <2>4, <6>1, NewestTaken, Zenon DEF n
        <5> QED  BY <5>3, <5>4
      <4> QED  BY <4>3, <4>4
    <3> QED  BY <3>3, <3>4 DEF Chips
  <2>15. FilesSound(t)
    <3>1. FilesSound(s) /\ t.page.files = s.page.files /\ t.past.left = s.past.left
          /\ t.past.earlier = s.past.earlier /\ t.past.arrived = s.past.arrived
      BY <1>1, <1>3, <2>1
    <3>2. ASSUME NEW key \in Keys
          PROVE  (RecordKey(t, key) <=> RecordKey(s, key)) /\ (StoredKey(t, key) <=> StoredKey(s, key))
      <4>1. key[1] \in Sources
        BY DEF Keys
      <4>2. RecordKey(t, key) <=> RecordKey(s, key)
        BY <2>11, <4>1 DEF RecordKey
      <4>3. StoredKey(t, key) <=> StoredKey(s, key)
        BY <2>11, <4>1 DEF StoredKey
      <4> QED  BY <4>2, <4>3
    <3>3. \A key \in Keys : \A p : Owned(t, key, p) <=> Owned(s, key, p)
      BY <3>1, <3>2 DEF Owned, Asked
    <3>4. s.page.files \in Files
      BY <2>1 DEF KeptTyped
    <3>5. ASSUME NEW x \in Sources, NEW i \in 1..Len(t.dev.inbox[x])
          PROVE  LET q == t.dev.inbox[x][i] IN
                 /\ q.stored = "persisted" => KeyOf(x, q) \in t.page.files.disk
                 /\ q.stored # "none" => Reads(t.page.files, KeyOf(x, q)) \/ KeyOf(x, q) \in t.past.earlier
      <4>1. i \in 1..Len(s.dev.inbox[x]) /\ t.dev.inbox[x][i].arrival = s.dev.inbox[x][i].arrival
            /\ t.dev.inbox[x][i].stored = s.dev.inbox[x][i].stored
        BY <2>11, Zenon
      <4>2. KeyOf(x, t.dev.inbox[x][i]) = KeyOf(x, s.dev.inbox[x][i])
        BY <4>1 DEF KeyOf
      <4> QED  BY <3>1, <4>1, <4>2 DEF FilesSound
    <3>6. \A i \in 1..Len(s.page.files.work) : s.page.files.work[i].key \in Keys
      <4>1. s.page.files.work \in Seq(Works)
        BY <3>4 DEF Files
      <4>2. \A i \in 1..Len(s.page.files.work) : s.page.files.work[i] \in Works
        BY <4>1
      <4> QED  BY <4>2 DEF Works
    <3>7. \A key \in t.page.files.disk \cup t.page.files.mem : Owned(t, key, 1)
      BY <3>1, <3>3, <3>4 DEF FilesSound, Files
    <3>8. \A i \in 1..Len(t.page.files.work) :
            LET w == t.page.files.work[i] IN
            /\ w.op = "delete" => t.page.files.opens /\ w.key \notin t.page.files.mem /\ ~RecordKey(t, w.key)
            /\ w.op = "put" => Owned(t, w.key, i + 1) /\ (RecordKey(t, w.key) => StoredKey(t, w.key))
      BY <3>1, <3>2, <3>3, <3>6 DEF FilesSound
    <3>9. \A key \in t.page.files.disk \cup t.page.files.mem \cup {t.page.files.work[i].key : i \in 1..Len(t.page.files.work)} :
            key[2] < Len(t.past.arrived[key[1]])
      BY <3>1 DEF FilesSound
    <3> QED  BY <3>5, <3>7, <3>8, <3>9, Zenon DEF FilesSound
  <2>16. Signed(t)
    <3>1. t.page.tasks = s.page.tasks /\ t.dev.knows = s.dev.knows /\ t.past.offered = s.past.offered
      BY <1>1, <1>3 DEF SameRead
    <3> QED  BY <2>1, <3>1 DEF Signed
  <2>17. ArrivesMore(s, t) /\ Boxes(t)
    BY <1>1, <1>3, <2>12 DEF ArrivesMore, Boxes
  <2>18. Good(t, X) /\ Forward(s, t)
    BY <1>1, <1>3, <2>10, <2>13, <2>14, <2>15, <2>16, <2>17, SameReadSound
  <2> QED  BY <2>18 DEF t
<1> QED  BY <1>2, <1>3
-----------------------------------------------------------------------------
(* A message is added; the bytes of what goes with it are discarded.        *)

\* The parts of the attachment store.
LEMMA FilesParts ==
  ASSUME NEW f \in Files
  PROVE  /\ f = [opens |-> f.opens, disk |-> f.disk, mem |-> f.mem, work |-> f.work]
         /\ f.opens \in BOOLEAN /\ f.disk \in SUBSET Keys /\ f.mem \in SUBSET Keys /\ f.work \in Seq(Works)
         /\ Len(f.work) \in Nat /\ DOMAIN f.work = 1..Len(f.work)
         /\ \A i \in 1..Len(f.work) : f.work[i] \in Works /\ f.work[i].key \in Keys
              /\ f.work[i].op \in {"put", "delete"}
              /\ f.work[i] = [op |-> f.work[i].op, key |-> f.work[i].key]
<1>1. /\ f = [opens |-> f.opens, disk |-> f.disk, mem |-> f.mem, work |-> f.work]
      /\ f.opens \in BOOLEAN /\ f.disk \in SUBSET Keys /\ f.mem \in SUBSET Keys /\ f.work \in Seq(Works)
  BY DEF Files
<1>2. Len(f.work) \in Nat /\ DOMAIN f.work = 1..Len(f.work) /\ \A i \in 1..Len(f.work) : f.work[i] \in Works
  BY <1>1
<1>3. \A w \in Works : w.key \in Keys /\ w.op \in {"put", "delete"} /\ w = [op |-> w.op, key |-> w.key]
  BY DEF Works
<1> QED  BY <1>1, <1>2, <1>3

\* Deletes follow what there is to do.
Discarded(f, keys, d) ==
  /\ d \in Files /\ d.opens = f.opens /\ d.disk = f.disk /\ d.mem = f.mem \ keys
  /\ Len(d.work) >= Len(f.work) /\ \A i \in 1..Len(f.work) : d.work[i] = f.work[i]
  /\ \A i \in Len(f.work) + 1 .. Len(d.work) :
       f.opens /\ \E key \in keys : d.work[i] = [op |-> "delete", key |-> key]
  /\ f.opens => \A key \in keys : \E i \in Len(f.work) + 1 .. Len(d.work) :
       d.work[i] = [op |-> "delete", key |-> key]

\* What discardAttachments asks of the store.
LEMMA DiscardIs ==
  ASSUME NEW f \in Files, NEW keys \in SUBSET Keys, IsFiniteSet(keys)
  PROVE  Discarded(f, keys, Discard(f, keys))
<1> DEFINE D == {[op |-> "delete", key |-> k] : k \in keys}
           q == SetToSeq(D)
           w == IF f.opens THEN f.work \o q ELSE f.work
           d == Discard(f, keys)
<1>1. IsFiniteSet(D)
  <2> DEFINE g == [k \in keys |-> [op |-> "delete", key |-> k]]
  <2>1. g \in Surjection(keys, D)
    BY DEF Surjection
  <2> HIDE DEF g, D
  <2> QED  BY <2>1, FS_Surjection
<1>2. D \subseteq Works
  BY DEF Works
<1>3. q \in Seq(D) /\ ToSet(q) = D
  <2> HIDE DEF D
  <2> QED  BY <1>1, SeqOfSet
<1>4. q \in Seq(Works)
  <2>1. Len(q) \in Nat /\ DOMAIN q = 1..Len(q) /\ \A i \in 1..Len(q) : q[i] \in D
    <3> HIDE DEF D, q
    <3> QED  BY <1>3
  <2>2. \A i \in 1..Len(q) : q[i] \in Works
    <3> HIDE DEF D, q
    <3> QED  BY <2>1, <1>2
  <2>3. q = [i \in 1..Len(q) |-> q[i]]
    <3> HIDE DEF D, q
    <3> QED  BY <1>3
  <2> HIDE DEF D, q
  <2> QED  BY <2>1, <2>2, <2>3
<1>5. /\ Len(q) \in Nat /\ \A i \in 1..Len(q) : \E key \in keys : q[i] = [op |-> "delete", key |-> key]
      /\ \A key \in keys : \E i \in 1..Len(q) : q[i] = [op |-> "delete", key |-> key]
  <2>1. /\ Len(q) \in Nat /\ \A i \in 1..Len(q) : q[i] \in D
        /\ \A x : x \in D <=> \E i \in 1..Len(q) : q[i] = x
    <3> HIDE DEF D, q
    <3> QED  BY <1>3, InSeq, Zenon
  <2> HIDE DEF q
  <2>2. \A i \in 1..Len(q) : \E key \in keys : q[i] = [op |-> "delete", key |-> key]
    BY <2>1
  <2>3. ASSUME NEW key \in keys PROVE \E i \in 1..Len(q) : q[i] = [op |-> "delete", key |-> key]
    <3>1. [op |-> "delete", key |-> key] \in D
      OBVIOUS
    <3> HIDE DEF D
    <3> QED  BY <3>1, <2>1
  <2> QED  BY <2>1, <2>2, <2>3
<1>6. /\ f.opens \in BOOLEAN /\ f.disk \in SUBSET Keys /\ f.mem \in SUBSET Keys /\ f.work \in Seq(Works)
      /\ Len(f.work) \in Nat
      /\ f = [opens |-> f.opens, disk |-> f.disk, mem |-> f.mem, work |-> f.work]
  BY FilesParts
<1>7. d = [f EXCEPT !.mem = @ \ keys, !.work = w]
  BY Zenon DEF Discard
<1> HIDE DEF q, D, d
<1>8. w \in Seq(Works)
  BY <1>4, <1>6
<1> DEFINE v == w
<1> HIDE DEF v
<1>9. d.opens = f.opens /\ d.disk = f.disk /\ d.mem = f.mem \ keys /\ d.work = v /\ d \in Files
  <2>1. d = [f EXCEPT !.mem = @ \ keys, !.work = v]
    BY <1>7 DEF v
  <2>2. v \in Seq(Works)
    BY <1>8 DEF v
  <2> HIDE DEF w
  <2> QED  BY <2>1, <2>2, <1>6, Zenon DEF Files
<1>10. CASE f.opens
  <2>1. v = f.work \o q
    BY <1>10 DEF v
  <2>2. /\ Len(v) = Len(f.work) + Len(q)
        /\ \A i \in 1..Len(f.work) + Len(q) : v[i] = IF i <= Len(f.work) THEN f.work[i] ELSE q[i - Len(f.work)]
    BY <2>1, <1>4, <1>6, ConcatProperties
  <2>3. \A i \in 1..Len(f.work) : v[i] = f.work[i]
    BY <2>2, <1>5, <1>6
  <2>4. ASSUME NEW i \in Len(f.work) + 1 .. Len(v) PROVE \E key \in keys : v[i] = [op |-> "delete", key |-> key]
    <3>1. i - Len(f.work) \in 1..Len(q) /\ i \in 1..Len(f.work) + Len(q) /\ ~(i <= Len(f.work))
      BY <2>2, <1>5, <1>6
    <3>2. v[i] = q[i - Len(f.work)]
      BY <3>1, <2>2
    <3>3. \E key \in keys : q[i - Len(f.work)] = [op |-> "delete", key |-> key]
      BY <3>1, <1>5, Zenon
    <3> QED  BY <3>2, <3>3
  <2>5. ASSUME NEW key \in keys
        PROVE  \E i \in Len(f.work) + 1 .. Len(v) : v[i] = [op |-> "delete", key |-> key]
    <3>1. PICK j \in 1..Len(q) : q[j] = [op |-> "delete", key |-> key]
      BY <1>5
    <3> DEFINE i == j + Len(f.work)
    <3>2. i \in Len(f.work) + 1 .. Len(v) /\ i - Len(f.work) = j /\ i \in 1..Len(f.work) + Len(q) /\ ~(i <= Len(f.work))
      BY <2>2, <1>5, <1>6
    <3>3. v[i] = q[i - Len(f.work)]
      <4> HIDE DEF i
      <4> QED  BY <3>2, <2>2
    <3>4. v[i] = q[j]
      <4> HIDE DEF i
      <4> QED  BY <3>2, <3>3
    <3> HIDE DEF i
    <3> QED  BY <3>1, <3>2, <3>4
  <2>6. Len(v) >= Len(f.work)
    BY <2>2, <1>5, <1>6
  <2> HIDE DEF w
  <2> QED  BY <1>9, <1>10, <2>3, <2>4, <2>5, <2>6, Zenon DEF d, Discarded
<1>11. CASE ~f.opens
  <2>1. v = f.work
    BY <1>11 DEF v
  <2>2. \A i \in Len(f.work) + 1 .. Len(v) : FALSE
    BY <2>1, <1>6
  <2> HIDE DEF w
  <2> QED  BY <1>6, <1>9, <1>11, <2>1, <2>2 DEF d, Discarded
<1> QED  BY <1>10, <1>11

\* What Add changes, field by field.
AddsTo(s, m, t) ==
  LET src == Source(m)
      box == s.dev.inbox[src]
      new == AddInOrder(box, [m |-> m, at |-> Mail(m).at], KeepLimit)
      gone == KeysOf(src, box) \ KeysOf(src, new)
  IN /\ Form(t) /\ SameRead(s, t)
     /\ t.dev.seen = s.dev.seen /\ t.dev.slot = s.dev.slot
     /\ t.dev.inbox = [s.dev.inbox EXCEPT ![src] = new]
     /\ t.page.files = Discard(s.page.files, gone)
     /\ t.past.forgot = s.past.forgot
     /\ t.past.arrived = [s.past.arrived EXCEPT ![src] = Append(s.past.arrived[src], m)]
     /\ t.past.offered = s.past.offered /\ t.past.reacted = s.past.reacted
     /\ t.past.earlier = s.past.earlier
     /\ t.past.left = IF s.page.files.opens THEN s.past.left ELSE s.past.left \cup gone

\* What MsgStore.add changes.
LEMMA AddedIs ==
  ASSUME NEW s, Form(s), NEW m
  PROVE  AddsTo(s, m, Add(s, m))
<1> DEFINE src == Source(m)
           box == s.dev.inbox[src]
           new == AddInOrder(box, [m |-> m, at |-> Mail(m).at], KeepLimit)
           gone == KeysOf(src, box) \ KeysOf(src, new)
           n == [s.dev.inbox EXCEPT ![src] = new]
           a == [s.past.arrived EXCEPT ![src] = Append(s.past.arrived[src], m)]
           u == [s EXCEPT !.dev.inbox = n]
           v == [u EXCEPT !.past.arrived = a]
           f == Discard(v.page.files, gone)
           x == [v EXCEPT !.page.files = f]
           l == IF v.page.files.opens THEN v.past.left ELSE v.past.left \cup gone
           t == [x EXCEPT !.past.left = l]
<1>1. Add(s, m) = DiscardAttachments(v, gone)
  BY Zenon DEF Add
<1> HIDE DEF n, a, gone, v, f, l
<1>2. DiscardAttachments(v, gone) = t
  BY Zenon DEF DiscardAttachments, f, l
<1>3. /\ Form(u) /\ u.page = s.page /\ u.past = s.past /\ u.dev.inbox = n
      /\ u.dev.held = s.dev.held /\ u.dev.seen = s.dev.seen /\ u.dev.slot = s.dev.slot
      /\ u.dev.rows = s.dev.rows /\ u.dev.knows = s.dev.knows /\ u.dev.allows = s.dev.allows
      /\ u.dev.ratchets = s.dev.ratchets
  BY InboxIs
<1> HIDE DEF u
<1>4. /\ Form(v) /\ v.dev = u.dev /\ v.page = u.page /\ v.past.arrived = a
      /\ v.past.proved = u.past.proved /\ v.past.stored = u.past.stored /\ v.past.dropped = u.past.dropped
      /\ v.past.cut = u.past.cut /\ v.past.forgot = u.past.forgot /\ v.past.offered = u.past.offered
      /\ v.past.reacted = u.past.reacted /\ v.past.announced = u.past.announced /\ v.past.made = u.past.made
      /\ v.past.earlier = u.past.earlier /\ v.past.left = u.past.left
  <2>1. Form(u)
    BY <1>3
  <2> QED  BY <2>1, ArrivedIs, Zenon DEF v
<1>5. /\ Form(x) /\ x.dev = v.dev /\ x.past = v.past /\ x.page.files = f
      /\ x.page.scans = v.page.scans /\ x.page.tasks = v.page.tasks /\ x.page.get = v.page.get
      /\ x.page.ratchets = v.page.ratchets /\ x.page.rotated = v.page.rotated
  <2>1. Form(v)
    BY <1>4
  <2> QED  BY <2>1, FilesAre, Zenon
<1> HIDE DEF x
<1>6. /\ Form(t) /\ t.dev = x.dev /\ t.page = x.page /\ t.past.left = l
      /\ t.past.proved = x.past.proved /\ t.past.stored = x.past.stored /\ t.past.dropped = x.past.dropped
      /\ t.past.cut = x.past.cut /\ t.past.forgot = x.past.forgot /\ t.past.arrived = x.past.arrived
      /\ t.past.offered = x.past.offered /\ t.past.reacted = x.past.reacted /\ t.past.announced = x.past.announced
      /\ t.past.made = x.past.made /\ t.past.earlier = x.past.earlier
  <2>1. Form(x)
    BY <1>5
  <2> QED  BY <2>1, LeftIs, Zenon
<1> HIDE DEF t
<1>7. SameRead(s, t)
  BY <1>3, <1>4, <1>5, <1>6 DEF SameRead
<1>8. Add(s, m) = t
  BY <1>1, <1>2
<1> DEFINE y == Add(s, m)
<1> HIDE DEF y
<1>9. y = t
  BY <1>8 DEF y
<1>10. v.page = s.page /\ v.past.left = s.past.left
  BY <1>3, <1>4
<1>11. /\ Form(y) /\ SameRead(s, y) /\ y.dev.seen = s.dev.seen /\ y.dev.slot = s.dev.slot
       /\ y.dev.inbox = n /\ y.page.files = f /\ y.past.forgot = s.past.forgot /\ y.past.arrived = a
       /\ y.past.offered = s.past.offered /\ y.past.reacted = s.past.reacted
       /\ y.past.earlier = s.past.earlier /\ y.past.left = l
  <2> HIDE DEF new, box, src
  <2> QED  BY <1>3, <1>4, <1>5, <1>6, <1>7, <1>9
<1>12. /\ f = Discard(s.page.files, gone)
       /\ l = IF s.page.files.opens THEN s.past.left ELSE s.past.left \cup gone
  <2> HIDE DEF new, box, src
  <2> QED  BY <1>10 DEF f, l
<1>13. AddsTo(s, m, y)
  <2> USE DEF AddsTo
  <2> QED  BY <1>11, <1>12, Zenon DEF n, a, gone
<1> QED  BY <1>13 DEF y

\* The keys of a conversation's attachments,
LEMMA KeysOfIs ==
  ASSUME NEW src, NEW box \in Seq(Recs)
  PROVE  /\ IsFiniteSet(KeysOf(src, box))
         /\ \A key : key \in KeysOf(src, box) <=>
              \E i \in 1..Len(box) : key = <<src, box[i].arrival>> /\ box[i].stored # "none"
<1> DEFINE D == {j \in DOMAIN box : box[j].stored # "none"}
           g == [i \in D |-> KeyOf(src, box[i])]
<1>1. DOMAIN box = 1..Len(box) /\ Len(box) \in Nat
  OBVIOUS
<1>2. IsFiniteSet(D)
  <2>1. D \in SUBSET (1..Len(box))
    BY <1>1
  <2>2. IsFiniteSet(1..Len(box))
    BY <1>1, FS_Interval
  <2> HIDE DEF D
  <2> QED  BY <2>1, <2>2, FS_Subset, Zenon
<1>3. g \in Surjection(D, KeysOf(src, box))
  BY DEF Surjection, KeysOf
<1>4. IsFiniteSet(KeysOf(src, box))
  <2> HIDE DEF D, g
  <2> QED  BY <1>2, <1>3, FS_Surjection
<1>5. \A key : key \in KeysOf(src, box) <=>
        \E i \in 1..Len(box) : key = <<src, box[i].arrival>> /\ box[i].stored # "none"
  BY <1>1 DEF KeysOf, KeyOf
<1> QED  BY <1>4, <1>5

\* What the attachment store takes with it.
FilesTake(s, t, src, m, at, new, e, gone) ==
  /\ src \in Sources /\ m \in Msgs /\ at \in Nat
  /\ KeptTyped(s) /\ FilesSound(s) /\ Window(s, src)
  /\ new \in Seq(Recs) /\ e = NewRecord(s.past.arrived[src], m, at)
  /\ \A i \in 1..Len(new) : new[i] = e \/ \E j \in 1..Len(s.dev.inbox[src]) : new[i] = s.dev.inbox[src][j]
  /\ t.dev.inbox = [s.dev.inbox EXCEPT ![src] = new]
  /\ t.past.arrived = [s.past.arrived EXCEPT ![src] = Append(s.past.arrived[src], m)]
  /\ t.past.earlier = s.past.earlier
  /\ gone = KeysOf(src, s.dev.inbox[src]) \ KeysOf(src, new)
  /\ t.page.files = Discard(s.page.files, gone)
  /\ t.past.left = IF s.page.files.opens THEN s.past.left ELSE s.past.left \cup gone

\* Bytes of a record the cap let go are asked to be deleted, or left behind.
LEMMA AddFiles ==
  ASSUME NEW s, NEW t, NEW src, NEW m, NEW at, NEW new, NEW e, NEW gone,
         FilesTake(s, t, src, m, at, new, e, gone)
  PROVE  FilesSound(t) /\ t.page.files \in Files /\ t.past.left \subseteq Keys
<1> USE DEF FilesTake
<1> DEFINE box == s.dev.inbox[src]
           all == s.past.arrived[src]
           files == s.page.files
           now == t.page.files
<1>1. /\ s.dev.inbox \in [Sources -> Seq(Recs)] /\ s.past.arrived \in [Sources -> Seq(Msgs)]
      /\ box \in Seq(Recs) /\ all \in Seq(Msgs) /\ files \in Files /\ s.past.left \subseteq Keys
  BY DEF KeptTyped
<1>2. /\ Len(box) \in Nat /\ Len(all) \in Nat /\ \A i \in 1..Len(box) : box[i] \in Recs /\ box[i].arrival \in Nat
  <2>1. \A i \in 1..Len(box) : box[i] \in Recs
    BY <1>1
  <2> QED  BY <1>1, <2>1, RecordParts
<1>3. /\ \A i \in 1..Len(box) : box[i].arrival < Len(all)
      /\ \A i, j \in 1..Len(box) : box[i].arrival = box[j].arrival => i = j
  <2>1. \A i \in 1..Len(box) : box[i].arrival \in Len(all) - Len(box) .. Len(all) - 1
    BY Zenon DEF Window, Numbered
  <2>2. \A i, j \in 1..Len(box) : box[i].arrival = box[j].arrival => i = j
    BY Zenon DEF Window, Numbered
  <2> HIDE DEF box, all
  <2>3. ASSUME NEW i \in 1..Len(box) PROVE box[i].arrival < Len(all)
    BY <1>2, <2>1
  <2> QED  BY <2>2, <2>3
<1>4. e.arrival = Len(all) /\ e.stored = "none"
  BY DEF NewRecord
<1>5. /\ t.dev.inbox[src] = new /\ \A x \in Sources : x # src => t.dev.inbox[x] = s.dev.inbox[x]
      /\ Len(t.past.arrived[src]) = Len(all) + 1
      /\ \A x \in Sources : x # src => t.past.arrived[x] = s.past.arrived[x]
  <2>1. t.past.arrived[src] = Append(all, m)
    BY <1>1
  <2>2. Len(Append(all, m)) = Len(all) + 1
    BY <1>1
  <2> QED  BY <1>1, <2>1, <2>2
<1> HIDE DEF box, all
<1>6. /\ \A key : key \in KeysOf(src, box) <=>
           \E i \in 1..Len(box) : key = <<src, box[i].arrival>> /\ box[i].stored # "none"
      /\ \A key : key \in KeysOf(src, new) <=>
           \E i \in 1..Len(new) : key = <<src, new[i].arrival>> /\ new[i].stored # "none"
      /\ IsFiniteSet(KeysOf(src, box))
  BY <1>1, KeysOfIs
<1>7. gone \in SUBSET Keys /\ IsFiniteSet(gone) /\ \A key \in gone : key[1] = src /\ key[2] < Len(all)
  <2>1. gone \in SUBSET KeysOf(src, box) /\ gone = KeysOf(src, box) \ KeysOf(src, new)
    BY DEF box
  <2>2. IsFiniteSet(gone)
    BY <1>6, <2>1, FS_Subset
  <2>3. ASSUME NEW key \in gone PROVE key \in Keys /\ key[1] = src /\ key[2] < Len(all)
    <3>1. PICK i \in 1..Len(box) : key = <<src, box[i].arrival>>
      BY <1>6, <2>1, Zenon
    <3> QED  BY <3>1, <1>2, <1>3 DEF Keys
  <2> QED  BY <2>2, <2>3
<1>8. /\ now \in Files /\ now.opens = files.opens /\ now.disk = files.disk /\ now.mem = files.mem \ gone
      /\ Len(now.work) >= Len(files.work) /\ \A i \in 1..Len(files.work) : now.work[i] = files.work[i]
      /\ \A i \in Len(files.work) + 1 .. Len(now.work) :
           files.opens /\ \E key \in gone : now.work[i] = [op |-> "delete", key |-> key]
      /\ files.opens => \A key \in gone : \E i \in Len(files.work) + 1 .. Len(now.work) :
           now.work[i] = [op |-> "delete", key |-> key]
  <2>1. now = Discard(files, gone)
    OBVIOUS
  <2> HIDE DEF now, files
  <2>2. files \in Files
    BY <1>1
  <2>3. gone \in SUBSET Keys /\ IsFiniteSet(gone)
    BY <1>7
  <2>4. Discarded(files, gone, Discard(files, gone))
    BY <2>2, <2>3, DiscardIs
  <2>5. Discarded(files, gone, now)
    BY <2>1, <2>4
  <2> QED  BY <2>5, Zenon DEF Discarded
<1>9. t.past.left \subseteq Keys /\ s.past.left \subseteq t.past.left /\ (~files.opens => gone \subseteq t.past.left)
  BY <1>1, <1>7
<1>10. /\ Len(files.work) \in Nat /\ Len(now.work) \in Nat /\ files.disk \subseteq Keys /\ files.mem \subseteq Keys
       /\ \A i \in 1..Len(files.work) : files.work[i].key \in Keys
            /\ files.work[i].op \in {"put", "delete"}
  BY <1>1, <1>8, FilesParts, Zenon
<1>11. /\ \A x \in Sources : \A i \in 1..Len(s.dev.inbox[x]) :
            LET r == s.dev.inbox[x][i] IN
            /\ r.stored = "persisted" => KeyOf(x, r) \in files.disk
            /\ r.stored # "none" => Reads(files, KeyOf(x, r)) \/ KeyOf(x, r) \in s.past.earlier
       /\ \A key \in files.disk \cup files.mem : Owned(s, key, 1)
       /\ \A i \in 1..Len(files.work) :
            LET w == files.work[i] IN
            /\ w.op = "delete" => files.opens /\ w.key \notin files.mem /\ ~RecordKey(s, w.key)
            /\ w.op = "put" => Owned(s, w.key, i + 1) /\ (RecordKey(s, w.key) => StoredKey(s, w.key))
       /\ \A key \in files.disk \cup files.mem \cup {files.work[i].key : i \in 1..Len(files.work)} :
            key[2] < Len(s.past.arrived[key[1]])
  BY DEF FilesSound
<1> HIDE DEF files, now
\* What is stored stays so, or goes with its delete,
<1>12. ASSUME NEW key \in Keys, StoredKey(s, key) PROVE StoredKey(t, key) \/ key \in gone
  <2>1. CASE key[1] # src
    BY <1>5, <1>12, <2>1 DEF StoredKey, Keys
  <2>2. CASE key[1] = src
    <3>1. key = <<src, key[2]>>
      BY <2>2 DEF Keys
    <3>2. key \in KeysOf(src, box)
      BY <1>6, <1>12, <2>2, <3>1 DEF StoredKey, box
    <3>3. ASSUME key \in KeysOf(src, new) PROVE StoredKey(t, key)
      BY <1>5, <1>6, <2>2, <3>1, <3>3 DEF StoredKey
    <3> QED  BY <3>2, <3>3 DEF box
  <2> QED  BY <2>1, <2>2
\* and the new record's key is nobody's.
<1>13. ASSUME NEW key \in Keys, key[2] < Len(s.past.arrived[key[1]]), RecordKey(t, key)
       PROVE  /\ RecordKey(s, key) /\ (StoredKey(s, key) => StoredKey(t, key))
  <2>1. CASE key[1] # src
    BY <1>5, <1>13, <2>1 DEF RecordKey, StoredKey, Keys
  <2>2. CASE key[1] = src
    <3>1. PICK i \in 1..Len(new) : new[i].arrival = key[2]
      BY <1>5, <1>13, <2>2 DEF RecordKey
    <3>2. key[2] \in Nat /\ key[2] < Len(all)
      BY <1>13, <2>2 DEF Keys, all
    <3>3. PICK j \in 1..Len(box) : new[i] = box[j]
      BY <1>2, <1>4, <3>1, <3>2 DEF box
    <3>4. RecordKey(s, key)
      BY <2>2, <3>1, <3>3 DEF RecordKey, box
    <3>5. ASSUME StoredKey(s, key) PROVE StoredKey(t, key)
      <4>1. PICK l \in 1..Len(box) : box[l].arrival = key[2] /\ box[l].stored # "none"
        BY <2>2, <3>5, Zenon DEF StoredKey, box
      <4>2. l = j
        BY <1>3, <3>1, <3>3, <4>1
      <4> QED  BY <1>5, <2>2, <3>1, <3>3, <4>1, <4>2 DEF StoredKey
    <3> QED  BY <3>4, <3>5
  <2> QED  BY <2>1, <2>2
<1>14. ASSUME NEW key \in gone PROVE ~RecordKey(t, key)
  <2>1. key \in Keys /\ key[1] = src /\ key[2] < Len(s.past.arrived[key[1]])
    BY <1>7 DEF all
  <2>2. key \in KeysOf(src, box) /\ key \notin KeysOf(src, new) /\ key = <<src, key[2]>>
    BY <2>1 DEF box, Keys
  <2>3. StoredKey(s, key)
    BY SMTT(30), <1>6, <2>1, <2>2 DEF StoredKey, box
  <2>4. ~StoredKey(t, key)
    BY <1>5, <1>6, <2>1, <2>2 DEF StoredKey
  <2> QED  BY <1>13, <2>1, <2>3, <2>4
<1>15. ASSUME NEW key \in Keys, NEW n \in Nat, n >= 1, n <= Len(files.work) + 1, Owned(s, key, n)
       PROVE  Owned(t, key, n)
  <2>1. CASE StoredKey(s, key)
    <3>1. CASE StoredKey(t, key)
      BY <3>1 DEF Owned
    <3>2. CASE key \in gone /\ files.opens
      <4>1. PICK i \in Len(files.work) + 1 .. Len(now.work) : now.work[i] = [op |-> "delete", key |-> key]
        BY <1>8, <3>2
      <4>2. i \in n..Len(now.work)
        BY <1>10, <1>15
      <4> QED  BY <4>1, <4>2 DEF Owned, Asked, now
    <3>3. CASE key \in gone /\ ~files.opens
      BY <1>9, <3>3 DEF Owned
    <3> QED  BY <1>12, <2>1, <3>1, <3>2, <3>3
  <2>2. CASE key \in s.past.left
    BY <1>9, <2>2 DEF Owned
  <2>3. CASE Asked(s, "delete", key, n)
    <3>1. PICK i \in n..Len(files.work) : files.work[i] = [op |-> "delete", key |-> key]
      BY <2>3 DEF Asked, files
    <3>2. i \in n..Len(now.work) /\ (i \in 1..Len(files.work) => now.work[i] = files.work[i])
      BY <1>8, <1>10
    <3>3. i \in 1..Len(files.work)
      BY <1>10, <1>15
    <3> QED  BY <3>1, <3>2, <3>3 DEF Owned, Asked, now
  <2> QED  BY <1>15, <2>1, <2>2, <2>3 DEF Owned
<1>16. ASSUME NEW x \in Sources, NEW i \in 1..Len(t.dev.inbox[x])
       PROVE  LET r == t.dev.inbox[x][i] IN
              /\ r.stored = "persisted" => KeyOf(x, r) \in now.disk
              /\ r.stored # "none" => Reads(now, KeyOf(x, r)) \/ KeyOf(x, r) \in t.past.earlier
  <2> DEFINE r == t.dev.inbox[x][i]
  <2> SUFFICES ASSUME r.stored # "none"
               PROVE  /\ r.stored = "persisted" => KeyOf(x, r) \in now.disk
                      /\ Reads(now, KeyOf(x, r)) \/ KeyOf(x, r) \in t.past.earlier
    OBVIOUS
  <2>1. \E j \in 1..Len(s.dev.inbox[x]) : r = s.dev.inbox[x][j]
    <3>1. CASE x = src
      <4>1. r = new[i] /\ i \in 1..Len(new)
        BY <1>5, <3>1
      <4> QED  BY <1>4, <3>1, <4>1
    <3>2. CASE x # src
      BY <1>5, <3>2
    <3> QED  BY <3>1, <3>2
  <2>2. KeyOf(x, r) \notin gone
    <3>1. CASE x = src
      <4>1. KeyOf(x, r) \in KeysOf(src, new)
        BY <1>5, <1>6, <3>1 DEF KeyOf
      <4> QED  BY <4>1
    <3>2. CASE x # src
      BY <1>7, <3>2 DEF KeyOf
    <3> QED  BY <3>1, <3>2
  <2>3. now.opens = files.opens /\ now.disk = files.disk /\ now.mem = files.mem \ gone
    BY <1>8, Zenon
  <2>4. /\ r.stored = "persisted" => KeyOf(x, r) \in files.disk
        /\ Reads(files, KeyOf(x, r)) \/ KeyOf(x, r) \in s.past.earlier
    <3>1. PICK j \in 1..Len(s.dev.inbox[x]) : r = s.dev.inbox[x][j]
      BY <2>1
    <3> QED  BY <1>11, <3>1
  <2>5. t.past.earlier = s.past.earlier
    BY <1>1
  <2> HIDE DEF r
  <2> QED  BY <2>2, <2>3, <2>4, <2>5 DEF Reads
<1>17. \A key \in now.disk \cup now.mem : Owned(t, key, 1)
  BY <1>8, <1>10, <1>11, <1>15
<1>18. ASSUME NEW i \in 1..Len(now.work)
       PROVE  LET w == now.work[i] IN
              /\ w.op = "delete" => now.opens /\ w.key \notin now.mem /\ ~RecordKey(t, w.key)
              /\ w.op = "put" => Owned(t, w.key, i + 1) /\ (RecordKey(t, w.key) => StoredKey(t, w.key))
              /\ w.key[2] < Len(t.past.arrived[w.key[1]])
  <2>1. CASE i \in 1..Len(files.work)
    <3> DEFINE w == files.work[i]
    <3>1. now.work[i] = w /\ w.key \in Keys /\ w.key[2] < Len(s.past.arrived[w.key[1]])
      <4>1. now.work[i] = w
        BY <1>8, <2>1
      <4>2. w.key \in Keys
        BY <1>10, <2>1
      <4>3. w.key \in files.disk \cup files.mem \cup {files.work[j].key : j \in 1..Len(files.work)}
        BY <2>1
      <4>4. w.key[2] < Len(s.past.arrived[w.key[1]])
        BY <1>11, <4>3, Zenon
      <4> QED  BY <4>1, <4>2, <4>4
    <3>2. w.op = "delete" => now.opens /\ w.key \notin now.mem /\ ~RecordKey(t, w.key)
      BY <1>8, <1>11, <1>13, <2>1, <3>1
    <3>3. ASSUME w.op = "put" PROVE Owned(t, w.key, i + 1) /\ (RecordKey(t, w.key) => StoredKey(t, w.key))
      <4>1. Owned(s, w.key, i + 1) /\ (RecordKey(s, w.key) => StoredKey(s, w.key))
        BY <1>11, <2>1, <3>3
      <4>2. i + 1 \in Nat /\ i + 1 >= 1 /\ i + 1 <= Len(files.work) + 1
        BY <1>10, <2>1
      <4> HIDE DEF w
      <4> QED  BY <1>13, <1>15, <3>1, <4>1, <4>2, Zenon
    <3>4. w.key[2] < Len(t.past.arrived[w.key[1]])
      <4>1. w.key[1] \in Sources /\ w.key[2] \in Nat
        BY <3>1 DEF Keys
      <4> HIDE DEF w
      <4>2. CASE w.key[1] = src
        BY SMTT(30), <1>2, <1>5, <3>1, <4>1, <4>2 DEF all
      <4>3. CASE w.key[1] # src
        BY <1>5, <3>1, <4>1, <4>3, Zenon
      <4> QED  BY <4>2, <4>3
    <3> HIDE DEF w
    <3> QED  BY <3>1, <3>2, <3>3, <3>4
  <2>2. CASE i \notin 1..Len(files.work)
    <3>1. i \in Len(files.work) + 1 .. Len(now.work)
      BY <1>10, <2>2
    <3>2. PICK key \in gone : now.work[i] = [op |-> "delete", key |-> key]
      BY <1>8, <3>1
    <3>3. files.opens /\ now.work[i].op = "delete" /\ now.work[i].key = key
      BY <1>8, <3>1, <3>2
    <3>4. key[2] < Len(t.past.arrived[key[1]])
      <4>1. key \in Keys /\ key[1] = src /\ key[2] < Len(all)
        BY <1>7
      <4>2. key[2] \in Nat
        BY <4>1 DEF Keys
      <4> QED  BY <1>2, <1>5, <4>1, <4>2
    <3> QED  BY <1>8, <1>14, <3>3, <3>4
  <2> QED  BY <2>1, <2>2
<1>19. ASSUME NEW key \in now.disk \cup now.mem PROVE key[2] < Len(t.past.arrived[key[1]])
  <2>1. key \in Keys /\ key[2] < Len(s.past.arrived[key[1]])
    BY <1>8, <1>10, <1>11
  <2>2. key[1] \in Sources /\ key[2] \in Nat
    BY <2>1 DEF Keys
  <2>3. CASE key[1] = src
    BY <1>2, <1>5, <2>1, <2>2, <2>3 DEF all
  <2>4. CASE key[1] # src
    BY <1>5, <2>1, <2>2, <2>4
  <2> QED  BY <2>3, <2>4
<1>20. FilesSound(t)
  <2>1. \A key \in now.disk \cup now.mem \cup {now.work[i].key : i \in 1..Len(now.work)} :
          key[2] < Len(t.past.arrived[key[1]])
    BY <1>18, <1>19
  <2> QED  BY <1>16, <1>17, <1>18, <2>1, Zenon DEF FilesSound, now
<1> QED  BY <1>8, <1>9, <1>20 DEF now

\* Whose records and messages' times are as they were is named as it was.
LEMMA SameNamed ==
  ASSUME NEW s, NEW t, NEW src, Named(s, src), t.dev.slot = s.dev.slot, t.past.offered = s.past.offered
  PROVE  Named(t, src)
BY DEF Named, Told

\* What was told under a checked signature stays so while the tasks stay.
LEMMA SameSigned ==
  ASSUME NEW s, NEW t, Signed(s), SameRead(s, t), t.past.offered = s.past.offered
  PROVE  Signed(t)
<1>1. t.page.tasks = s.page.tasks /\ t.dev.knows = s.dev.knows
  BY DEF SameRead
<1> QED  BY <1>1 DEF Signed

\* A conversation that is not touched stays as sound as it was.
LEMMA SameBox ==
  ASSUME NEW s, NEW t, NEW src, t.dev.inbox[src] = s.dev.inbox[src], t.past.arrived[src] = s.past.arrived[src],
         t.past.forgot = s.past.forgot, t.dev.seen = s.dev.seen,
         Window(s, src), Sorted(s, src), Once(s, src)
  PROVE  Window(t, src) /\ Sorted(t, src) /\ Once(t, src)
BY DEF Window, Sorted, Once, Checked

\* The conversation takes a checked message.
BoxTakes(s, t, m, src, at, new) ==
  /\ m \in Msgs /\ src \in Sources /\ src = Source(m) /\ at \in Nat
  /\ s.dev.inbox[src] \in Seq(Recs) /\ s.past.arrived[src] \in Seq(Msgs)
  /\ Window(s, src) /\ Sorted(s, src) /\ Once(s, src) /\ Fresh(s, m) /\ Checked(s, m)
  /\ new = AddInOrder(s.dev.inbox[src], [m |-> m, at |-> at], KeepLimit)
  /\ t.dev.inbox[src] = new /\ t.past.arrived[src] = Append(s.past.arrived[src], m)
  /\ t.past.forgot = s.past.forgot /\ t.dev.seen = s.dev.seen

\* The conversation a message is added to holds the newest arrivals, in order, once each.
LEMMA AddedBox ==
  ASSUME NEW s, NEW t, NEW m, NEW src, NEW at, NEW new, BoxTakes(s, t, m, src, at, new)
  PROVE  /\ new \in Seq(Recs) /\ Window(t, src) /\ Sorted(t, src) /\ Once(t, src)
         /\ \A i \in 1..Len(new) :
              new[i] = NewRecord(s.past.arrived[src], m, at)
              \/ \E j \in 1..Len(s.dev.inbox[src]) : new[i] = s.dev.inbox[src][j]
<1> USE DEF BoxTakes
<1> DEFINE box == s.dev.inbox[src]
           all == s.past.arrived[src]
           e == NewRecord(all, m, at)
<1>1. Numbered(box, all) /\ Full(box, all) /\ InTime(box)
  BY DEF Window, Sorted
<1>2. /\ new \in Seq(Recs) /\ Numbered(new, Append(all, m)) /\ Full(new, Append(all, m)) /\ InTime(new)
      /\ \A i \in 1..Len(new) : new[i] = e \/ \E j \in 1..Len(box) : new[i] = box[j]
  <2> HIDE DEF box, all
  <2>1. box \in Seq(Recs) /\ all \in Seq(Msgs) /\ new = AddInOrder(box, [m |-> m, at |-> at], KeepLimit)
    BY DEF box, all
  <2> QED  BY <2>1, <1>1, AddedInOrder
<1>3. Window(t, src) /\ Sorted(t, src)
  BY <1>2 DEF Window, Sorted
<1>4. e.m = m /\ e.arrival = Len(all)
  BY DEF NewRecord
<1>5. \A i, j \in 1..Len(new) : new[i].arrival = new[j].arrival => i = j
  BY <1>2, Zenon DEF Numbered
<1>6. /\ \A i \in 1..Len(box) : Source(box[i].m) = src /\ Checked(s, box[i].m)
      /\ \A i, j \in 1..Len(box) : i # j /\ box[i].m = box[j].m => box[i].m \in s.past.forgot
  BY Zenon DEF Once
<1>7. ASSUME NEW i \in 1..Len(box), box[i].m = m PROVE m \in s.past.forgot
  BY <1>7, Zenon DEF Fresh
<1> HIDE DEF e, box
<1>8. \A x : Checked(s, x) => Checked(t, x)
  BY DEF Checked
<1>9. ASSUME NEW i \in 1..Len(new) PROVE Source(new[i].m) = src /\ Checked(t, new[i].m)
  <2>1. CASE new[i] = e
    BY <2>1, <1>4, <1>8
  <2>2. CASE \E j \in 1..Len(box) : new[i] = box[j]
    BY <2>2, <1>6, <1>8
  <2> QED  BY <1>2, <2>1, <2>2, Zenon
<1>10. ASSUME NEW i \in 1..Len(new), NEW j \in 1..Len(new), i # j, new[i].m = new[j].m
       PROVE  new[i].m \in t.past.forgot
  <2>1. CASE new[i] = e
    <3>1. new[j] # e
      BY <1>5, <1>10, <2>1, Zenon
    <3>2. PICK b \in 1..Len(box) : new[j] = box[b]
      BY <1>2, <3>1
    <3> QED  BY <3>2, <2>1, <1>4, <1>7, <1>10
  <2>2. CASE new[j] = e
    <3>1. new[i] # e
      BY <1>5, <1>10, <2>2, Zenon
    <3>2. PICK b \in 1..Len(box) : new[i] = box[b]
      BY <1>2, <3>1
    <3> QED  BY <3>2, <2>2, <1>4, <1>7, <1>10
  <2>3. CASE new[i] # e /\ new[j] # e
    <3>1. PICK a \in 1..Len(box) : new[i] = box[a]
      BY <1>2, <2>3
    <3>2. PICK b \in 1..Len(box) : new[j] = box[b]
      BY <1>2, <2>3
    <3>3. a # b
      BY <3>1, <3>2, <1>5, <1>10, Zenon
    <3> QED  BY <3>1, <3>2, <3>3, <1>6, <1>10
  <2> QED  BY <2>1, <2>2, <2>3
<1>11. Once(t, src)
  BY ZenonT(30), <1>9, <1>10 DEF Once
<1> QED  BY <1>2, <1>3, <1>11 DEF e, box

\* MsgStore.add keeps a state sound, and the message has arrived.
LEMMA AddKeeps ==
  ASSUME WorldOK, NEW s, NEW X, NEW m \in Msgs, Good(s, X), Fresh(s, m), Checked(s, m)
  PROVE  LET t == Add(s, m) IN
         /\ Good(t, X) /\ Forward(s, t) /\ m \in ToSet(t.past.arrived[Source(m)])
         /\ t.dev.seen = s.dev.seen
<1> DEFINE src == Source(m)
           box == s.dev.inbox[src]
           all == s.past.arrived[src]
           at == Mail(m).at
           new == AddInOrder(box, [m |-> m, at |-> at], KeepLimit)
           gone == KeysOf(src, box) \ KeysOf(src, new)
           t == Add(s, m)
<1>1. /\ Form(s) /\ KeptTyped(s) /\ Boxes(s) /\ Arrives(s, X) /\ Chips(s) /\ FilesSound(s) /\ Signed(s)
  BY DEF Good, ReadSound, KeptSound
<1>2. /\ Form(t) /\ SameRead(s, t)
      /\ t.dev.seen = s.dev.seen /\ t.dev.slot = s.dev.slot
      /\ t.dev.inbox = [s.dev.inbox EXCEPT ![src] = new]
      /\ t.page.files = Discard(s.page.files, gone)
      /\ t.past.forgot = s.past.forgot
      /\ t.past.arrived = [s.past.arrived EXCEPT ![src] = Append(s.past.arrived[src], m)]
      /\ t.past.offered = s.past.offered /\ t.past.reacted = s.past.reacted
      /\ t.past.earlier = s.past.earlier
      /\ t.past.left = IF s.page.files.opens THEN s.past.left ELSE s.past.left \cup gone
  <2>1. AddsTo(s, m, t)
    BY <1>1, AddedIs
  <2> HIDE DEF t
  <2> QED  BY <2>1, Zenon DEF AddsTo
<1> HIDE DEF t
<1>3. src \in Sources /\ at \in Nat
  BY MailIs
<1>4. /\ s.dev.inbox \in [Sources -> Seq(Recs)] /\ s.past.arrived \in [Sources -> Seq(Msgs)]
      /\ box \in Seq(Recs) /\ all \in Seq(Msgs)
  BY <1>1, <1>3 DEF KeptTyped
<1> HIDE DEF src, at, new
<1>5. /\ t.dev.inbox[src] = new /\ t.past.arrived[src] = Append(all, m)
      /\ \A x \in Sources : x # src => t.dev.inbox[x] = s.dev.inbox[x] /\ t.past.arrived[x] = s.past.arrived[x]
  BY <1>2, <1>3, <1>4, Zenon
<1>6. /\ new \in Seq(Recs) /\ Window(t, src) /\ Sorted(t, src) /\ Once(t, src)
      /\ \A i \in 1..Len(new) : new[i] = NewRecord(all, m, at) \/ \E j \in 1..Len(box) : new[i] = box[j]
  <2>1. Window(s, src) /\ Sorted(s, src) /\ Once(s, src)
    BY <1>1, <1>3 DEF Boxes
  <2>2. new = AddInOrder(box, [m |-> m, at |-> at], KeepLimit) /\ src = Source(m)
    BY DEF new, src
  <2>3. /\ src \in Sources /\ at \in Nat /\ box \in Seq(Recs) /\ all \in Seq(Msgs)
        /\ t.dev.inbox[src] = new /\ t.past.arrived[src] = Append(all, m)
        /\ t.past.forgot = s.past.forgot /\ t.dev.seen = s.dev.seen
    BY <1>2, <1>3, <1>4, <1>5
  <2>4. BoxTakes(s, t, m, src, at, new)
    BY <2>1, <2>2, <2>3 DEF BoxTakes
  <2> QED  BY <2>4, AddedBox
<1>7. FilesSound(t) /\ t.page.files \in Files /\ t.past.left \subseteq Keys
  <2>1. Window(s, src)
    BY <1>1, <1>3 DEF Boxes
  <2> DEFINE e == NewRecord(all, m, at)
  <2> HIDE DEF gone
  <2>2. gone = KeysOf(src, s.dev.inbox[src]) \ KeysOf(src, new)
    BY DEF gone
  <2>3. \A i \in 1..Len(new) : new[i] = e \/ \E j \in 1..Len(s.dev.inbox[src]) : new[i] = s.dev.inbox[src][j]
    BY <1>6
  <2>4. e = NewRecord(s.past.arrived[src], m, at)
    OBVIOUS
  <2> HIDE DEF e
  <2>5. /\ src \in Sources /\ at \in Nat /\ KeptTyped(s) /\ FilesSound(s) /\ new \in Seq(Recs)
        /\ t.dev.inbox = [s.dev.inbox EXCEPT ![src] = new]
        /\ t.past.arrived = [s.past.arrived EXCEPT ![src] = Append(s.past.arrived[src], m)]
        /\ t.past.earlier = s.past.earlier
    BY <1>1, <1>2, <1>3, <1>6
  <2>6. /\ t.page.files = Discard(s.page.files, gone)
        /\ t.past.left = IF s.page.files.opens THEN s.past.left ELSE s.past.left \cup gone
    BY <1>2 DEF gone
  <2>7. FilesTake(s, t, src, m, at, new, e, gone)
    BY <2>1, <2>2, <2>3, <2>4, <2>5, <2>6 DEF FilesTake
  <2> QED  BY <2>7, AddFiles
<1>8. m \in ToSet(t.past.arrived[src]) /\ ToSet(all) \subseteq ToSet(t.past.arrived[src])
  <2>1. Len(all) \in Nat /\ Append(all, m) \in Seq(Msgs) /\ Len(Append(all, m)) = Len(all) + 1
        /\ Append(all, m)[Len(all) + 1] = m /\ \A i \in 1..Len(all) : Append(all, m)[i] = all[i]
    <3> HIDE DEF all
    <3> QED  BY <1>4
  <2>2. \A x : x \in ToSet(Append(all, m)) <=> \E i \in 1..Len(Append(all, m)) : Append(all, m)[i] = x
    <3> DEFINE q == Append(all, m)
    <3>1. q \in Seq(Msgs)
      BY <2>1
    <3> HIDE DEF q
    <3>2. \A x : x \in ToSet(q) <=> \E i \in 1..Len(q) : q[i] = x
      BY <3>1, InSeq
    <3> QED  BY <3>2, Zenon DEF q
  <2>3. \A x : x \in ToSet(all) <=> \E i \in 1..Len(all) : all[i] = x
    BY <1>4, InSeq
  <2>4. m \in ToSet(Append(all, m))
    BY <2>1, <2>2
  <2>5. ASSUME NEW x \in ToSet(all) PROVE x \in ToSet(Append(all, m))
    <3>1. PICK i \in 1..Len(all) : all[i] = x
      BY <2>3
    <3>2. i \in 1..Len(Append(all, m)) /\ Append(all, m)[i] = x
      BY <2>1, <3>1
    <3> QED  BY <2>2, <3>2
  <2> QED  BY <1>5, <2>4, <2>5
<1>9. ArrivesMore(s, t)
  BY <1>5, <1>8, Zenon DEF ArrivesMore
<1>10. KeptTyped(t)
  <2>1. t.dev.inbox \in [Sources -> Seq(Recs)] /\ t.past.arrived \in [Sources -> Seq(Msgs)]
    <3>1. Append(all, m) \in Seq(Msgs)
      <4> HIDE DEF all
      <4> QED  BY <1>4
    <3> HIDE DEF all
    <3>2. t.past.arrived = [s.past.arrived EXCEPT ![src] = Append(all, m)]
      BY <1>2 DEF all
    <3> QED  BY <1>2, <1>3, <1>4, <1>6, <3>1, <3>2
  <2>2. t.past.cut = s.past.cut
    BY <1>2 DEF SameRead
  <2> QED  BY <1>1, <1>2, <1>7, <2>1, <2>2 DEF KeptTyped
<1>11. Signed(t)
  BY <1>1, <1>2, SameSigned
<1>12. Boxes(t)
  <2>1. ASSUME NEW x \in Sources PROVE Window(t, x) /\ Sorted(t, x) /\ Once(t, x) /\ Named(t, x)
    <3>1. Window(s, x) /\ Sorted(s, x) /\ Once(s, x) /\ Named(s, x)
      BY <1>1 DEF Boxes
    <3>2. Named(t, x)
      BY <3>1, <1>2, SameNamed
    <3>3. CASE x = src
      BY <3>2, <3>3, <1>6
    <3>4. CASE x # src
      BY <3>1, <3>2, <3>4, <1>2, <1>5, SameBox, Zenon
    <3> QED  BY <3>3, <3>4
  <2> QED  BY <2>1 DEF Boxes
<1>13. Arrives(t, X)
  <2>1. ASSUME NEW x \in ToSet(t.dev.seen), Mail(x).kind = "text"
        PROVE  x \in ToSet(t.past.arrived[Source(x)]) \cup X
    <3>1. x \in ToSet(s.past.arrived[Source(x)]) \cup X
      BY <1>1, <1>2, <2>1 DEF Arrives
    <3>2. Source(x) \in Sources
      <4>1. ToSet(s.dev.seen) \subseteq Msgs
        BY <1>1, InSeq DEF KeptTyped
      <4> QED  BY <4>1, <1>2, MailIs
    <3> QED  BY <3>1, <3>2, <1>9 DEF ArrivesMore
  <2> QED  BY <2>1 DEF Arrives
<1>14. Chips(t)
  <2>1. \A x : Taken(t, x) = Taken(s, x)
    BY <1>2 DEF Taken
  <2>2. \A r : Chip(s, r) => Chip(t, r)
    BY <2>1 DEF Chip
  <2>3. ASSUME NEW x \in Sources, NEW i \in 1..Len(t.dev.inbox[x]), t.dev.inbox[x][i].m \notin t.past.forgot
        PROVE  Chip(t, t.dev.inbox[x][i])
    <3>1. CASE \E j \in 1..Len(s.dev.inbox[x]) : t.dev.inbox[x][i] = s.dev.inbox[x][j]
      BY <1>1, <1>2, <2>2, <2>3, <3>1 DEF Chips
    <3>2. CASE x = src /\ t.dev.inbox[x][i] = NewRecord(all, m, at)
      <4>1. t.dev.inbox[x][i].m = m /\ t.dev.inbox[x][i].chip = NoReaction
        BY <3>2 DEF NewRecord
      <4>2. Taken(t, m) = {}
        BY <4>1, <1>2, <2>3 DEF Taken, Fresh
      <4> QED  BY <4>1, <4>2 DEF Chip, NoReaction
    <3>3. CASE x # src
      BY <3>1, <3>3, <1>5
    <3> QED  BY <3>1, <3>2, <3>3, <1>5, <1>6
  <2>4. \A x : Checked(s, x) => Checked(t, x)
    BY <1>2 DEF Checked
  <2>5. \A x \in t.past.reacted : Checked(t, Mail(x).to)
    BY <1>1, <1>2, <2>4 DEF Chips
  <2> QED  BY <2>3, <2>5 DEF Chips
<1>15. Good(t, X) /\ Forward(s, t)
  BY <1>2, <1>7, <1>9, <1>10, <1>11, <1>12, <1>13, <1>14, SameReadSound
<1> QED  BY <1>2, <1>8, <1>15 DEF t, src

\* Only where the bytes of a conversation's records are said to be, and the
\* attachment store, change.
Restores(s, t, src, new) ==
  /\ src \in Sources /\ Form(t) /\ SameRead(s, t)
  /\ t.dev.seen = s.dev.seen /\ t.dev.slot = s.dev.slot
  /\ t.dev.inbox = [s.dev.inbox EXCEPT ![src] = new]
  /\ new \in Seq(Recs) /\ Alike(s.dev.inbox[src], new)
  /\ \A i \in 1..Len(new) : new[i].chip = s.dev.inbox[src][i].chip
  /\ t.past.forgot = s.past.forgot /\ t.past.arrived = s.past.arrived
  /\ t.past.offered = s.past.offered /\ t.past.reacted = s.past.reacted
  /\ t.past.earlier = s.past.earlier
  /\ t.past.left \subseteq Keys /\ t.page.files \in Files

\* A change of the records' places alone keeps a state sound when its bytes are.
LEMMA RestoreKeeps ==
  ASSUME NEW s, NEW t, NEW X, Good(s, X), NEW src, NEW new, Restores(s, t, src, new), FilesSound(t)
  PROVE  Good(t, X) /\ Forward(s, t)
<1>1. /\ KeptTyped(s) /\ Boxes(s) /\ Arrives(s, X) /\ Chips(s) /\ Signed(s)
  BY DEF Good, ReadSound, KeptSound
<1>2. /\ src \in Sources /\ Form(t) /\ SameRead(s, t)
      /\ t.dev.seen = s.dev.seen /\ t.dev.slot = s.dev.slot
      /\ t.dev.inbox = [s.dev.inbox EXCEPT ![src] = new] /\ new \in Seq(Recs)
      /\ t.past.forgot = s.past.forgot /\ t.past.arrived = s.past.arrived
      /\ t.past.offered = s.past.offered /\ t.past.reacted = s.past.reacted
      /\ t.past.earlier = s.past.earlier
      /\ t.past.left \subseteq Keys /\ t.page.files \in Files
  BY DEF Restores
<1>3. Alike(s.dev.inbox[src], new) /\ \A i \in 1..Len(new) : new[i].chip = s.dev.inbox[src][i].chip
  BY DEF Restores
<1>4. s.dev.inbox \in [Sources -> Seq(Recs)]
  BY <1>1 DEF KeptTyped
<1>5. t.dev.inbox[src] = new /\ \A x \in Sources : x # src => t.dev.inbox[x] = s.dev.inbox[x]
  BY <1>2, <1>4
<1>6. KeptTyped(t)
  <2>1. t.dev.inbox \in [Sources -> Seq(Recs)]
    BY <1>2, <1>4
  <2>2. t.past.cut = s.past.cut
    BY <1>2 DEF SameRead
  <2> QED  BY <1>1, <1>2, <2>1, <2>2 DEF KeptTyped
<1>7. Signed(t)
  BY <1>1, <1>2, SameSigned
<1>8. Boxes(t)
  <2>1. ASSUME NEW x \in Sources PROVE Window(t, x) /\ Sorted(t, x) /\ Once(t, x) /\ Named(t, x)
    <3>1. Window(s, x) /\ Sorted(s, x) /\ Once(s, x) /\ Named(s, x)
      BY <1>1 DEF Boxes
    <3>2. Named(t, x)
      BY <3>1, <1>2, SameNamed
    <3>3. CASE x = src
      <4>1. Alike(s.dev.inbox[x], t.dev.inbox[x])
        BY <3>3, <1>3, <1>5
      <4> QED  BY <3>1, <3>2, <4>1, <1>2, AlikeKeeps, Zenon
    <3>4. CASE x # src
      <4>1. t.dev.inbox[x] = s.dev.inbox[x] /\ t.past.arrived[x] = s.past.arrived[x]
        BY <3>4, <1>2, <1>5
      <4> QED  BY <3>1, <3>2, <4>1, <1>2, SameBox, Zenon
    <3> QED  BY <3>3, <3>4
  <2> QED  BY <2>1 DEF Boxes
<1>9. Arrives(t, X)
  BY <1>1, <1>2 DEF Arrives
<1>10. Chips(t)
  <2>1. \A x : Taken(t, x) = Taken(s, x)
    BY <1>2 DEF Taken
  <2>2. \A q, r : q.m = r.m /\ q.chip = r.chip /\ Chip(s, r) => Chip(t, q)
    BY <2>1 DEF Chip
  <2>3. ASSUME NEW x \in Sources, NEW i \in 1..Len(t.dev.inbox[x]), t.dev.inbox[x][i].m \notin t.past.forgot
        PROVE  Chip(t, t.dev.inbox[x][i])
    <3>1. /\ i \in 1..Len(s.dev.inbox[x])
          /\ t.dev.inbox[x][i].m = s.dev.inbox[x][i].m /\ t.dev.inbox[x][i].chip = s.dev.inbox[x][i].chip
      <4>1. CASE x = src
        BY <4>1, <1>3, <1>5 DEF Alike
      <4>2. CASE x # src
        BY <4>2, <1>5
      <4> QED  BY <4>1, <4>2
    <3>2. Chip(s, s.dev.inbox[x][i])
      BY <1>1, <1>2, <2>3, <3>1 DEF Chips
    <3> QED  BY <2>2, <3>1, <3>2, Zenon
  <2>4. \A x \in t.past.reacted : Checked(t, Mail(x).to)
    BY <1>1, <1>2 DEF Chips, Checked
  <2> QED  BY <2>3, <2>4 DEF Chips
<1>11. ArrivesMore(s, t)
  BY <1>2 DEF ArrivesMore
<1> QED  BY <1>2, <1>6, <1>7, <1>8, <1>9, <1>10, <1>11, SameReadSound

-----------------------------------------------------------------------------
\* A put of one of a conversation's records.
PutsFile(s, t, src, i, new) ==
  /\ src \in Sources /\ i \in 1..Len(s.dev.inbox[src])
  /\ KeptTyped(s) /\ FilesSound(s) /\ Window(s, src)
  /\ new = [s.dev.inbox[src] EXCEPT ![i] = [s.dev.inbox[src][i] EXCEPT !.stored = "saving"]]
  /\ t.dev.inbox = [s.dev.inbox EXCEPT ![src] = new]
  /\ t.page.files = Put(s.page.files, KeyOf(src, s.dev.inbox[src][i]))
  /\ t.past.arrived = s.past.arrived /\ t.past.earlier = s.past.earlier /\ t.past.left = s.past.left

\* What _keepAttachments asks of the store.
LEMMA PutIs ==
  ASSUME NEW f \in Files, NEW key \in Keys
  PROVE  LET d == Put(f, key) IN
         /\ d \in Files /\ d.opens = f.opens /\ d.disk = f.disk /\ d.mem = f.mem \cup {key}
         /\ Len(d.work) = Len(f.work) + 1 /\ \A i \in 1..Len(f.work) : d.work[i] = f.work[i]
         /\ d.work[Len(f.work) + 1] = [op |-> "put", key |-> key]
<1>1. /\ f.opens \in BOOLEAN /\ f.disk \in SUBSET Keys /\ f.mem \in SUBSET Keys /\ f.work \in Seq(Works)
      /\ Len(f.work) \in Nat
      /\ f = [opens |-> f.opens, disk |-> f.disk, mem |-> f.mem, work |-> f.work]
  BY FilesParts
<1> DEFINE e == [op |-> "put", key |-> key]
           w == Append(f.work, e)
           d == Put(f, key)
<1>2. e \in Works
  BY DEF Works
<1>3. d = [f EXCEPT !.mem = f.mem \cup {key}, !.work = w]
  BY Zenon DEF Put
<1> HIDE DEF e, d
<1>4. w \in Seq(Works) /\ Len(w) = Len(f.work) + 1 /\ w[Len(f.work) + 1] = e
      /\ \A i \in 1..Len(f.work) : w[i] = f.work[i]
  BY <1>1, <1>2
<1> HIDE DEF w
<1>5. d.opens = f.opens /\ d.disk = f.disk /\ d.mem = f.mem \cup {key} /\ d.work = w /\ d \in Files
  BY <1>1, <1>3, <1>4, Zenon DEF Files
<1> QED  BY <1>4, <1>5 DEF e, d

\* Bytes being written are read from memory until they are.
LEMMA PutFiles ==
  ASSUME NEW s, NEW t, NEW src, NEW i, NEW new, PutsFile(s, t, src, i, new)
  PROVE  /\ FilesSound(t) /\ t.page.files \in Files /\ new \in Seq(Recs)
         /\ Alike(s.dev.inbox[src], new)
         /\ \A j \in 1..Len(new) : new[j].chip = s.dev.inbox[src][j].chip
<1> DEFINE box == s.dev.inbox[src]
           all == s.past.arrived[src]
           key == KeyOf(src, box[i])
           files == s.page.files
           now == t.page.files
<1>1. /\ src \in Sources /\ i \in 1..Len(box) /\ box \in Seq(Recs) /\ all \in Seq(Msgs) /\ files \in Files
      /\ s.dev.inbox \in [Sources -> Seq(Recs)] /\ s.past.arrived \in [Sources -> Seq(Msgs)]
      /\ Len(box) \in Nat /\ Len(all) \in Nat
  BY DEF PutsFile, KeptTyped
<1>2. \A j \in 1..Len(box) : box[j] \in Recs /\ box[j].arrival \in Nat
  <2>1. \A j \in 1..Len(box) : box[j] \in Recs
    BY <1>1
  <2> QED  BY <2>1, RecordParts
<1>3. key = <<src, box[i].arrival>> /\ key \in Keys /\ key[1] = src /\ key[2] = box[i].arrival
  BY <1>1, <1>2 DEF KeyOf, Keys
<1>4. box[i].arrival < Len(all)
  <2>1. box[i].arrival \in Len(all) - Len(box) .. Len(all) - 1
    BY <1>1, Zenon DEF PutsFile, Window, Numbered
  <2> QED  BY <1>1, <1>2, <2>1
<1>5. /\ t.past.arrived = s.past.arrived /\ t.past.earlier = s.past.earlier /\ t.past.left = s.past.left
      /\ t.dev.inbox = [s.dev.inbox EXCEPT ![src] = new] /\ now = Put(files, key)
      /\ new = [box EXCEPT ![i] = [box[i] EXCEPT !.stored = "saving"]]
  BY DEF PutsFile
<1>6. /\ new \in Seq(Recs) /\ Len(new) = Len(box) /\ \A j \in 1..Len(box) : j # i => new[j] = box[j]
      /\ new[i].m = box[i].m /\ new[i].at = box[i].at /\ new[i].arrival = box[i].arrival
      /\ new[i].chip = box[i].chip /\ new[i].stored = "saving"
  <2> DEFINE r == [box[i] EXCEPT !.stored = "saving"]
  <2>1. /\ r \in Recs /\ r.m = box[i].m /\ r.at = box[i].at /\ r.arrival = box[i].arrival
        /\ r.chip = box[i].chip /\ r.stored = "saving"
    BY <1>1, <1>2, Zenon DEF Recs, Places
  <2> HIDE DEF r, box
  <2>2. new = [box EXCEPT ![i] = r]
    BY <1>5 DEF r, box
  <2>3. new \in Seq(Recs) /\ Len(new) = Len(box) /\ \A j \in 1..Len(box) : new[j] = IF j = i THEN r ELSE box[j]
    BY <2>1, <2>2, <1>1
  <2> QED  BY <1>1, <2>1, <2>3
<1>7. Alike(box, new) /\ \A j \in 1..Len(new) : new[j].chip = box[j].chip
  BY <1>6, Zenon DEF Alike
<1>8. t.dev.inbox[src] = new /\ \A x \in Sources : x # src => t.dev.inbox[x] = s.dev.inbox[x]
  BY <1>1, <1>5
<1>9. /\ now \in Files /\ now.opens = files.opens /\ now.disk = files.disk /\ now.mem = files.mem \cup {key}
      /\ Len(now.work) = Len(files.work) + 1 /\ \A j \in 1..Len(files.work) : now.work[j] = files.work[j]
      /\ now.work[Len(files.work) + 1] = [op |-> "put", key |-> key]
  <2>1. files \in Files /\ key \in Keys /\ now = Put(files, key)
    BY <1>1, <1>3, <1>5
  <2> HIDE DEF files, key, now
  <2> QED  BY <2>1, PutIs
<1>10. /\ Len(files.work) \in Nat
       /\ \A j \in 1..Len(files.work) : files.work[j].key \in Keys /\ files.work[j].op \in {"put", "delete"}
       /\ files.disk \subseteq Keys /\ files.mem \subseteq Keys
  BY <1>1, FilesParts, Zenon
<1>11. /\ \A x \in Sources : \A j \in 1..Len(s.dev.inbox[x]) :
            LET r == s.dev.inbox[x][j] IN
            /\ r.stored = "persisted" => KeyOf(x, r) \in files.disk
            /\ r.stored # "none" => Reads(files, KeyOf(x, r)) \/ KeyOf(x, r) \in s.past.earlier
       /\ \A k \in files.disk \cup files.mem : Owned(s, k, 1)
       /\ \A j \in 1..Len(files.work) :
            LET w == files.work[j] IN
            /\ w.op = "delete" => files.opens /\ w.key \notin files.mem /\ ~RecordKey(s, w.key)
            /\ w.op = "put" => Owned(s, w.key, j + 1) /\ (RecordKey(s, w.key) => StoredKey(s, w.key))
       /\ \A k \in files.disk \cup files.mem \cup {files.work[j].key : j \in 1..Len(files.work)} :
            k[2] < Len(s.past.arrived[k[1]])
  BY Zenon DEF PutsFile, FilesSound
<1> HIDE DEF files, now, key
<1>12. ASSUME NEW k \in Keys PROVE (StoredKey(s, k) => StoredKey(t, k)) /\ (RecordKey(t, k) <=> RecordKey(s, k))
  <2>1. CASE k[1] # src
    BY <1>8, <2>1, Zenon DEF StoredKey, RecordKey, Keys
  <2>2. CASE k[1] = src
    <3>1. StoredKey(s, k) => StoredKey(t, k)
      <4>1. \A j \in 1..Len(box) : box[j].stored # "none" => new[j].stored # "none" /\ new[j].arrival = box[j].arrival
        BY <1>6
      <4> QED  BY <1>6, <1>8, <2>2, <4>1 DEF StoredKey
    <3>2. RecordKey(t, k) <=> RecordKey(s, k)
      <4>1. \A j \in 1..Len(box) : new[j].arrival = box[j].arrival
        BY <1>6
      <4> QED  BY <1>6, <1>8, <2>2, <4>1 DEF RecordKey
    <3> QED  BY <3>1, <3>2
  <2> QED  BY <2>1, <2>2
<1>13. StoredKey(t, key) /\ RecordKey(s, key)
  BY <1>1, <1>3, <1>6, <1>8 DEF StoredKey, RecordKey
<1>14. ASSUME NEW k \in Keys, NEW n \in Nat, Owned(s, k, n), n >= 1 PROVE Owned(t, k, n)
  <2>1. ASSUME Asked(s, "delete", k, n) PROVE Asked(t, "delete", k, n)
    <3>1. PICK j \in n..Len(files.work) : files.work[j] = [op |-> "delete", key |-> k]
      BY <2>1 DEF Asked, files
    <3>2. j \in n..Len(now.work) /\ j \in 1..Len(files.work)
      BY <1>9, <1>10, <1>14, <3>1
    <3>3. now.work[j] = [op |-> "delete", key |-> k]
      BY <1>9, <3>1, <3>2
    <3> QED  BY <3>2, <3>3 DEF Asked, now
  <2> QED  BY <1>5, <1>12, <1>14, <2>1 DEF Owned
<1>15. ASSUME NEW x \in Sources, NEW j \in 1..Len(t.dev.inbox[x])
       PROVE  LET r == t.dev.inbox[x][j] IN
              /\ r.stored = "persisted" => KeyOf(x, r) \in now.disk
              /\ r.stored # "none" => Reads(now, KeyOf(x, r)) \/ KeyOf(x, r) \in t.past.earlier
  <2>1. \A k : Reads(files, k) => Reads(now, k)
    BY <1>9 DEF Reads
  <2>2. CASE x = src /\ j = i
    <3>1. t.dev.inbox[x][j].stored = "saving" /\ KeyOf(x, t.dev.inbox[x][j]) = key
      BY <1>3, <1>6, <1>8, <2>2 DEF KeyOf
    <3> QED  BY <3>1, <1>9 DEF Reads
  <2>3. CASE ~(x = src /\ j = i)
    <3>1. t.dev.inbox[x][j] = s.dev.inbox[x][j] /\ j \in 1..Len(s.dev.inbox[x])
      BY <1>6, <1>8, <2>3, Zenon
    <3> QED  BY <1>5, <1>9, <1>11, <2>1, <3>1, Zenon
  <2> QED  BY <2>2, <2>3
<1>16. ASSUME NEW k \in now.disk \cup now.mem PROVE Owned(t, k, 1)
  <2>1. CASE k = key
    BY <1>13, <2>1 DEF Owned
  <2>2. CASE k # key
    <3>1. k \in files.disk \cup files.mem /\ k \in Keys
      BY <1>9, <1>10, <2>2
    <3> QED  BY <1>11, <1>14, <3>1
  <2> QED  BY <2>1, <2>2
<1>17. ASSUME NEW j \in 1..Len(now.work)
       PROVE  LET w == now.work[j] IN
              /\ w.op = "delete" => now.opens /\ w.key \notin now.mem /\ ~RecordKey(t, w.key)
              /\ w.op = "put" => Owned(t, w.key, j + 1) /\ (RecordKey(t, w.key) => StoredKey(t, w.key))
              /\ w.key[2] < Len(t.past.arrived[w.key[1]])
  <2>1. CASE j = Len(files.work) + 1
    <3>1. now.work[j].op = "put" /\ now.work[j].key = key
      BY <1>9, <2>1
    <3>2. key[2] < Len(t.past.arrived[key[1]])
      BY <1>3, <1>4, <1>5
    <3> QED  BY <1>13, <3>1, <3>2 DEF Owned
  <2>2. CASE j # Len(files.work) + 1
    <3>1. j \in 1..Len(files.work) /\ j + 1 \in Nat /\ j + 1 >= 1
      BY <1>9, <1>10, <2>2
    <3> DEFINE w == files.work[j]
    <3>2. now.work[j] = w /\ w.key \in Keys
      BY <1>9, <1>10, <3>1
    <3>3. w.key[2] < Len(t.past.arrived[w.key[1]])
      BY <1>5, <1>11, <3>1, Zenon
    <3>4. w.op = "delete" => now.opens /\ w.key \notin now.mem /\ ~RecordKey(t, w.key)
      BY <1>9, <1>11, <1>12, <1>13, <3>1, <3>2
    <3>5. w.op = "put" => Owned(t, w.key, j + 1) /\ (RecordKey(t, w.key) => StoredKey(t, w.key))
      BY <1>11, <1>12, <1>14, <3>1, <3>2
    <3> HIDE DEF w
    <3> QED  BY <3>2, <3>3, <3>4, <3>5
  <2> QED  BY <2>1, <2>2
<1>18. \A k \in now.disk \cup now.mem : k[2] < Len(t.past.arrived[k[1]])
  BY <1>3, <1>4, <1>5, <1>9, <1>11, Zenon
<1>19. FilesSound(t)
  <2>1. \A k \in now.disk \cup now.mem \cup {now.work[j].key : j \in 1..Len(now.work)} :
          k[2] < Len(t.past.arrived[k[1]])
    BY <1>17, <1>18, Zenon
  <2> QED  BY <1>15, <1>16, <1>17, <2>1, Zenon DEF FilesSound, now
<1> QED  BY <1>6, <1>7, <1>9, <1>19 DEF now

\* _keepAttachments.
KeepsIn(s, m, t) ==
  LET src == Source(m)
      box == s.dev.inbox[src]
      i == CHOOSE j \in DOMAIN box : \A k \in DOMAIN box : box[k].arrival <= box[j].arrival
  IN /\ Form(t) /\ SameRead(s, t)
     /\ t.dev.seen = s.dev.seen /\ t.dev.slot = s.dev.slot
     /\ t.dev.inbox = [s.dev.inbox EXCEPT ![src] =
          [s.dev.inbox[src] EXCEPT ![i] = [s.dev.inbox[src][i] EXCEPT !.stored = "saving"]]]
     /\ t.page.files = Put(s.page.files, KeyOf(src, s.dev.inbox[src][i]))
     /\ t.past.forgot = s.past.forgot /\ t.past.arrived = s.past.arrived
     /\ t.past.offered = s.past.offered /\ t.past.reacted = s.past.reacted
     /\ t.past.earlier = s.past.earlier /\ t.past.left = s.past.left

\* What _keepAttachments changes.
LEMMA KeptIs ==
  ASSUME NEW s, Form(s), NEW m, Mail(m).file
  PROVE  KeepsIn(s, m, KeepAttachments(s, m))
<1> DEFINE src == Source(m)
           box == s.dev.inbox[src]
           i == CHOOSE j \in DOMAIN box : \A k \in DOMAIN box : box[k].arrival <= box[j].arrival
           n == [s.dev.inbox EXCEPT ![src] = [box EXCEPT ![i] = [box[i] EXCEPT !.stored = "saving"]]]
           u == [s EXCEPT !.dev.inbox = n]
           f == Put(s.page.files, KeyOf(src, box[i]))
           t == [u EXCEPT !.page.files = f]
           y == KeepAttachments(s, m)
<1> HIDE DEF src
<1>1. y = IF ~Mail(m).file THEN s
          ELSE [s EXCEPT !.dev.inbox[src][i].stored = "saving", !.page.files = Put(@, KeyOf(src, box[i]))]
  BY Zenon DEF KeepAttachments, src
<1> HIDE DEF y, i
<1>2. y = [s EXCEPT !.dev.inbox[src][i].stored = "saving", !.page.files = Put(@, KeyOf(src, box[i]))]
  BY <1>1
<1>3. y = [s EXCEPT !.dev.inbox = n, !.page.files = f]
  BY <1>2, Zenon
<1> HIDE DEF n, f
<1>4. y = t
  BY <1>3, Zenon
<1>5. /\ Form(u) /\ u.page = s.page /\ u.past = s.past /\ u.dev.inbox = n
      /\ u.dev.held = s.dev.held /\ u.dev.seen = s.dev.seen /\ u.dev.slot = s.dev.slot
      /\ u.dev.rows = s.dev.rows /\ u.dev.knows = s.dev.knows /\ u.dev.allows = s.dev.allows
      /\ u.dev.ratchets = s.dev.ratchets
  BY InboxIs
<1> HIDE DEF u
<1>6. /\ Form(t) /\ t.dev = u.dev /\ t.past = u.past /\ t.page.files = f
      /\ t.page.scans = u.page.scans /\ t.page.tasks = u.page.tasks /\ t.page.get = u.page.get
      /\ t.page.ratchets = u.page.ratchets /\ t.page.rotated = u.page.rotated
  <2>1. Form(u)
    BY <1>5
  <2> QED  BY <2>1, FilesAre, Zenon
<1> HIDE DEF t
<1>7. SameRead(s, y)
  BY <1>4, <1>5, <1>6 DEF SameRead
<1>8. /\ Form(y) /\ y.dev.seen = s.dev.seen /\ y.dev.slot = s.dev.slot
      /\ y.dev.inbox = n /\ y.page.files = f
      /\ y.past.forgot = s.past.forgot /\ y.past.arrived = s.past.arrived
      /\ y.past.offered = s.past.offered /\ y.past.reacted = s.past.reacted
      /\ y.past.earlier = s.past.earlier /\ y.past.left = s.past.left
  BY <1>4, <1>5, <1>6
<1>9. KeepsIn(s, m, y)
  <2> USE DEF KeepsIn
  <2> QED  BY <1>7, <1>8, Zenon DEF n, f, i, src
<1> QED  BY <1>9 DEF y

\* It keeps a state sound.
LEMMA KeepKeeps ==
  ASSUME WorldOK, NEW s, NEW X, NEW m \in Msgs, Good(s, X), m \in ToSet(s.past.arrived[Source(m)])
  PROVE  LET t == KeepAttachments(s, m) IN
         Good(t, X) /\ Forward(s, t) /\ t.past.arrived = s.past.arrived
<1> DEFINE src == Source(m)
           box == s.dev.inbox[src]
           all == s.past.arrived[src]
           i == CHOOSE j \in DOMAIN box : \A k \in DOMAIN box : box[k].arrival <= box[j].arrival
           t == KeepAttachments(s, m)
<1>1. src \in Sources
  BY MailIs
<1>2. Form(s) /\ KeptTyped(s) /\ FilesSound(s) /\ Window(s, src)
  BY <1>1 DEF Good, KeptSound, Boxes
<1>3. /\ box \in Seq(Recs) /\ all \in Seq(Msgs) /\ Len(box) \in Nat /\ Len(all) \in Nat
      /\ DOMAIN box = 1..Len(box)
  BY <1>1, <1>2 DEF KeptTyped
<1>4. Len(all) > 0
  <2>1. all # <<>>
    <3>1. \E j \in 1..Len(all) : all[j] = m
      BY <1>3, InSeq
    <3> HIDE DEF all
    <3> QED  BY <3>1, <1>3
  <2> HIDE DEF all
  <2> QED  BY <2>1, <1>3
<1>5. Len(box) > 0
  <2>1. Len(box) < KeepLimit => Len(box) = Len(all)
    BY <1>2 DEF Window, Full
  <2> HIDE DEF box, all
  <2> QED  BY <2>1, <1>3, <1>4, LimitsAre
<1>6. i \in 1..Len(box)
  <2>1. \A j \in 1..Len(box) : box[j].arrival \in Len(all) - Len(box) .. Len(all) - 1
    BY <1>2, Zenon DEF Window, Numbered
  <2>2. \A a \in Len(all) - Len(box) .. Len(all) - 1 : \E j \in 1..Len(box) : box[j].arrival = a
    BY <1>2 DEF Window, Numbered
  <2>3. Len(all) - 1 \in Len(all) - Len(box) .. Len(all) - 1
    <3> HIDE DEF box, all
    <3> QED  BY <1>3, <1>5
  <2>4. PICK j \in 1..Len(box) : box[j].arrival = Len(all) - 1
    BY <2>2, <2>3, Zenon
  <2>5. \A k \in 1..Len(box) : box[k].arrival <= box[j].arrival
    <3> HIDE DEF box, all
    <3> QED  BY <2>1, <2>4, <1>3
  <2> HIDE DEF box
  <2> QED  BY <2>5, <1>3
<1> HIDE DEF t, i
<1>7. CASE Mail(m).file
  <2> DEFINE new == [box EXCEPT ![i] = [box[i] EXCEPT !.stored = "saving"]]
  <2>1. KeepsIn(s, m, t)
    BY <1>2, <1>7, KeptIs DEF t
  <2> HIDE DEF new
  <2>2. /\ Form(t) /\ SameRead(s, t)
        /\ t.dev.seen = s.dev.seen /\ t.dev.slot = s.dev.slot
        /\ t.dev.inbox = [s.dev.inbox EXCEPT ![src] = new]
        /\ t.page.files = Put(s.page.files, KeyOf(src, box[i]))
        /\ t.past.forgot = s.past.forgot /\ t.past.arrived = s.past.arrived
        /\ t.past.offered = s.past.offered /\ t.past.reacted = s.past.reacted
        /\ t.past.earlier = s.past.earlier /\ t.past.left = s.past.left
    BY <2>1, Zenon DEF KeepsIn, i, new
  <2>3. PutsFile(s, t, src, i, new)
    BY <1>1, <1>2, <1>6, <2>2 DEF PutsFile, new
  <2>4. /\ FilesSound(t) /\ t.page.files \in Files /\ new \in Seq(Recs) /\ Alike(box, new)
        /\ \A j \in 1..Len(new) : new[j].chip = box[j].chip
    BY <2>3, PutFiles
  <2>5. s.past.left \subseteq Keys
    BY <1>2 DEF KeptTyped
  <2>6. Restores(s, t, src, new)
    BY <1>1, <2>2, <2>4, <2>5 DEF Restores
  <2>7. Good(t, X) /\ Forward(s, t)
    BY <2>4, <2>6, RestoreKeeps
  <2> QED  BY <2>2, <2>7 DEF t
<1>8. CASE ~Mail(m).file
  <2>1. t = s
    BY <1>8, Zenon DEF t, KeepAttachments
  <2> QED  BY <2>1, ForwardNone DEF t
<1> QED  BY <1>7, <1>8

\* connect()'s message handler keeps what is not a duplicate, or takes its reaction.
LEMMA OnMessageKeeps ==
  ASSUME WorldOK, NEW u, NEW k \in Tasks, Good(u, {k.m}), KeptSound(u, {}), SigGood(u, k)
  PROVE  LET v == OnMessage(u, k) IN
         Good(v, {}) /\ Forward(u, v) /\ \A c \in Copies : Done(u, {k.m}, c) => Done(v, {}, c)
<1> DEFINE m == k.m
           v == OnMessage(u, k)
<1>1. m \in Msgs /\ Source(m) \in Sources
  BY MailIs DEF Tasks
<1>2. CASE Seen(u.dev.seen, m)
  <2>1. v = u
    BY <1>2, Zenon DEF OnMessage
  <2>2. Arrives(u, {})
    BY DEF KeptSound
  <2>3. Mail(m).kind = "text" => Accounted(u, {}, m)
    BY <1>2, <2>2 DEF Arrives, Accounted, Seen
  <2> QED  BY <1>1, <2>1, <2>2, <2>3, Settle, ForwardNone
<1>3. CASE ~Seen(u.dev.seen, m)
  <2> DEFINE c == Check(u, m)
             n == AcceptMessageName(c, k)
  <2>1. v = Process(c, k)
    BY <1>3, Zenon DEF OnMessage
  <2> HIDE DEF v
  <2>2. /\ Good(c, {m}) /\ Forward(u, c) /\ Fresh(c, m)
        /\ c.page = u.page /\ c.dev.knows = u.dev.knows /\ c.past.offered = u.past.offered
    BY <1>1, <1>3, CheckKeeps
  <2>3. Checked(c, m)
    <3>1. Form(u) /\ u.dev.seen \in Seq(Msgs)
      BY DEF Good, KeptSound, KeptTyped
    <3>2. c.dev.seen = Record(u.dev.seen, m, SeenLimit)
      BY <3>1, CheckIs
    <3>3. m \in ToSet(Record(u.dev.seen, m, SeenLimit))
      BY <1>1, <3>1, Recording, LimitsAre
    <3> QED  BY <3>2, <3>3 DEF Checked
  <2> HIDE DEF c
  <2>4. SigGood(c, k)
    BY <2>2 DEF SigGood
  <2>5. /\ Good(n, {m}) /\ Forward(c, n) /\ n.dev.inbox = c.dev.inbox /\ n.past.reacted = c.past.reacted
        /\ n.past.forgot = c.past.forgot /\ n.dev.seen = c.dev.seen
    BY <2>2, <2>4, NameKeeps
  <2> HIDE DEF n
  <2>6. CASE Mail(m).kind = "react"
    <3>1. v = TakeReaction(n, m)
      BY <2>1, <2>6, Zenon DEF Process, n
    <3>2. Good(v, {m}) /\ Forward(n, v)
      BY <1>1, <2>5, <3>1, ReactKeeps
    <3>3. Forward(u, v)
      BY <2>2, <2>5, <3>2, ForwardTwice
    <3>4. Arrives(v, {})
      <4>1. Arrives(v, {m})
        BY <3>2 DEF Good, KeptSound
      <4> QED  BY <4>1, <2>6 DEF Arrives
    <3>5. Good(v, {}) /\ \A x : Done(v, {m}, x) => Done(v, {}, x)
      BY <1>1, <2>6, <3>2, <3>4, Settle
    <3> QED  BY <3>3, <3>5, OnwardDone DEF v
  <2>7. CASE Mail(m).kind # "react"
    <3> DEFINE r == [n EXCEPT !.dev.rows = @ \cup {Source(m)}]
               w == IF Source(m) \in c.dev.rows THEN r ELSE AcceptMessageName(r, k)
               a == Add(w, m)
    <3>1. v = KeepAttachments(a, m)
      BY <2>1, <2>7, Zenon DEF Process, n
    <3>2. /\ Good(r, {m}) /\ Forward(n, r) /\ r.page = n.page /\ r.past = n.past
          /\ r.dev.knows = n.dev.knows /\ r.dev.inbox = n.dev.inbox /\ r.dev.seen = n.dev.seen
      BY <2>5, RowsKeep, Zenon
    <3> HIDE DEF r
    <3>3. /\ Good(w, {m}) /\ Forward(r, w) /\ w.dev.inbox = n.dev.inbox /\ w.past.reacted = n.past.reacted
          /\ w.past.forgot = n.past.forgot /\ w.dev.seen = n.dev.seen
      <4>1. CASE Source(m) \in c.dev.rows
        BY <3>2, <4>1, ForwardNone
      <4>2. CASE Source(m) \notin c.dev.rows
        <5>1. n = c
          BY <4>2 DEF n, AcceptMessageName
        <5>2. SigGood(r, k)
          BY <2>4, <3>2, <5>1 DEF SigGood
        <5>3. w = AcceptMessageName(r, k)
          BY <4>2
        <5> HIDE DEF w
        <5>4. /\ Good(w, {m}) /\ Forward(r, w) /\ w.dev.inbox = r.dev.inbox /\ w.past.reacted = r.past.reacted
              /\ w.past.forgot = r.past.forgot /\ w.dev.seen = r.dev.seen
          BY <3>2, <5>2, <5>3, NameKeeps
        <5> QED  BY <3>2, <5>4
      <4> QED  BY <4>1, <4>2
    <3> HIDE DEF w
    <3>4. Fresh(w, m) /\ Checked(w, m)
      BY <2>2, <2>3, <2>5, <3>3 DEF Fresh, Checked
    <3>5. Good(a, {m}) /\ Forward(w, a) /\ m \in ToSet(a.past.arrived[Source(m)])
      BY <1>1, <3>3, <3>4, AddKeeps
    <3> HIDE DEF a
    <3>6. Good(v, {m}) /\ Forward(a, v) /\ m \in ToSet(v.past.arrived[Source(m)])
      BY <1>1, <3>1, <3>5, KeepKeeps
    <3>7. Forward(u, v)
      <4>1. Forward(u, n)
        BY <2>2, <2>5, ForwardTwice
      <4>2. Forward(u, w)
        BY <3>2, <3>3, <4>1, ForwardTwice
      <4>3. Forward(u, a)
        BY <3>5, <4>2, ForwardTwice
      <4> QED  BY <3>6, <4>3, ForwardTwice
    <3>8. Arrives(v, {}) /\ Accounted(v, {}, m)
      <4>1. Arrives(v, {m})
        BY <3>6 DEF Good, KeptSound
      <4> QED  BY <4>1, <3>6 DEF Arrives, Accounted
    <3>9. Good(v, {}) /\ \A x : Done(v, {m}, x) => Done(v, {}, x)
      BY <1>1, <3>6, <3>8, Settle
    <3> QED  BY <3>7, <3>9, OnwardDone DEF v
  <2> QED  BY <2>6, <2>7
<1> QED  BY <1>2, <1>3

\* A step of the device's: what was accounted for stays so.
Steps(s, t) ==
  /\ Good(t, {}) /\ t.past.stored = s.past.stored /\ t.past.made = s.past.made
  /\ \A c \in Copies : Done(s, {}, c) => Done(t, {}, c)

TaskRun(s) ==
  LET t == Head(s.page.tasks)
      u == [s EXCEPT !.page.tasks = Tail(@)]
  IN CASE t.what = "packet" -> OnPacket(u, t.m)
       [] t.what \in {"link", "resource"} -> OnLinkPayload(u, t)
       [] t.what = "message" -> OnMessage(u, t)

\* Whichever task runs next, nothing is lost.
LEMMA TaskRunKeeps ==
  ASSUME WorldOK, NEW s, Good(s, {}), s.page.tasks # <<>>
  PROVE  Steps(s, TaskRun(s))
<1> DEFINE t == Head(s.page.tasks)
           u == [s EXCEPT !.page.tasks = Tail(@)]
           v == TaskRun(s)
<1>1. /\ t \in Tasks /\ Good(u, {t.m}) /\ KeptSound(u, {}) /\ SigGood(u, t)
      /\ u.dev = s.dev /\ u.past = s.past
      /\ \A c \in Copies : Done(s, {}, c) => Done(u, {t.m}, c)
  BY HeadGone, Zenon
<1>2. v = CASE t.what = "packet" -> OnPacket(u, t.m)
            [] t.what \in {"link", "resource"} -> OnLinkPayload(u, t)
            [] t.what = "message" -> OnMessage(u, t)
  BY Zenon DEF TaskRun
<1> HIDE DEF t, u, v
<1>3. t.what \in {"packet", "link", "resource", "message"} /\ t.m \in Msgs
  BY <1>1 DEF Tasks
<1>4. Good(v, {}) /\ Forward(u, v) /\ \A c \in Copies : Done(u, {t.m}, c) => Done(v, {}, c)
  <2>1. CASE t.what = "packet"
    <3>1. v = OnPacket(u, t.m)
      BY <2>1, <1>2
    <3> QED  BY <3>1, <1>1, <1>3, OnPacketKeeps, Zenon
  <2>2. CASE t.what \in {"link", "resource"}
    <3>1. v = OnLinkPayload(u, t)
      BY <2>2, <1>2
    <3> QED  BY <3>1, <1>1, OnLinkPayloadKeeps, Zenon
  <2>3. CASE t.what = "message"
    <3>1. v = OnMessage(u, t)
      BY <2>3, <1>2
    <3> QED  BY <3>1, <1>1, OnMessageKeeps, Zenon
  <2> QED  BY <1>3, <2>1, <2>2, <2>3, Zenon
<1>5. v.past.stored = s.past.stored /\ v.past.made = s.past.made
  BY <1>1, <1>4 DEF Forward
<1> QED  BY <1>1, <1>4, <1>5, Zenon DEF Steps, v

\* A step forward is a step.
LEMMA ForwardSteps ==
  ASSUME NEW s, NEW t, Good(t, {}), Forward(s, t)
  PROVE  Steps(s, t)
BY OnwardDone DEF Steps, Forward

\* A step of what is read and kept carries the rest along.
LEMMA StepsOn ==
  ASSUME NEW s, NEW t, NEW n, Good(s, {}), Steps(s, t), NetKeysMade(s, n), NodeDone(s, {}, n.node)
  PROVE  NetKeysMade(t, n) /\ NodeDone(t, {}, n.node)
<1>1. s.past.stored \subseteq Copies
  BY DEF Good, KeptSound, KeyTyped
<1> QED  BY <1>1 DEF Steps, NetKeysMade, NodeDone

-----------------------------------------------------------------------------
(* IndexedDB answers.                                                        *)
FileAnswers(s, ok) ==
  LET w == Head(s.page.files.work)
      u == [s EXCEPT !.page.files = Lands(@, ok)]
  IN IF w.op = "put" THEN Saved(u, w.key, Answered(s.page.files, ok))
     ELSE IF ok THEN u ELSE [u EXCEPT !.past.left = @ \cup {w.key}]

Landed(f, d, w, ok) ==
  /\ d \in Files /\ d.opens = f.opens
  /\ d.disk = IF f.opens /\ ok THEN (IF w.op = "put" THEN f.disk \cup {w.key} ELSE f.disk \ {w.key}) ELSE f.disk
  /\ d.mem = IF f.opens /\ ok /\ w.op = "put" THEN f.mem \ {w.key} ELSE f.mem
  /\ Len(d.work) = Len(f.work) - 1 /\ \A i \in 1..Len(d.work) : d.work[i] = f.work[i + 1]

\* What the store does of the first thing it was asked.
LEMMA LandsIs ==
  ASSUME NEW f \in Files, f.work # <<>>, NEW ok \in BOOLEAN
  PROVE  /\ Len(f.work) > 0 /\ Head(f.work) = f.work[1] /\ Head(f.work) \in Works
         /\ Landed(f, Lands(f, ok), Head(f.work), ok)
<1> DEFINE w == Head(f.work)
           q == Tail(f.work)
           d == Lands(f, ok)
           disk == IF f.opens /\ ok THEN (IF w.op = "put" THEN f.disk \cup {w.key} ELSE f.disk \ {w.key}) ELSE f.disk
           mem == IF f.opens /\ ok /\ w.op = "put" THEN f.mem \ {w.key} ELSE f.mem
<1>1. /\ f.opens \in BOOLEAN /\ f.disk \in SUBSET Keys /\ f.mem \in SUBSET Keys /\ f.work \in Seq(Works)
      /\ Len(f.work) \in Nat
      /\ f = [opens |-> f.opens, disk |-> f.disk, mem |-> f.mem, work |-> f.work]
  BY FilesParts
<1>2. /\ Len(f.work) > 0 /\ w = f.work[1] /\ w \in Works /\ q \in Seq(Works) /\ Len(q) = Len(f.work) - 1
      /\ \A i \in 1..Len(q) : q[i] = f.work[i + 1]
  BY <1>1
<1>3. w.key \in Keys
  BY <1>2 DEF Works
<1>4. d = [f EXCEPT !.mem = mem, !.work = q, !.disk = disk]
  <2>1. d = [f EXCEPT !.work = q, !.disk = IF f.opens /\ ok THEN Applied(@, w) ELSE @,
                      !.mem = IF (f.opens /\ ok) /\ w.op = "put" THEN @ \ {w.key} ELSE @]
    BY Zenon DEF Lands
  <2> HIDE DEF w, q, d
  <2> QED  BY <2>1, <1>1, Zenon DEF Applied
<1> HIDE DEF w, q, d
<1>5. disk \in SUBSET Keys /\ mem \in SUBSET Keys
  BY <1>1, <1>3
<1> DEFINE x == disk
           y == mem
<1> HIDE DEF x, y
<1>6. d.opens = f.opens /\ d.disk = x /\ d.mem = y /\ d.work = q /\ d \in Files
  <2>1. d = [f EXCEPT !.mem = y, !.work = q, !.disk = x] /\ x \in SUBSET Keys /\ y \in SUBSET Keys
    BY <1>4, <1>5 DEF x, y
  <2> HIDE DEF disk, mem
  <2> QED  BY <2>1, <1>1, <1>2, Zenon DEF Files
<1>7. Landed(f, d, w, ok)
  BY <1>2, <1>6 DEF Landed, x, y
<1> QED  BY <1>2, <1>7 DEF w, d

FileAnswered(s, t, w, ok, new) ==
  LET box == s.dev.inbox[w.key[1]] IN
  /\ KeptTyped(s) /\ FilesSound(s)
  /\ s.page.files.work # <<>> /\ w = Head(s.page.files.work)
  /\ ok \in BOOLEAN /\ (ok \/ s.page.files.opens)
  /\ Len(new) = Len(box)
  /\ \A j \in 1..Len(box) : new[j] =
       IF w.op = "put" /\ box[j].arrival = w.key[2]
       THEN [box[j] EXCEPT !.stored = Answered(s.page.files, ok)] ELSE box[j]
  /\ t.dev.inbox = [s.dev.inbox EXCEPT ![w.key[1]] = new]
  /\ t.page.files = Lands(s.page.files, ok)
  /\ t.past.arrived = s.past.arrived /\ t.past.earlier = s.past.earlier
  /\ t.past.left = IF w.op = "put" \/ ok THEN s.past.left ELSE s.past.left \cup {w.key}

\* A write's answer leaves bytes where its record says they are.
LEMMA AnsweredFiles ==
  ASSUME NEW s, NEW t, NEW w, NEW ok, NEW new, FileAnswered(s, t, w, ok, new)
  PROVE  /\ FilesSound(t) /\ t.page.files \in Files /\ t.past.left \subseteq Keys
         /\ w \in Works
<1> DEFINE files == s.page.files
           now == t.page.files
           key == w.key
           src == w.key[1]
           box == s.dev.inbox[src]
<1>1. /\ files \in Files /\ files.work # <<>> /\ w = Head(files.work)
      /\ ok \in BOOLEAN /\ (ok \/ files.opens)
      /\ now = Lands(files, ok) /\ t.past.arrived = s.past.arrived /\ t.past.earlier = s.past.earlier
      /\ t.past.left = IF w.op = "put" \/ ok THEN s.past.left ELSE s.past.left \cup {key}
      /\ s.dev.inbox \in [Sources -> Seq(Recs)] /\ s.past.left \subseteq Keys
      /\ t.dev.inbox = [s.dev.inbox EXCEPT ![src] = new]
  BY Zenon DEF FileAnswered, KeptTyped
<1>2. /\ Len(new) = Len(box)
      /\ \A j \in 1..Len(box) : new[j] =
           IF w.op = "put" /\ box[j].arrival = key[2] THEN [box[j] EXCEPT !.stored = Answered(files, ok)] ELSE box[j]
  BY Zenon DEF FileAnswered
<1> HIDE DEF files, now, key, src, box
<1>3. /\ Len(files.work) > 0 /\ w = files.work[1] /\ w \in Works /\ Landed(files, now, w, ok)
      /\ Len(files.work) \in Nat
      /\ \A j \in 1..Len(files.work) : files.work[j].key \in Keys /\ files.work[j].op \in {"put", "delete"}
      /\ files.disk \subseteq Keys /\ files.mem \subseteq Keys /\ files.opens \in BOOLEAN
  <2>1. Len(files.work) > 0 /\ w = files.work[1] /\ w \in Works /\ Landed(files, now, w, ok)
    BY <1>1, LandsIs
  <2> QED  BY <1>1, <2>1, FilesParts, Zenon
<1>4. /\ key \in Keys /\ w.op \in {"put", "delete"} /\ src = key[1] /\ src \in Sources /\ key[2] \in Nat
      /\ key = <<src, key[2]>> /\ w.key = key
  <2>1. key \in Keys /\ w.op \in {"put", "delete"} /\ src = key[1]
    BY <1>3 DEF Works, key, src
  <2> QED  BY <2>1 DEF Keys, key
<1>5. t.dev.inbox[src] = new /\ \A x \in Sources : x # src => t.dev.inbox[x] = s.dev.inbox[x]
  BY <1>1, <1>4
<1>6. box \in Seq(Recs) /\ Len(box) \in Nat /\ \A j \in 1..Len(box) : box[j] \in Recs
  <2>1. box \in Seq(Recs)
    BY <1>1, <1>4 DEF box
  <2> QED  BY <2>1
<1>7. \A j \in 1..Len(box) : new[j].arrival = box[j].arrival /\ new[j].stored =
        IF w.op = "put" /\ box[j].arrival = key[2] THEN Answered(files, ok) ELSE box[j].stored
  BY <1>2, <1>6, Zenon DEF Recs
<1>8. Answered(files, ok) \in {"session", "persisted", "failed"}
  BY DEF Answered
<1>9. ASSUME NEW k \in Keys PROVE (StoredKey(s, k) => StoredKey(t, k)) /\ (RecordKey(t, k) <=> RecordKey(s, k))
  <2>1. CASE k[1] # src
    BY <1>5, <2>1, Zenon DEF StoredKey, RecordKey, Keys
  <2>2. CASE k[1] = src
    <3>1. StoredKey(s, k) => StoredKey(t, k)
      BY <1>2, <1>5, <1>7, <1>8, <2>2 DEF StoredKey, box
    <3>2. RecordKey(t, k) <=> RecordKey(s, k)
      BY <1>2, <1>5, <1>7, <2>2 DEF RecordKey, box
    <3> QED  BY <3>1, <3>2
  <2> QED  BY <2>1, <2>2
<1>10. /\ \A x \in Sources : \A j \in 1..Len(s.dev.inbox[x]) :
            LET r == s.dev.inbox[x][j] IN
            /\ r.stored = "persisted" => KeyOf(x, r) \in files.disk
            /\ r.stored # "none" => Reads(files, KeyOf(x, r)) \/ KeyOf(x, r) \in s.past.earlier
       /\ \A k \in files.disk \cup files.mem : Owned(s, k, 1)
       /\ \A j \in 1..Len(files.work) :
            LET y == files.work[j] IN
            /\ y.op = "delete" => files.opens /\ y.key \notin files.mem /\ ~RecordKey(s, y.key)
            /\ y.op = "put" => Owned(s, y.key, j + 1) /\ (RecordKey(s, y.key) => StoredKey(s, y.key))
       /\ \A k \in files.disk \cup files.mem \cup {files.work[j].key : j \in 1..Len(files.work)} :
            k[2] < Len(s.past.arrived[k[1]])
  BY Zenon DEF FileAnswered, FilesSound, files
<1>11. /\ now \in Files /\ now.opens = files.opens
       /\ now.disk = IF files.opens /\ ok THEN (IF w.op = "put" THEN files.disk \cup {key} ELSE files.disk \ {key})
                     ELSE files.disk
       /\ now.mem = IF files.opens /\ ok /\ w.op = "put" THEN files.mem \ {key} ELSE files.mem
       /\ Len(now.work) = Len(files.work) - 1 /\ \A j \in 1..Len(now.work) : now.work[j] = files.work[j + 1]
  BY <1>3, <1>4 DEF Landed
<1>12. t.past.left \subseteq Keys /\ s.past.left \subseteq t.past.left
  BY <1>1, <1>4
<1>13. /\ w.op = "delete" => files.opens /\ key \notin files.mem /\ ~RecordKey(s, key)
       /\ w.op = "put" => Owned(s, key, 2) /\ (RecordKey(s, key) => StoredKey(s, key))
  BY <1>3, <1>4, <1>10
\* What was asked at n is asked at n - 1 now, but for the one answered.
<1>14. ASSUME NEW k \in Keys, NEW n \in Nat, n >= 1, Owned(s, k, n + 1) PROVE Owned(t, k, n)
  <2>1. ASSUME Asked(s, "delete", k, n + 1) PROVE Asked(t, "delete", k, n)
    <3>1. PICK j \in n + 1..Len(files.work) : files.work[j] = [op |-> "delete", key |-> k]
      BY <2>1 DEF Asked, files
    <3>2. j - 1 \in n..Len(now.work) /\ j - 1 \in 1..Len(now.work) /\ (j - 1) + 1 = j
      BY <1>3, <1>11, <1>14, <3>1
    <3>3. now.work[j - 1] = [op |-> "delete", key |-> k]
      BY <1>11, <3>1, <3>2
    <3> QED  BY <3>2, <3>3 DEF Asked, now
  <2> QED  BY <1>9, <1>12, <1>14, <2>1 DEF Owned
<1>15. ASSUME NEW k \in Keys, Owned(s, k, 1) PROVE Owned(t, k, 1) \/ (w.op = "delete" /\ k = key /\ ok)
  <2>1. ASSUME Asked(s, "delete", k, 1) PROVE Owned(s, k, 1 + 1) \/ (w.op = "delete" /\ k = key)
    <3>1. PICK j \in 1..Len(files.work) : files.work[j] = [op |-> "delete", key |-> k]
      BY <2>1 DEF Asked, files
    <3>2. CASE j = 1
      BY <3>1, <3>2, <1>3, <1>4
    <3>3. CASE j # 1
      <4>1. j \in 1 + 1..Len(files.work)
        BY <3>1, <3>3, <1>3
      <4> QED  BY <4>1, <3>1 DEF Owned, Asked, files
    <3> QED  BY <3>2, <3>3
  <2>2. Owned(s, k, 1 + 1) \/ (w.op = "delete" /\ k = key)
    BY <2>1, <1>15 DEF Owned
  <2>3. ASSUME w.op = "delete", k = key, ~ok PROVE Owned(t, k, 1)
    BY <2>3, <1>1 DEF Owned
  <2> QED  BY <1>14, <2>2, <2>3
<1>16. ASSUME NEW k \in now.disk \cup now.mem PROVE Owned(t, k, 1)
  <2>1. CASE w.op = "put" /\ k = key
    BY <1>4, <1>13, <1>14, <2>1
  <2>2. CASE ~(w.op = "put" /\ k = key)
    <3>1. k \in files.disk \cup files.mem /\ k \in Keys
      BY <1>3, <1>4, <1>11, <2>2
    <3>2. ~(w.op = "delete" /\ k = key /\ ok)
      BY <1>3, <1>11, <1>13
    <3> QED  BY <1>10, <1>15, <3>1, <3>2
  <2> QED  BY <2>1, <2>2
<1>17. ASSUME NEW k \in Keys, Reads(files, k) PROVE Reads(now, k) \/ (w.op = "delete" /\ k = key)
  BY <1>4, <1>11, <1>17 DEF Reads
<1>18. ASSUME NEW x \in Sources, NEW j \in 1..Len(t.dev.inbox[x])
       PROVE  LET r == t.dev.inbox[x][j] IN
              /\ r.stored = "persisted" => KeyOf(x, r) \in now.disk
              /\ r.stored # "none" => Reads(now, KeyOf(x, r)) \/ KeyOf(x, r) \in t.past.earlier
  <2> DEFINE r == t.dev.inbox[x][j]
             o == s.dev.inbox[x][j]
             k == KeyOf(x, r)
  <2>1. j \in 1..Len(s.dev.inbox[x]) /\ r.arrival = o.arrival
    <3>1. CASE x = src
      BY <3>1, <1>2, <1>5, <1>7 DEF box
    <3>2. CASE x # src
      BY <3>2, <1>5
    <3> QED  BY <3>1, <3>2
  <2>2. k = KeyOf(x, o) /\ k = <<x, o.arrival>>
    BY <2>1 DEF KeyOf
  <2>3. o.arrival \in Nat
    <3>1. s.dev.inbox[x] \in Seq(Recs)
      BY <1>1
    <3>2. o \in Recs
      BY <2>1, <3>1
    <3> HIDE DEF o
    <3> QED  BY <3>2, RecordParts
  <2>4. k \in Keys
    BY <2>2, <2>3 DEF Keys
  <2>5. RecordKey(s, k)
    BY <2>1, <2>2 DEF RecordKey
  <2>6. /\ o.stored = "persisted" => k \in files.disk
        /\ o.stored # "none" => Reads(files, k) \/ k \in s.past.earlier
    BY <1>10, <2>1, <2>2, Zenon
  <2>7. CASE w.op = "put" /\ k = key
    <3>1. x = src /\ o.arrival = key[2]
      BY <1>4, <2>2, <2>7
    <3>2. r.stored = Answered(files, ok)
      BY <3>1, <1>2, <1>5, <1>7, <2>1, <2>7 DEF box
    <3>3. StoredKey(s, key)
      BY <1>13, <2>5, <2>7
    <3>4. Reads(files, k) \/ k \in s.past.earlier
      <4>1. PICK i \in 1..Len(s.dev.inbox[x]) : s.dev.inbox[x][i].arrival = key[2] /\ s.dev.inbox[x][i].stored # "none"
        BY <3>3, <3>1, <1>4 DEF StoredKey
      <4>2. KeyOf(x, s.dev.inbox[x][i]) = k
        BY <4>1, <3>1, <2>2 DEF KeyOf
      <4> QED  BY <1>10, <4>1, <4>2
    <3>5. CASE files.opens /\ ok
      BY <3>2, <3>5, <1>11, <2>7 DEF Reads
    <3>6. CASE ~(files.opens /\ ok)
      <4>1. r.stored # "persisted"
        BY <3>2, <3>6 DEF Answered
      <4> HIDE DEF r, k
      <4> QED  BY <4>1, <3>4, <1>1, <1>17, <2>4, <2>7 DEF r, k
    <3> QED  BY <3>5, <3>6
  <2>8. CASE ~(w.op = "put" /\ k = key)
    <3>1. r.stored = o.stored
      <4>1. CASE x = src
        <5>1. ~(w.op = "put" /\ o.arrival = key[2])
          BY <4>1, <2>2, <2>8, <1>4
        <5> QED  BY <4>1, <5>1, <1>2, <1>5, <1>7, <2>1 DEF box
      <4>2. CASE x # src
        BY <4>2, <1>5
      <4> QED  BY <4>1, <4>2
    <3>2. ~(w.op = "delete" /\ k = key)
      BY <1>13, <2>5
    <3> HIDE DEF r, k, o
    <3>3. k \in files.disk => k \in now.disk
      BY <1>11, <3>2, <1>4
    <3> QED  BY <3>1, <3>2, <3>3, <1>1, <1>17, <2>4, <2>6 DEF r, k
  <2> QED  BY <2>7, <2>8
<1>19. ASSUME NEW j \in 1..Len(now.work)
       PROVE  LET y == now.work[j] IN
              /\ y.op = "delete" => now.opens /\ y.key \notin now.mem /\ ~RecordKey(t, y.key)
              /\ y.op = "put" => Owned(t, y.key, j + 1) /\ (RecordKey(t, y.key) => StoredKey(t, y.key))
              /\ y.key[2] < Len(t.past.arrived[y.key[1]])
  <2> DEFINE y == files.work[j + 1]
  <2>1. j + 1 \in 1..Len(files.work) /\ j + 1 \in Nat /\ j + 1 >= 1 /\ now.work[j] = y /\ y.key \in Keys
    BY <1>3, <1>11
  <2>2. y.key[2] < Len(t.past.arrived[y.key[1]])
    BY <1>1, <1>10, <2>1, Zenon
  <2>3. y.op = "delete" => now.opens /\ y.key \notin now.mem /\ ~RecordKey(t, y.key)
    BY <1>9, <1>10, <1>11, <2>1
  <2>4. y.op = "put" => Owned(t, y.key, j + 1) /\ (RecordKey(t, y.key) => StoredKey(t, y.key))
    <3>1. y.op = "put" => Owned(s, y.key, (j + 1) + 1) /\ (RecordKey(s, y.key) => StoredKey(s, y.key))
      BY <1>10, <2>1
    <3> HIDE DEF y
    <3> QED  BY <1>9, <1>14, <2>1, <3>1
  <2> HIDE DEF y
  <2> QED  BY <2>1, <2>2, <2>3, <2>4
<1>20. \A k \in now.disk \cup now.mem : k[2] < Len(t.past.arrived[k[1]])
  <2>1. key[2] < Len(s.past.arrived[key[1]])
    BY <1>3, <1>4, <1>10
  <2> QED  BY <1>1, <1>10, <1>11, <2>1
<1>21. FilesSound(t)
  <2>1. \A k \in now.disk \cup now.mem \cup {now.work[j].key : j \in 1..Len(now.work)} :
          k[2] < Len(t.past.arrived[k[1]])
    BY <1>19, <1>20, Zenon
  <2> QED  BY <1>16, <1>18, <1>19, <2>1 DEF FilesSound, now
<1> QED  BY <1>3, <1>11, <1>12, <1>21 DEF now

\* What a write's answer, or a delete's, changes, field by field.
AnswersIn(s, w, ok, new, t) ==
  /\ Form(t) /\ SameRead(s, t)
  /\ t.dev.seen = s.dev.seen /\ t.dev.slot = s.dev.slot
  /\ t.dev.inbox = [s.dev.inbox EXCEPT ![w.key[1]] = new]
  /\ t.page.files = Lands(s.page.files, ok)
  /\ t.past.forgot = s.past.forgot /\ t.past.arrived = s.past.arrived
  /\ t.past.offered = s.past.offered /\ t.past.reacted = s.past.reacted
  /\ t.past.earlier = s.past.earlier
  /\ t.past.left = IF w.op = "put" \/ ok THEN s.past.left ELSE s.past.left \cup {w.key}

\* What an answer of IndexedDB's changes.
LEMMA FileAnswersIs ==
  ASSUME NEW s, Form(s), s.dev.inbox \in [Sources -> Seq(Recs)], NEW ok,
         NEW w, w = Head(s.page.files.work), w.key[1] \in Sources
  PROVE  LET box == s.dev.inbox[w.key[1]]
             new == IF w.op = "put"
                    THEN [i \in DOMAIN box |-> IF box[i].arrival = w.key[2]
                            THEN [box[i] EXCEPT !.stored = Answered(s.page.files, ok)] ELSE box[i]]
                    ELSE box
         IN AnswersIn(s, w, ok, new, FileAnswers(s, ok))
<1> DEFINE key == w.key
           src == key[1]
           box == s.dev.inbox[src]
           put == [i \in DOMAIN box |-> IF box[i].arrival = key[2]
                    THEN [box[i] EXCEPT !.stored = Answered(s.page.files, ok)] ELSE box[i]]
           f == Lands(s.page.files, ok)
           u == [s EXCEPT !.page.files = f]
           t == FileAnswers(s, ok)
<1>1. t = IF w.op = "put" THEN Saved(u, key, Answered(s.page.files, ok))
          ELSE IF ok THEN u ELSE [u EXCEPT !.past.left = @ \cup {key}]
  BY Zenon DEF FileAnswers
<1> HIDE DEF t, f
<1>2. /\ Form(u) /\ u.dev = s.dev /\ u.past = s.past /\ u.page.files = f
      /\ u.page.scans = s.page.scans /\ u.page.tasks = s.page.tasks /\ u.page.get = s.page.get
      /\ u.page.ratchets = s.page.ratchets /\ u.page.rotated = s.page.rotated
  BY FilesAre, Zenon
<1> HIDE DEF u
<1>3. SameRead(s, u)
  BY <1>2 DEF SameRead
<1>4. s.dev.inbox = [s.dev.inbox EXCEPT ![src] = box]
  BY Zenon
<1>5. CASE w.op = "put"
  <2> DEFINE n == [s.dev.inbox EXCEPT ![src] = put]
             v == [u EXCEPT !.dev.inbox = n]
  <2>1. Saved(u, key, Answered(s.page.files, ok)) = [u EXCEPT !.dev.inbox[src] = put]
    <3>1. u.dev.inbox = s.dev.inbox
      BY <1>2
    <3> QED  BY <3>1, Zenon DEF Saved
  <2> HIDE DEF put
  <2>2. [u EXCEPT !.dev.inbox[src] = put] = [u EXCEPT !.dev.inbox = [@ EXCEPT ![src] = put]]
    BY Zenon
  <2>3. [u EXCEPT !.dev.inbox = [@ EXCEPT ![src] = put]] = v
    <3>1. u.dev.inbox = s.dev.inbox
      BY <1>2
    <3> QED  BY <3>1, Zenon
  <2> HIDE DEF n
  <2>4. t = v
    BY <1>1, <1>5, <2>1, <2>2, <2>3
  <2>5. /\ Form(v) /\ v.page = u.page /\ v.past = u.past /\ v.dev.inbox = n
        /\ v.dev.held = u.dev.held /\ v.dev.seen = u.dev.seen /\ v.dev.slot = u.dev.slot
        /\ v.dev.rows = u.dev.rows /\ v.dev.knows = u.dev.knows /\ v.dev.allows = u.dev.allows
        /\ v.dev.ratchets = u.dev.ratchets
    BY ZenonT(30), <1>2, InboxIs
  <2> HIDE DEF v
  <2>6. SameRead(s, t)
    BY <1>2, <2>4, <2>5 DEF SameRead
  <2>7. /\ Form(t) /\ t.dev.seen = s.dev.seen /\ t.dev.slot = s.dev.slot /\ t.dev.inbox = n
        /\ t.page.files = f /\ t.past = s.past
    BY <1>2, <2>4, <2>5
  <2>8. AnswersIn(s, w, ok, put, t)
    BY <1>5, <2>6, <2>7 DEF AnswersIn, n, f
  <2> QED  BY <1>5, <2>8, Zenon DEF t, put
<1>6. CASE w.op # "put" /\ ok
  <2>1. t = u
    BY <1>1, <1>6
  <2>2. AnswersIn(s, w, ok, box, t)
    BY <1>2, <1>3, <1>4, <1>6, <2>1, Zenon DEF AnswersIn, f
  <2> QED  BY <1>6, <2>2, Zenon DEF t
<1>7. CASE w.op # "put" /\ ~ok
  <2> DEFINE l == u.past.left \cup {key}
             v == [u EXCEPT !.past.left = l]
  <2>1. [u EXCEPT !.past.left = @ \cup {key}] = v
    BY Zenon
  <2> HIDE DEF l, key
  <2>2. t = v
    BY <1>1, <1>7, <2>1
  <2>3. /\ Form(v) /\ v.dev = u.dev /\ v.page = u.page /\ v.past.left = l
        /\ v.past.proved = u.past.proved /\ v.past.stored = u.past.stored /\ v.past.dropped = u.past.dropped
        /\ v.past.cut = u.past.cut /\ v.past.forgot = u.past.forgot /\ v.past.arrived = u.past.arrived
        /\ v.past.offered = u.past.offered /\ v.past.reacted = u.past.reacted /\ v.past.announced = u.past.announced
        /\ v.past.made = u.past.made /\ v.past.earlier = u.past.earlier
    BY ZenonT(30), <1>2, LeftIs
  <2> HIDE DEF v
  <2>4. SameRead(s, t)
    BY <1>2, <2>2, <2>3 DEF SameRead
  <2>5. t.past.left = s.past.left \cup {w.key}
    BY <1>2, <2>2, <2>3 DEF l, key
  <2>6. /\ Form(t) /\ t.dev.seen = s.dev.seen /\ t.dev.slot = s.dev.slot
        /\ t.dev.inbox = s.dev.inbox /\ t.page.files = f
        /\ t.past.forgot = s.past.forgot /\ t.past.arrived = s.past.arrived
        /\ t.past.offered = s.past.offered /\ t.past.reacted = s.past.reacted
        /\ t.past.earlier = s.past.earlier
    BY <1>2, <2>2, <2>3
  <2>7. t.dev.inbox = [s.dev.inbox EXCEPT ![w.key[1]] = box]
    BY <1>4, <2>6, Zenon DEF key
  <2>8. t.past.left = IF w.op = "put" \/ ok THEN s.past.left ELSE s.past.left \cup {w.key}
    BY <1>7, <2>5
  <2> HIDE DEF box
  <2>9. AnswersIn(s, w, ok, box, t)
    BY <2>4, <2>6, <2>7, <2>8 DEF AnswersIn, f
  <2> QED  BY <1>7, <2>9, Zenon DEF t, key, box
<1> QED  BY <1>5, <1>6, <1>7, Zenon

\* It keeps a state sound, refused or not.
LEMMA FileAnswersKeeps ==
  ASSUME NEW s, Good(s, {}), s.page.files.work # <<>>, NEW ok \in BOOLEAN, ok \/ s.page.files.opens
  PROVE  Steps(s, FileAnswers(s, ok))
<1> DEFINE files == s.page.files
           w == Head(files.work)
           box == s.dev.inbox[w.key[1]]
           new == IF w.op = "put"
                  THEN [i \in DOMAIN box |-> IF box[i].arrival = w.key[2]
                          THEN [box[i] EXCEPT !.stored = Answered(files, ok)] ELSE box[i]]
                  ELSE box
           t == FileAnswers(s, ok)
<1>1. Form(s) /\ KeptTyped(s) /\ FilesSound(s) /\ s.dev.inbox \in [Sources -> Seq(Recs)] /\ files \in Files
  BY DEF Good, KeptSound, KeptTyped
<1>2. w \in Works /\ w.key \in Keys /\ w.key[1] \in Sources
  <2>1. w \in Works
    BY <1>1, LandsIs
  <2> QED  BY <2>1 DEF Works, Keys
<1>3. box \in Seq(Recs) /\ Len(box) \in Nat /\ DOMAIN box = 1..Len(box)
  <2> HIDE DEF w
  <2>1. box \in Seq(Recs)
    BY <1>1, <1>2
  <2> HIDE DEF box
  <2> QED  BY <2>1
<1>4. AnswersIn(s, w, ok, new, t)
  BY <1>1, <1>2, FileAnswersIs, Zenon
<1> HIDE DEF t, w, files
<1>5. /\ new \in Seq(Recs) /\ Len(new) = Len(box)
      /\ \A j \in 1..Len(box) : new[j] = IF w.op = "put" /\ box[j].arrival = w.key[2]
                                  THEN [box[j] EXCEPT !.stored = Answered(files, ok)] ELSE box[j]
  <2>1. CASE w.op = "put"
    <3> DEFINE e(j) == IF box[j].arrival = w.key[2] THEN [box[j] EXCEPT !.stored = Answered(files, ok)] ELSE box[j]
    <3>1. \A j \in 1..Len(box) : e(j) \in Recs
      <4>1. Answered(files, ok) \in Places
        BY DEF Answered, Places
      <4>2. \A j \in 1..Len(box) : box[j] \in Recs
        BY <1>3
      <4> QED  BY <4>1, <4>2, Zenon DEF Recs
    <3>2. new = [j \in 1..Len(box) |-> e(j)]
      BY <1>3, <2>1
    <3> HIDE DEF e, box, new
    <3>3. new \in Seq(Recs) /\ Len(new) = Len(box) /\ \A j \in 1..Len(box) : new[j] = e(j)
      BY <1>3, <3>1, <3>2
    <3> QED  BY <3>3, <2>1 DEF e
  <2>2. CASE w.op # "put"
    <3>1. new = box
      BY <2>2
    <3> HIDE DEF new
    <3> QED  BY <3>1, <2>2, <1>3
  <2> QED  BY <2>1, <2>2, Zenon
<1> HIDE DEF new
<1>6. FileAnswered(s, t, w, ok, new)
  BY <1>1, <1>4, <1>5, Zenon DEF FileAnswered, AnswersIn, w, files
<1>7. FilesSound(t) /\ t.page.files \in Files /\ t.past.left \subseteq Keys
  BY <1>6, AnsweredFiles
<1>8. Alike(box, new) /\ \A j \in 1..Len(new) : new[j].chip = box[j].chip
  <2>1. \A j \in 1..Len(box) : box[j] \in Recs
    BY <1>3
  <2>2. \A r \in Recs : \A p : LET q == [r EXCEPT !.stored = p] IN
          q.m = r.m /\ q.at = r.at /\ q.arrival = r.arrival /\ q.chip = r.chip
    BY DEF Recs
  <2> HIDE DEF box
  <2>3. ASSUME NEW j \in 1..Len(box)
        PROVE  /\ new[j].m = box[j].m /\ new[j].at = box[j].at /\ new[j].arrival = box[j].arrival
               /\ new[j].chip = box[j].chip
    <3>1. new[j] = box[j] \/ \E p : new[j] = [box[j] EXCEPT !.stored = p]
      BY <1>5, Zenon
    <3>2. box[j] \in Recs
      BY <2>1
    <3>3. CASE new[j] = box[j]
      BY <3>3
    <3>4. CASE \E p : new[j] = [box[j] EXCEPT !.stored = p]
      <4>1. PICK p : new[j] = [box[j] EXCEPT !.stored = p]
        BY <3>4, Zenon
      <4>2. LET q == [box[j] EXCEPT !.stored = p] IN
            q.m = box[j].m /\ q.at = box[j].at /\ q.arrival = box[j].arrival /\ q.chip = box[j].chip
        BY <2>2, <3>2
      <4> QED  BY <4>1, <4>2
    <3> QED  BY <3>1, <3>3, <3>4, Zenon
  <2> QED  BY <1>5, <2>3 DEF Alike
<1>9. Restores(s, t, w.key[1], new)
  BY <1>2, <1>4, <1>5, <1>7, <1>8, Zenon DEF Restores, AnswersIn
<1>10. Good(t, {}) /\ Forward(s, t)
  BY <1>7, <1>9, RestoreKeeps
<1> QED  BY <1>10, ForwardSteps DEF t
-----------------------------------------------------------------------------
(* The rest of what the device does.                                        *)

\* What is sound stays so when more copies are on their way.
LEMMA GoodMore ==
  ASSUME NEW s, Good(s, {}), NEW X
  PROVE  Good(s, X)
<1>1. Accounts(s, X)
  <2>1. \A m : Accounted(s, {}, m) => Accounted(s, X, m)
    BY DEF Accounted
  <2>2. \A c : Done(s, {}, c) => Done(s, X, c)
    BY <2>1 DEF Done
  <2> QED  BY <2>1, <2>2 DEF Good, ReadSound, Accounts
<1>2. Arrives(s, X)
  BY DEF Good, KeptSound, Arrives
<1> QED  BY <1>1, <1>2 DEF Good, ReadSound, KeptSound

\* What comes on a link of the sender's.
LEMMA LinkTaskKeeps ==
  ASSUME NEW s, Good(s, {}), NEW m \in Msgs, NEW how \in {"link", "resource"}
  PROVE  Steps(s, Task(IF how = "resource" THEN Prove(s, m) ELSE s, how, m))
<1> DEFINE p == Prove(s, m)
           t == Task(p, how, m)
<1>1. CASE how = "resource"
  <2>1. Good(s, {m})
    BY GoodMore
  <2>2. Good(p, {m}) /\ Forward(s, p) /\ p.dev = s.dev
    BY <2>1, ProveKeeps
  <2>3. p.past.arrived = s.past.arrived
    BY ProveIs DEF Good, SameKept
  <2> HIDE DEF p
  <2>4. Good(t, {m}) /\ Forward(p, t) /\ t.dev = p.dev /\ t.past = p.past /\ Handled(t, m)
    BY <1>1, <2>2, TaskKeeps
  <2> HIDE DEF t
  <2>5. Forward(s, t)
    BY <2>2, <2>4, ForwardTwice
  <2>6. Arrives(t, {})
    <3>1. Arrives(s, {})
      BY DEF Good, KeptSound
    <3> QED  BY <3>1, <2>2, <2>3, <2>4 DEF Arrives
  <2>7. Accounted(t, {}, m)
    BY <2>4 DEF Accounted
  <2>8. Good(t, {}) /\ \A c : Done(t, {m}, c) => Done(t, {}, c)
    BY <2>4, <2>6, <2>7, Settle
  <2>9. Steps(s, t)
    BY <2>5, <2>8, ForwardSteps
  <2> QED  BY <1>1, <2>9 DEF t, p
<1>2. CASE how = "link"
  <2>1. Good(Task(s, how, m), {}) /\ Forward(s, Task(s, how, m))
    BY <1>2, TaskKeeps
  <2>2. Steps(s, Task(s, how, m))
    BY <2>1, ForwardSteps
  <2> QED  BY <1>2, <2>2
<1> QED  BY <1>1, <1>2

\* A decryption ends.
LEMMA ScanDoneKeeps ==
  ASSUME NEW s, Good(s, {}), NEW x \in s.page.scans
  PROVE  Steps(s, Opened([s EXCEPT !.page.scans = @ \ {x}], x.how, x.copy, x.opens))
<1> DEFINE u == [s EXCEPT !.page.scans = s.page.scans \ {x}]
           t == Opened(u, x.how, x.copy, x.opens)
<1>1. x \in Scans /\ s.page.scans \subseteq Scans
  BY DEF Good, ReadSound, ReadTyped
<1>2. x.how \in {"packet", "push", "get"} /\ x.copy \in Copies
  BY <1>1 DEF Scans
<1>3. \A y \in s.page.scans : y.copy.key <= s.past.made /\ (~y.opens => ~Opening(s, y.copy))
  BY Made DEF Good, ReadSound, Accounts
<1>4. Good(u, {}) /\ Forward(s, u) /\ u.dev = s.dev /\ u.past = s.past
  <2>1. s.page.scans \ {x} \in SUBSET Scans
    BY <1>1
  <2>2. \A y \in s.page.scans \ {x} : y.copy.key <= s.past.made /\ (~y.opens => ~Opening(s, y.copy))
    BY <1>3
  <2> QED  BY <2>1, <2>2, ScansKeep, Zenon
<1> HIDE DEF u
<1>5. x.copy.key <= u.past.made /\ (~x.opens => ~Opening(u, x.copy))
  BY <1>3, <1>4 DEF Opening
<1>6. Good(t, {}) /\ Forward(u, t)
  BY <1>2, <1>4, <1>5, OpenedKeeps
<1> HIDE DEF t
<1>7. Steps(s, t)
  BY <1>4, <1>6, ForwardTwice, ForwardSteps
<1> QED  BY <1>7 DEF t, u

\* The /get is taken up,
LEMMA FetchKeeps ==
  ASSUME NEW s, Good(s, {})
  PROVE  Steps(s, [s EXCEPT !.page.get = [s.page.get EXCEPT !.at = "list"]])
<1> DEFINE g == [s.page.get EXCEPT !.at = "list"]
<1>1. s.page.get \in Gets
  BY DEF Good, ReadSound, ReadTyped
<1>2. g \in Gets /\ g.have = s.page.get.have /\ g.asking = s.page.get.asking /\ g.left = s.page.get.left
  BY <1>1, Zenon DEF Gets
<1>3. /\ \A c \in s.page.get.have \cup s.page.get.asking \cup ToSet(s.page.get.left) : c.key <= s.past.made
      /\ \A c \in s.page.get.have : Done(s, {}, c)
  BY Made DEF Good, ReadSound, Accounts
<1> HIDE DEF g
<1>4. Good([s EXCEPT !.page.get = g], {}) /\ Forward(s, [s EXCEPT !.page.get = g])
  BY <1>2, <1>3, GetKeeps, Zenon
<1> QED  BY <1>4, ForwardSteps DEF g

\* ended,
LEMMA NoGetKeeps ==
  ASSUME NEW s, Good(s, {})
  PROVE  Steps(s, [s EXCEPT !.page.get = NoGet])
<1>1. NoGet \in Gets /\ NoGet.have = {} /\ NoGet.asking = {} /\ NoGet.left = <<>>
  BY DEF NoGet, Gets
<1>2. ToSet(NoGet.left) = {}
  BY <1>1, InSeq DEF Gets
<1> DEFINE t == [s EXCEPT !.page.get = NoGet]
<1>3. Good(t, {}) /\ Forward(s, t)
  BY <1>1, <1>2, GetKeeps, Zenon
<1> QED  BY <1>3, ForwardSteps

\* listed: what is held already is had, the rest is asked for,
LEMMA ListedKeeps ==
  ASSUME NEW s, Good(s, {}), NEW node, node \subseteq Copies, IsFiniteSet(node),
         \A c \in node : c.key <= s.past.made,
         NEW held, held = {c \in node : Held(s, c)}, NEW order \in SetToSeqs(node \ held)
  PROVE  Steps(s, Turn([s EXCEPT !.page.get.have = held, !.page.get.left = order]))
<1> DEFINE g == [s.page.get EXCEPT !.have = held, !.left = order]
           u == [s EXCEPT !.page.get = g]
           t == Turn([s EXCEPT !.page.get.have = held, !.page.get.left = order])
<1>1. s.page.get \in Gets /\ s.dev.held \in Seq(Copies)
  BY DEF Good, ReadSound, ReadTyped
<1>2. order \in Seq(Copies) /\ ToSet(order) = node \ held
  <2> DEFINE rest == node \ held
  <2>1. IsFiniteSet(rest) /\ rest \subseteq Copies
    BY FS_Subset
  <2>2. order \in SetToSeqs(rest)
    OBVIOUS
  <2> HIDE DEF rest
  <2>3. order \in Seq(rest) /\ ToSet(order) = rest
    BY <2>1, <2>2, SeqOfSet
  <2>4. order \in Seq(Copies)
    BY <2>1, <2>3
  <2> QED  BY <2>3, <2>4 DEF rest
<1>3. \A c \in held : c \in ToSet(s.dev.held) /\ c \in Copies
  BY DEF Held, Seen
<1>4. g \in Gets /\ g.have = held /\ g.asking = s.page.get.asking /\ g.left = order
  <2>1. held \in SUBSET Copies
    BY <1>3
  <2> QED  BY <1>1, <1>2, <2>1, Zenon DEF Gets
<1>5. /\ \A c \in s.page.get.asking \cup ToSet(s.dev.held) : c.key <= s.past.made
      /\ \A c \in ToSet(s.dev.held) : Done(s, {}, c)
  BY Made DEF Good, ReadSound, Accounts
<1>6. Turn([s EXCEPT !.page.get.have = held, !.page.get.left = order]) = Turn(u)
  BY Zenon
<1> HIDE DEF g, t
<1>7. Good(u, {}) /\ Forward(s, u)
  BY <1>2, <1>3, <1>4, <1>5, GetKeeps, Zenon
<1> HIDE DEF u
<1>8. Good(t, {}) /\ Forward(u, t)
  BY <1>6, <1>7, TurnKeeps DEF t
<1>9. Steps(s, t)
  BY <1>7, <1>8, ForwardTwice, ForwardSteps
<1> QED  BY <1>9 DEF t

\* answered.
LEMMA DownloadedKeeps ==
  ASSUME NEW s, Good(s, {}), NEW c \in s.page.get.asking
  PROVE  /\ Steps(s, DownloadFailed(s, c))
         /\ Held(s, c) => Steps(s, GetTaken(s, c))
         /\ Steps(s, DecryptSoon([s EXCEPT !.page.get.at = "read"], "get", c))
<1>1. c \in Copies /\ c.key <= s.past.made
  BY Made
<1>2. Steps(s, DownloadFailed(s, c))
  <2> DEFINE t == Turn([s EXCEPT !.page.get.asking = {}])
  <2>1. Good(t, {}) /\ Forward(s, t)
    BY UntakenKeeps
  <2> QED  BY <2>1, ForwardSteps DEF DownloadFailed
<1>3. ASSUME Held(s, c) PROVE Steps(s, GetTaken(s, c))
  <2>1. Done(s, {}, c)
    BY <1>3 DEF Held, Seen, Good, ReadSound, Accounts
  <2>2. Good(GetTaken(s, c), {}) /\ Forward(s, GetTaken(s, c))
    BY <1>1, <2>1, TakenKeeps
  <2> QED  BY <2>2, ForwardSteps
<1>4. Steps(s, DecryptSoon([s EXCEPT !.page.get.at = "read"], "get", c))
  <2> DEFINE g == [s.page.get EXCEPT !.at = "read"]
             u == [s EXCEPT !.page.get = g]
             t == DecryptSoon(u, "get", c)
  <2>1. s.page.get \in Gets
    BY DEF Good, ReadSound, ReadTyped
  <2>2. g \in Gets /\ g.have = s.page.get.have /\ g.asking = s.page.get.asking /\ g.left = s.page.get.left
    BY <2>1 DEF Gets
  <2>3. /\ \A x \in s.page.get.have \cup s.page.get.asking \cup ToSet(s.page.get.left) : x.key <= s.past.made
        /\ \A x \in s.page.get.have : Done(s, {}, x)
    BY Made DEF Good, ReadSound, Accounts
  <2>4. [s EXCEPT !.page.get.at = "read"] = u
    BY Zenon
  <2> HIDE DEF g
  <2>5. Good(u, {}) /\ Forward(s, u) /\ u.past = s.past
    BY <2>2, <2>3, GetKeeps, Zenon
  <2> HIDE DEF u
  <2>6. Good(t, {}) /\ Forward(u, t)
    BY <1>1, <2>5, DecryptKeeps
  <2> HIDE DEF t
  <2>7. Steps(s, t)
    BY <2>5, <2>6, ForwardTwice, ForwardSteps
  <2> QED  BY <2>4, <2>7 DEF t
<1> QED  BY <1>2, <1>3, <1>4
-----------------------------------------------------------------------------
(* The device's ratchets.                                                   *)

\* Only the ratchets change.
KeysOnly(s, t) ==
  /\ Form(t)
  /\ t.dev.held = s.dev.held /\ t.dev.seen = s.dev.seen /\ t.dev.inbox = s.dev.inbox /\ t.dev.slot = s.dev.slot
  /\ t.dev.knows = s.dev.knows
  /\ t.page.scans = s.page.scans /\ t.page.tasks = s.page.tasks /\ t.page.get = s.page.get
  /\ t.page.files = s.page.files
  /\ t.past.proved = s.past.proved /\ t.past.stored = s.past.stored /\ t.past.dropped = s.past.dropped
  /\ t.past.cut = s.past.cut /\ t.past.forgot = s.past.forgot /\ t.past.arrived = s.past.arrived
  /\ t.past.offered = s.past.offered /\ t.past.reacted = s.past.reacted
  /\ t.past.earlier = s.past.earlier /\ t.past.left = s.past.left

Rekeys(s, t) ==
  /\ KeysOnly(s, t) /\ KeyTyped(t) /\ RatchetsSound(t)
  /\ t.past.made \in {s.past.made, s.past.made + 1}
  /\ \A r \in ToSet(t.dev.ratchets) : r \in ToSet(s.dev.ratchets) \/ r > s.past.made

\* New ratchets open nothing that was not made to be opened.
LEMMA RekeysKeeps ==
  ASSUME NEW s, NEW t, NEW n, Good(s, {}), NetKeysMade(s, n), NodeDone(s, {}, n.node), Rekeys(s, t),
         n.told \in Nat, n.heard \in Nat, n.air \cup n.node \cup n.push \subseteq Copies
  PROVE  Good(t, {}) /\ NetKeysMade(t, n) /\ NodeDone(t, {}, n.node)
<1>1. /\ ReadTyped(s) /\ KeysMade(s) /\ Accounts(s, {}) /\ Signed(s)
      /\ KeptTyped(s) /\ KeyTyped(s) /\ Boxes(s) /\ Arrives(s, {}) /\ Chips(s) /\ FilesSound(s)
  BY DEF Good, ReadSound, KeptSound
<1>2. KeysOnly(s, t) /\ KeyTyped(t) /\ RatchetsSound(t)
  BY DEF Rekeys
<1>3. s.past.made \in Nat /\ t.past.made \in Nat /\ t.past.made >= s.past.made
  BY <1>1, <1>2 DEF Rekeys, KeyTyped
<1>4. Copied(t) = Copied(s)
  BY <1>2 DEF KeysOnly, Copied
<1>5. \A c \in Copied(s) : c \in Copies /\ c.key \in Nat
  <2>1. \A c \in Copied(s) : c \in Copies
    <3>1. \A x \in s.page.scans : x.copy \in Copies
      BY <1>1 DEF ReadTyped, Scans
    <3>2. ToSet(s.dev.held) \subseteq Copies
      BY <1>1, InSeq DEF ReadTyped
    <3>3. s.page.get.have \cup s.page.get.asking \subseteq Copies /\ s.page.get.left \in Seq(Copies)
      BY <1>1 DEF ReadTyped, Gets
    <3>4. ToSet(s.page.get.left) \subseteq Copies
      BY <3>3, InSeq
    <3>5. s.past.stored \subseteq Copies
      BY <1>1 DEF KeyTyped
    <3> QED  BY <3>1, <3>2, <3>3, <3>4, <3>5 DEF Copied
  <2> QED  BY <2>1 DEF Copies
<1>6. KeysMade(t)
  <2>1. \A c \in Copied(s) : c.key <= s.past.made
    BY <1>1 DEF KeysMade
  <2> QED  BY <1>3, <1>4, <1>5, <2>1 DEF KeysMade
<1>7. \A c \in Copied(s) : Opening(t, c) => Opening(s, c)
  <2>1. ASSUME NEW c \in Copied(s), c.key \in ToSet(t.dev.ratchets) PROVE c.key \in ToSet(s.dev.ratchets)
    <3>1. c.key <= s.past.made /\ c.key \in Nat
      BY <1>1, <1>5 DEF KeysMade
    <3> QED  BY <1>3, <2>1, <3>1 DEF Rekeys
  <2> QED  BY <2>1 DEF Opening
<1>8. \A m : Accounted(s, {}, m) <=> Accounted(t, {}, m)
  BY <1>2 DEF KeysOnly, Accounted, Handled
<1>9. \A c \in Copied(s) : Done(s, {}, c) => Done(t, {}, c)
  BY <1>7, <1>8 DEF Done
<1>10. Accounts(t, {})
  <2>1. \A m \in t.past.proved : Mail(m).kind = "text" => Accounted(t, {}, m)
    BY <1>1, <1>2, <1>8 DEF Accounts, KeysOnly
  <2>2. \A c \in ToSet(t.dev.held) \cup t.page.get.have : Done(t, {}, c)
    BY <1>1, <1>2, <1>9 DEF Accounts, KeysOnly, Copied
  <2>3. \A x \in t.page.scans : ~x.opens => ~Opening(t, x.copy)
    BY <1>1, <1>2, <1>7 DEF Accounts, KeysOnly, Copied
  <2> QED  BY <2>1, <2>2, <2>3 DEF Accounts
<1>11. ReadTyped(t) /\ Signed(t)
  <2>1. ReadTyped(t)
    BY <1>1, <1>2 DEF ReadTyped, KeysOnly
  <2>2. t.page.tasks = s.page.tasks /\ t.dev.knows = s.dev.knows /\ t.past.offered = s.past.offered
    BY <1>2 DEF KeysOnly
  <2>3. Signed(t)
    BY <1>1, <2>2 DEF Signed
  <2> QED  BY <2>1, <2>3
<1>12. KeptTyped(t)
  BY <1>1, <1>2 DEF KeptTyped, KeysOnly
<1>13. /\ t.dev.inbox = s.dev.inbox /\ t.past.arrived = s.past.arrived /\ t.past.forgot = s.past.forgot
       /\ t.dev.seen = s.dev.seen /\ t.dev.slot = s.dev.slot /\ t.past.offered = s.past.offered
       /\ t.past.reacted = s.past.reacted /\ t.page.files = s.page.files
       /\ t.past.left = s.past.left /\ t.past.earlier = s.past.earlier
  BY <1>2 DEF KeysOnly
<1>14. Boxes(t)
  <2>1. ASSUME NEW x \in Sources PROVE Window(t, x) /\ Sorted(t, x) /\ Once(t, x) /\ Named(t, x)
    <3>1. Window(s, x) /\ Sorted(s, x) /\ Once(s, x) /\ Named(s, x)
      BY <1>1 DEF Boxes
    <3> QED  BY <3>1, <1>13, SameNamed, SameBox
  <2> QED  BY <2>1 DEF Boxes
<1>15. Arrives(t, {}) /\ Chips(t)
  <2>1. \A x : Taken(t, x) = Taken(s, x)
    BY <1>13 DEF Taken
  <2>2. \A r : Chip(s, r) => Chip(t, r)
    BY <2>1 DEF Chip
  <2>3. \A x : Checked(s, x) <=> Checked(t, x)
    BY <1>13 DEF Checked
  <2>4. Chips(t)
    BY <1>1, <1>13, <2>2, <2>3 DEF Chips
  <2>5. Arrives(t, {})
    BY <1>1, <1>13 DEF Arrives
  <2> QED  BY <2>4, <2>5
<1>16. FilesSound(t)
  BY <1>1, <1>13, SameFilesSound
<1>17. Good(t, {})
  BY <1>2, <1>6, <1>10, <1>11, <1>12, <1>14, <1>15, <1>16 DEF Good, ReadSound, KeptSound, KeysOnly
<1>18. NetKeysMade(t, n)
  <2>1. \A c \in n.air \cup n.node \cup n.push : c.key \in Nat
    BY DEF Copies
  <2> QED  BY <1>3, <2>1 DEF NetKeysMade
<1>19. NodeDone(t, {}, n.node)
  BY <1>2, <1>9 DEF NodeDone, Copied, KeysOnly
<1> QED  BY <1>17, <1>18, <1>19

Announced(s, kept) ==
  LET r == Rotate(s, kept) IN
  IF r.page.ratchets = <<>> THEN r
  ELSE [r EXCEPT !.past.announced =
          IF Contains(@, Head(r.page.ratchets)) THEN @ ELSE Append(@, Head(r.page.ratchets))]

\* What rotateRatchets changes.
LEMMA RotateIs ==
  ASSUME NEW s, Form(s), NEW kept \in BOOLEAN
  PROVE  LET t == Rotate(s, kept)
             all == <<s.past.made + 1>> \o s.page.ratchets
             new == SubSeq(all, 1, Min({RatchetCount, Len(all)}))
         IN /\ KeysOnly(s, t) /\ t.past.announced = s.past.announced
            /\ t.past.made = s.past.made + 1
            /\ t.page.ratchets = IF kept THEN new ELSE s.page.ratchets
            /\ t.dev.ratchets = IF kept THEN new ELSE s.dev.ratchets
<1> DEFINE all == <<s.past.made + 1>> \o s.page.ratchets
           new == SubSeq(all, 1, Min({RatchetCount, Len(all)}))
           t == Rotate(s, kept)
<1>1. CASE kept
  <2>1. t = [s EXCEPT !.page.ratchets = new, !.page.rotated = TRUE, !.past.made = @ + 1, !.dev.ratchets = new]
    <3>1. t = [s EXCEPT !.page.ratchets = new, !.page.rotated = TRUE, !.past.made = @ + 1,
                        !.dev.ratchets = IF kept THEN new ELSE @]
      BY <1>1, Zenon DEF Rotate, RotateLoose
    <3> HIDE DEF t, new
    <3> QED  BY <1>1, <3>1
  <2> HIDE DEF t, new
  <2>2. /\ t.dev = [s.dev EXCEPT !.ratchets = new]
        /\ t.page = [s.page EXCEPT !.ratchets = new, !.rotated = TRUE]
        /\ t.past = [s.past EXCEPT !.made = s.past.made + 1]
        /\ t = [dev |-> t.dev, page |-> t.page, past |-> t.past]
    BY <2>1, Zenon DEF Form
  <2>3. Form(t)
    BY <2>2, Zenon DEF Form
  <2>4. KeysOnly(s, t)
    BY <2>2, <2>3 DEF KeysOnly, Form
  <2>5. /\ t.past.announced = s.past.announced /\ t.past.made = s.past.made + 1
        /\ t.page.ratchets = new /\ t.dev.ratchets = new
    BY <2>2 DEF Form
  <2> QED  BY <1>1, <2>4, <2>5, Zenon DEF t, new
<1>2. CASE ~kept
  <2>1. t = [s EXCEPT !.past.made = @ + 1]
    BY <1>2, Zenon DEF Rotate
  <2> HIDE DEF t, new
  <2>2. /\ t.dev = s.dev /\ t.page = s.page
        /\ t.past = [s.past EXCEPT !.made = s.past.made + 1]
        /\ t = [dev |-> t.dev, page |-> t.page, past |-> t.past]
    BY <2>1 DEF Form
  <2>3. Form(t)
    BY <2>2 DEF Form
  <2> QED  BY <1>2, <2>2, <2>3 DEF KeysOnly, Form, t, new
<1> QED  BY <1>1, <1>2

\* The first n of a sequence with one put before it.
LEMMA NewestFirst ==
  ASSUME NEW R \in Seq(Nat), NEW x \in Nat, NEW n \in Nat, n > 0
  PROVE  LET all == <<x>> \o R
             q == SubSeq(all, 1, Min({n, Len(all)}))
         IN /\ q \in Seq(Nat) /\ Len(q) = IF Len(R) + 1 <= n THEN Len(R) + 1 ELSE n
            /\ q[1] = x /\ \A i \in 2..Len(q) : q[i] = R[i - 1]
<1> DEFINE all == <<x>> \o R
           k == Min({n, Len(all)})
           q == SubSeq(all, 1, k)
<1>1. <<x>> \in Seq(Nat) /\ Len(<<x>>) = 1 /\ <<x>>[1] = x /\ Len(R) \in Nat
  OBVIOUS
<1>2. /\ all \in Seq(Nat) /\ Len(all) = 1 + Len(R)
      /\ \A i \in 1..1 + Len(R) : all[i] = IF i <= 1 THEN <<x>>[i] ELSE R[i - 1]
  <2> DEFINE one == <<x>>
  <2>1. one \in Seq(Nat) /\ Len(one) = 1
    BY <1>1
  <2> HIDE DEF one
  <2>2. one \o R \in Seq(Nat) /\ Len(one \o R) = Len(one) + Len(R)
        /\ \A i \in 1..Len(one) + Len(R) : (one \o R)[i] = IF i <= Len(one) THEN one[i] ELSE R[i - Len(one)]
    BY <2>1, ConcatProperties, Zenon
  <2> QED  BY <2>1, <2>2, <1>1 DEF one
<1> HIDE DEF all
<1>3. k = IF Len(R) + 1 <= n THEN Len(R) + 1 ELSE n
  <2>1. Len(all) = Len(R) + 1 /\ Len(R) + 1 \in Int /\ n \in Int
    BY <1>1, <1>2
  <2>2. Min({n, Len(R) + 1}) = IF n <= Len(R) + 1 THEN n ELSE Len(R) + 1
    BY <2>1, MinOfTwo
  <2>3. k = Min({n, Len(R) + 1})
    BY <2>1
  <2> HIDE DEF k
  <2> QED  BY <2>1, <2>2, <2>3, <1>1
<1> HIDE DEF k
<1>4. k \in 1..Len(all)
  BY <1>1, <1>2, <1>3
<1>5. q \in Seq(Nat) /\ Len(q) = k /\ \A i \in 1..k : q[i] = all[i]
  <2>1. k \in Nat /\ Len(all) \in Nat /\ k <= Len(all)
    BY <1>2, <1>4
  <2> QED  BY <1>2, <1>4, <2>1, SubSeqProperties
<1> HIDE DEF q
<1>6. q[1] = x
  <2>1. 1 \in 1..k /\ 1 \in 1..1 + Len(R) /\ 1 <= 1
    BY <1>1, <1>2, <1>4
  <2> QED  BY <1>1, <1>2, <1>5, <2>1
<1>7. ASSUME NEW i \in 2..Len(q) PROVE q[i] = R[i - 1]
  <2>1. i \in 1..k /\ i \in 1..1 + Len(R) /\ ~(i <= 1)
    BY <1>1, <1>2, <1>4, <1>5
  <2> QED  BY <1>2, <1>5, <2>1, Zenon
<1> QED  BY <1>3, <1>5, <1>6, <1>7, Zenon DEF q, k, all

\* What an announce changes.
LEMMA AnnouncedIs ==
  ASSUME NEW s, Form(s), NEW kept \in BOOLEAN
  PROVE  LET t == Announced(s, kept)
             r == Rotate(s, kept)
         IN /\ KeysOnly(s, t) /\ t.page.ratchets = r.page.ratchets /\ t.dev.ratchets = r.dev.ratchets
            /\ t.past.made = r.past.made
            /\ t.past.announced =
                 IF r.page.ratchets = <<>> \/ Contains(s.past.announced, Head(r.page.ratchets))
                 THEN s.past.announced ELSE Append(s.past.announced, Head(r.page.ratchets))
<1> DEFINE r == Rotate(s, kept)
           t == Announced(s, kept)
           h == Head(r.page.ratchets)
           a == IF Contains(r.past.announced, h) THEN r.past.announced ELSE Append(r.past.announced, h)
<1>1. KeysOnly(s, r) /\ r.past.announced = s.past.announced
  BY RotateIs, Zenon
<1>2. t = IF r.page.ratchets = <<>> THEN r ELSE [r EXCEPT !.past.announced = a]
  BY Zenon DEF Announced
<1> HIDE DEF r, t, h, a
<1>3. CASE r.page.ratchets = <<>>
  <2>1. t = r
    BY <1>2, <1>3
  <2> QED  BY <1>1, <1>3, <2>1 DEF t, r
<1>4. CASE r.page.ratchets # <<>>
  <2>1. t = [r EXCEPT !.past.announced = a] /\ Form(r)
    BY <1>1, <1>2, <1>4 DEF KeysOnly
  <2>2. /\ t.dev = r.dev /\ t.page = r.page
        /\ t.past = [r.past EXCEPT !.announced = a]
        /\ t = [dev |-> t.dev, page |-> t.page, past |-> t.past]
    BY <2>1 DEF Form
  <2>3. Form(t)
    BY <2>1, <2>2 DEF Form
  <2>4. /\ t.past.announced = a /\ t.past.made = r.past.made
        /\ t.past.proved = r.past.proved /\ t.past.stored = r.past.stored /\ t.past.dropped = r.past.dropped
        /\ t.past.cut = r.past.cut /\ t.past.forgot = r.past.forgot /\ t.past.arrived = r.past.arrived
        /\ t.past.offered = r.past.offered /\ t.past.reacted = r.past.reacted
        /\ t.past.earlier = r.past.earlier /\ t.past.left = r.past.left
    BY <2>1, <2>2 DEF Form
  <2>5. KeysOnly(s, t)
    BY <1>1, <2>2, <2>3, <2>4 DEF KeysOnly
  <2>6. t.past.announced = IF Contains(s.past.announced, h) THEN s.past.announced ELSE Append(s.past.announced, h)
    BY <1>1, <2>4 DEF a
  <2> QED  BY <1>4, <2>2, <2>4, <2>5, <2>6 DEF t, r, h
<1> QED  BY <1>3, <1>4

\* It keeps a state sound, and what it tells was made.
LEMMA AnnounceKeeps ==
  ASSUME NEW s, NEW n, Good(s, {}), NetKeysMade(s, n), NodeDone(s, {}, n.node), NEW kept \in BOOLEAN,
         n.told \in Nat, n.heard \in Nat, n.air \cup n.node \cup n.push \subseteq Copies
  PROVE  LET t == Announced(s, kept)
             rs == Rotate(s, kept).page.ratchets
         IN /\ Good(t, {}) /\ NetKeysMade(t, n) /\ NodeDone(t, {}, n.node)
            /\ rs # <<>> => Head(rs) \in Nat /\ Head(rs) <= t.past.made
<1> DEFINE t == Announced(s, kept)
           r == Rotate(s, kept)
           R == s.dev.ratchets
           T == s.past.announced
           M == s.past.made
           S == t.dev.ratchets
           U == t.past.announced
<1>1. Form(s) /\ KeyTyped(s) /\ RatchetsSound(s)
  BY DEF Good, KeptSound
<1>2. R \in Seq(Nat) /\ s.page.ratchets = R /\ T \in Seq(Nat) /\ M \in Nat /\ s.past.stored \subseteq Copies
  BY <1>1 DEF KeyTyped
<1>3. /\ Len(R) \in Nat /\ Len(T) \in Nat
      /\ Len(R) <= Len(T) /\ Len(R) <= RatchetCount
      /\ Len(R) < RatchetCount => Len(R) = Len(T)
      /\ \A i \in 1..Len(R) : R[i] = T[Len(T) + 1 - i]
      /\ \A i \in 1..Len(T) : T[i] \in 1..M
  BY <1>1, <1>2 DEF RatchetsSound
<1> DEFINE new == SubSeq(<<M + 1>> \o R, 1, Min({RatchetCount, Len(<<M + 1>> \o R)}))
<1>4. /\ r.past.made = M + 1
      /\ r.page.ratchets = IF kept THEN new ELSE R
      /\ r.dev.ratchets = IF kept THEN new ELSE R
  <2>1. /\ r.past.made = s.past.made + 1
        /\ r.page.ratchets = IF kept THEN SubSeq(<<s.past.made + 1>> \o s.page.ratchets, 1, Min({RatchetCount, Len(<<s.past.made + 1>> \o s.page.ratchets)}))
                             ELSE s.page.ratchets
        /\ r.dev.ratchets = IF kept THEN SubSeq(<<s.past.made + 1>> \o s.page.ratchets, 1, Min({RatchetCount, Len(<<s.past.made + 1>> \o s.page.ratchets)}))
                             ELSE s.dev.ratchets
    BY <1>1, RotateIs
  <2> HIDE DEF r
  <2> QED  BY <1>2, <2>1
<1>5. /\ KeysOnly(s, t) /\ t.page.ratchets = r.page.ratchets /\ S = r.dev.ratchets
      /\ t.past.made = r.past.made
      /\ U = IF r.page.ratchets = <<>> \/ Contains(T, Head(r.page.ratchets)) THEN T ELSE Append(T, Head(r.page.ratchets))
  BY <1>1, AnnouncedIs
<1> HIDE DEF r, t, R, T, M
<1>6. CASE ~kept
  <2>1. /\ r.page.ratchets = R /\ S = R /\ t.page.ratchets = R /\ t.past.made = M + 1
    BY <1>4, <1>5, <1>6
  <2>2. ASSUME R # <<>> PROVE Contains(T, Head(R)) /\ Head(R) \in 1..M
    <3>1. Len(R) > 0 /\ Head(R) = R[1]
      BY <1>2, <2>2
    <3>2. 1 \in 1..Len(R) /\ Len(T) \in 1..Len(T) /\ Len(T) + 1 - 1 = Len(T)
      BY <1>3, <3>1
    <3>3. R[1] = T[Len(T)] /\ T[Len(T)] \in 1..M
      BY <1>3, <3>2
    <3> QED  BY <3>1, <3>2, <3>3 DEF Contains
  <2>3. U = T
    BY <1>5, <2>1, <2>2
  <2>4. KeyTyped(t)
    <3>1. t.past.stored = s.past.stored
      BY <1>5 DEF KeysOnly
    <3> QED  BY <1>2, <2>1, <2>3, <3>1 DEF KeyTyped
  <2>5. RatchetsSound(t)
    <3>1. \A i \in 1..Len(T) : T[i] \in 1..M + 1
      BY <1>2, <1>3
    <3> QED  BY <1>3, <2>1, <2>3, <3>1 DEF RatchetsSound
  <2>6. Rekeys(s, t)
    BY <1>5, <2>1, <2>4, <2>5 DEF Rekeys, R, M
  <2>7. Good(t, {}) /\ NetKeysMade(t, n) /\ NodeDone(t, {}, n.node)
    BY <2>6, RekeysKeeps
  <2>8. r.page.ratchets # <<>> => Head(r.page.ratchets) \in Nat /\ Head(r.page.ratchets) <= t.past.made
    <3>1. r.page.ratchets # <<>> => Head(r.page.ratchets) \in 1..M
      BY <2>1, <2>2
    <3> QED  BY <3>1, <2>1, <1>2
  <2> QED  BY <2>7, <2>8 DEF t, r
<1>7. CASE kept
  <2>1. r.page.ratchets = new /\ S = new /\ t.page.ratchets = new /\ t.past.made = M + 1
    BY <1>4, <1>5, <1>7, Zenon
  <2>2. /\ new \in Seq(Nat) /\ Len(new) = IF Len(R) + 1 <= RatchetCount THEN Len(R) + 1 ELSE RatchetCount
        /\ new[1] = M + 1 /\ \A i \in 2..Len(new) : new[i] = R[i - 1]
    <3> DEFINE x == M + 1
    <3>1. x \in Nat
      BY <1>2
    <3> HIDE DEF x
    <3>2. R \in Seq(Nat) /\ x \in Nat /\ RatchetCount \in Nat /\ RatchetCount > 0
      BY <1>2, <3>1, LimitsAre
    <3>3. LET all == <<x>> \o R
              q == SubSeq(all, 1, Min({RatchetCount, Len(all)}))
          IN /\ q \in Seq(Nat) /\ Len(q) = IF Len(R) + 1 <= RatchetCount THEN Len(R) + 1 ELSE RatchetCount
             /\ q[1] = x /\ \A i \in 2..Len(q) : q[i] = R[i - 1]
      BY ZenonT(30), <3>2, NewestFirst
    <3> QED  BY <3>3, Zenon DEF x
  <2> HIDE DEF new
  <2>3. Len(new) \in Nat /\ Len(new) > 0 /\ new # <<>> /\ Head(new) = M + 1
    <3>1. Len(new) \in Nat /\ Len(new) > 0
      BY <1>3, <2>2, LimitsAre
    <3> QED  BY <2>2, <3>1
  <2>4. ~Contains(T, M + 1)
    BY <1>2, <1>3 DEF Contains
  <2>5. U = Append(T, M + 1)
    BY <1>5, <2>1, <2>3, <2>4
  <2>6. U \in Seq(Nat) /\ Len(U) = Len(T) + 1 /\ U[Len(T) + 1] = M + 1 /\ \A i \in 1..Len(T) : U[i] = T[i]
    BY <1>2, <2>5
  <2>7. KeyTyped(t)
    <3>1. t.past.stored = s.past.stored
      BY <1>5 DEF KeysOnly
    <3> QED  BY <1>2, <2>1, <2>2, <2>6, <3>1 DEF KeyTyped
  <2>8. RatchetsSound(t)
    <3>1. /\ Len(new) <= Len(U) /\ Len(new) <= RatchetCount /\ (Len(new) < RatchetCount => Len(new) = Len(U))
      <4>1. /\ Len(R) \in Nat /\ Len(T) \in Nat /\ RatchetCount \in Nat /\ Len(U) = Len(T) + 1
            /\ Len(R) <= Len(T) /\ (Len(R) < RatchetCount => Len(R) = Len(T)) /\ Len(R) <= RatchetCount
        BY <1>3, <2>6, LimitsAre
      <4>2. Len(new) = IF Len(R) + 1 <= RatchetCount THEN Len(R) + 1 ELSE RatchetCount
        BY <2>2
      <4> QED  BY <4>1, <4>2
    <3>2. ASSUME NEW i \in 1..Len(new) PROVE new[i] = U[Len(U) + 1 - i]
      <4>1. CASE i = 1
        <5>1. Len(U) + 1 - i = Len(T) + 1
          BY <4>1, <2>6, <1>3
        <5> QED  BY <4>1, <5>1, <2>2, <2>6
      <4>2. CASE i # 1
        <5>1. i \in 2..Len(new) /\ i - 1 \in 1..Len(R)
          BY <4>2, <2>2, <2>3, <1>3, LimitsAre
        <5>2. new[i] = R[i - 1] /\ R[i - 1] = T[Len(T) + 1 - (i - 1)]
          BY <5>1, <2>2, <1>3, Zenon
        <5>3. Len(T) + 1 - (i - 1) \in 1..Len(T) /\ Len(T) + 1 - (i - 1) = Len(U) + 1 - i
          BY <5>1, <1>3, <2>6
        <5>4. U[Len(T) + 1 - (i - 1)] = T[Len(T) + 1 - (i - 1)]
          BY <5>3, <2>6
        <5> QED  BY <5>2, <5>3, <5>4, Zenon
      <4> QED  BY <4>1, <4>2
    <3>3. ASSUME NEW i \in 1..Len(U) PROVE U[i] \in 1..M + 1
      <4>1. CASE i \in 1..Len(T)
        <5>1. U[i] = T[i] /\ T[i] \in 1..M
          BY <4>1, <1>3, <2>6
        <5> QED  BY <5>1, <1>2
      <4>2. CASE i \notin 1..Len(T)
        <5>1. i = Len(T) + 1
          BY <4>2, <2>6, <1>3
        <5> QED  BY <5>1, <2>6, <1>2
      <4> QED  BY <4>1, <4>2
    <3> QED  BY <2>1, <3>1, <3>2, <3>3 DEF RatchetsSound
  <2>9. ASSUME NEW x \in ToSet(S) PROVE x \in ToSet(R) \/ x > M
    <3>1. PICK i \in 1..Len(new) : new[i] = x
      BY <2>1, <2>2, <2>9, InSeq
    <3>2. CASE i = 1
      BY <3>1, <3>2, <2>2, <1>2
    <3>3. CASE i # 1
      <4>1. i \in 2..Len(new) /\ i - 1 \in 1..Len(R)
        BY <3>3, <2>2, <2>3, <1>3, LimitsAre
      <4>2. x = R[i - 1]
        BY <4>1, <3>1, <2>2, Zenon
      <4> QED  BY <4>1, <4>2, <1>2, InSeq
    <3> QED  BY <3>2, <3>3
  <2>10. Rekeys(s, t)
    BY <1>5, <2>1, <2>7, <2>8, <2>9 DEF Rekeys, R, M
  <2>11. Good(t, {}) /\ NetKeysMade(t, n) /\ NodeDone(t, {}, n.node)
    BY <2>10, RekeysKeeps
  <2>12. r.page.ratchets # <<>> => Head(r.page.ratchets) \in Nat /\ Head(r.page.ratchets) <= t.past.made
    BY <2>1, <2>3, <1>2
  <2> QED  BY <2>11, <2>12 DEF t, r
<1> QED  BY <1>6, <1>7
-----------------------------------------------------------------------------
(* The page is closed and opened again.                                     *)

\* What a crash leaves on disk: what was there and not deleted, or what was put.
LEMMA AppliedIs ==
  ASSUME NEW f \in Files, NEW n \in 0..Len(f.work)
  PROVE  LET disk == AppliedFirst(f, n) IN
         /\ disk \subseteq Keys
         /\ \A key \in f.disk : (\A i \in 1..n : f.work[i] # [op |-> "delete", key |-> key]) => key \in disk
         /\ \A key \in disk : key \in f.disk \/ \E i \in 1..n : f.work[i] = [op |-> "put", key |-> key]
<1> DEFINE disk == AppliedFirst(f, n)
           W == f.work
           final == {i \in 1..n : \A j \in i + 1..n : W[j].key # W[i].key}
<1>1. /\ f.disk \in SUBSET Keys /\ Len(W) \in Nat /\ n \in Nat /\ n <= Len(W)
      /\ \A i \in 1..Len(W) : W[i].key \in Keys /\ W[i].op \in {"put", "delete"}
           /\ W[i] = [op |-> W[i].op, key |-> W[i].key]
  BY FilesParts
<1>2. \A i \in 1..n : i \in 1..Len(W)
  BY <1>1
<1>3. disk = (f.disk \ {W[i].key : i \in 1..n}) \cup {W[i].key : i \in {j \in final : W[j].op = "put"}}
  BY Zenon DEF AppliedFirst
<1> HIDE DEF disk, W
<1>4. disk \subseteq Keys
  BY <1>1, <1>2, <1>3, Zenon
<1>5. ASSUME NEW key \in f.disk, \A i \in 1..n : W[i] # [op |-> "delete", key |-> key] PROVE key \in disk
  <2>1. CASE \A i \in 1..n : W[i].key # key
    BY <2>1, <1>3
  <2>2. CASE \E i \in 1..n : W[i].key = key
    <3> DEFINE K == {i \in 1..n : W[i].key = key}
    <3>1. K # {} /\ K \in SUBSET Nat /\ \A k \in K : k <= n
      BY <2>2, <1>1
    <3>2. Max(K) \in K /\ \A k \in K : k <= Max(K)
      <4> HIDE DEF K
      <4> QED  BY <3>1, <1>1, MaxIs, Zenon
    <3>3. PICK l : l \in K /\ \A k \in K : k <= l
      BY <3>2
    <3>4. l \in 1..n /\ W[l].key = key /\ l \in Nat
      BY <3>3
    <3>5. \A j \in l + 1..n : W[j].key # W[l].key
      <4>1. ASSUME NEW j \in l + 1..n, W[j].key = key PROVE FALSE
        <5>1. j \in K /\ j > l
          BY <4>1, <3>4, <1>1
        <5> HIDE DEF K
        <5> QED  BY <5>1, <3>3, <3>4
      <4> QED  BY <4>1, <3>4
    <3>6. W[l].op = "put"
      BY <1>1, <1>2, <1>5, <3>4, Zenon
    <3> QED  BY <1>3, <3>4, <3>5, <3>6
  <2> QED  BY <2>1, <2>2
<1>6. ASSUME NEW key \in disk PROVE key \in f.disk \/ \E i \in 1..n : W[i] = [op |-> "put", key |-> key]
  BY <1>1, <1>2, <1>3
<1> QED  BY <1>4, <1>5, <1>6 DEF disk, W

\* Whatever IndexedDB had done when a page went, only what was to be deleted is gone.
LEMMA LeftByIs ==
  ASSUME NEW f \in Files, NEW disk \in LeftBy(f)
  PROVE  /\ disk \subseteq Keys
         /\ \A key \in f.disk : (\A i \in 1..Len(f.work) : f.work[i] # [op |-> "delete", key |-> key]) => key \in disk
         /\ \A key \in disk : key \in f.disk \/ \E i \in 1..Len(f.work) : f.work[i] = [op |-> "put", key |-> key]
<1>1. Len(f.work) \in Nat
  BY FilesParts
<1>2. PICK n \in 0..Len(f.work) : disk = AppliedFirst(f, n)
  BY <1>1 DEF LeftBy
<1>3. \A i \in 1..n : i \in 1..Len(f.work)
  BY <1>1
<1> DEFINE d == AppliedFirst(f, n)
<1>4. /\ d \subseteq Keys
      /\ \A key \in f.disk : (\A i \in 1..n : f.work[i] # [op |-> "delete", key |-> key]) => key \in d
      /\ \A key \in d : key \in f.disk \/ \E i \in 1..n : f.work[i] = [op |-> "put", key |-> key]
  BY AppliedIs
<1> HIDE DEF d
<1>5. disk = d
  BY <1>2 DEF d
<1> QED  BY <1>3, <1>4, <1>5

Reloads(s, t, opens, disk) ==
  /\ opens \in BOOLEAN /\ disk \in LeftBy(s.page.files)
  /\ t = [dev |-> s.dev, page |-> Page0(s.dev.ratchets, OpenStore(opens, disk)),
          past |-> [s.past EXCEPT
            !.cut = @ \cup {x.m : x \in {u \in ToSet(s.page.tasks) : u.what \in {"message", "resource"}}},
            !.earlier = @ \cup UNION {KeysOf(src, s.dev.inbox[src]) : src \in Sources},
            !.left = @ \cup {w.key : w \in {v \in ToSet(s.page.files.work) : v.op = "delete"}}]]

\* A page closed and opened again starts sound.
LEMMA ReloadKeeps ==
  ASSUME NEW s, NEW t, NEW opens, NEW disk, Good(s, {}), Reloads(s, t, opens, disk)
  PROVE  Steps(s, t)
<1> DEFINE cut == {x.m : x \in {u \in ToSet(s.page.tasks) : u.what \in {"message", "resource"}}}
           stored == UNION {KeysOf(src, s.dev.inbox[src]) : src \in Sources}
           gone == {w.key : w \in {v \in ToSet(s.page.files.work) : v.op = "delete"}}
           f == s.page.files
<1>1. /\ Form(s) /\ ReadTyped(s) /\ KeysMade(s) /\ Accounts(s, {}) /\ Signed(s)
      /\ KeptTyped(s) /\ KeyTyped(s) /\ RatchetsSound(s) /\ Boxes(s) /\ Arrives(s, {}) /\ Chips(s) /\ FilesSound(s)
  BY DEF Good, ReadSound, KeptSound
<1>2. /\ opens \in BOOLEAN /\ disk \in LeftBy(f)
      /\ t = [dev |-> s.dev, page |-> Page0(s.dev.ratchets, OpenStore(opens, disk)),
              past |-> [s.past EXCEPT !.cut = s.past.cut \cup cut, !.earlier = s.past.earlier \cup stored,
                        !.left = s.past.left \cup gone]]
  BY DEF Reloads
<1> HIDE DEF cut, stored, gone
<1>3. /\ t.dev = s.dev /\ t.page = Page0(s.dev.ratchets, OpenStore(opens, disk))
      /\ t.past = [s.past EXCEPT !.cut = s.past.cut \cup cut, !.earlier = s.past.earlier \cup stored,
                        !.left = s.past.left \cup gone]
      /\ t = [dev |-> t.dev, page |-> t.page, past |-> t.past]
  BY <1>2
<1>4. /\ t.past.cut = s.past.cut \cup cut /\ t.past.earlier = s.past.earlier \cup stored
      /\ t.past.left = s.past.left \cup gone
      /\ t.past.proved = s.past.proved /\ t.past.stored = s.past.stored /\ t.past.dropped = s.past.dropped
      /\ t.past.forgot = s.past.forgot /\ t.past.arrived = s.past.arrived
      /\ t.past.offered = s.past.offered /\ t.past.reacted = s.past.reacted
      /\ t.past.announced = s.past.announced /\ t.past.made = s.past.made
  BY <1>1, <1>3 DEF Form
<1>5. /\ t.page.scans = {} /\ t.page.tasks = <<>> /\ t.page.get = NoGet /\ t.page.ratchets = s.dev.ratchets
      /\ t.page.files = [opens |-> opens, disk |-> disk, mem |-> {}, work |-> <<>>]
  BY <1>3 DEF Page0, OpenStore
<1>6. Form(t)
  <2>1. t.page = [scans |-> t.page.scans, tasks |-> t.page.tasks, get |-> t.page.get,
               ratchets |-> t.page.ratchets, rotated |-> t.page.rotated, files |-> t.page.files]
    BY <1>3 DEF Page0
  <2>2. t.past = [proved |-> t.past.proved, stored |-> t.past.stored, dropped |-> t.past.dropped,
               cut |-> t.past.cut, forgot |-> t.past.forgot, arrived |-> t.past.arrived,
               offered |-> t.past.offered, reacted |-> t.past.reacted,
               announced |-> t.past.announced, made |-> t.past.made,
               earlier |-> t.past.earlier, left |-> t.past.left]
    BY <1>1, <1>3, Zenon DEF Form
  <2> QED  BY <1>1, <1>3, <2>1, <2>2 DEF Form
<1>7. /\ f \in Files /\ Len(f.work) \in Nat /\ f.disk \subseteq Keys /\ f.mem \subseteq Keys
      /\ \A i \in 1..Len(f.work) : f.work[i].key \in Keys /\ f.work[i].op \in {"put", "delete"}
           /\ f.work[i] = [op |-> f.work[i].op, key |-> f.work[i].key]
      /\ \A x : x \in ToSet(f.work) <=> \E i \in 1..Len(f.work) : f.work[i] = x
  <2>1. f \in Files
    BY <1>1 DEF KeptTyped
  <2>2. f.work \in Seq(Works)
    BY <2>1, FilesParts
  <2>3. \A x : x \in ToSet(f.work) <=> \E i \in 1..Len(f.work) : f.work[i] = x
    BY <2>2, InSeq
  <2> QED  BY <2>1, <2>3, FilesParts
<1>8. /\ disk \subseteq Keys
      /\ \A key \in f.disk : (\A i \in 1..Len(f.work) : f.work[i] # [op |-> "delete", key |-> key]) => key \in disk
      /\ \A key \in disk : key \in f.disk \/ \E i \in 1..Len(f.work) : f.work[i] = [op |-> "put", key |-> key]
  BY <1>2, <1>7, LeftByIs
<1>9. gone \subseteq Keys /\ \A key : key \in gone <=> \E i \in 1..Len(f.work) : f.work[i] = [op |-> "delete", key |-> key]
  <2>1. gone = {w.key : w \in {v \in ToSet(f.work) : v.op = "delete"}}
    BY DEF gone
  <2>2. ASSUME NEW key \in gone PROVE key \in Keys /\ \E i \in 1..Len(f.work) : f.work[i] = [op |-> "delete", key |-> key]
    <3>1. PICK w \in ToSet(f.work) : w.op = "delete" /\ key = w.key
      BY <2>1
    <3>2. PICK i \in 1..Len(f.work) : f.work[i] = w
      BY <1>7
    <3> QED  BY <3>1, <3>2, <1>7
  <2>3. ASSUME NEW key, NEW i \in 1..Len(f.work), f.work[i] = [op |-> "delete", key |-> key] PROVE key \in gone
    <3>1. f.work[i] \in ToSet(f.work) /\ f.work[i].op = "delete" /\ f.work[i].key = key
      BY <1>7, <2>3
    <3> QED  BY <2>1, <3>1
  <2> QED  BY <2>2, <2>3, Zenon
<1>10. stored \subseteq Keys /\ \A src \in Sources : \A i \in 1..Len(s.dev.inbox[src]) :
         s.dev.inbox[src][i].stored # "none" => KeyOf(src, s.dev.inbox[src][i]) \in stored
  <2>1. ASSUME NEW src \in Sources
        PROVE  /\ KeysOf(src, s.dev.inbox[src]) \subseteq Keys
               /\ \A i \in 1..Len(s.dev.inbox[src]) :
                    s.dev.inbox[src][i].stored # "none" => KeyOf(src, s.dev.inbox[src][i]) \in KeysOf(src, s.dev.inbox[src])
    <3> DEFINE box == s.dev.inbox[src]
    <3>1. box \in Seq(Recs)
      BY <1>1 DEF KeptTyped
    <3>2. \A i \in 1..Len(box) : box[i] \in Recs
      BY <3>1
    <3>3. \A i \in 1..Len(box) : box[i].arrival \in Nat
      BY <3>2, RecordParts
    <3> HIDE DEF box
    <3>4. \A key : key \in KeysOf(src, box) <=>
              \E i \in 1..Len(box) : key = <<src, box[i].arrival>> /\ box[i].stored # "none"
      BY <3>1, KeysOfIs
    <3>5. KeysOf(src, box) \subseteq Keys
      BY <3>3, <3>4 DEF Keys
    <3>6. \A i \in 1..Len(box) : box[i].stored # "none" => KeyOf(src, box[i]) \in KeysOf(src, box)
      BY <3>4 DEF KeyOf
    <3> QED  BY <3>5, <3>6 DEF box
  <2>2. stored \subseteq Keys
    BY <2>1 DEF stored
  <2>3. \A src \in Sources : KeysOf(src, s.dev.inbox[src]) \subseteq stored
    BY DEF stored
  <2> QED  BY <2>1, <2>2, <2>3
<1>11. cut \subseteq Msgs /\ \A m : Handled(s, m) => m \in cut
  <2>1. s.page.tasks \in Seq(Tasks)
    BY <1>1 DEF ReadTyped
  <2>2. /\ ToSet(s.page.tasks) \subseteq Tasks
        /\ \A i \in 1..Len(s.page.tasks) : s.page.tasks[i] \in ToSet(s.page.tasks)
        /\ DOMAIN s.page.tasks = 1..Len(s.page.tasks)
    BY <2>1, InSeq
  <2>3. cut \subseteq Msgs
    BY <2>2 DEF cut, Tasks
  <2>4. ASSUME NEW m, Handled(s, m) PROVE m \in cut
    <3>1. PICK i \in DOMAIN s.page.tasks : s.page.tasks[i].m = m /\ s.page.tasks[i].what \in {"message", "resource"}
      BY <2>4 DEF Handled
    <3>2. s.page.tasks[i] \in ToSet(s.page.tasks)
      BY <2>2, <3>1
    <3> QED  BY <3>1, <3>2 DEF cut
  <2> QED  BY <2>3, <2>4
<1>12. \A m : Accounted(s, {}, m) => Accounted(t, {}, m)
  BY <1>4, <1>11 DEF Accounted
<1>13. \A c : Done(s, {}, c) => Done(t, {}, c)
  BY <1>3, <1>12 DEF Done, Opening
<1>14. NoGet \in Gets /\ NoGet.have = {} /\ NoGet.asking = {} /\ ToSet(NoGet.left) = {}
  <2>1. NoGet \in Gets /\ NoGet.have = {} /\ NoGet.asking = {} /\ NoGet.left = <<>>
    BY DEF NoGet, Gets
  <2>2. NoGet.left \in Seq(Copies) /\ Len(NoGet.left) = 0
    BY <2>1 DEF Gets
  <2>3. \A x : x \in ToSet(NoGet.left) <=> \E i \in 1..Len(NoGet.left) : NoGet.left[i] = x
    BY <2>2, InSeq
  <2>4. \A i \in 1..Len(NoGet.left) : FALSE
    BY <2>2
  <2> QED  BY <2>1, <2>3, <2>4
<1>15. ReadTyped(t) /\ KeysMade(t)
  <2>1. ReadTyped(t)
    BY <1>1, <1>3, <1>4, <1>5, <1>14 DEF ReadTyped
  <2>2. Copied(t) \subseteq Copied(s)
    BY <1>3, <1>4, <1>5, <1>14 DEF Copied
  <2>3. KeysMade(t)
    BY <1>1, <1>4, <2>2 DEF KeysMade
  <2> QED  BY <2>1, <2>3
<1>16. Accounts(t, {}) /\ Signed(t)
  <2>1. Accounts(t, {})
    BY <1>1, <1>3, <1>4, <1>5, <1>12, <1>13, <1>14 DEF Accounts
  <2>2. Len(t.page.tasks) = 0
    BY <1>5
  <2>3. Signed(t)
    BY <1>1, <1>3, <1>4, <2>2 DEF Signed
  <2> QED  BY <2>1, <2>3
<1>17. KeptTyped(t) /\ KeyTyped(t) /\ RatchetsSound(t)
  <2>1. t.page.files \in Files
    <3>1. <<>> \in Seq(Works) /\ disk \in SUBSET Keys /\ {} \in SUBSET Keys
      BY <1>8
    <3>2. \A o \in BOOLEAN, d \in SUBSET Keys, m \in SUBSET Keys, w \in Seq(Works) :
            [opens |-> o, disk |-> d, mem |-> m, work |-> w] \in Files
      BY DEF Files
    <3> DEFINE w == <<>>
               m == {}
    <3>3. opens \in BOOLEAN /\ disk \in SUBSET Keys /\ m \in SUBSET Keys /\ w \in Seq(Works)
      BY <1>2, <3>1
    <3>4. t.page.files = [opens |-> opens, disk |-> disk, mem |-> m, work |-> w]
      BY <1>5
    <3> HIDE DEF w, m
    <3> QED  BY <3>2, <3>3, <3>4, Zenon
  <2>2. t.past.cut \subseteq Msgs /\ t.past.earlier \subseteq Keys /\ t.past.left \subseteq Keys
    BY <1>1, <1>4, <1>9, <1>10, <1>11 DEF KeptTyped
  <2>3. KeptTyped(t)
    BY <1>1, <1>3, <1>4, <2>1, <2>2 DEF KeptTyped
  <2>4. KeyTyped(t)
    BY <1>1, <1>3, <1>4, <1>5 DEF KeyTyped
  <2>5. RatchetsSound(t)
    BY <1>1, <1>3, <1>4 DEF RatchetsSound
  <2> QED  BY <2>3, <2>4, <2>5
<1>18. Boxes(t) /\ Arrives(t, {}) /\ Chips(t)
  <2>1. ASSUME NEW x \in Sources PROVE Window(t, x) /\ Sorted(t, x) /\ Once(t, x) /\ Named(t, x)
    <3>1. Window(s, x) /\ Sorted(s, x) /\ Once(s, x) /\ Named(s, x)
      BY <1>1 DEF Boxes
    <3>2. t.dev.inbox[x] = s.dev.inbox[x] /\ t.past.arrived[x] = s.past.arrived[x]
          /\ t.past.forgot = s.past.forgot /\ t.dev.seen = s.dev.seen
          /\ t.dev.slot = s.dev.slot /\ t.past.offered = s.past.offered
      BY <1>3, <1>4
    <3> QED  BY <3>1, <3>2, SameNamed, SameBox
  <2>2. \A x : Taken(t, x) = Taken(s, x)
    BY <1>4 DEF Taken
  <2>3. \A r : Chip(s, r) => Chip(t, r)
    BY <2>2 DEF Chip
  <2>4. \A x : Checked(s, x) <=> Checked(t, x)
    BY <1>3, <1>4 DEF Checked
  <2>5. Chips(t)
    BY <1>1, <1>3, <1>4, <2>3, <2>4 DEF Chips
  <2>6. Arrives(t, {})
    BY <1>1, <1>3, <1>4 DEF Arrives
  <2>7. Boxes(t)
    BY <2>1 DEF Boxes
  <2> QED  BY <2>5, <2>6, <2>7
<1>19. FilesSound(t)
  <2>1. /\ t.page.files.disk = disk /\ t.page.files.mem = {} /\ Len(t.page.files.work) = 0
        /\ t.dev.inbox = s.dev.inbox /\ t.past.arrived = s.past.arrived
    BY <1>3, <1>4, <1>5
  <2>2. /\ \A src \in Sources : \A i \in 1..Len(s.dev.inbox[src]) :
            LET r == s.dev.inbox[src][i] IN r.stored = "persisted" => KeyOf(src, r) \in f.disk
        /\ \A key \in f.disk \cup f.mem : Owned(s, key, 1)
        /\ \A i \in 1..Len(f.work) :
            LET w == f.work[i] IN
            /\ w.op = "delete" => ~RecordKey(s, w.key)
            /\ w.op = "put" => Owned(s, w.key, i + 1)
        /\ \A key \in f.disk \cup f.mem \cup {f.work[i].key : i \in 1..Len(f.work)} :
            key[2] < Len(s.past.arrived[key[1]])
    BY <1>1 DEF FilesSound
  <2> HIDE DEF f
  <2>3. ASSUME NEW src \in Sources, NEW i \in 1..Len(s.dev.inbox[src]), s.dev.inbox[src][i].stored = "persisted"
        PROVE  KeyOf(src, s.dev.inbox[src][i]) \in disk
    <3> DEFINE key == KeyOf(src, s.dev.inbox[src][i])
    <3>1. key \in f.disk
      BY <2>2, <2>3
    <3>2. RecordKey(s, key)
      BY DEF RecordKey, KeyOf
    <3> HIDE DEF key
    <3>3. \A j \in 1..Len(f.work) : f.work[j] # [op |-> "delete", key |-> key]
      BY <2>2, <3>2
    <3> QED  BY <1>8, <3>1, <3>3 DEF key
  <2>4. ASSUME NEW src \in Sources, NEW i \in 1..Len(s.dev.inbox[src]), s.dev.inbox[src][i].stored # "none"
        PROVE  KeyOf(src, s.dev.inbox[src][i]) \in t.past.earlier
    BY <1>4, <1>10, <2>4
  <2>5. ASSUME NEW key, NEW n \in Nat, n >= 1, Owned(s, key, n) PROVE Owned(t, key, 1)
    <3>1. CASE StoredKey(s, key)
      BY <3>1, <2>1 DEF Owned, StoredKey
    <3>2. CASE key \in s.past.left
      BY <3>2, <1>4 DEF Owned
    <3>3. CASE Asked(s, "delete", key, n)
      <4>1. \E i \in 1..Len(f.work) : f.work[i] = [op |-> "delete", key |-> key]
        BY <3>3, <2>5, <1>7 DEF Asked, f
      <4> QED  BY <4>1, <1>4, <1>9 DEF Owned
    <3> QED  BY <2>5, <3>1, <3>2, <3>3 DEF Owned
  <2>6. ASSUME NEW key \in disk PROVE Owned(t, key, 1) /\ key[2] < Len(t.past.arrived[key[1]])
    <3>1. CASE key \in f.disk
      BY <3>1, <2>1, <2>2, <2>5
    <3>2. CASE \E i \in 1..Len(f.work) : f.work[i] = [op |-> "put", key |-> key]
      <4>1. PICK i \in 1..Len(f.work) : f.work[i] = [op |-> "put", key |-> key]
        BY <3>2
      <4>2. f.work[i].op = "put" /\ f.work[i].key = key
        BY <4>1
      <4>3. i + 1 \in Nat /\ i + 1 >= 1
        OBVIOUS
      <4>4. Owned(s, key, i + 1)
        BY <2>2, <4>2
      <4>5. key[2] < Len(s.past.arrived[key[1]])
        BY <2>2, <4>2
      <4> QED  BY <2>1, <2>5, <4>3, <4>4, <4>5
    <3> QED  BY <1>8, <3>1, <3>2
  <2> QED  BY <2>1, <2>3, <2>4, <2>6 DEF FilesSound
<1>20. Good(t, {})
  BY <1>6, <1>15, <1>16, <1>17, <1>18, <1>19 DEF Good, ReadSound, KeptSound
<1> QED  BY <1>4, <1>13, <1>20 DEF Steps
-----------------------------------------------------------------------------
(* The user, the sender and the node.                                       *)

\* What is read and kept, but for the rows, the allowed and the known.
LEMMA PeopleKeep ==
  ASSUME NEW s, NEW t, Good(s, {}), NEW device,
         device = [held |-> s.dev.held, seen |-> s.dev.seen, inbox |-> s.dev.inbox, slot |-> s.dev.slot,
                rows |-> device.rows, knows |-> device.knows, allows |-> device.allows, ratchets |-> s.dev.ratchets],
         s.dev.knows \subseteq device.knows,
         t = [dev |-> device, page |-> s.page, past |-> s.past]
  PROVE  Steps(s, t)
<1>1. /\ Form(s) /\ ReadTyped(s) /\ KeysMade(s) /\ Accounts(s, {}) /\ Signed(s)
      /\ KeptTyped(s) /\ KeyTyped(s) /\ RatchetsSound(s) /\ Boxes(s) /\ Arrives(s, {}) /\ Chips(s) /\ FilesSound(s)
  BY DEF Good, ReadSound, KeptSound
<1>2. t.dev = device /\ t.page = s.page /\ t.past = s.past /\ t = [dev |-> t.dev, page |-> t.page, past |-> t.past]
  OBVIOUS
<1>3. /\ t.dev.held = s.dev.held /\ t.dev.seen = s.dev.seen /\ t.dev.inbox = s.dev.inbox /\ t.dev.slot = s.dev.slot
      /\ t.dev.ratchets = s.dev.ratchets /\ s.dev.knows \subseteq t.dev.knows
  BY <1>2
<1>4. Form(t)
  BY <1>1, <1>2 DEF Form
<1>5. Signed(t)
  BY <1>1, <1>2, <1>3 DEF Signed
<1>6. \A m : Accounted(s, {}, m) <=> Accounted(t, {}, m)
  BY <1>2 DEF Accounted, Handled
<1>7. \A c : Done(s, {}, c) <=> Done(t, {}, c)
  BY <1>3, <1>6 DEF Done, Opening
<1>8. ReadTyped(t) /\ KeysMade(t)
  BY <1>1, <1>2, <1>3 DEF ReadTyped, KeysMade, Copied
<1>9. Accounts(t, {})
  <2>1. \A c : Opening(s, c) <=> Opening(t, c)
    BY <1>3 DEF Opening
  <2> QED  BY <1>1, <1>2, <1>3, <1>6, <1>7, <2>1 DEF Accounts
<1>10. KeptTyped(t) /\ KeyTyped(t) /\ RatchetsSound(t)
  BY <1>1, <1>2, <1>3, Zenon DEF KeptTyped, KeyTyped, RatchetsSound
<1>11. Boxes(t) /\ Arrives(t, {}) /\ Chips(t)
  <2>1. ASSUME NEW x \in Sources PROVE Window(t, x) /\ Sorted(t, x) /\ Once(t, x) /\ Named(t, x)
    <3>1. Window(s, x) /\ Sorted(s, x) /\ Once(s, x) /\ Named(s, x)
      BY <1>1 DEF Boxes
    <3> QED  BY <3>1, <1>2, <1>3, SameNamed, SameBox
  <2>2. \A x : Taken(t, x) = Taken(s, x)
    BY <1>2 DEF Taken
  <2>3. \A r : Chip(s, r) => Chip(t, r)
    BY <2>2 DEF Chip
  <2>4. \A x : Checked(s, x) <=> Checked(t, x)
    BY <1>2, <1>3 DEF Checked
  <2>5. Chips(t)
    BY <1>1, <1>2, <1>3, <2>3, <2>4 DEF Chips
  <2>6. Arrives(t, {})
    BY <1>1, <1>2, <1>3 DEF Arrives
  <2>7. Boxes(t)
    BY <2>1 DEF Boxes
  <2> QED  BY <2>5, <2>6, <2>7
<1>12. FilesSound(t)
  BY <1>1, <1>2, <1>3, SameFilesSound
<1>13. Good(t, {})
  BY <1>4, <1>5, <1>8, <1>9, <1>10, <1>11, <1>12 DEF Good, ReadSound, KeptSound
<1> QED  BY <1>2, <1>7, <1>13 DEF Steps

LeftThere(s, t, c, node) ==
  /\ Good(s, {}) /\ c \in Copies /\ c.key <= s.past.made /\ NodeDone(s, {}, node)
  /\ t = [dev |-> s.dev, page |-> s.page, past |-> [s.past EXCEPT !.stored = s.past.stored \cup {c}]]

\* A copy more is left on the node.
LEMMA StoredKeeps ==
  ASSUME NEW s, NEW t, NEW c, NEW node, LeftThere(s, t, c, node)
  PROVE  Good(t, {}) /\ t.past.made = s.past.made /\ NodeDone(t, {}, node \cup {c})
<1> USE DEF LeftThere
<1>1. /\ Form(s) /\ ReadTyped(s) /\ KeysMade(s) /\ Accounts(s, {}) /\ Signed(s)
      /\ KeptTyped(s) /\ KeyTyped(s) /\ RatchetsSound(s) /\ Boxes(s) /\ Arrives(s, {}) /\ Chips(s) /\ FilesSound(s)
  BY DEF Good, ReadSound, KeptSound
<1>2. /\ t.dev = s.dev /\ t.page = s.page /\ t.past = [s.past EXCEPT !.stored = s.past.stored \cup {c}]
      /\ t = [dev |-> t.dev, page |-> t.page, past |-> t.past]
  OBVIOUS
<1>3. /\ t.past.stored = s.past.stored \cup {c}
      /\ t.past.proved = s.past.proved /\ t.past.dropped = s.past.dropped
      /\ t.past.cut = s.past.cut /\ t.past.forgot = s.past.forgot /\ t.past.arrived = s.past.arrived
      /\ t.past.offered = s.past.offered /\ t.past.reacted = s.past.reacted
      /\ t.past.announced = s.past.announced /\ t.past.made = s.past.made
      /\ t.past.earlier = s.past.earlier /\ t.past.left = s.past.left
  BY <1>1, <1>2 DEF Form
<1>4. Form(t)
  BY <1>1, <1>2, Zenon DEF Form
<1>5. Signed(t)
  BY <1>1, <1>2, <1>3 DEF Signed
<1>6. \A m : Accounted(s, {}, m) <=> Accounted(t, {}, m)
  BY <1>2, <1>3 DEF Accounted, Handled
<1>7. \A x : Done(s, {}, x) <=> Done(t, {}, x)
  BY <1>2, <1>6 DEF Done, Opening
<1>8. ReadTyped(t) /\ KeysMade(t)
  <2>1. ReadTyped(t)
    BY <1>1, <1>2, <1>3, Zenon DEF ReadTyped
  <2>2. Copied(t) = Copied(s) \cup {c}
    BY <1>2, <1>3 DEF Copied
  <2>3. KeysMade(t)
    BY <1>1, <1>3, <2>2 DEF KeysMade
  <2> QED  BY <2>1, <2>3
<1>9. Accounts(t, {})
  <2>1. \A x : Opening(s, x) <=> Opening(t, x)
    BY <1>2 DEF Opening
  <2> QED  BY <1>1, <1>2, <1>3, <1>6, <1>7, <2>1, Zenon DEF Accounts
<1>10. KeptTyped(t) /\ KeyTyped(t) /\ RatchetsSound(t)
  BY ZenonT(30), <1>1, <1>2, <1>3 DEF KeptTyped, KeyTyped, RatchetsSound
<1>11. Boxes(t) /\ Arrives(t, {}) /\ Chips(t)
  <2>1. ASSUME NEW x \in Sources PROVE Window(t, x) /\ Sorted(t, x) /\ Once(t, x) /\ Named(t, x)
    <3>1. Window(s, x) /\ Sorted(s, x) /\ Once(s, x) /\ Named(s, x)
      BY <1>1 DEF Boxes
    <3> QED  BY <3>1, <1>2, <1>3, SameNamed, SameBox
  <2>2. \A x : Taken(t, x) = Taken(s, x)
    BY <1>3 DEF Taken
  <2>3. \A r : Chip(s, r) => Chip(t, r)
    BY <2>2, Zenon DEF Chip
  <2>4. \A x : Checked(s, x) <=> Checked(t, x)
    BY <1>2, <1>3 DEF Checked
  <2>5. Chips(t)
    BY <1>1, <1>2, <1>3, <2>3, <2>4, Zenon DEF Chips
  <2>6. Arrives(t, {})
    BY <1>1, <1>2, <1>3 DEF Arrives
  <2>7. Boxes(t)
    BY <2>1, Zenon DEF Boxes
  <2> QED  BY <2>5, <2>6, <2>7
<1>12. FilesSound(t)
  BY <1>1, <1>2, <1>3, SameFilesSound
<1>13. Good(t, {})
  BY <1>4, <1>5, <1>8, <1>9, <1>10, <1>11, <1>12 DEF Good, ReadSound, KeptSound
<1>14. NodeDone(t, {}, node \cup {c})
  BY <1>3, <1>7, Zenon DEF NodeDone
<1> QED  BY <1>3, <1>13, <1>14

-----------------------------------------------------------------------------
(* A step leaves what is to come as it is, so that what was sound of a      *)
(* state in one world is sound of it in the next.                           *)
LEMMA Carry ==
  ASSUME world'.mail = world.mail
  PROVE  /\ \A s, X : Good(s, X) => Good(s, X)'
         /\ \A s, n : NetKeysMade(s, n) => NetKeysMade(s, n)'
         /\ \A s, X, n : NodeDone(s, X, n) => NodeDone(s, X, n)'
<1>1. /\ Msgs' = Msgs /\ Sources' = Sources
      /\ \A m : Mail(m)' = Mail(m)
      /\ \A m : Source(m)' = Source(m)
  BY DEF Msgs, Sources, Mail, Source
<1>2. Copies' = Copies /\ Sigs' = Sigs
  BY <1>1 DEF Copies, Sigs
<1>3. Tasks' = Tasks /\ Scans' = Scans /\ Gets' = Gets
  BY <1>1, <1>2 DEF Tasks, Scans, Gets
<1>4. Names' = Names /\ Emojis' = Emojis /\ Places' = Places /\ Keys' = Keys
  BY <1>1 DEF Names, Emojis, Places, Keys, Mail, Msgs
<1>5. Slots' = Slots /\ Recs' = Recs /\ Works' = Works
  BY <1>1, <1>4 DEF Slots, Recs, Works
<1>6. Files' = Files
  BY <1>4, <1>5 DEF Files
<1>7. \A s : Form(s)' <=> Form(s)
  BY DEF Form
<1>8. \A s : ReadTyped(s)' <=> ReadTyped(s)
  BY <1>1, <1>2, <1>3 DEF ReadTyped
<1>9. \A s : KeptTyped(s)' <=> KeptTyped(s)
  BY <1>1, <1>2, <1>4, <1>5, <1>6 DEF KeptTyped
<1>10. \A s : KeyTyped(s)' <=> KeyTyped(s)
  BY <1>2 DEF KeyTyped
<1>11. \A s : (RatchetsSound(s)' <=> RatchetsSound(s)) /\ (KeysMade(s)' <=> KeysMade(s))
  BY DEF RatchetsSound, KeysMade, Copied
<1>12. \A s, X, m : Accounted(s, X, m)' <=> Accounted(s, X, m)
  BY <1>1 DEF Accounted, Handled
<1>13. \A s, X, c : Done(s, X, c)' <=> Done(s, X, c)
  BY <1>1, <1>12 DEF Done, Opening
<1>14. \A s, X : Accounts(s, X)' <=> Accounts(s, X)
  BY <1>1, <1>12, <1>13 DEF Accounts, Opening
<1>15. \A s : Signed(s)' <=> Signed(s)
  BY <1>1 DEF Signed
<1>16. \A s, src : (Window(s, src)' <=> Window(s, src)) /\ (Sorted(s, src)' <=> Sorted(s, src))
  BY DEF Window, Numbered, Full, Sorted, InTime
<1>17. \A s, src : Once(s, src)' <=> Once(s, src)
  BY <1>1 DEF Once, Checked
<1>18. \A s, src : Named(s, src)' <=> Named(s, src)
  <2>1. \A s, src : Told(s, src)' = Told(s, src)
    BY <1>1 DEF Told
  <2> QED  BY <1>1, <2>1 DEF Named
<1>19. \A s, X : Arrives(s, X)' <=> Arrives(s, X)
  BY <1>1 DEF Arrives
<1>20. \A s : Chips(s)' <=> Chips(s)
  <2>1. \A s, m : Taken(s, m)' = Taken(s, m)
    BY <1>1 DEF Taken
  <2>2. \A s, r : Chip(s, r)' <=> Chip(s, r)
    BY <1>1, <2>1 DEF Chip
  <2> QED  BY <1>1, <2>2 DEF Chips, Checked
<1>21. \A s : FilesSound(s)' <=> FilesSound(s)
  <2>1. \A s, k : (StoredKey(s, k)' <=> StoredKey(s, k)) /\ (RecordKey(s, k)' <=> RecordKey(s, k))
    BY DEF StoredKey, RecordKey
  <2>2. \A s, k, n : Owned(s, k, n)' <=> Owned(s, k, n)
    BY <2>1 DEF Owned, Asked
  <2> QED  BY <1>1, <2>1, <2>2 DEF FilesSound, KeyOf, Reads
<1>22. \A s : Boxes(s)' <=> Boxes(s)
  BY <1>1, <1>16, <1>17, <1>18 DEF Boxes
<1>23. \A s, X : ReadSound(s, X)' <=> ReadSound(s, X)
  BY <1>8, <1>11, <1>14, <1>15 DEF ReadSound
<1>24. \A s, X : KeptSound(s, X)' <=> KeptSound(s, X)
  BY <1>9, <1>10, <1>11, <1>19, <1>20, <1>21, <1>22 DEF KeptSound
<1>25. \A s, X : Good(s, X)' <=> Good(s, X)
  BY <1>7, <1>23, <1>24 DEF Good
<1>26. \A s, n : NetKeysMade(s, n)' <=> NetKeysMade(s, n)
  BY DEF NetKeysMade
<1>27. \A s, X, n : NodeDone(s, X, n)' <=> NodeDone(s, X, n)
  BY <1>13 DEF NodeDone
<1> QED  BY <1>25, <1>26, <1>27

-----------------------------------------------------------------------------
(* Every action keeps the invariant. *)

WorldLeft(direct, linked, stored, adds, tells, rotate, refuse, fail, lose, reload) ==
  [mail |-> world.mail, direct |-> direct, linked |-> linked,
   stored |-> stored, live |-> world.live, rows |-> world.rows,
   knows |-> world.knows, allows |-> world.allows, adds |-> adds,
   tells |-> tells, rotate |-> rotate, refuse |-> refuse,
   fail |-> fail, lose |-> lose, reload |-> reload,
   opens |-> world.opens]

\* What is left of a world is a world.
LEMMA WorldGoes ==
  ASSUME WorldOK,
         NEW direct, NEW linked, NEW stored, NEW adds, NEW tells, NEW rotate, NEW refuse, NEW fail, NEW lose, NEW reload,
         direct \subseteq world.direct, linked \subseteq world.linked, stored \subseteq world.stored,
         world' = WorldLeft(direct, linked, stored, adds, tells, rotate, refuse, fail, lose, reload)
  PROVE  WorldOK' /\ world'.mail = world.mail
<1> USE DEF WorldLeft
<1>1. world'.mail = world.mail
  OBVIOUS
<1>2. Msgs' = Msgs /\ \A m : Mail(m)' = Mail(m)
  BY <1>1 DEF Msgs, Mail
<1>3. /\ world'.direct = direct /\ world'.linked = linked /\ world'.stored = stored
      /\ world'.live = world.live /\ world'.opens = world.opens
  OBVIOUS
<1>4. world'.direct \cup world'.linked \cup world'.stored \subseteq Msgs
  BY <1>3 DEF WorldOK
<1>5. (world = [mail |-> world.mail, direct |-> world.direct, linked |-> world.linked,
              stored |-> world.stored, live |-> world.live, rows |-> world.rows,
              knows |-> world.knows, allows |-> world.allows, adds |-> world.adds,
              tells |-> world.tells, rotate |-> world.rotate, refuse |-> world.refuse,
              fail |-> world.fail, lose |-> world.lose, reload |-> world.reload,
              opens |-> world.opens])'
  OBVIOUS
<1>6. /\ world.live \cup world.opens \subseteq BOOLEAN
      /\ \A m \in Msgs :
       /\ Mail(m).kind \in {"text", "react", "control", "bad", "refused"}
       /\ Mail(m).at \in Nat \ {0} /\ Mail(m).file \in BOOLEAN
  BY DEF WorldOK
<1>7. WorldOK'
  BY <1>2, <1>3, <1>4, <1>5, <1>6 DEF WorldOK
<1> QED  BY <1>1, <1>7

\* As every action leaves it.
LEMMA WorldSteps ==
  ASSUME WorldOK,
         \/ world' = world
         \/ \E m : world' = [world EXCEPT !.direct = @ \ {m}]
         \/ \E m : world' = [world EXCEPT !.linked = @ \ {m}]
         \/ \E m : world' = [world EXCEPT !.stored = @ \ {m}]
         \/ \E m : world' = [world EXCEPT !.adds = @ \ {m}]
         \/ \E m : world' = [world EXCEPT !.tells = @ \ {m}]
         \/ \E r, f : world' = [world EXCEPT !.rotate = r, !.refuse = f]
         \/ \E f : world' = [world EXCEPT !.refuse = f]
         \/ \E f : world' = [world EXCEPT !.fail = f]
         \/ \E l : world' = [world EXCEPT !.lose = l]
         \/ \E r : world' = [world EXCEPT !.reload = r]
  PROVE  WorldOK' /\ world'.mail = world.mail
<1> DEFINE w == world
<1>1. w = WorldLeft(w.direct, w.linked, w.stored, w.adds, w.tells, w.rotate, w.refuse, w.fail, w.lose, w.reload)
  BY Zenon DEF WorldOK, WorldLeft
<1>2. \E d, l, s, a, t, r, f, x, y, z :
        /\ d \subseteq world.direct /\ l \subseteq world.linked /\ s \subseteq world.stored
        /\ world' = WorldLeft(d, l, s, a, t, r, f, x, y, z)
  <2>1. CASE world' = world
    BY <1>1, <2>1
  <2>2. CASE \E m : world' = [world EXCEPT !.direct = @ \ {m}]
    <3>1. PICK m : world' = [world EXCEPT !.direct = @ \ {m}]
      BY <2>2, Zenon
    <3>2. world' = WorldLeft(w.direct \ {m}, w.linked, w.stored, w.adds, w.tells, w.rotate, w.refuse, w.fail, w.lose, w.reload)
      BY <1>1, <3>1, Zenon DEF WorldLeft
    <3> QED  BY <3>2, Zenon
  <2>3. CASE \E m : world' = [world EXCEPT !.linked = @ \ {m}]
    <3>1. PICK m : world' = [world EXCEPT !.linked = @ \ {m}]
      BY <2>3, Zenon
    <3>2. world' = WorldLeft(w.direct, w.linked \ {m}, w.stored, w.adds, w.tells, w.rotate, w.refuse, w.fail, w.lose, w.reload)
      BY <1>1, <3>1, Zenon DEF WorldLeft
    <3> QED  BY <3>2, Zenon
  <2>4. CASE \E m : world' = [world EXCEPT !.stored = @ \ {m}]
    <3>1. PICK m : world' = [world EXCEPT !.stored = @ \ {m}]
      BY <2>4, Zenon
    <3>2. world' = WorldLeft(w.direct, w.linked, w.stored \ {m}, w.adds, w.tells, w.rotate, w.refuse, w.fail, w.lose, w.reload)
      BY <1>1, <3>1, Zenon DEF WorldLeft
    <3> QED  BY <3>2, Zenon
  <2>5. CASE \E m : world' = [world EXCEPT !.adds = @ \ {m}]
    <3>1. PICK m : world' = [world EXCEPT !.adds = @ \ {m}]
      BY <2>5, Zenon
    <3>2. world' = WorldLeft(w.direct, w.linked, w.stored, w.adds \ {m}, w.tells, w.rotate, w.refuse, w.fail, w.lose, w.reload)
      BY <1>1, <3>1, Zenon DEF WorldLeft
    <3> QED  BY <3>2, Zenon
  <2>6. CASE \E m : world' = [world EXCEPT !.tells = @ \ {m}]
    <3>1. PICK m : world' = [world EXCEPT !.tells = @ \ {m}]
      BY <2>6, Zenon
    <3>2. world' = WorldLeft(w.direct, w.linked, w.stored, w.adds, w.tells \ {m}, w.rotate, w.refuse, w.fail, w.lose, w.reload)
      BY <1>1, <3>1, Zenon DEF WorldLeft
    <3> QED  BY <3>2, Zenon
  <2>7. CASE \E r, f : world' = [world EXCEPT !.rotate = r, !.refuse = f]
    <3>1. PICK r, f : world' = [world EXCEPT !.rotate = r, !.refuse = f]
      BY <2>7, Zenon
    <3>2. world' = WorldLeft(w.direct, w.linked, w.stored, w.adds, w.tells, r, f, w.fail, w.lose, w.reload)
      BY <1>1, <3>1, Zenon DEF WorldLeft
    <3> QED  BY <3>2, Zenon
  <2>8. CASE \E f : world' = [world EXCEPT !.refuse = f]
    <3>1. PICK f : world' = [world EXCEPT !.refuse = f]
      BY <2>8, Zenon
    <3>2. world' = WorldLeft(w.direct, w.linked, w.stored, w.adds, w.tells, w.rotate, f, w.fail, w.lose, w.reload)
      BY <1>1, <3>1, Zenon DEF WorldLeft
    <3> QED  BY <3>2, Zenon
  <2>9. CASE \E f : world' = [world EXCEPT !.fail = f]
    <3>1. PICK f : world' = [world EXCEPT !.fail = f]
      BY <2>9, Zenon
    <3>2. world' = WorldLeft(w.direct, w.linked, w.stored, w.adds, w.tells, w.rotate, w.refuse, f, w.lose, w.reload)
      BY <1>1, <3>1, Zenon DEF WorldLeft
    <3> QED  BY <3>2, Zenon
  <2>10. CASE \E l : world' = [world EXCEPT !.lose = l]
    <3>1. PICK f : world' = [world EXCEPT !.lose = f]
      BY <2>10, Zenon
    <3>2. world' = WorldLeft(w.direct, w.linked, w.stored, w.adds, w.tells, w.rotate, w.refuse, w.fail, f, w.reload)
      BY <1>1, <3>1, Zenon DEF WorldLeft
    <3> QED  BY <3>2, Zenon
  <2>11. CASE \E r : world' = [world EXCEPT !.reload = r]
    <3>1. PICK f : world' = [world EXCEPT !.reload = f]
      BY <2>11, Zenon
    <3>2. world' = WorldLeft(w.direct, w.linked, w.stored, w.adds, w.tells, w.rotate, w.refuse, w.fail, w.lose, f)
      BY <1>1, <3>1, Zenon DEF WorldLeft
    <3> QED  BY <3>2, Zenon
  <2> QED
    BY <2>1, <2>2, <2>3, <2>4, <2>5, <2>6, <2>7, <2>8, <2>9, <2>10, <2>11, Zenon
<1>3. PICK d, l, s, a, t, r, f, x, y, z :
        /\ d \subseteq world.direct /\ l \subseteq world.linked /\ s \subseteq world.stored
        /\ world' = WorldLeft(d, l, s, a, t, r, f, x, y, z)
  BY <1>2, Zenon
<1> QED  BY <1>3, WorldGoes, Zenon

\* A step to a sound state of the device, with a network sound for it, keeps
\* the invariant.
LEMMA Stepped ==
  ASSUME NEW t, NEW n, WorldOK', NetOK', world'.mail = world.mail,
         dev' = t.dev, page' = t.page, past' = t.past, n = net',
         Good(t, {}), NetKeysMade(t, n), NodeDone(t, {}, n.node)
  PROVE  Invariant'
<1>1. State' = t
  BY DEF State, Good, Form
<1>2. Good(t, {})' /\ NetKeysMade(t, n)' /\ NodeDone(t, {}, n.node)'
  BY Carry
<1> QED  BY <1>1, <1>2 DEF Invariant

\* A step of the device alone.
LEMMA DeviceSteps ==
  ASSUME NEW s, NEW t, WorldOK', NetOK, net' = net, world'.mail = world.mail,
         Good(s, {}), NetKeysMade(s, net), NodeDone(s, {}, net.node),
         dev' = t.dev, page' = t.page, past' = t.past, Steps(s, t)
  PROVE  Invariant'
<1>1. PICK n : n = net
  OBVIOUS
<1>2. NetKeysMade(s, n) /\ NodeDone(s, {}, n.node)
  BY <1>1
<1>3. NetKeysMade(t, n) /\ NodeDone(t, {}, n.node)
  BY <1>2, StepsOn
<1>4. Copies' = Copies
  BY DEF Copies, Msgs
<1>5. NetOK'
  BY <1>4 DEF NetOK
<1> QED  BY <1>1, <1>3, <1>5, Stepped DEF Steps

-----------------------------------------------------------------------------

\* The device runs a task,
LEMMA RunTaskKeeps ==
  ASSUME Invariant, RunTask
  PROVE  Invariant'
<1>1. PICK s \in {State}, n \in {net} : Good(s, {}) /\ NetKeysMade(s, n) /\ NodeDone(s, {}, n.node)
  BY DEF Invariant
<1>2. s.dev = dev /\ s.page = page /\ s.past = past /\ n = net
  BY DEF State
<1>3. s.page.tasks # <<>>
  BY <1>2 DEF RunTask
<1>4. PICK t : t = TaskRun(s)
  OBVIOUS
<1>5. dev' = t.dev /\ page' = t.page /\ past' = t.past
  BY <1>2, <1>4, Zenon DEF RunTask, Becomes, TaskRun
<1>6. Steps(s, t)
  BY <1>1, <1>3, <1>4, TaskRunKeeps DEF Invariant
<1>7. WorldOK' /\ world'.mail = world.mail /\ net' = net
  BY WorldSteps DEF Invariant, RunTask
<1> QED  BY <1>1, <1>2, <1>5, <1>6, <1>7, DeviceSteps DEF Invariant

\* ends a decryption,
LEMMA ScanDoneStep ==
  ASSUME Invariant, ScanDone
  PROVE  Invariant'
<1>1. PICK s \in {State}, n \in {net} : Good(s, {}) /\ NetKeysMade(s, n) /\ NodeDone(s, {}, n.node)
  BY DEF Invariant
<1>2. s.dev = dev /\ s.page = page /\ s.past = past /\ n = net
  BY DEF State
<1>3. PICK x \in s.page.scans : Becomes(Opened([s EXCEPT !.page.scans = @ \ {x}], x.how, x.copy, x.opens))
  BY <1>2, Zenon DEF ScanDone
<1>4. PICK t : t = Opened([s EXCEPT !.page.scans = @ \ {x}], x.how, x.copy, x.opens)
  OBVIOUS
<1>5. dev' = t.dev /\ page' = t.page /\ past' = t.past
  BY <1>3, <1>4 DEF Becomes
<1>6. Steps(s, t)
  BY <1>1, <1>4, ScanDoneKeeps
<1>7. WorldOK' /\ world'.mail = world.mail /\ net' = net
  BY WorldSteps DEF Invariant, ScanDone
<1> QED  BY <1>1, <1>2, <1>5, <1>6, <1>7, DeviceSteps DEF Invariant

\* and hears from its store.
LEMMA FileLandsStep ==
  ASSUME Invariant, FileLands
  PROVE  Invariant'
<1>1. PICK s \in {State}, n \in {net} : Good(s, {}) /\ NetKeysMade(s, n) /\ NodeDone(s, {}, n.node)
  BY DEF Invariant
<1>2. s.dev = dev /\ s.page = page /\ s.past = past /\ n = net
  BY DEF State
<1>3. s.page.files.work # <<>>
  BY <1>2 DEF FileLands
<1>4. PICK ok \in IF page.files.opens /\ world.refuse > 0 THEN BOOLEAN ELSE {TRUE} :
       LET w == Head(page.files.work)
           u == [State EXCEPT !.page.files = Lands(@, ok)]
       IN /\ world' = [world EXCEPT !.refuse = IF ok THEN @ ELSE @ - 1]
          /\ Becomes(IF w.op = "put" THEN Saved(u, w.key, Answered(page.files, ok))
                     ELSE IF ok THEN u ELSE [u EXCEPT !.past.left = @ \cup {w.key}])
  BY Zenon DEF FileLands
<1>5. ok \in BOOLEAN /\ (ok \/ s.page.files.opens)
  BY <1>2, Zenon
<1>6. PICK t : t = FileAnswers(s, ok)
  OBVIOUS
<1>7. Becomes(t)
  BY <1>2, <1>4, <1>6, Zenon DEF FileAnswers
<1>8. dev' = t.dev /\ page' = t.page /\ past' = t.past
  BY <1>7 DEF Becomes
<1>9. Steps(s, t)
  BY <1>1, <1>3, <1>5, <1>6, FileAnswersKeeps
<1>10. \E f : world' = [world EXCEPT !.refuse = f]
  BY <1>4, Zenon
<1>11. WorldOK' /\ world'.mail = world.mail /\ net' = net
  BY <1>10, WorldSteps, Zenon DEF Invariant, FileLands
<1> QED  BY <1>1, <1>2, <1>8, <1>9, <1>11, DeviceSteps DEF Invariant

-----------------------------------------------------------------------------
(* The sender and the network *)

\* A packet in the air, and what the sender hears.
LEMMA SendDirectStep ==
  ASSUME Invariant, SendDirect
  PROVE  Invariant'
<1>1. PICK s \in {State}, n \in {net} : Good(s, {}) /\ NetKeysMade(s, n) /\ NodeDone(s, {}, n.node)
  BY DEF Invariant
<1>2. s.dev = dev /\ s.page = page /\ s.past = past /\ n = net
  BY DEF State
<1>3. PICK m \in world.direct : world' = [world EXCEPT !.direct = @ \ {m}] /\ net' = [net EXCEPT !.air = @ \cup {Copy(m)}]
  BY Zenon DEF SendDirect
<1>4. WorldOK' /\ world'.mail = world.mail
  BY <1>3, WorldSteps, Zenon DEF Invariant
<1>5. Copies' = Copies
  BY <1>4 DEF Copies, Msgs
<1>6. PICK v : v = [n EXCEPT !.air = n.air \cup {Copy(m)}]
  BY Zenon
<1>7. v = [air |-> n.air \cup {Copy(m)}, node |-> n.node, push |-> n.push, told |-> n.told, heard |-> n.heard]
  BY <1>2, <1>6 DEF Invariant, NetOK
<1>8. Copy(m) \in Copies /\ Copy(m).key = n.heard
  BY <1>2 DEF Invariant, NetOK, WorldOK, Copy, Copies
<1>9. NetOK'
  BY <1>2, <1>3, <1>5, <1>6, <1>7, <1>8, Zenon DEF Invariant, NetOK
<1>10. NetKeysMade(s, v)
  BY <1>1, <1>7, <1>8 DEF NetKeysMade
<1>11. NodeDone(s, {}, v.node)
  BY <1>1, <1>7
<1>12. dev' = s.dev /\ page' = s.page /\ past' = s.past
  BY <1>2 DEF SendDirect
<1> QED  BY <1>1, <1>2, <1>3, <1>4, <1>6, <1>9, <1>10, <1>11, <1>12, Stepped, Zenon

\* The sender hears the announce,
LEMMA SenderHearsStep ==
  ASSUME Invariant, SenderHears
  PROVE  Invariant'
<1>1. PICK s \in {State}, n \in {net} : Good(s, {}) /\ NetKeysMade(s, n) /\ NodeDone(s, {}, n.node)
  BY DEF Invariant
<1>2. s.dev = dev /\ s.page = page /\ s.past = past /\ n = net
  BY DEF State
<1>3. world' = world /\ net' = [net EXCEPT !.heard = net.told]
  BY DEF SenderHears
<1>4. WorldOK' /\ world'.mail = world.mail
  BY <1>3, WorldSteps DEF Invariant
<1>5. Copies' = Copies
  BY <1>4 DEF Copies, Msgs
<1>6. PICK v : v = [n EXCEPT !.heard = n.told]
  BY Zenon
<1>7. v = [air |-> n.air, node |-> n.node, push |-> n.push, told |-> n.told, heard |-> n.told]
  BY <1>2, <1>6 DEF Invariant, NetOK
<1>9. NetOK'
  BY <1>2, <1>3, <1>5, <1>6, <1>7 DEF Invariant, NetOK
<1>10. NetKeysMade(s, v)
  BY <1>1, <1>7 DEF NetKeysMade
<1>11. NodeDone(s, {}, v.node)
  BY <1>1, <1>7
<1>12. dev' = s.dev /\ page' = s.page /\ past' = s.past
  BY <1>2 DEF SenderHears
<1> QED  BY <1>1, <1>2, <1>3, <1>4, <1>6, <1>9, <1>10, <1>11, <1>12, Stepped, Zenon

\* Less in the air, or pushed.
LEMMA LessNet ==
  ASSUME Invariant, NEW s, NEW n, NEW air, NEW push, n = net,
         NetKeysMade(s, n), NodeDone(s, {}, n.node), Copies' = Copies,
         air \subseteq n.air, push \subseteq n.push,
         net' = [air |-> air, node |-> n.node, push |-> push, told |-> n.told, heard |-> n.heard]
  PROVE  \E v : v = net' /\ NetOK' /\ NetKeysMade(s, v) /\ NodeDone(s, {}, v.node)
<1>1. PICK v : v = [air |-> air, node |-> n.node, push |-> push, told |-> n.told, heard |-> n.heard]
  OBVIOUS
<1>2. NetKeysMade(s, v) /\ NodeDone(s, {}, v.node)
  BY <1>1 DEF NetKeysMade
<1>3. NetOK'
  BY <1>1 DEF Invariant, NetOK
<1> QED  BY <1>1, <1>2, <1>3

\* and the network loses a packet or a push.
LEMMA LoseStep ==
  ASSUME Invariant, Lose
  PROVE  Invariant'
<1>1. PICK s \in {State}, n \in {net} : Good(s, {}) /\ NetKeysMade(s, n) /\ NodeDone(s, {}, n.node)
  BY DEF Invariant
<1>2. s.dev = dev /\ s.page = page /\ s.past = past /\ n = net
  BY DEF State
<1>3. \E l : world' = [world EXCEPT !.lose = l]
  BY Zenon DEF Lose
<1>4. WorldOK' /\ world'.mail = world.mail
  BY <1>3, WorldSteps, Zenon DEF Invariant
<1>5. Copies' = Copies
  BY <1>4 DEF Copies, Msgs
<1>6. n = [air |-> n.air, node |-> n.node, push |-> n.push, told |-> n.told, heard |-> n.heard]
  BY <1>2 DEF Invariant, NetOK
<1>7. \E air, push : /\ air \subseteq n.air /\ push \subseteq n.push
        /\ net' = [air |-> air, node |-> n.node, push |-> push, told |-> n.told, heard |-> n.heard]
  <2>1. CASE \E c \in net.air : net' = [net EXCEPT !.air = @ \ {c}]
    <3>1. PICK c : net' = [net EXCEPT !.air = @ \ {c}]
      BY <2>1, Zenon
    <3>2. net' = [air |-> n.air \ {c}, node |-> n.node, push |-> n.push, told |-> n.told, heard |-> n.heard]
      BY <1>2, <1>6, <3>1
    <3> QED  BY <3>2, Zenon
  <2>2. CASE \E c \in net.push : net' = [net EXCEPT !.push = @ \ {c}]
    <3>1. PICK c : net' = [net EXCEPT !.push = @ \ {c}]
      BY <2>2
    <3>2. net' = [air |-> n.air, node |-> n.node, push |-> n.push \ {c}, told |-> n.told, heard |-> n.heard]
      BY <1>2, <1>6, <3>1
    <3> QED  BY <3>2, Zenon
  <2> QED  BY <2>1, <2>2 DEF Lose
<1>8. PICK v : v = net' /\ NetOK' /\ NetKeysMade(s, v) /\ NodeDone(s, {}, v.node)
  BY <1>1, <1>2, <1>5, <1>7, LessNet
<1>9. dev' = s.dev /\ page' = s.page /\ past' = s.past
  BY <1>2 DEF Lose
<1> QED  BY <1>1, <1>4, <1>8, <1>9, Stepped

\* A packet in the air arrives,
LEMMA PacketArrivesStep ==
  ASSUME Invariant, PacketArrives
  PROVE  Invariant'
<1>1. PICK s \in {State}, n \in {net} : Good(s, {}) /\ NetKeysMade(s, n) /\ NodeDone(s, {}, n.node)
  BY DEF Invariant
<1>2. s.dev = dev /\ s.page = page /\ s.past = past /\ n = net
  BY DEF State
<1>3. PICK c \in net.air : /\ net' = [net EXCEPT !.air = @ \ {c}]
                           /\ Becomes(DecryptSoon(s, "packet", c))
  BY DEF PacketArrives
<1>4. WorldOK' /\ world'.mail = world.mail
  BY WorldSteps DEF Invariant, PacketArrives
<1>5. Copies' = Copies
  BY <1>4 DEF Copies, Msgs
<1>6. n = [air |-> n.air, node |-> n.node, push |-> n.push, told |-> n.told, heard |-> n.heard]
  BY <1>2 DEF Invariant, NetOK
<1>7. c \in Copies /\ c.key <= s.past.made
  BY <1>1, <1>2, <1>3 DEF Invariant, NetOK, NetKeysMade
<1>8. PICK t : t = DecryptSoon(s, "packet", c)
  OBVIOUS
<1>9. Good(t, {}) /\ Forward(s, t)
  BY <1>1, <1>7, <1>8, DecryptKeeps
<1>10. Steps(s, t)
  BY <1>9, ForwardSteps
<1>11. NetKeysMade(t, n) /\ NodeDone(t, {}, n.node)
  BY <1>1, <1>10, StepsOn
<1>12. net' = [air |-> n.air \ {c}, node |-> n.node, push |-> n.push, told |-> n.told, heard |-> n.heard]
  BY <1>2, <1>3, <1>6
<1>13. PICK v : v = net' /\ NetOK' /\ NetKeysMade(t, v) /\ NodeDone(t, {}, v.node)
  BY <1>2, <1>5, <1>11, <1>12, LessNet
<1>14. dev' = t.dev /\ page' = t.page /\ past' = t.past
  BY <1>3, <1>8 DEF Becomes
<1> QED  BY <1>4, <1>9, <1>13, <1>14, Stepped

\* and a push.
LEMMA PushArrivesStep ==
  ASSUME Invariant, PushArrives
  PROVE  Invariant'
<1>1. PICK s \in {State}, n \in {net} : Good(s, {}) /\ NetKeysMade(s, n) /\ NodeDone(s, {}, n.node)
  BY DEF Invariant
<1>2. s.dev = dev /\ s.page = page /\ s.past = past /\ n = net
  BY DEF State
<1>3. PICK c \in net.push : /\ net' = [net EXCEPT !.push = @ \ {c}]
                            /\ Becomes(IF Held(s, c) THEN s ELSE DecryptSoon(s, "push", c))
  BY DEF PushArrives
<1>4. WorldOK' /\ world'.mail = world.mail
  BY WorldSteps DEF Invariant, PushArrives
<1>5. Copies' = Copies
  BY <1>4 DEF Copies, Msgs
<1>6. n = [air |-> n.air, node |-> n.node, push |-> n.push, told |-> n.told, heard |-> n.heard]
  BY <1>2 DEF Invariant, NetOK
<1>7. c \in Copies /\ c.key <= s.past.made
  BY <1>1, <1>2, <1>3 DEF Invariant, NetOK, NetKeysMade
<1>8. PICK t : t = IF Held(s, c) THEN s ELSE DecryptSoon(s, "push", c)
  OBVIOUS
<1>9. Good(t, {}) /\ NetKeysMade(t, n) /\ NodeDone(t, {}, n.node)
  <2>1. CASE Held(s, c)
    BY <1>1, <1>8, <2>1
  <2>2. CASE ~Held(s, c)
    <3>1. Good(t, {}) /\ Forward(s, t)
      BY <1>1, <1>7, <1>8, <2>2, DecryptKeeps
    <3>2. Steps(s, t)
      BY <3>1, ForwardSteps
    <3> QED  BY <1>1, <3>1, <3>2, StepsOn
  <2> QED  BY <2>1, <2>2
<1>12. net' = [air |-> n.air, node |-> n.node, push |-> n.push \ {c}, told |-> n.told, heard |-> n.heard]
  BY <1>2, <1>3, <1>6
<1>13. PICK v : v = net' /\ NetOK' /\ NetKeysMade(t, v) /\ NodeDone(t, {}, v.node)
  BY <1>2, <1>5, <1>9, <1>12, LessNet
<1>14. dev' = t.dev /\ page' = t.page /\ past' = t.past
  BY <1>3, <1>8 DEF Becomes
<1> QED  BY <1>4, <1>9, <1>13, <1>14, Stepped

\* A payload of a link's,
LEMMA SendOnLinkStep ==
  ASSUME Invariant, SendOnLink
  PROVE  Invariant'
<1>1. PICK s \in {State}, n \in {net} : Good(s, {}) /\ NetKeysMade(s, n) /\ NodeDone(s, {}, n.node)
  BY DEF Invariant
<1>2. s.dev = dev /\ s.page = page /\ s.past = past /\ n = net
  BY DEF State
<1>3. PICK m \in world.linked, how \in {"link", "resource"} :
        /\ world' = [world EXCEPT !.linked = @ \ {m}]
        /\ Becomes(Task(IF how = "resource" THEN Prove(s, m) ELSE s, how, m))
  BY Zenon DEF SendOnLink
<1>4. WorldOK' /\ world'.mail = world.mail /\ net' = net
  BY <1>3, WorldSteps, Zenon DEF Invariant, SendOnLink
<1>5. m \in Msgs
  BY DEF Invariant, WorldOK
<1>6. PICK t : t = Task(IF how = "resource" THEN Prove(s, m) ELSE s, how, m)
  OBVIOUS
<1>7. Steps(s, t)
  BY <1>1, <1>5, <1>6, LinkTaskKeeps
<1>8. dev' = t.dev /\ page' = t.page /\ past' = t.past
  BY <1>3, <1>6 DEF Becomes
<1> QED  BY <1>1, <1>2, <1>4, <1>7, <1>8, DeviceSteps DEF Invariant

\* Two parts of the network that change at once.
LEMMA TwoParts ==
  ASSUME NEW n, NEW f, NEW g, NEW w,
         n = [air |-> n.air, node |-> n.node, push |-> n.push, told |-> n.told, heard |-> n.heard],
         w = [n EXCEPT !.node = f, !.push = g]
  PROVE  w = [air |-> n.air, node |-> f, push |-> g, told |-> n.told, heard |-> n.heard]
BY Zenon

\* With a copy more on the node, the invariant stays.
LEMMA PropagateStep ==
  ASSUME Invariant, Propagate
  PROVE  Invariant'
<1>1. PICK s \in {State}, n \in {net} : Good(s, {}) /\ NetKeysMade(s, n) /\ NodeDone(s, {}, n.node)
  BY DEF Invariant
<1>2. s.dev = dev /\ s.page = page /\ s.past = past /\ n = net /\ s = [dev |-> dev, page |-> page, past |-> past]
  BY DEF State
<1>3. PICK m \in world.stored, live \in world.live :
    /\ world' = [world EXCEPT !.stored = @ \ {m}]
    /\ net' = [net EXCEPT !.node = @ \cup {Copy(m)}, !.push = IF live THEN @ \cup {Copy(m)} ELSE @]
    /\ past' = [past EXCEPT !.stored = @ \cup {Copy(m)}]
  BY Zenon DEF Propagate
<1>4. WorldOK' /\ world'.mail = world.mail
  BY <1>3, WorldSteps, Zenon DEF Invariant
<1>5. Copies' = Copies
  BY <1>4 DEF Copies, Msgs
<1>6. n = [air |-> n.air, node |-> n.node, push |-> n.push, told |-> n.told, heard |-> n.heard]
  BY <1>2 DEF Invariant, NetOK
<1>7. PICK c : c = Copy(m)
  OBVIOUS
<1>8. c \in Copies /\ c.key = n.heard
  BY <1>2, <1>7 DEF Invariant, NetOK, WorldOK, Copy, Copies
<1>9. c.key <= s.past.made
  BY <1>1, <1>8 DEF NetKeysMade
<1>10. PICK t : t = [dev |-> s.dev, page |-> s.page, past |-> [s.past EXCEPT !.stored = s.past.stored \cup {c}]]
  BY Zenon
<1>11. Good(t, {}) /\ t.past.made = s.past.made /\ NodeDone(t, {}, n.node \cup {c})
  <2>1. PICK node : node = n.node /\ NodeDone(s, {}, node)
    BY <1>1
  <2>2. Good(t, {}) /\ t.past.made = s.past.made /\ NodeDone(t, {}, node \cup {c})
    <3>1. LeftThere(s, t, c, node)
      BY <1>1, <1>8, <1>9, <1>10, <2>1, Zenon DEF LeftThere
    <3> QED  BY <3>1, StoredKeeps, Zenon
  <2> QED  BY <2>1, <2>2
<1>a. PICK push : push = IF live THEN n.push \cup {c} ELSE n.push
  BY Zenon
<1>12. PICK v : v = [air |-> n.air, node |-> n.node \cup {c}, push |-> push,
                     told |-> n.told, heard |-> n.heard]
  BY Zenon
<1>13. net' = v
  <2>1. net' = [n EXCEPT !.node = n.node \cup {c}, !.push = push]
    BY <1>2, <1>3, <1>7, <1>a
  <2>2. PICK f : f = n.node \cup {c}
    BY Zenon
  <2>3. net' = [n EXCEPT !.node = f, !.push = push]
    BY <2>1, <2>2
  <2>4. v = [air |-> n.air, node |-> f, push |-> push, told |-> n.told, heard |-> n.heard]
    BY <1>12, <2>2
  <2>5. PICK w : w = net'
    OBVIOUS
  <2>6. w = [n EXCEPT !.node = f, !.push = push]
    BY <2>3, <2>5
  <2>a. w = [air |-> n.air, node |-> f, push |-> push, told |-> n.told, heard |-> n.heard]
    BY <1>6, <2>6, TwoParts, Zenon
  <2>7. w = v
    BY <2>4, <2>a
  <2> QED  BY <2>5, <2>7
<1>14. NetOK'
  <2>1. IsFiniteSet(n.node \cup {c})
    BY <1>2, FS_AddElement DEF Invariant, NetOK
  <2>2. n.air \cup n.node \cup n.push \subseteq Copies /\ n.told \in Nat /\ n.heard \in Nat
    BY <1>2 DEF Invariant, NetOK
  <2> QED  BY <1>5, <1>8, <1>a, <1>12, <1>13, <2>1, <2>2 DEF NetOK
<1>15. NetKeysMade(t, v)
  BY <1>1, <1>8, <1>9, <1>11, <1>a, <1>12 DEF NetKeysMade
<1>16. NodeDone(t, {}, v.node)
  BY <1>11, <1>12
<1>17. dev' = t.dev /\ page' = t.page /\ past' = t.past
  BY <1>2, <1>3, <1>7, <1>10 DEF Propagate
<1> QED  BY <1>4, <1>11, <1>13, <1>14, <1>15, <1>16, <1>17, Stepped

-----------------------------------------------------------------------------
(* The page asks the node for what it holds.                                *)

\* The page asks the node for its list.
LEMMA FetchStep ==
  ASSUME Invariant, Fetch
  PROVE  Invariant'
<1>1. PICK s \in {State}, n \in {net} : Good(s, {}) /\ NetKeysMade(s, n) /\ NodeDone(s, {}, n.node)
  BY DEF Invariant
<1>2. s.dev = dev /\ s.page = page /\ s.past = past /\ n = net /\ s = [dev |-> dev, page |-> page, past |-> past]
  BY DEF State
<1>3. PICK t : t = [s EXCEPT !.page.get = [s.page.get EXCEPT !.at = "list"]]
  BY Zenon
<1>4. Steps(s, t)
  BY <1>1, <1>3, FetchKeeps
<1>5. dev' = t.dev /\ page' = t.page /\ past' = t.past
  BY <1>1, <1>2, <1>3 DEF Fetch, Good, Form
<1>6. WorldOK' /\ world'.mail = world.mail /\ net' = net
  BY WorldSteps DEF Invariant, Fetch
<1> QED  BY <1>1, <1>2, <1>4, <1>5, <1>6, DeviceSteps DEF Invariant

\* A request that fails leaves a world.
LEMMA FailIs ==
  ASSUME WorldOK, Fail
  PROVE  WorldOK' /\ world'.mail = world.mail
<1>1. \E f : world' = [world EXCEPT !.fail = f]
  BY Zenon DEF Fail
<1> QED  BY <1>1, WorldSteps, Zenon

\* The list is answered,
LEMMA ListedStep ==
  ASSUME Invariant, Listed
  PROVE  Invariant'
<1>1. PICK s \in {State}, n \in {net} : Good(s, {}) /\ NetKeysMade(s, n) /\ NodeDone(s, {}, n.node)
  BY DEF Invariant
<1>2. s = State /\ n = net
  OBVIOUS
<1>3. CASE Fail /\ Becomes([State EXCEPT !.page.get = NoGet])
  <2>1. PICK t : t = [s EXCEPT !.page.get = NoGet]
    BY Zenon
  <2>2. Steps(s, t)
    BY <1>1, <2>1, NoGetKeeps
  <2>3. dev' = t.dev /\ page' = t.page /\ past' = t.past
    BY <1>2, <1>3, <2>1 DEF Becomes
  <2>4. WorldOK' /\ world'.mail = world.mail /\ net' = net
    BY <1>3, FailIs, Zenon DEF Invariant, Listed
  <2> QED  BY <1>1, <1>2, <2>2, <2>3, <2>4, DeviceSteps DEF Invariant
<1>4. CASE /\ UNCHANGED world
           /\ LET held == {c \in net.node : Held(State, c)} IN
              \E order \in SetToSeqs(net.node \ held) :
                Becomes(Turn([State EXCEPT !.page.get.have = held, !.page.get.left = order]))
  <2>1. PICK node, held : node = n.node /\ held = {c \in node : Held(s, c)}
    BY Zenon
  <2>2. PICK order \in SetToSeqs(node \ held) :
          Becomes(Turn([s EXCEPT !.page.get.have = held, !.page.get.left = order]))
    BY <1>2, <1>4, <2>1, Zenon
  <2>3. PICK t : t = Turn([s EXCEPT !.page.get.have = held, !.page.get.left = order])
    OBVIOUS
  <2>4. node \subseteq Copies /\ IsFiniteSet(node) /\ \A c \in node : c.key <= s.past.made
    BY <1>1, <1>2, <2>1 DEF Invariant, NetOK, NetKeysMade
  <2>5. Steps(s, t)
    BY <1>1, <2>1, <2>2, <2>3, <2>4, ListedKeeps, Zenon
  <2>6. dev' = t.dev /\ page' = t.page /\ past' = t.past
    BY <2>2, <2>3 DEF Becomes
  <2>7. WorldOK' /\ world'.mail = world.mail /\ net' = net
    BY <1>4, WorldSteps, Zenon DEF Invariant, Listed
  <2> QED  BY <1>1, <1>2, <2>5, <2>6, <2>7, DeviceSteps DEF Invariant
<1> QED  BY <1>3, <1>4, Zenon DEF Listed

\* and a download.
LEMMA DownloadedStep ==
  ASSUME Invariant, Downloaded
  PROVE  Invariant'
<1>1. PICK s \in {State}, n \in {net} : Good(s, {}) /\ NetKeysMade(s, n) /\ NodeDone(s, {}, n.node)
  BY DEF Invariant
<1>2. s = State /\ n = net /\ s.page = page
  BY DEF State
<1>3. PICK c \in s.page.get.asking :
       \/ Fail /\ Becomes(DownloadFailed(s, c))
       \/ /\ UNCHANGED world
          /\ Becomes(IF Held(s, c) THEN GetTaken(s, c)
                     ELSE DecryptSoon([s EXCEPT !.page.get.at = "read"], "get", c))
  BY <1>2 DEF Downloaded
<1>4. WorldOK' /\ world'.mail = world.mail /\ net' = net
  BY <1>3, FailIs, WorldSteps, Zenon DEF Invariant, Downloaded
<1>5. \E t : Becomes(t) /\ Steps(s, t)
  <2>1. CASE Becomes(DownloadFailed(s, c))
    BY <1>1, <2>1, DownloadedKeeps, Zenon
  <2>2. CASE Becomes(GetTaken(s, c)) /\ Held(s, c)
    BY <1>1, <2>2, DownloadedKeeps, Zenon
  <2>3. CASE Becomes(DecryptSoon([s EXCEPT !.page.get.at = "read"], "get", c))
    BY <1>1, <2>3, DownloadedKeeps
  <2> QED  BY <1>3, <2>1, <2>2, <2>3
<1>6. PICK t : Becomes(t) /\ Steps(s, t)
  BY <1>5
<1>7. dev' = t.dev /\ page' = t.page /\ past' = t.past
  BY <1>6 DEF Becomes
<1> QED  BY <1>1, <1>2, <1>4, <1>6, <1>7, DeviceSteps DEF Invariant

\* The node lets go of what the device has.
LEMMA PurgedStep ==
  ASSUME Invariant, Purged
  PROVE  Invariant'
<1>1. PICK s \in {State}, n \in {net} : Good(s, {}) /\ NetKeysMade(s, n) /\ NodeDone(s, {}, n.node)
  BY DEF Invariant
<1>2. s.dev = dev /\ s.page = page /\ s.past = past /\ n = net /\ s = [dev |-> dev, page |-> page, past |-> past]
  BY DEF State
<1>3. PICK t : t = [s EXCEPT !.page.get = NoGet]
  BY Zenon
<1>4. Steps(s, t)
  BY <1>1, <1>3, NoGetKeeps
<1>5. dev' = t.dev /\ page' = t.page /\ past' = t.past
  BY <1>2, <1>3 DEF Purged
<1>6. WorldOK' /\ world'.mail = world.mail
  BY FailIs, WorldSteps, Zenon DEF Invariant, Purged
<1>7. CASE net' = net
  BY <1>1, <1>2, <1>4, <1>5, <1>6, <1>7, DeviceSteps DEF Invariant
<1>8. CASE net' = [net EXCEPT !.node = @ \ page.get.have]
  <2>1. Copies' = Copies
    BY <1>6 DEF Copies, Msgs
  <2>2. n = [air |-> n.air, node |-> n.node, push |-> n.push, told |-> n.told, heard |-> n.heard]
    BY <1>2 DEF Invariant, NetOK
  <2>3. PICK have : have = s.page.get.have
    OBVIOUS
  <2>4. PICK v : v = [air |-> n.air, node |-> n.node \ have, push |-> n.push, told |-> n.told, heard |-> n.heard]
    BY Zenon
  <2>5. net' = v
    BY <1>2, <1>8, <2>2, <2>3, <2>4
  <2>6. NetKeysMade(t, v)
    <3>1. NetKeysMade(t, n)
      BY <1>1, <1>4, StepsOn
    <3> QED  BY <2>4, <3>1 DEF NetKeysMade
  <2>7. NodeDone(t, {}, v.node)
    <3>1. ASSUME NEW c \in s.past.stored \ v.node PROVE Done(s, {}, c)
      <4>1. CASE c \in have
        BY <1>1, <2>3, <4>1 DEF Good, ReadSound, Accounts
      <4>2. CASE c \notin have
        BY <1>1, <2>4, <4>2, <3>1 DEF NodeDone
      <4> QED  BY <4>1, <4>2
    <3>2. s.past.stored \subseteq Copies
      BY <1>1 DEF Good, KeptSound, KeyTyped
    <3> QED  BY <1>4, <3>1, <3>2 DEF NodeDone, Steps
  <2>8. NetOK'
    <3>1. IsFiniteSet(n.node \ have)
      BY <1>2, FS_Difference, Zenon DEF Invariant, NetOK
    <3>2. n.air \cup n.node \cup n.push \subseteq Copies /\ n.told \in Nat /\ n.heard \in Nat
      BY <1>2 DEF Invariant, NetOK
    <3> QED  BY <2>1, <2>4, <2>5, <3>1, <3>2 DEF NetOK
  <2> QED  BY <1>4, <1>5, <1>6, <2>5, <2>6, <2>7, <2>8, Stepped DEF Steps
<1> QED  BY <1>7, <1>8 DEF Purged

-----------------------------------------------------------------------------
(* The device *)

\* An announce, of a new ratchet or of the last.
LEMMA AnnounceStep ==
  ASSUME Invariant, Announce
  PROVE  Invariant'
<1>1. PICK s \in {State}, n \in {net} : Good(s, {}) /\ NetKeysMade(s, n) /\ NodeDone(s, {}, n.node)
  BY DEF Invariant
<1>2. s = State /\ n = net
  OBVIOUS
<1>3. PICK kept \in IF world.refuse > 0 THEN BOOLEAN ELSE {TRUE} :
       LET r == Rotate(State, kept) IN
       /\ world' = [world EXCEPT !.rotate = @ - 1, !.refuse = IF kept THEN @ ELSE @ - 1]
       /\ IF r.page.ratchets = <<>> THEN Becomes(r) /\ UNCHANGED net
          ELSE /\ net' = [net EXCEPT !.told = Head(r.page.ratchets)]
               /\ Becomes([r EXCEPT !.past.announced =
                    IF Contains(@, Head(r.page.ratchets)) THEN @ ELSE Append(@, Head(r.page.ratchets))])
  BY Zenon DEF Announce
<1>4. kept \in BOOLEAN
  BY Zenon
<1>5. \E r, f : world' = [world EXCEPT !.rotate = r, !.refuse = f]
  BY <1>3, Zenon
<1>6. WorldOK' /\ world'.mail = world.mail
  BY <1>5, WorldSteps, Zenon DEF Invariant
<1>7. PICK t, rs : t = Announced(s, kept) /\ rs = Rotate(s, kept).page.ratchets
  OBVIOUS
<1>8. Becomes(t)
  BY <1>2, <1>3, <1>7 DEF Announced
<1>9. n.told \in Nat /\ n.heard \in Nat /\ n.air \cup n.node \cup n.push \subseteq Copies
  BY <1>2 DEF Invariant, NetOK
<1>10. /\ Good(t, {}) /\ NetKeysMade(t, n) /\ NodeDone(t, {}, n.node)
       /\ rs # <<>> => Head(rs) \in Nat /\ Head(rs) <= t.past.made
  BY <1>1, <1>4, <1>7, <1>9, AnnounceKeeps
<1>11. dev' = t.dev /\ page' = t.page /\ past' = t.past
  BY <1>8 DEF Becomes
<1>12. Copies' = Copies
  BY <1>6 DEF Copies, Msgs
<1>13. n = [air |-> n.air, node |-> n.node, push |-> n.push, told |-> n.told, heard |-> n.heard]
  BY <1>2 DEF Invariant, NetOK
<1>14. CASE rs = <<>>
  <2>1. net' = n
    BY <1>2, <1>3, <1>7, <1>14
  <2>2. NetOK'
    BY <1>2, <1>12, <2>1 DEF Invariant, NetOK
  <2> QED  BY <1>6, <1>10, <1>11, <2>1, <2>2, Stepped
<1>15. CASE rs # <<>>
  <2>1. PICK v : v = [air |-> n.air, node |-> n.node, push |-> n.push, told |-> Head(rs), heard |-> n.heard]
    BY Zenon
  <2>2. net' = [n EXCEPT !.told = Head(rs)]
    BY <1>2, <1>3, <1>7, <1>15
  <2>3. net' = v
    BY <1>13, <2>1, <2>2
  <2>4. NetOK'
    BY <1>2, <1>10, <1>12, <1>15, <2>1, <2>3 DEF Invariant, NetOK
  <2>5. NetKeysMade(t, v) /\ NodeDone(t, {}, v.node)
    BY <1>10, <1>15, <2>1 DEF NetKeysMade
  <2> QED  BY <1>6, <1>10, <1>11, <2>3, <2>4, <2>5, Stepped
<1> QED  BY <1>14, <1>15

\* The user's contacts, and what a sender says of itself.
LEMMA UserAddsStep ==
  ASSUME Invariant, UserAdds
  PROVE  Invariant'
<1>1. PICK s \in {State}, n \in {net} : Good(s, {}) /\ NetKeysMade(s, n) /\ NodeDone(s, {}, n.node)
  BY DEF Invariant
<1>2. s.dev = dev /\ s.page = page /\ s.past = past /\ n = net /\ s = [dev |-> dev, page |-> page, past |-> past]
  BY DEF State
<1>3. PICK src : /\ world' = [world EXCEPT !.adds = @ \ {src}]
                 /\ dev' = [s.dev EXCEPT !.allows = @ \cup {src}, !.rows = @ \cup {src}]
  BY <1>2, Zenon DEF UserAdds
<1>4. PICK d : d = [s.dev EXCEPT !.allows = @ \cup {src}, !.rows = @ \cup {src}]
  OBVIOUS
<1>5. s.dev = [held |-> s.dev.held, seen |-> s.dev.seen, inbox |-> s.dev.inbox, slot |-> s.dev.slot,
              rows |-> s.dev.rows, knows |-> s.dev.knows, allows |-> s.dev.allows,
              ratchets |-> s.dev.ratchets]
  BY <1>1 DEF Good, Form
<1>6. /\ d = [held |-> s.dev.held, seen |-> s.dev.seen, inbox |-> s.dev.inbox, slot |-> s.dev.slot,
              rows |-> d.rows, knows |-> d.knows, allows |-> d.allows, ratchets |-> s.dev.ratchets]
      /\ d.knows = s.dev.knows
  BY <1>4, <1>5, Zenon
<1>7. PICK t : t = [dev |-> d, page |-> s.page, past |-> s.past]
  BY Zenon
<1>8. Steps(s, t)
  BY <1>1, <1>6, <1>7, PeopleKeep
<1>9. dev' = t.dev /\ page' = t.page /\ past' = t.past
  BY <1>2, <1>3, <1>4, <1>7 DEF UserAdds
<1>10. WorldOK' /\ world'.mail = world.mail /\ net' = net
  BY <1>3, WorldSteps, Zenon DEF Invariant, UserAdds
<1> QED  BY <1>1, <1>2, <1>8, <1>9, <1>10, DeviceSteps DEF Invariant

\* A sender's announce gives its row a key.
LEMMA SenderAnnouncesStep ==
  ASSUME Invariant, SenderAnnounces
  PROVE  Invariant'
<1>1. PICK s \in {State}, n \in {net} : Good(s, {}) /\ NetKeysMade(s, n) /\ NodeDone(s, {}, n.node)
  BY DEF Invariant
<1>2. s.dev = dev /\ s.page = page /\ s.past = past /\ n = net /\ s = [dev |-> dev, page |-> page, past |-> past]
  BY DEF State
<1>3. PICK src : /\ world' = [world EXCEPT !.tells = @ \ {src}]
                 /\ dev' = [s.dev EXCEPT !.knows = @ \cup {src}]
  BY <1>2, Zenon DEF SenderAnnounces
<1>4. PICK d : d = [s.dev EXCEPT !.knows = @ \cup {src}]
  BY Zenon
<1>5. s.dev = [held |-> s.dev.held, seen |-> s.dev.seen, inbox |-> s.dev.inbox, slot |-> s.dev.slot,
              rows |-> s.dev.rows, knows |-> s.dev.knows, allows |-> s.dev.allows,
              ratchets |-> s.dev.ratchets]
  BY <1>1 DEF Good, Form
<1>6. /\ d = [held |-> s.dev.held, seen |-> s.dev.seen, inbox |-> s.dev.inbox, slot |-> s.dev.slot,
              rows |-> d.rows, knows |-> d.knows, allows |-> d.allows, ratchets |-> s.dev.ratchets]
      /\ s.dev.knows \subseteq d.knows
  BY <1>4, <1>5
<1>7. PICK t : t = [dev |-> d, page |-> s.page, past |-> s.past]
  BY Zenon
<1>8. Steps(s, t)
  BY <1>1, <1>6, <1>7, PeopleKeep
<1>9. dev' = t.dev /\ page' = t.page /\ past' = t.past
  BY <1>2, <1>3, <1>4, <1>7 DEF SenderAnnounces
<1>10. WorldOK' /\ world'.mail = world.mail /\ net' = net
  BY <1>3, WorldSteps, Zenon DEF Invariant, SenderAnnounces
<1> QED  BY <1>1, <1>2, <1>8, <1>9, <1>10, DeviceSteps DEF Invariant

\* The page is closed and opened again.
LEMMA ReloadStep ==
  ASSUME Invariant, Reload
  PROVE  Invariant'
<1>1. PICK s \in {State}, n \in {net} : Good(s, {}) /\ NetKeysMade(s, n) /\ NodeDone(s, {}, n.node)
  BY DEF Invariant
<1>2. s.dev = dev /\ s.page = page /\ s.past = past /\ n = net /\ s = [dev |-> dev, page |-> page, past |-> past]
  BY DEF State
<1>3. PICK opens \in world.opens, disk \in LeftBy(s.page.files) : page' = Page0(s.dev.ratchets, OpenStore(opens, disk))
  BY <1>2 DEF Reload
<1>4. opens \in BOOLEAN
  BY DEF Invariant, WorldOK
<1>5. PICK t : t = [dev |-> s.dev, page |-> Page0(s.dev.ratchets, OpenStore(opens, disk)),
          past |-> [s.past EXCEPT
            !.cut = @ \cup {x.m : x \in {u \in ToSet(s.page.tasks) : u.what \in {"message", "resource"}}},
            !.earlier = @ \cup UNION {KeysOf(src, s.dev.inbox[src]) : src \in Sources},
            !.left = @ \cup {w.key : w \in {v \in ToSet(s.page.files.work) : v.op = "delete"}}]]
  BY Zenon
<1>6. Reloads(s, t, opens, disk)
  BY <1>3, <1>4, <1>5 DEF Reloads
<1>7. Steps(s, t)
  BY <1>1, <1>6, ReloadKeeps
<1>8. dev' = t.dev /\ page' = t.page /\ past' = t.past
  BY <1>2, <1>3, <1>5 DEF Reload
<1>9. \E r : world' = [world EXCEPT !.reload = r]
  BY Zenon DEF Reload
<1>10. WorldOK' /\ world'.mail = world.mail /\ net' = net
  BY <1>9, WorldSteps, Zenon DEF Invariant, Reload
<1> QED  BY <1>1, <1>2, <1>7, <1>8, <1>10, DeviceSteps DEF Invariant

-----------------------------------------------------------------------------

\* What is there at first is sound,
LEMMA InitSound ==
  ASSUME Init
  PROVE  Invariant
<1>1. WorldOK
  BY WorldsSound DEF Init, WorldOK, Msgs, Mail
<1>2. NetOK
  BY FS_EmptySet DEF Init, NetOK
<1>3. PICK s, n : s = State /\ n = net
  OBVIOUS
<1>4. PICK opens \in world.opens : page = Page0(<<>>, OpenStore(opens, {}))
  BY DEF Init
<1>5. /\ s = [dev |-> s.dev, page |-> s.page, past |-> s.past]
      /\ s.dev = [held |-> <<>>, seen |-> <<>>, inbox |-> [x \in Sources |-> <<>>],
            slot |-> [x \in Sources |-> NoName], rows |-> world.rows,
            knows |-> world.knows, allows |-> world.allows, ratchets |-> <<>>]
      /\ s.page = [scans |-> {}, tasks |-> <<>>, get |-> NoGet, ratchets |-> <<>>, rotated |-> FALSE,
                   files |-> [opens |-> opens, disk |-> {}, mem |-> {}, work |-> <<>>]]
      /\ s.past = [proved |-> {}, stored |-> {}, dropped |-> {}, cut |-> {}, forgot |-> {},
             arrived |-> [x \in Sources |-> <<>>], offered |-> {}, reacted |-> {}, announced |-> <<>>, made |-> 0,
             earlier |-> {}, left |-> {}]
  BY <1>3, <1>4, Zenon DEF State, Init, Page0, OpenStore
<1>6. n = [air |-> {}, node |-> {}, push |-> {}, told |-> 0, heard |-> 0]
  BY <1>3 DEF Init
<1> HIDE <1>3
<1>7. opens \in BOOLEAN
  BY <1>1 DEF WorldOK
<1>8. Form(s)
  BY <1>5 DEF Form
<1>9. ReadSound(s, {})
  <2>0. ToSet(<<>>) = {}
    BY DEF ToSet
  <2>1. ReadTyped(s)
    <3>1. NoGet \in Gets
      BY DEF NoGet, Gets
    <3> QED  BY <1>5, <3>1 DEF ReadTyped
  <2>2. KeysMade(s)
    BY <1>5, <2>0 DEF KeysMade, Copied, NoGet
  <2>3. Accounts(s, {})
    BY <1>5, <2>0 DEF Accounts, NoGet
  <2>4. Signed(s)
    BY <1>5 DEF Signed
  <2> QED  BY <2>1, <2>2, <2>3, <2>4 DEF ReadSound
<1>10. KeptTyped(s)
  <2>1. NoName \in Slots
    BY DEF NoName, Slots, Names
  <2>2. s.page.files \in Files
    <3>1. \A o, d, m, w : o \in BOOLEAN /\ d \in SUBSET Keys /\ m \in SUBSET Keys /\ w \in Seq(Works)
            => [opens |-> o, disk |-> d, mem |-> m, work |-> w] \in Files
      BY DEF Files
    <3>2. {} \in SUBSET Keys /\ <<>> \in Seq(Works)
      OBVIOUS
    <3>3. [opens |-> opens, disk |-> {}, mem |-> {}, work |-> <<>>] \in Files
      BY <1>7, <3>1, <3>2, Zenon
    <3> QED  BY <1>5, <3>3
  <2> QED  BY <1>5, <2>1, <2>2 DEF KeptTyped
<1>11. KeyTyped(s) /\ RatchetsSound(s)
  BY <1>5, LimitsAre DEF KeyTyped, RatchetsSound
<1>12. Boxes(s)
  <2>1. ASSUME NEW x \in Sources PROVE Window(s, x) /\ Sorted(s, x) /\ Once(s, x) /\ Named(s, x)
    <3>1. s.dev.inbox[x] = <<>> /\ s.past.arrived[x] = <<>> /\ s.dev.slot[x].at = 0
      BY <1>5, <2>1 DEF NoName
    <3>2. Told(s, x) = {}
      BY <1>5 DEF Told
    <3>3. Window(s, x) /\ Sorted(s, x)
      BY <3>1, LimitsAre DEF Window, Numbered, Full, Sorted, InTime
    <3>4. Once(s, x)
      BY <3>1 DEF Once
    <3> QED  BY <3>1, <3>2, <3>3, <3>4 DEF Named
  <2> QED  BY <2>1 DEF Boxes
<1>13. Arrives(s, {}) /\ Chips(s)
  BY <1>5 DEF Arrives, Chips, ToSet
<1>14. FilesSound(s)
  BY <1>5 DEF FilesSound
<1>15. Good(s, {})
  BY <1>8, <1>9, <1>10, <1>11, <1>12, <1>13, <1>14 DEF Good, KeptSound
<1>16. NetKeysMade(s, n) /\ NodeDone(s, {}, n.node)
  BY <1>5, <1>6 DEF NetKeysMade, NodeDone
<1> QED  BY <1>1, <1>2, <1>3, <1>15, <1>16 DEF Invariant

\* and what every step leaves.
LEMMA StepSound ==
  ASSUME Invariant, [Next]_vars
  PROVE  Invariant'
<1>1. CASE UNCHANGED vars
  <2>1. PICK s \in {State}, n \in {net} : Good(s, {}) /\ NetKeysMade(s, n) /\ NodeDone(s, {}, n.node)
    BY DEF Invariant
  <2>2. WorldOK' /\ world'.mail = world.mail
    BY <1>1, WorldSteps DEF Invariant, vars
  <2>3. Copies' = Copies
    BY <2>2 DEF Copies, Msgs
  <2>4. NetOK'
    BY <1>1, <2>3 DEF Invariant, NetOK, vars
  <2>5. dev' = s.dev /\ page' = s.page /\ past' = s.past /\ n = net'
    BY <1>1 DEF State, vars
  <2> QED  BY <2>1, <2>2, <2>4, <2>5, Stepped
<1> QED
  BY <1>1, SendDirectStep, SendOnLinkStep, PropagateStep, SenderHearsStep, LoseStep, PacketArrivesStep,
     PushArrivesStep, ScanDoneStep, RunTaskKeeps, FileLandsStep, FetchStep, ListedStep, DownloadedStep,
     PurgedStep, AnnounceStep, UserAddsStep, SenderAnnouncesStep, ReloadStep DEF Next

\* The last n of a sequence, by what they are.
LEMMA LastAre ==
  ASSUME NEW S, NEW q \in Seq(S), NEW n \in Nat, n > 0
  PROVE  \A x : x \in ToSet(SubSeq(q, Max({1, Len(q) - n + 1}), Len(q)))
           <=> \E i \in 1..Len(q) : i > Len(q) - n /\ x = q[i]
<1>1. PICK r : r = SubSeq(q, Max({1, Len(q) - n + 1}), Len(q))
  BY Zenon
<1>2. /\ r \in Seq(S)
      /\ Len(r) = IF Len(q) <= n THEN Len(q) ELSE n
      /\ \A i \in 1..Len(r) : r[i] = q[Len(q) - Len(r) + i]
  BY <1>1, LastOf, Zenon
<1>3. Len(q) \in Nat /\ Len(r) \in Nat
  BY <1>2
<1>4. \A x : x \in ToSet(r) <=> \E i \in 1..Len(r) : x = r[i]
  BY <1>2 DEF ToSet
<1>5. ASSUME NEW i \in 1..Len(r)
      PROVE  /\ Len(q) - Len(r) + i \in 1..Len(q) /\ Len(q) - Len(r) + i > Len(q) - n
             /\ r[i] = q[Len(q) - Len(r) + i]
  <2>1. Len(r) <= n /\ Len(r) <= Len(q)
    BY <1>2, <1>3
  <2>2. Len(q) <= n => Len(r) = Len(q)
    BY <1>2
  <2>3. ~(Len(q) <= n) => Len(r) = n
    BY <1>2
  <2>4. Len(q) - Len(r) + i \in 1..Len(q) /\ Len(q) - Len(r) + i > Len(q) - n
    BY <1>3, <2>1, <2>2, <2>3
  <2> QED  BY <1>2, <2>4, Zenon
<1>6. ASSUME NEW i \in 1..Len(q), i > Len(q) - n
      PROVE  i - Len(q) + Len(r) \in 1..Len(r) /\ r[i - Len(q) + Len(r)] = q[i]
  <2>1. i - Len(q) + Len(r) \in 1..Len(r)
    BY <1>2, <1>3, <1>6
  <2>2. Len(q) - Len(r) + (i - Len(q) + Len(r)) = i
    BY <1>3
  <2> QED  BY <1>2, <2>1, <2>2, Zenon
<1>7. \A x : x \in ToSet(r) <=> \E i \in 1..Len(q) : i > Len(q) - n /\ x = q[i]
  <2>1. ASSUME NEW x, NEW i \in 1..Len(r), x = r[i] PROVE \E k \in 1..Len(q) : k > Len(q) - n /\ x = q[k]
    BY <1>5, <2>1
  <2>2. ASSUME NEW x, NEW i \in 1..Len(q), i > Len(q) - n, x = q[i] PROVE \E k \in 1..Len(r) : x = r[k]
    BY <1>6, <2>2
  <2> QED  BY <1>4, <2>1, <2>2, Zenon
<1> QED  BY <1>1, <1>7, Zenon

-----------------------------------------------------------------------------
(* What the invariant says of the properties. *)

\* The conversations hold records in order and each message once.
LEMMA KeptOnceSound ==
  ASSUME Invariant
  PROVE  KeptOnce
<1>1. PICK s \in {State} : Good(s, {})
  BY DEF Invariant
<1>2. s.dev = dev /\ s.past = past
  BY DEF State
<1> SUFFICES ASSUME NEW src \in Sources, NEW i \in DOMAIN dev.inbox[src], NEW j \in DOMAIN dev.inbox[src],
                    i # j, dev.inbox[src][i].m = dev.inbox[src][j].m
             PROVE  dev.inbox[src][i].m \in past.forgot
  BY DEF KeptOnce
<1>3. DOMAIN dev.inbox[src] = 1..Len(dev.inbox[src])
  BY <1>1, <1>2 DEF Good, KeptSound, KeptTyped
<1>4. Once(s, src)
  BY <1>1 DEF Good, KeptSound, Boxes
<1> QED  BY <1>2, <1>3, <1>4 DEF Once

\* A message is kept while its arrival is among the last.
LEMMA NothingLostSound ==
  ASSUME Invariant
  PROVE  NothingLost
<1>1. PICK s \in {State}, n \in {net} : Good(s, {}) /\ NodeDone(s, {}, n.node)
  BY DEF Invariant
<1>2. s.dev = dev /\ s.page = page /\ s.past = past /\ n = net
  BY DEF State
<1> SUFFICES ASSUME NEW m \in DOMAIN world.mail, Mail(m).kind = "text",
               m \in past.proved \/ \E c \in past.stored \ net.node : c.m = m /\ c.key \in {0} \cup ToSet(dev.ratchets)
             PROVE  Kept(m) \/ Running(m) \/ m \in past.dropped \cup past.cut \cup ToSet(past.arrived[Source(m)])
  BY DEF NothingLost
<1>3. Accounted(s, {}, m)
  <2>1. CASE m \in past.proved
    BY <1>1, <1>2, <2>1 DEF Good, ReadSound, Accounts
  <2>2. CASE \E c \in past.stored \ net.node : c.m = m /\ c.key \in {0} \cup ToSet(dev.ratchets)
    BY <1>1, <1>2, <2>2 DEF NodeDone, Done, Opening
  <2> QED  BY <2>1, <2>2
<1>4. Handled(s, m) => Running(m)
  <2>1. DOMAIN page.tasks = 1..Len(page.tasks)
    BY <1>1, <1>2 DEF Good, ReadSound, ReadTyped
  <2> QED  BY <1>2, <2>1 DEF Handled, Running
<1> QED  BY <1>2, <1>3, <1>4 DEF Accounted

\* The stored ratchets are the newest announced, newest first.
LEMMA AnnouncedSound ==
  ASSUME Invariant
  PROVE  AnnouncedOpens
<1>1. PICK s \in {State} : Good(s, {})
  BY DEF Invariant
<1>2. s.dev = dev /\ s.past = past
  BY DEF State
<1>3. PICK told, R : told = past.announced /\ R = dev.ratchets
  OBVIOUS
<1>4. told \in Seq(Nat) /\ R \in Seq(Nat)
  BY <1>1, <1>2, <1>3 DEF Good, KeptSound, KeyTyped
<1>5. /\ Len(R) <= Len(told) /\ (Len(R) < RatchetCount => Len(R) = Len(told))
      /\ \A i \in 1..Len(R) : R[i] = told[Len(told) + 1 - i]
  BY <1>1, <1>2, <1>3 DEF Good, KeptSound, RatchetsSound
<1>7. \A x : x \in ToSet(SubSeq(told, Max({1, Len(told) - RatchetCount + 1}), Len(told)))
        <=> \E i \in 1..Len(told) : i > Len(told) - RatchetCount /\ x = told[i]
  <2>1. RatchetCount \in Nat /\ RatchetCount > 0
    BY LimitsAre
  <2> QED  BY <1>4, <2>1, LastAre, Zenon
<1>8. ASSUME NEW i \in 1..Len(told), i > Len(told) - RatchetCount PROVE told[i] \in ToSet(R)
  <2>1. Len(told) \in Nat /\ Len(R) \in Nat
    BY <1>4
  <2>2. Len(told) + 1 - i \in 1..Len(R)
    BY <1>5, <1>8, <2>1, LimitsAre
  <2>3. R[Len(told) + 1 - i] = told[i]
    <3>1. Len(told) + 1 - (Len(told) + 1 - i) = i
      BY <2>1
    <3> QED  BY <1>5, <2>2, <3>1
  <2> QED  BY <1>4, <2>2, <2>3 DEF ToSet
<1>9. ToSet(SubSeq(told, Max({1, Len(told) - RatchetCount + 1}), Len(told))) \subseteq ToSet(R)
  BY <1>7, <1>8, Zenon
<1> QED  BY <1>3, <1>9, Zenon DEF AnnouncedOpens

\* The records kept are the newest to arrive,
LEMMA IdsAre ==
  ASSUME NEW s, Good(s, {}), s.dev = dev, s.past = past, NEW src \in Sources
  PROVE  Ids(src) = Latest(src)
<1>1. PICK box, all : box = dev.inbox[src] /\ all = past.arrived[src]
  OBVIOUS
<1>2. box \in Seq(Recs) /\ all \in Seq(Msgs)
  BY <1>1 DEF Good, KeptSound, KeptTyped
<1>3. Numbered(box, all) /\ Full(box, all)
  BY <1>1 DEF Good, KeptSound, Boxes, Window
<1>4. Len(box) \in Nat /\ Len(all) \in Nat /\ KeepLimit \in Nat /\ KeepLimit > 0
  BY <1>2, LimitsAre
<1>5. /\ Len(box) <= Len(all) /\ Len(box) <= KeepLimit /\ (Len(box) < KeepLimit => Len(box) = Len(all))
      /\ \A i \in 1..Len(box) :
           /\ box[i].arrival \in Len(all) - Len(box) .. Len(all) - 1
           /\ box[i].m = all[box[i].arrival + 1]
      /\ \A a \in Len(all) - Len(box) .. Len(all) - 1 : \E i \in 1..Len(box) : box[i].arrival = a
  BY <1>3 DEF Numbered, Full
<1>6. \A x : x \in ToSet(SubSeq(all, Max({1, Len(all) - KeepLimit + 1}), Len(all)))
        <=> \E i \in 1..Len(all) : i > Len(all) - KeepLimit /\ x = all[i]
  BY <1>2, <1>4, LastAre, Zenon
<1>7. \A x : x \in Ids(src) <=> \E i \in 1..Len(box) : x = box[i].m
  BY <1>1, <1>2 DEF Ids
<1>8. ASSUME NEW i \in 1..Len(box)
      PROVE  \E k \in 1..Len(all) : k > Len(all) - KeepLimit /\ box[i].m = all[k]
  <2>1. box[i].arrival \in Len(all) - Len(box) .. Len(all) - 1 /\ box[i].m = all[box[i].arrival + 1]
    BY <1>5
  <2>2. box[i].arrival + 1 \in 1..Len(all) /\ box[i].arrival + 1 > Len(all) - KeepLimit
    BY <1>4, <1>5, <2>1
  <2> QED  BY <2>1, <2>2
<1>9. ASSUME NEW k \in 1..Len(all), k > Len(all) - KeepLimit
      PROVE  \E i \in 1..Len(box) : all[k] = box[i].m
  <2>1. k - 1 \in Len(all) - Len(box) .. Len(all) - 1
    BY <1>4, <1>5, <1>9
  <2>2. PICK i \in 1..Len(box) : box[i].arrival = k - 1
    BY <1>5, <2>1, Zenon
  <2>3. (k - 1) + 1 = k
    BY <1>4
  <2> QED  BY <1>5, <2>2, <2>3
<1>10. \A x : x \in Latest(src) <=> \E i \in 1..Len(all) : i > Len(all) - KeepLimit /\ x = all[i]
  BY <1>1, <1>6, Zenon DEF Latest
<1>11. \A x : x \in Ids(src) <=> x \in Latest(src)
  BY ZenonT(30), <1>7, <1>8, <1>9, <1>10
<1> QED  BY <1>11, Zenon

\* under the newest name and with the newest reactions,
LEMMA NewestSound ==
  ASSUME Invariant
  PROVE  NewestWins
<1>1. PICK s \in {State} : Good(s, {})
  BY DEF Invariant
<1>2. s.dev = dev /\ s.past = past
  BY DEF State
<1>3. ASSUME NEW src \in Sources
      PROVE  LET told == {o.m : o \in {p \in past.offered :
                            p.sig = "validated" /\ Source(p.m) = src /\ Mail(p.m).name # "absent"}}
             IN told # {} => \E last \in told :
                  /\ \A m \in told : Mail(m).at <= Mail(last).at
                  /\ dev.slot[src] = [name |-> Mail(last).name, at |-> Mail(last).at]
  <2>1. Named(s, src)
    BY <1>1 DEF Good, KeptSound, Boxes
  <2> QED  BY <1>2, <2>1 DEF Named, Told
<1>4. ASSUME NEW src \in Sources, NEW i \in DOMAIN dev.inbox[src]
      PROVE  LET r == dev.inbox[src][i]
                 taken == {m \in past.reacted : Mail(m).to = r.m}
             IN taken # {} /\ r.m \notin past.forgot => \E last \in taken :
                  /\ \A m \in taken : Mail(m).at <= Mail(last).at
                  /\ r.chip = [emoji |-> Mail(last).emoji, at |-> Mail(last).at]
  <2>1. PICK r : r = dev.inbox[src][i]
    OBVIOUS
  <2>2. i \in 1..Len(s.dev.inbox[src])
    BY <1>1, <1>2 DEF Good, KeptSound, KeptTyped
  <2>3. r.m \notin past.forgot => Chip(s, r)
    BY <1>1, <1>2, <2>1, <2>2 DEF Good, KeptSound, Chips
  <2>4. {m \in past.reacted : Mail(m).to = r.m} = Taken(s, r.m)
    BY <1>2 DEF Taken
  <2> QED  BY <2>1, <2>3, <2>4 DEF Chip
<1> QED  BY <1>3, <1>4 DEF NewestWins

\* in the order of their times,
LEMMA OrderSound ==
  ASSUME Invariant
  PROVE  InOrder
<1>1. PICK s \in {State} : Good(s, {})
  BY DEF Invariant
<1>2. s.dev = dev /\ s.past = past
  BY DEF State
<1>3. ASSUME NEW src \in Sources
      PROVE  /\ \A i, j \in DOMAIN dev.inbox[src] : i < j => dev.inbox[src][i].at <= dev.inbox[src][j].at
             /\ Ids(src) = Latest(src)
  <2>1. Ids(src) = Latest(src)
    BY <1>1, <1>2, IdsAre
  <2>2. DOMAIN dev.inbox[src] = 1..Len(dev.inbox[src])
    BY <1>1, <1>2 DEF Good, KeptSound, KeptTyped
  <2>3. Sorted(s, src)
    BY <1>1 DEF Good, KeptSound, Boxes
  <2> QED  BY <1>2, <2>1, <2>2, <2>3 DEF Sorted, InTime
<1> QED  BY <1>3 DEF InOrder

\* with the bytes of their attachments.
LEMMA FilesToldSound ==
  ASSUME Invariant
  PROVE  FilesTold
<1>1. PICK s \in {State} : Good(s, {})
  BY DEF Invariant
<1>2. s.dev = dev /\ s.page = page /\ s.past = past
  BY DEF State
<1>3. PICK files, kept : files = page.files /\ kept = UNION {KeysOf(src, dev.inbox[src]) : src \in Sources}
  BY Zenon
<1>4. FilesSound(s)
  BY <1>1 DEF Good, KeptSound
<1>5. /\ dev.inbox \in [Sources -> Seq(Recs)] /\ files.work \in Seq(Works)
      /\ files.disk \cup files.mem \subseteq Keys
  BY <1>1, <1>2, <1>3 DEF Good, KeptSound, KeptTyped, Files
<1>6. ASSUME NEW src \in Sources, NEW i \in DOMAIN dev.inbox[src]
      PROVE  LET r == dev.inbox[src][i]
                 key == KeyOf(src, r)
             IN /\ r.stored = "persisted" => key \in files.disk
                /\ r.stored # "none" => Reads(files, key) \/ key \in past.earlier
  <2>1. i \in 1..Len(s.dev.inbox[src])
    BY <1>2, <1>5
  <2> QED  BY <1>2, <1>3, <1>4, <2>1 DEF FilesSound
<1>7. ASSUME NEW key \in files.disk \cup files.mem
      PROVE  key \in kept \cup past.left \cup {w.key : w \in {v \in ToSet(files.work) : v.op = "delete"}}
  <2>1. Owned(s, key, 1)
    BY <1>2, <1>3, <1>4 DEF FilesSound
  <2>2. CASE StoredKey(s, key)
    <3>1. key[1] \in Sources /\ key = <<key[1], key[2]>>
      BY <1>5 DEF Keys
    <3>2. dev.inbox[key[1]] \in Seq(Recs)
      BY <1>5, <3>1
    <3>3. key \in KeysOf(key[1], dev.inbox[key[1]])
      BY <1>2, <2>2, <3>1, <3>2, KeysOfIs DEF StoredKey
    <3> QED  BY <1>3, <3>1, <3>3
  <2>3. CASE key \in s.past.left
    BY <1>2, <2>3
  <2>4. CASE Asked(s, "delete", key, 1)
    <3>1. PICK i \in 1..Len(files.work) : files.work[i] = [op |-> "delete", key |-> key]
      BY <1>2, <1>3, <2>4 DEF Asked
    <3>2. files.work[i] \in ToSet(files.work) /\ files.work[i].op = "delete" /\ files.work[i].key = key
      BY <1>5, <3>1 DEF ToSet
    <3> QED  BY <3>2
  <2> QED  BY <2>1, <2>2, <2>3, <2>4 DEF Owned
<1> QED  BY <1>3, <1>6, <1>7 DEF FilesTold

-----------------------------------------------------------------------------

\* Every state that is reached is sound.
LEMMA InvariantHolds == Spec => []Invariant
<1>1. Init => Invariant
  BY InitSound
<1>2. Invariant /\ [Next]_vars => Invariant'
  BY StepSound
<1> QED  BY <1>1, <1>2, PTL DEF Spec

\* A conversation holds each message once, whichever copy of it came first, as
\* long as LxmfSeen remembers it.
THEOREM KeptOnceHolds == Spec => []KeptOnce
<1>1. Invariant => KeptOnce
  BY KeptOnceSound
<1> QED  BY <1>1, InvariantHolds, PTL

\* What was proved to its sender, or left the node while it could be opened,
\* was kept, or dropped, cut short or pushed out.
THEOREM NothingLostHolds == Spec => []NothingLost
<1>1. Invariant => NothingLost
  BY NothingLostSound
<1> QED  BY <1>1, InvariantHolds, PTL

\* What was announced last can still be opened.
THEOREM AnnouncedOpensHolds == Spec => []AnnouncedOpens
<1>1. Invariant => AnnouncedOpens
  BY AnnouncedSound
<1> QED  BY <1>1, InvariantHolds, PTL

\* A conversation reads right.
THEOREM ReadsRightHolds == Spec => []ReadsRight
<1>1. Invariant => ReadsRight
  BY NewestSound, OrderSound, FilesToldSound DEF ReadsRight
<1> QED  BY <1>1, InvariantHolds, PTL
=============================================================================
