--------------------------- MODULE GroupsProofs ---------------------------
(***************************************************************************)
(* Proofs about Groups: whatever comes early, late, twice or from another  *)
(* device, what a device holds of the group stays within its bounds, it    *)
(* shows no post twice, and nothing of a group left or declined is back.   *)
(***************************************************************************)
EXTENDS Groups, FiniteSetTheorems, SequenceTheorems, WellFoundedInduction, TLAPS

-----------------------------------------------------------------------------
(* The inductive invariant. *)

\* A device's record has these fields.
Names == {"st", "creator", "m", "copy", "changes", "closed", "left", "filtered", "rows", "allow", "keys",
          "shown", "chip", "seen", "page", "sending", "pushed", "untold", "cut"}
Fields(s) == DOMAIN s = Names
Listing(q) == q \in Seq(ToSet(q))

\* What comes from c and m, and what is around of RFed and of a device.
Elem(b) == b.kind \in {"accept", "leave"} /\ b.keyed \in BOOLEAN
OutOK(out, made) ==
  /\ made \in {"c", Distro}
  /\ \A b \in out :
       /\ b.kind \in {"invite", "post", "react", "accept", "leave"}
       /\ b.kind = "invite" => made = "c" /\ b.key \in {"c", "m"}
       /\ b.kind \in {"accept", "leave"} => b.keyed \in BOOLEAN
       /\ b.kind = "post" => b.post \notin Device /\ \A a \in out : a.kind = "post" /\ a.post = b.post => a = b
StatusBlob(made, b) ==
  b.kind = "status" /\ made = "c" /\ Listing(b.els) /\ \A i \in 1..Len(b.els) : Elem(b.els[i])
SyncBlob(made, b) ==
  /\ b.kind = "sync" /\ b.op \in {"create", "accept", "leave", "post", "other"}
  /\ b.keys \subseteq {"c", "m"}
  /\ b.op = "create" => made = Distro
  /\ b.op = "accept" => made = "c"
  /\ b.op = "post" => b.by \in Device /\ b.post = b.by
BlobOK(out, made, b) == b \in out \/ StatusBlob(made, b) \/ SyncBlob(made, b)
SyncPost(b) == b.kind = "sync" /\ b.op = "post"

\* The status of m: of the creator's copy and of what is held undecided.
Statuses == {"invited", "accepted", "left"}
CopyTrue(s) ==
  s.creator = Distro =>
    s.copy = CASE s.m = "invited" -> "none" [] s.m = "accepted" -> "accept" [] s.m = "left" -> "leave"
ChangesOK(s) == Listing(s.changes) /\ \A i \in 1..Len(s.changes) : Elem(s.changes[i])
StatusOK(s) ==
  /\ s.m \in Statuses /\ s.copy \in {"none", "accept", "leave"} /\ s.keys \subseteq {"c", "m"}
  /\ ChangesOK(s) /\ CopyTrue(s)

\* What is held: a row each, within the bounds.
RowOK(out, made, d, s, r) ==
  /\ r.group = Group /\ r.src = Source(r.blob) /\ r.pending \in BOOLEAN
  /\ BlobOK(out, made, r.blob) /\ r.blob.kind # "invite"
  /\ r.blob.kind = "sync" => r.blob.op = "post" /\ r.blob.by # d /\ r.blob \notin s.seen
Distinct(rows) == \A i, j \in 1..Len(rows) : rows[i].blob = rows[j].blob => i = j
Number(rows, T) == Cardinality({i \in 1..Len(rows) : rows[i] \in T})
Uninvited(rows) == Cardinality({i \in 1..Len(rows) : ~rows[i].pending})
FromSource(rows, src) == Cardinality({i \in 1..Len(rows) : rows[i].src = src})
InBounds(rows) ==
  /\ Len(rows) <= PerGroup /\ Len(rows) <= MaxBlobs
  /\ Uninvited(rows) <= NotHeld
  /\ \A src \in {"c", "m"} : FromSource(rows, src) <= PerSource
RowsOK(out, made, d, s) ==
  /\ Listing(s.rows) /\ Distinct(s.rows) /\ InBounds(s.rows)
  /\ \A i \in 1..Len(s.rows) : RowOK(out, made, d, s, s.rows[i])

\* What is shown: once, and a post of c only when its blob was seen.
ShownOK(out, s) ==
  /\ Listing(s.shown) /\ \A i, j \in 1..Len(s.shown) : s.shown[i] = s.shown[j] => i = j
  /\ \A b \in out : b.kind = "post" /\ Shows(s, b.post) => b \in s.seen

\* A device's record, wherever the group stands there;
Core(out, made, d, s) ==
  /\ Fields(s) /\ s.creator \in {"none", made} /\ StatusOK(s) /\ RowsOK(out, made, d, s) /\ ShownOK(out, s)
  /\ s.left \in BOOLEAN /\ s.filtered \in BOOLEAN /\ s.allow \in BOOLEAN
  /\ s.chip \in BOOLEAN /\ s.untold \in BOOLEAN /\ s.cut \in BOOLEAN

\* and where it stands: none, pending or joined; closed for good.
Place(made, s) ==
  /\ s.st \in {"none", "pending", "active"} /\ s.closed \in BOOLEAN
  /\ s.st = "none" => s.creator = "none" /\ s.m = "invited" /\ s.copy = "none" /\ s.changes = <<>>
  /\ s.st = "pending" => made = "c" /\ s.creator = "c"
  /\ s.st = "active" => s.creator = made
  /\ s.closed => s.st = "none" /\ s.shown = <<>> /\ s.rows = <<>>
Good(out, made, d, s) == Core(out, made, d, s) /\ Place(made, s)
Idle(s) == s.st = "active" => s.rows = <<>>

\* The syncs of the user's own posts: one of each, whose device shows it, or
\* left the group; another device shows it only when it saw that.
Holds(s, b) == \E i \in 1..Len(s.rows) : s.rows[i].blob = b
Around(dv, nt, b) == SyncPost(b) /\ \E e \in Device : b \in nt[e] \/ Holds(dv[e], b)
Wrote(dv, e) == dv[e].sending = {} /\ (Shows(dv[e], e) \/ dv[e].closed)
Posts(dv, nt) ==
  /\ \A b : Around(dv, nt, b) => Wrote(dv, b.post)
  /\ \A a, b : Around(dv, nt, a) /\ Around(dv, nt, b) /\ a.post = b.post => a = b
  /\ \A b : Around(dv, nt, b) => \A d \in Device : d # b.post /\ Shows(dv[d], b.post) => b \in dv[d].seen
  /\ \A d, e \in Device : d # e /\ Shows(dv[d], e) => Wrote(dv, e)
  /\ \A e \in Device : dv[e].sending # {} => Shows(dv[e], e) \/ dv[e].closed

\* A group the user makes: nothing of it is around before.
Fresh(made, dv, nt) ==
  made = Distro /\ (\A e \in Device : dv[e].creator # Distro /\ ~dv[e].closed)
    => \A e \in Device : nt[e] = {} /\ dv[e].rows = <<>>

Sound(out, made, dv, nt) ==
  /\ OutOK(out, made) /\ DOMAIN dv = Device /\ DOMAIN nt = Device
  /\ \A d \in Device : Good(out, made, d, dv[d]) /\ Idle(dv[d])
  /\ \A d \in Device : \A b \in nt[d] : BlobOK(out, made, b)
  /\ Posts(dv, nt) /\ Fresh(made, dv, nt)

WorldForm(w) ==
  w = [creator |-> w.creator, out |-> w.out, allows |-> w.allows, knows |-> w.knows,
       switched |-> w.switched, acts |-> w.acts, dups |-> w.dups,
       reloads |-> w.reloads, mutes |-> w.mutes]
Outside == peer \in {"invited", "accepted", "left"} /\ wire \subseteq {"accept", "leave"}
Invariant == WorldForm(world) /\ Outside /\ Sound(world.out, world.creator, dev, net)

-----------------------------------------------------------------------------
(* Numbers and sequences. *)

\* The bounds are positive.
LEMMA BoundsAre ==
  /\ MaxBlobs \in Nat /\ MaxBlobs > 0 /\ PerGroup \in Nat /\ PerGroup > 0
  /\ PerSource \in Nat /\ PerSource > 0 /\ NotHeld \in Nat /\ NotHeld > 0
<1>1. MaxBlobs \in Nat \ {0} /\ PerGroup \in Nat \ {0} /\ PerSource \in Nat \ {0} /\ NotHeld \in Nat \ {0}
  BY BoundsPositive
<1> QED  BY <1>1

Less == {p \in Nat \X Nat : p[1] < p[2]}

\* A set of natural numbers that is not empty has a least element.
LEMMA LeastNumber ==
  ASSUME NEW T \in SUBSET Nat, T # {}
  PROVE  \E m \in T : \A k \in T : m <= k
<1>1. IsWellFoundedOn(Less, Nat)
  BY Zenon, NatLessThanWellFounded DEF OpToRel, Less
<1>2. PICK m \in T : \A k \in T : <<k, m>> \notin Less
  BY <1>1, WFMin, Zenon
<1>3. \A k \in Nat : k < m => <<k, m>> \in Less
  BY DEF Less
<1>4. \A k \in T : ~(k < m)
  BY <1>2, <1>3
<1> QED  BY <1>4

\* Min is it.
LEMMA MinIs ==
  ASSUME NEW T \in SUBSET Nat, T # {}
  PROVE  Min(T) \in T /\ \A k \in T : Min(T) <= k
<1>1. \E m \in T : \A k \in T : m <= k
  BY LeastNumber
<1> QED  BY <1>1 DEF Min

\* What is in a sequence.
LEMMA InSeq ==
  ASSUME NEW S, NEW q \in Seq(S)
  PROVE  /\ Len(q) \in Nat /\ DOMAIN q = 1..Len(q)
         /\ \A i \in 1..Len(q) : q[i] \in S /\ q[i] \in ToSet(q)
         /\ ToSet(q) \subseteq S
         /\ \A x : x \in ToSet(q) <=> \E i \in 1..Len(q) : q[i] = x
BY DEF ToSet

\* Any sequence is a listing.
LEMMA ListingIs ==
  ASSUME NEW S, NEW q \in Seq(S)
  PROVE  Listing(q)
<1>1. Len(q) \in Nat /\ DOMAIN q = 1..Len(q) /\ \A i \in 1..Len(q) : q[i] \in ToSet(q)
  BY InSeq
<1>2. q = [i \in 1..Len(q) |-> q[i]]
  OBVIOUS
<1> QED  BY <1>1, <1>2 DEF Listing

\* A listing's length and places.
LEMMA Listed ==
  ASSUME NEW q, Listing(q)
  PROVE  Len(q) \in Nat /\ DOMAIN q = 1..Len(q)
BY InSeq DEF Listing

\* The empty one.
LEMMA EmptyIs == Listing(<<>>) /\ Len(<<>>) = 0 /\ \A q : Listing(q) /\ Len(q) = 0 => q = <<>>
<1>1. <<>> \in Seq({}) /\ Len(<<>>) = 0
  OBVIOUS
<1>2. ASSUME NEW q, q \in Seq(ToSet(q)), Len(q) = 0 PROVE q = <<>>
  BY <1>2
<1> QED  BY <1>1, <1>2, ListingIs DEF Listing

\* One more at the end.
LEMMA AppendedIs ==
  ASSUME NEW q, NEW e, Listing(q)
  PROVE  LET r == Append(q, e) IN
         /\ Listing(r) /\ Len(q) \in Nat /\ Len(r) = Len(q) + 1 /\ DOMAIN r = 1..Len(r) /\ DOMAIN q = 1..Len(q)
         /\ r[Len(q) + 1] = e /\ \A i \in 1..Len(q) : r[i] = q[i]
<1> DEFINE r == Append(q, e)
           S == ToSet(q) \cup {e}
<1>1. q \in Seq(S) /\ e \in S
  BY DEF Listing
<1> HIDE DEF S
<1>2. /\ r \in Seq(S) /\ Len(q) \in Nat /\ Len(r) = Len(q) + 1 /\ DOMAIN r = 1..Len(r) /\ DOMAIN q = 1..Len(q)
      /\ r[Len(q) + 1] = e /\ \A i \in 1..Len(q) : r[i] = q[i]
  BY <1>1
<1>3. Listing(r)
  BY <1>2, ListingIs
<1> QED  BY <1>2, <1>3

\* One out.
LEMMA Removed ==
  ASSUME NEW q, Listing(q), NEW k \in 1..Len(q)
  PROVE  LET p == RemoveAt(q, k) IN
         /\ Listing(p) /\ Len(q) \in Nat /\ Len(p) = Len(q) - 1
         /\ \A i \in 1..Len(p) : p[i] = q[IF i < k THEN i ELSE i + 1] /\ (IF i < k THEN i ELSE i + 1) \in 1..Len(q) \ {k}
<1> DEFINE S == ToSet(q)
           a == SubSeq(q, 1, k - 1)
           b == SubSeq(q, k + 1, Len(q))
<1>0. q \in Seq(S) /\ Len(q) \in Nat
  BY Listed DEF Listing
<1> HIDE DEF S
<1>1. /\ a \in Seq(S) /\ Len(a) = k - 1 /\ \A i \in 1..k - 1 : a[i] = q[i]
      /\ b \in Seq(S) /\ Len(b) = Len(q) - k /\ \A i \in 1..Len(b) : b[i] = q[k + i]
  BY <1>0, SubSeqProperties
<1> HIDE DEF a, b
<1>2. /\ a \o b \in Seq(S) /\ Len(a \o b) = Len(a) + Len(b)
      /\ \A i \in 1..Len(a) + Len(b) : (a \o b)[i] = IF i <= Len(a) THEN a[i] ELSE b[i - Len(a)]
  BY <1>1, ConcatProperties
<1>3. RemoveAt(q, k) = a \o b
  BY DEF RemoveAt, a, b
<1>4. Len(a) + Len(b) = Len(q) - 1 /\ k \in Nat
  BY <1>0, <1>1
<1>5. ASSUME NEW i \in 1..Len(q) - 1 PROVE (a \o b)[i] = IF i < k THEN q[i] ELSE q[i + 1]
  <2>1. CASE i < k
    BY <2>1, <1>1, <1>2, <1>4
  <2>2. CASE i >= k
    <3>1. i - Len(a) \in 1..Len(b) /\ k + (i - Len(a)) = i + 1 /\ ~(i <= Len(a))
      BY <2>2, <1>0, <1>1, <1>4
    <3>2. (a \o b)[i] = b[i - Len(a)]
      BY <3>1, <1>2, <1>4
    <3>3. b[i - Len(a)] = q[k + (i - Len(a))]
      BY <3>1, <1>1
    <3> QED  BY <2>2, <3>1, <3>2, <3>3, <1>4
  <2> QED  BY <2>1, <2>2, <1>4
<1>6. Listing(RemoveAt(q, k)) /\ Len(RemoveAt(q, k)) = Len(q) - 1
  BY <1>2, <1>3, <1>4, ListingIs
<1>7. ASSUME NEW i \in 1..Len(q) - 1 PROVE (IF i < k THEN i ELSE i + 1) \in 1..Len(q) \ {k}
  BY <1>0
<1> QED  BY <1>0, <1>3, <1>5, <1>6, <1>7

-----------------------------------------------------------------------------
(* The rows of a kind, counted: with one row less, and with one more. *)

\* They are counted.
LEMMA NumberIs ==
  ASSUME NEW q, NEW T, Listing(q)
  PROVE  /\ IsFiniteSet({i \in 1..Len(q) : q[i] \in T})
         /\ Number(q, T) \in Nat /\ Number(q, T) <= Len(q)
<1>0. Len(q) \in Nat /\ Len(q) \in Int /\ 1 \in Int
  BY Listed
<1>1. Len(q) \in Nat /\ IsFiniteSet(1..Len(q)) /\ Cardinality(1..Len(q)) = Len(q)
  <2>1. IsFiniteSet(1..Len(q)) /\ Cardinality(1..Len(q)) = IF 1 > Len(q) THEN 0 ELSE Len(q) - 1 + 1
    BY <1>0, FS_Interval, Zenon
  <2> QED  BY <1>0, <2>1
<1>2. {i \in 1..Len(q) : q[i] \in T} \in SUBSET (1..Len(q))
  OBVIOUS
<1> QED  BY <1>1, <1>2, FS_Subset, FS_CardinalityType DEF Number

\* One less: no kind has more, and the kind of what went has one less.
LEMMA NumberRemoved ==
  ASSUME NEW q, NEW T, Listing(q), NEW k \in 1..Len(q)
  PROVE  Number(RemoveAt(q, k), T) <= Number(q, T) - (IF q[k] \in T THEN 1 ELSE 0)
<1> DEFINE p == RemoveAt(q, k)
           A == {i \in 1..Len(q) : q[i] \in T}
           B == {i \in 1..Len(p) : p[i] \in T}
           f == [i \in B |-> IF i < k THEN i ELSE i + 1]
<1>1. /\ Listing(p) /\ Len(q) \in Nat /\ Len(p) = Len(q) - 1
      /\ \A i \in 1..Len(p) : p[i] = q[IF i < k THEN i ELSE i + 1] /\ (IF i < k THEN i ELSE i + 1) \in 1..Len(q) \ {k}
  BY Removed
<1>2. IsFiniteSet(A) /\ Cardinality(A) = Number(q, T) /\ Number(q, T) \in Nat
      /\ Cardinality(B) = Number(p, T) /\ Number(p, T) \in Nat
  BY <1>1, NumberIs DEF Number
<1>3. IsFiniteSet(A \ {k}) /\ Cardinality(A \ {k}) = IF k \in A THEN Cardinality(A) - 1 ELSE Cardinality(A)
  BY <1>2, FS_RemoveElement
<1> HIDE DEF p
<1>4. ASSUME NEW i \in B PROVE f[i] \in A \ {k}
  BY <1>1
<1>5. ASSUME NEW i \in B, NEW j \in B, f[i] = f[j] PROVE i = j
  <2>1. i \in Nat /\ j \in Nat /\ k \in Nat
    BY <1>1
  <2> QED  BY <1>5, <2>1
<1>6. f \in Injection(B, A \ {k})
  BY <1>4, <1>5 DEF Injection, IsInjective
<1>7. Cardinality(B) <= Cardinality(A \ {k})
  BY <1>3, <1>6, FS_Injection
<1>8. k \in A <=> q[k] \in T
  OBVIOUS
<1> HIDE DEF A, B
<1> QED  BY <1>2, <1>3, <1>7, <1>8 DEF p

\* One more: only its kinds have one more.
LEMMA NumberAppended ==
  ASSUME NEW q, NEW T, NEW e, Listing(q)
  PROVE  Number(Append(q, e), T) = Number(q, T) + (IF e \in T THEN 1 ELSE 0)
<1> DEFINE r == Append(q, e)
           n == Len(q) + 1
           A == {i \in 1..Len(q) : q[i] \in T}
           B == {i \in 1..Len(r) : r[i] \in T}
<1>1. /\ Listing(r) /\ Len(q) \in Nat /\ Len(r) = n
      /\ r[n] = e /\ \A i \in 1..Len(q) : r[i] = q[i]
  BY AppendedIs
<1>2. IsFiniteSet(A) /\ Cardinality(A) = Number(q, T) /\ Cardinality(B) = Number(r, T) /\ Number(q, T) \in Nat
  BY NumberIs DEF Number
<1> HIDE DEF r
<1>3. 1..Len(r) = 1..Len(q) \cup {n} /\ n \notin 1..Len(q)
  BY <1>1
<1>4. B = IF e \in T THEN A \cup {n} ELSE A
  BY <1>1, <1>3
<1>5. n \notin A
  BY <1>3
<1> HIDE DEF A, B, n
<1>6. Cardinality(A \cup {n}) = Cardinality(A) + 1
  BY <1>2, <1>5, FS_AddElement
<1> QED  BY <1>2, <1>4, <1>6 DEF r

-----------------------------------------------------------------------------
(* hold(): rows go until each bound has room, and the new one comes last. *)

\* Rows of q, each once where q has them once, and no more of any kind.
Thin(p, q) ==
  /\ Listing(p) /\ Len(p) <= Len(q) /\ ToSet(p) \subseteq ToSet(q)
  /\ Distinct(q) => Distinct(p)
  /\ \A T : Number(p, T) <= Number(q, T)

\* All of them are,
LEMMA ThinSame ==
  ASSUME NEW q, Listing(q)
  PROVE  Thin(q, q)
<1>1. Len(q) \in Nat /\ \A T : Number(q, T) \in Nat
  BY Listed, NumberIs
<1> QED  BY <1>1 DEF Thin

\* and all but one,
LEMMA ThinRemoved ==
  ASSUME NEW q, Listing(q), NEW k \in 1..Len(q)
  PROVE  Thin(RemoveAt(q, k), q)
<1> DEFINE p == RemoveAt(q, k)
<1>1. /\ Listing(p) /\ Len(q) \in Nat /\ Len(p) = Len(q) - 1
      /\ \A i \in 1..Len(p) : p[i] = q[IF i < k THEN i ELSE i + 1] /\ (IF i < k THEN i ELSE i + 1) \in 1..Len(q) \ {k}
  BY Removed
<1>2. ASSUME NEW T PROVE Number(p, T) <= Number(q, T)
  <2>1. Number(p, T) <= Number(q, T) - (IF q[k] \in T THEN 1 ELSE 0)
    BY NumberRemoved
  <2>2. Number(p, T) \in Nat /\ Number(q, T) \in Nat
    BY <1>1, NumberIs
  <2> QED  BY <2>1, <2>2
<1> HIDE DEF p
<1>3. ToSet(p) \subseteq ToSet(q)
  <2>1. /\ \A x : x \in ToSet(p) <=> \E i \in 1..Len(p) : p[i] = x
        /\ \A i \in 1..Len(q) : q[i] \in ToSet(q)
    BY <1>1, InSeq DEF Listing
  <2>2. \A i \in 1..Len(p) : p[i] \in ToSet(q)
    BY <1>1, <2>1
  <2> QED  BY <2>1, <2>2
<1>4. ASSUME Distinct(q) PROVE Distinct(p)
  <2> SUFFICES ASSUME NEW i \in 1..Len(p), NEW j \in 1..Len(p), p[i].blob = p[j].blob PROVE i = j
    BY DEF Distinct
  <2>1. (IF i < k THEN i ELSE i + 1) = (IF j < k THEN j ELSE j + 1)
    BY <1>1, <1>4 DEF Distinct
  <2>2. i \in Nat /\ j \in Nat /\ k \in Nat
    BY <1>1
  <2> QED  BY <2>1, <2>2
<1>5. Len(p) <= Len(q)
  BY <1>1
<1> QED  BY <1>1, <1>2, <1>3, <1>4, <1>5 DEF Thin, p

\* and what is left of what is left.
LEMMA ThinThin ==
  ASSUME NEW p, NEW q, NEW r, Listing(r), Thin(q, r), Thin(p, q)
  PROVE  Thin(p, r)
<1>1. Listing(p) /\ Listing(q) /\ Len(p) \in Nat /\ Len(q) \in Nat /\ Len(r) \in Nat
  BY Listed DEF Thin
<1>2. ASSUME NEW T PROVE Number(p, T) <= Number(r, T)
  <2>1. Number(p, T) <= Number(q, T) /\ Number(q, T) <= Number(r, T)
    BY DEF Thin
  <2>2. Number(p, T) \in Nat /\ Number(q, T) \in Nat /\ Number(r, T) \in Nat
    BY <1>1, NumberIs
  <2> QED  BY <2>1, <2>2
<1>3. Len(p) <= Len(r)
  BY <1>1 DEF Thin
<1>4. ToSet(p) \subseteq ToSet(r) /\ (Distinct(r) => Distinct(p))
  BY DEF Thin
<1> QED  BY <1>1, <1>2, <1>3, <1>4 DEF Thin

\* The row that goes is one of that bound.
LEMMA VictimIs ==
  ASSUME NEW rows, NEW row, NEW bound, Listing(rows)
  PROVE  LET i == Victim(rows, row, bound) IN
         i = 0 \/ (i \in 1..Len(rows) /\ Within(bound, rows[i], row))
<1> DEFINE may == {i \in DOMAIN rows : Within(bound, rows[i], row) /\ (row.pending \/ ~rows[i].pending)}
           has(i) == Cardinality({j \in may : rows[j].src = rows[i].src})
           most == {i \in may : \A j \in may : has(j) <= has(i)}
<1>0. Len(rows) \in Nat /\ DOMAIN rows = 1..Len(rows) /\ may \subseteq 1..Len(rows)
  BY Listed
<1>1. Victim(rows, row, bound) = IF may = {} THEN 0 ELSE Min(most)
  BY DEF Victim
<1>2. SUFFICES ASSUME may # {} PROVE most # {}
  <2>1. most \in SUBSET Nat
    BY <1>0
  <2>2. most # {} => Min(most) \in most
    BY <2>1, MinIs
  <2>3. \A i \in most : i \in 1..Len(rows) /\ Within(bound, rows[i], row)
    BY <1>0
  <2> HIDE DEF most
  <2> QED  BY <1>1, <1>2, <2>2, <2>3
<1>3. IsFiniteSet(may) /\ Cardinality(may) \in Nat
  <2>1. IsFiniteSet(1..Len(rows))
    BY <1>0, FS_Interval
  <2>2. IsFiniteSet(may)
    BY <1>0, <2>1, FS_Subset
  <2> QED  BY <2>2, FS_CardinalityType
<1>4. ASSUME NEW i \in may PROVE has(i) \in Nat /\ has(i) <= Cardinality(may)
  <2>1. {j \in may : rows[j].src = rows[i].src} \in SUBSET may
    OBVIOUS
  <2> QED  BY <1>3, <2>1, FS_Subset, FS_CardinalityType
<1> HIDE DEF may, has
<1> DEFINE lack == {n \in Nat : \E i \in may : n = Cardinality(may) - has(i)}
<1>5. lack \in SUBSET Nat /\ lack # {}
  <2>1. PICK i : i \in may
    BY <1>2
  <2>2. Cardinality(may) - has(i) \in Nat
    BY <1>3, <1>4, <2>1
  <2> QED  BY <2>1, <2>2
<1>6. PICK n \in lack : \A k \in lack : n <= k
  BY <1>5, LeastNumber
<1>7. PICK i \in may : n = Cardinality(may) - has(i)
  BY <1>6
<1>8. ASSUME NEW j \in may PROVE has(j) <= has(i)
  <2>1. Cardinality(may) - has(j) \in lack
    BY <1>3, <1>4
  <2>2. n <= Cardinality(may) - has(j)
    BY <1>6, <2>1
  <2> QED  BY <1>3, <1>4, <1>7, <2>2
<1> QED  BY <1>8

Bounds == {"group", "source", "notheld", "all"}
KindOf(q, bound, row) == {r \in ToSet(q) \cup {row} : Within(bound, r, row)}

\* A bound's limit is positive.
LEMMA LimitIs ==
  ASSUME NEW bound \in Bounds
  PROVE  Limit(bound) \in Nat /\ Limit(bound) > 0
BY BoundsAre DEF Bounds, Limit

\* Room for a row within one bound, by one row less, when it was kept.
LEMMA RoomIs ==
  ASSUME NEW st, NEW row, NEW bound \in Bounds, NEW T, Listing(st.rows),
         DOMAIN st = {"rows", "out", "held"}, st.held \in BOOLEAN,
         \A r \in ToSet(st.rows) : r \in T <=> Within(bound, r, row),
         Asks(row, bound, Distro) => Number(st.rows, T) <= Limit(bound)
  PROVE  LET u == MakeRoom(st, row, bound, Distro) IN
         /\ DOMAIN u = {"rows", "out", "held"} /\ u.held \in BOOLEAN
         /\ Thin(u.rows, st.rows)
         /\ u.held /\ Asks(row, bound, Distro) => Number(u.rows, T) <= Limit(bound) - 1
<1> DEFINE u == MakeRoom(st, row, bound, Distro)
           i == Victim(st.rows, row, bound)
           A == {k \in DOMAIN st.rows : Within(bound, st.rows[k], row)}
           full == Cardinality(A) >= Limit(bound)
<1>1. u = IF ~st.held \/ ~full \/ ~Asks(row, bound, Distro) THEN st
          ELSE IF i = 0 THEN [st EXCEPT !.held = FALSE]
          ELSE [st EXCEPT !.rows = RemoveAt(st.rows, i), !.out = @ \cup {st.rows[i].blob}]
  BY Zenon DEF MakeRoom
<1>2. i = 0 \/ (i \in 1..Len(st.rows) /\ Within(bound, st.rows[i], row))
  BY VictimIs
<1>3. Len(st.rows) \in Nat /\ DOMAIN st.rows = 1..Len(st.rows) /\ \A k \in 1..Len(st.rows) : st.rows[k] \in ToSet(st.rows)
  BY InSeq DEF Listing
<1>4. A = {k \in 1..Len(st.rows) : st.rows[k] \in T}
  BY <1>3
<1>5. Cardinality(A) = Number(st.rows, T) /\ Number(st.rows, T) \in Nat
  BY <1>4, NumberIs DEF Number
<1>6. Limit(bound) \in Nat
  BY LimitIs
<1> HIDE DEF A, i
<1>7. CASE ~st.held \/ ~full \/ ~Asks(row, bound, Distro)
  <2>1. u = st
    BY <1>1, <1>7
  <2>2. Thin(st.rows, st.rows)
    BY ThinSame
  <2>3. st.held /\ Asks(row, bound, Distro) => Number(st.rows, T) <= Limit(bound) - 1
    BY <1>5, <1>6, <1>7
  <2> QED  BY <2>1, <2>2, <2>3
<1>8. CASE st.held /\ full /\ Asks(row, bound, Distro) /\ i = 0
  <2>1. u = [st EXCEPT !.held = FALSE]
    BY <1>1, <1>8
  <2>2. u.rows = st.rows /\ u.held = FALSE /\ DOMAIN u = {"rows", "out", "held"}
    BY <2>1
  <2>3. Thin(st.rows, st.rows)
    BY ThinSame
  <2> QED  BY <2>2, <2>3
<1>9. CASE st.held /\ full /\ Asks(row, bound, Distro) /\ i # 0
  <2>1. u = [st EXCEPT !.rows = RemoveAt(st.rows, i), !.out = @ \cup {st.rows[i].blob}]
    BY <1>1, <1>9
  <2>2. u.rows = RemoveAt(st.rows, i) /\ u.held = st.held /\ DOMAIN u = {"rows", "out", "held"}
    BY <2>1
  <2>3. i \in 1..Len(st.rows) /\ st.rows[i] \in T
    BY <1>2, <1>3, <1>9
  <2>4. Thin(RemoveAt(st.rows, i), st.rows)
    BY <2>3, ThinRemoved
  <2>5. Number(RemoveAt(st.rows, i), T) <= Number(st.rows, T) - (IF st.rows[i] \in T THEN 1 ELSE 0)
    BY <2>3, NumberRemoved
  <2>6. Number(RemoveAt(st.rows, i), T) \in Nat
    BY <2>4, NumberIs DEF Thin
  <2>7. Number(RemoveAt(st.rows, i), T) <= Limit(bound) - 1
    BY <1>5, <1>6, <1>9, <2>3, <2>5, <2>6
  <2> QED  BY <2>2, <2>4, <2>7
<1> QED  BY <1>7, <1>8, <1>9

\* What is refused by one bound stays so.
LEMMA RoomStays ==
  ASSUME NEW st, NEW row, NEW bound, ~st.held
  PROVE  MakeRoom(st, row, bound, Distro) = st
<1> DEFINE i == Victim(st.rows, row, bound)
           full == Cardinality({k \in DOMAIN st.rows : Within(bound, st.rows[k], row)}) >= Limit(bound)
           asks == Asks(row, bound, Distro)
           less == IF i = 0 THEN [st EXCEPT !.held = FALSE]
                   ELSE [st EXCEPT !.rows = RemoveAt(st.rows, i), !.out = @ \cup {st.rows[i].blob}]
<1>1. MakeRoom(st, row, bound, Distro) = IF ~st.held \/ ~full \/ ~asks THEN st ELSE less
  BY Zenon DEF MakeRoom
<1> HIDE DEF full, asks, less
<1> QED  BY <1>1, Zenon

\* hold(): what is left of the rows, or that with the new row, within its bounds.
LEMMA HoldIs ==
  ASSUME NEW rows, NEW row, Listing(rows),
         \A bound \in Bounds : Asks(row, bound, Distro) => Number(rows, KindOf(rows, bound, row)) <= Limit(bound)
  PROVE  LET h == Hold(rows, row, Distro) IN
         \/ Thin(h.rows, rows)
         \/ /\ \A i \in 1..Len(rows) : rows[i].blob # row.blob
            /\ \E p : /\ Thin(p, rows) /\ h.rows = Append(p, row)
                      /\ \A bound \in Bounds : Asks(row, bound, Distro) => Number(p, KindOf(rows, bound, row)) <= Limit(bound) - 1
<1> DEFINE K(bound) == KindOf(rows, bound, row)
           s0 == [rows |-> rows, out |-> {}, held |-> TRUE]
           s1 == MakeRoom(s0, row, "group", Distro)
           s2 == MakeRoom(s1, row, "source", Distro)
           s3 == MakeRoom(s2, row, "notheld", Distro)
           s4 == MakeRoom(s3, row, "all", Distro)
           Fine(u, n) == /\ DOMAIN u = {"rows", "out", "held"} /\ u.held \in BOOLEAN
                         /\ Thin(u.rows, rows)
                         /\ u.held => \A bound \in Bounds \ n : Asks(row, bound, Distro) => Number(u.rows, K(bound)) <= Limit(bound) - 1
<1>0. Len(rows) \in Nat /\ DOMAIN rows = 1..Len(rows)
  BY Listed
<1>1. Hold(rows, row, Distro) = IF \E i \in DOMAIN rows : rows[i].blob = row.blob THEN s0
                                ELSE IF ~s4.held THEN s4 ELSE [s4 EXCEPT !.rows = Append(@, row)]
  BY DEF Hold
<1>2. Fine(s0, Bounds)
  <2>1. s0.rows = rows /\ s0.held = TRUE /\ DOMAIN s0 = {"rows", "out", "held"}
    OBVIOUS
  <2> QED  BY <2>1, ThinSame
<1>3. ASSUME NEW u, NEW n, NEW bound \in Bounds, Fine(u, n), bound \in n
      PROVE  Fine(MakeRoom(u, row, bound, Distro), n \ {bound}) /\ (MakeRoom(u, row, bound, Distro).held => u.held)
  <2> DEFINE w == MakeRoom(u, row, bound, Distro)
  <2>1. Listing(u.rows) /\ ToSet(u.rows) \subseteq ToSet(rows)
    BY <1>3 DEF Thin
  <2>2. \A r \in ToSet(u.rows) : r \in K(bound) <=> Within(bound, r, row)
    BY <2>1 DEF KindOf
  <2>3. Asks(row, bound, Distro) => Number(u.rows, K(bound)) <= Limit(bound)
    <3>1. Number(u.rows, K(bound)) <= Number(rows, K(bound))
      BY <1>3 DEF Thin
    <3>2. Number(u.rows, K(bound)) \in Nat /\ Number(rows, K(bound)) \in Nat /\ Limit(bound) \in Nat
      BY <2>1, NumberIs, LimitIs
    <3> QED  BY <3>1, <3>2
  <2> HIDE DEF K
  <2>4. /\ DOMAIN w = {"rows", "out", "held"} /\ w.held \in BOOLEAN /\ Thin(w.rows, u.rows)
        /\ w.held /\ Asks(row, bound, Distro) => Number(w.rows, K(bound)) <= Limit(bound) - 1
    BY <1>3, <2>1, <2>2, <2>3, RoomIs
  <2>5. w.held => u.held
    <3>1. ASSUME ~u.held PROVE w = u
      BY <3>1, RoomStays
    <3> QED  BY <3>1
  <2>6. Thin(w.rows, rows)
    BY <1>3, <2>4, ThinThin
  <2>7. ASSUME w.held, NEW b \in Bounds \ (n \ {bound}), Asks(row, b, Distro) PROVE Number(w.rows, K(b)) <= Limit(b) - 1
    <3>1. CASE b = bound
      BY <2>4, <2>7, <3>1
    <3>2. CASE b # bound
      <4>1. Number(u.rows, K(b)) <= Limit(b) - 1
        BY <1>3, <2>5, <2>7, <3>2
      <4>2. Number(w.rows, K(b)) <= Number(u.rows, K(b))
        BY <2>4 DEF Thin
      <4>3. Number(w.rows, K(b)) \in Nat /\ Number(u.rows, K(b)) \in Nat /\ Limit(b) \in Nat
        BY <2>1, <2>4, NumberIs, LimitIs DEF Thin
      <4> QED  BY <4>1, <4>2, <4>3
    <3> QED  BY <3>1, <3>2
  <2> HIDE DEF w
  <2>8. Fine(w, n \ {bound})
    BY <2>4, <2>6, <2>7
  <2> QED  BY <2>5, <2>8 DEF w
<1> HIDE DEF s1, s2, s3, s4, Fine
<1>a. /\ "group" \in Bounds /\ "source" \in Bounds /\ "notheld" \in Bounds /\ "all" \in Bounds
      /\ "source" \in Bounds \ {"group"} /\ "notheld" \in (Bounds \ {"group"}) \ {"source"}
      /\ "all" \in ((Bounds \ {"group"}) \ {"source"}) \ {"notheld"}
  BY DEF Bounds
<1>4. Fine(s1, Bounds \ {"group"})
  BY <1>a, <1>2, <1>3 DEF s1
<1>5. Fine(s2, (Bounds \ {"group"}) \ {"source"})
  BY <1>a, <1>3, <1>4 DEF s2
<1>6. Fine(s3, ((Bounds \ {"group"}) \ {"source"}) \ {"notheld"})
  BY <1>a, <1>3, <1>5 DEF s3
<1>7. Fine(s4, (((Bounds \ {"group"}) \ {"source"}) \ {"notheld"}) \ {"all"})
  BY <1>a, <1>3, <1>6 DEF s4
<1>8. /\ DOMAIN s4 = {"rows", "out", "held"} /\ Thin(s4.rows, rows)
      /\ s4.held => \A bound \in Bounds : Asks(row, bound, Distro) => Number(s4.rows, K(bound)) <= Limit(bound) - 1
  BY <1>7 DEF Fine, Bounds
<1>9. CASE \E i \in DOMAIN rows : rows[i].blob = row.blob
  <2>1. Hold(rows, row, Distro).rows = rows
    BY <1>1, <1>9
  <2> QED  BY <2>1, ThinSame
<1>10. CASE ~(\E i \in DOMAIN rows : rows[i].blob = row.blob) /\ ~s4.held
  BY <1>1, <1>8, <1>10
<1>11. CASE ~(\E i \in DOMAIN rows : rows[i].blob = row.blob) /\ s4.held
  <2>1. Hold(rows, row, Distro).rows = Append(s4.rows, row)
    BY <1>1, <1>8, <1>11
  <2>2. \A i \in 1..Len(rows) : rows[i].blob # row.blob
    BY <1>0, <1>11
  <2> QED  BY <1>8, <1>11, <2>1, <2>2
<1> QED  BY <1>9, <1>10, <1>11

-----------------------------------------------------------------------------
(* The rows of a device. *)

\* What is counted of rows is a kind of them.
LEMMA CountIs ==
  ASSUME NEW q, Listing(q)
  PROVE  /\ \A T : (\A r \in ToSet(q) : r \in T <=> ~r.pending)
                 => Uninvited(q) = Number(q, T)
         /\ \A T, src : (\A r \in ToSet(q) : r \in T <=> r.src = src)
                      => FromSource(q, src) = Number(q, T)
<1>1. \A i \in 1..Len(q) : q[i] \in ToSet(q)
  BY InSeq DEF Listing
<1>2. ASSUME NEW T, \A r \in ToSet(q) : r \in T <=> ~r.pending
      PROVE  Uninvited(q) = Number(q, T)
  <2>1. {i \in 1..Len(q) : ~q[i].pending} = {i \in 1..Len(q) : q[i] \in T}
    BY <1>1, <1>2
  <2> QED  BY <2>1, Zenon DEF Number, Uninvited
<1>3. ASSUME NEW T, NEW src, \A r \in ToSet(q) : r \in T <=> r.src = src
      PROVE  FromSource(q, src) = Number(q, T)
  <2>1. {i \in 1..Len(q) : q[i].src = src} = {i \in 1..Len(q) : q[i] \in T}
    BY <1>1, <1>3
  <2> QED  BY <2>1, Zenon DEF Number, FromSource
<1> QED  BY <1>2, <1>3

\* What is all of a kind is counted so.
LEMMA NumberAll ==
  ASSUME NEW q, NEW T, Listing(q), ToSet(q) \subseteq T
  PROVE  Number(q, T) = Len(q)
<1>1. Len(q) \in Nat /\ \A i \in 1..Len(q) : q[i] \in T
  BY InSeq DEF Listing
<1>2. {i \in 1..Len(q) : q[i] \in T} = 1..Len(q)
  BY <1>1
<1>3. Len(q) \in Int /\ 1 \in Int
  BY <1>1
<1>4. Cardinality(1..Len(q)) = IF 1 > Len(q) THEN 0 ELSE Len(q) - 1 + 1
  BY <1>3, FS_Interval, Zenon
<1>5. Cardinality(1..Len(q)) = Len(q)
  BY <1>1, <1>4
<1> QED  BY <1>2, <1>5, Zenon DEF Number

\* Fewer rows are within the bounds too,
LEMMA ThinInBounds ==
  ASSUME NEW p, NEW q, Listing(q), Thin(p, q), InBounds(q)
  PROVE  InBounds(p)
<1> DEFINE P == {r \in ToSet(q) : ~r.pending}
           S(src) == {r \in ToSet(q) : r.src = src}
<1>1. Listing(p) /\ Len(p) \in Nat /\ Len(q) \in Nat /\ Len(p) <= Len(q) /\ ToSet(p) \subseteq ToSet(q)
  BY Listed DEF Thin
<1>2. /\ Uninvited(p) = Number(p, P)
      /\ Uninvited(q) = Number(q, P)
      /\ \A src : /\ FromSource(p, src) = Number(p, S(src))
                  /\ FromSource(q, src) = Number(q, S(src))
  <2> DEFINE Of(x) == /\ Uninvited(x) = Number(x, P)
                      /\ \A src : FromSource(x, src) = Number(x, S(src))
  <2>1. ASSUME NEW x, Listing(x), ToSet(x) \subseteq ToSet(q) PROVE Of(x)
    <3>1. (\A r \in ToSet(x) : r \in P <=> ~r.pending) /\ \A src : \A r \in ToSet(x) : r \in S(src) <=> r.src = src
      BY <2>1
    <3> HIDE DEF P, S
    <3> QED  BY <2>1, <3>1, CountIs
  <2>2. Of(p) /\ Of(q)
    BY <1>1, <2>1
  <2> QED  BY <2>2
<1>3. ASSUME NEW T PROVE Number(p, T) \in Nat /\ Number(q, T) \in Nat /\ Number(p, T) <= Number(q, T)
  BY <1>1, NumberIs DEF Thin
<1> HIDE DEF P, S
<1>4. Number(q, P) <= NotHeld /\ \A src \in {"c", "m"} : Number(q, S(src)) <= PerSource
  BY <1>2 DEF InBounds
<1>5. Number(p, P) <= NotHeld /\ \A src \in {"c", "m"} : Number(p, S(src)) <= PerSource
  BY <1>3, <1>4, BoundsAre
<1>6. Len(p) <= PerGroup /\ Len(p) <= MaxBlobs
  BY <1>1, BoundsAre DEF InBounds
<1> QED  BY <1>2, <1>5, <1>6 DEF InBounds

\* and so are rows that hold() left, with the one it put to them.
LEMMA HoldInBounds ==
  ASSUME NEW rows, NEW row, Listing(rows), InBounds(rows), \A i \in 1..Len(rows) : rows[i].group = Group,
         row.group = Group, row.pending \in BOOLEAN, row.src \in {"c", "m", Distro}
  PROVE  LET h == Hold(rows, row, Distro) IN
         /\ InBounds(h.rows)
         /\ \/ Thin(h.rows, rows)
            \/ /\ \A i \in 1..Len(rows) : rows[i].blob # row.blob
               /\ \E p : Thin(p, rows) /\ h.rows = Append(p, row)
<1> DEFINE U == ToSet(rows) \cup {row}
           K(bound) == KindOf(rows, bound, row)
           P == {r \in U : ~r.pending}
           S(src) == {r \in U : r.src = src}
<1>1. /\ Len(rows) \in Nat /\ \A i \in 1..Len(rows) : rows[i] \in ToSet(rows)
      /\ \A x : x \in ToSet(rows) <=> \E i \in 1..Len(rows) : rows[i] = x
  BY InSeq DEF Listing
<1>2. /\ K("group") = U /\ K("all") = U /\ K("source") = S(row.src)
      /\ K("notheld") = P
  <2>1. \A r \in U : r.group = row.group
    BY <1>1
  <2>2. K("group") = U
    BY <2>1 DEF KindOf, Within
  <2>3. K("all") = U
    BY DEF KindOf, Within
  <2>4. K("source") = S(row.src)
    BY DEF KindOf, Within
  <2>5. K("notheld") = P
    BY DEF KindOf, Within
  <2> QED  BY <2>2, <2>3, <2>4, <2>5
<1>3. /\ Limit("group") = PerGroup /\ Limit("all") = MaxBlobs
      /\ Limit("source") = PerSource /\ Limit("notheld") = NotHeld
  BY DEF Limit
<1>4. /\ Asks(row, "group", Distro) /\ Asks(row, "all", Distro)
      /\ Asks(row, "source", Distro) <=> row.src \in {"c", "m"}
      /\ Asks(row, "notheld", Distro) <=> ~row.pending
  BY DEF Asks, Distro
<1>5. /\ Number(rows, P) <= NotHeld /\ \A src \in {"c", "m"} : Number(rows, S(src)) <= PerSource
      /\ Number(rows, U) <= PerGroup /\ Number(rows, U) <= MaxBlobs
  <2>0. (\A r \in ToSet(rows) : r \in P <=> ~r.pending) /\ \A src : \A r \in ToSet(rows) : r \in S(src) <=> r.src = src
    OBVIOUS
  <2> HIDE DEF P, S
  <2>1. /\ Uninvited(rows) = Number(rows, P)
        /\ \A src : FromSource(rows, src) = Number(rows, S(src))
    BY <2>0, CountIs
  <2>2. Number(rows, U) = Len(rows)
    BY NumberAll
  <2> QED  BY <2>1, <2>2 DEF InBounds
<1> HIDE DEF P, S, K
<1>6. ASSUME NEW bound \in Bounds, Asks(row, bound, Distro) PROVE Number(rows, K(bound)) <= Limit(bound)
  BY <1>2, <1>3, <1>4, <1>5, <1>6 DEF Bounds
<1> DEFINE h == Hold(rows, row, Distro)
<1>7. \/ Thin(h.rows, rows)
      \/ /\ \A i \in 1..Len(rows) : rows[i].blob # row.blob
         /\ \E p : /\ Thin(p, rows) /\ h.rows = Append(p, row)
                   /\ \A bound \in Bounds : Asks(row, bound, Distro) => Number(p, K(bound)) <= Limit(bound) - 1
  BY <1>6, HoldIs DEF K
<1> HIDE DEF h
<1>8. CASE Thin(h.rows, rows)
  BY <1>8, ThinInBounds DEF h
<1>9. ASSUME \A i \in 1..Len(rows) : rows[i].blob # row.blob,
             NEW p, Thin(p, rows), h.rows = Append(p, row),
             \A bound \in Bounds : Asks(row, bound, Distro) => Number(p, K(bound)) <= Limit(bound) - 1
      PROVE  InBounds(h.rows)
  <2> DEFINE q == Append(p, row)
  <2>1. Listing(p) /\ ToSet(p) \subseteq ToSet(rows) /\ Len(p) \in Nat
    BY <1>9, Listed DEF Thin
  <2>2. Listing(q) /\ Len(q) = Len(p) + 1 /\ ToSet(q) \subseteq U
    <3>1. Listing(q) /\ Len(q) = Len(p) + 1 /\ q[Len(p) + 1] = row /\ \A i \in 1..Len(p) : q[i] = p[i]
      BY <2>1, AppendedIs
    <3>2. \A i \in 1..Len(p) : p[i] \in ToSet(rows)
      BY <2>1, InSeq DEF Listing
    <3> HIDE DEF q
    <3>3. \A i \in 1..Len(q) : i \in 1..Len(p) \/ i = Len(p) + 1
      BY <2>1, <3>1
    <3>4. \A i \in 1..Len(q) : q[i] \in U
      BY <3>1, <3>2, <3>3
    <3>5. \A x : x \in ToSet(q) <=> \E i \in 1..Len(q) : q[i] = x
      BY <3>1, InSeq DEF Listing
    <3> QED  BY <3>1, <3>4, <3>5
  <2>3. /\ Uninvited(q) = Number(q, P)
        /\ \A src : FromSource(q, src) = Number(q, S(src))
    <3>1. (\A r \in ToSet(q) : r \in P <=> ~r.pending) /\ \A src : \A r \in ToSet(q) : r \in S(src) <=> r.src = src
      BY <2>2 DEF P, S
    <3> QED  BY <2>2, <3>1, CountIs
  <2>4. Number(p, U) = Len(p)
    BY <2>1, NumberAll
  <2>5. ASSUME NEW T PROVE /\ Number(q, T) = Number(p, T) + (IF row \in T THEN 1 ELSE 0)
                           /\ Number(p, T) <= Number(rows, T) /\ Number(p, T) \in Nat /\ Number(rows, T) \in Nat
    <3>1. Number(q, T) = Number(p, T) + (IF row \in T THEN 1 ELSE 0)
      BY <2>1, NumberAppended, Zenon
    <3>2. Number(p, T) \in Nat /\ Number(rows, T) \in Nat
      BY <2>1, NumberIs, Zenon
    <3>3. Number(p, T) <= Number(rows, T)
      BY <1>9, Zenon DEF Thin
    <3> QED  BY <3>1, <3>2, <3>3
  <2> HIDE DEF q, U
  <2>6. Len(q) <= PerGroup /\ Len(q) <= MaxBlobs
    <3>1. \A bound \in {"group", "all"} : Number(p, U) <= Limit(bound) - 1
      BY <1>2, <1>4, <1>9 DEF Bounds
    <3>2. Number(p, U) <= PerGroup - 1 /\ Number(p, U) <= MaxBlobs - 1
      BY <1>3, <3>1
    <3> QED  BY <2>1, <2>2, <2>4, <3>2, BoundsAre
  <2>7. Number(q, P) <= NotHeld
    <3>1. row \in P <=> ~row.pending
      BY DEF P, U
    <3>2. ~row.pending => Number(p, P) <= NotHeld - 1
      BY <1>2, <1>3, <1>4, <1>9 DEF Bounds
    <3> QED  BY <1>5, <2>5, <3>1, <3>2, BoundsAre
  <2>8. ASSUME NEW src \in {"c", "m"} PROVE Number(q, S(src)) <= PerSource
    <3>1. row \in S(src) <=> row.src = src
      BY DEF S, U
    <3>2. row.src = src => Number(p, S(src)) <= PerSource - 1
      BY <1>2, <1>3, <1>4, <1>9 DEF Bounds
    <3> DEFINE T == S(src)
    <3>3. /\ row \in T <=> row.src = src
          /\ row.src = src => Number(p, T) <= PerSource - 1
      BY <3>1, <3>2
    <3>4. Number(rows, T) <= PerSource
      BY <1>5, <2>8
    <3> HIDE DEF T
    <3>5. /\ Number(q, T) = Number(p, T) + (IF row \in T THEN 1 ELSE 0)
          /\ Number(p, T) <= Number(rows, T) /\ Number(p, T) \in Nat /\ Number(rows, T) \in Nat
      BY <2>5, Zenon
    <3>6. Number(q, T) <= PerSource
      BY <3>3, <3>4, <3>5, BoundsAre
    <3> QED  BY <3>6 DEF T
  <2> QED  BY <1>9, <2>3, <2>6, <2>7, <2>8 DEF InBounds, q
<1> QED  BY <1>7, <1>8, <1>9 DEF h

\* forgetGroup() leaves none of one group,
LEMMA ForgetIs ==
  ASSUME NEW rows, Listing(rows), \A i \in 1..Len(rows) : rows[i].group = Group
  PROVE  ForgetGroup(rows, Group) = <<>>
<1> DEFINE N == Len(rows)
           Step(g) == [n \in 0..N |-> IF n = 0 THEN <<>>
                                      ELSE IF rows[n].group = Group THEN g[n - 1] ELSE Append(g[n - 1], rows[n])]
           f == CHOOSE g : g = Step(g)
           e == [n \in 0..N |-> <<>>]
<1>1. N \in Nat
  BY Listed
<1>2. e = Step(e)
  <2>1. \A n \in 0..N : n = 0 \/ (n - 1 \in 0..N /\ n \in 1..N)
    BY <1>1
  <2>2. \A n \in 0..N : Step(e)[n] = <<>>
    BY <2>1
  <2> QED  BY <2>2
<1>3. f = Step(f)
  BY <1>2, Zenon
<1>4. ForgetGroup(rows, Group) = f[N]
  BY Zenon DEF ForgetGroup
<1> HIDE DEF f
<1>5. \A n \in 0..N : f[n] = IF n = 0 THEN <<>> ELSE IF rows[n].group = Group THEN f[n - 1] ELSE Append(f[n - 1], rows[n])
  BY <1>3
<1> DEFINE Bad == {n \in 0..N : f[n] # <<>>}
<1>6. Bad = {}
  <2> SUFFICES ASSUME Bad # {} PROVE FALSE
    OBVIOUS
  <2>1. Bad \in SUBSET Nat
    BY <1>1
  <2>2. PICK m \in Bad : \A k \in Bad : m <= k
    BY <2>1, LeastNumber
  <2>3. m \in 0..N /\ m # 0
    BY <1>1, <1>5
  <2>4. m - 1 \in 0..N /\ m - 1 \notin Bad /\ m \in 1..N
    BY <1>1, <2>2, <2>3
  <2>5. f[m] = f[m - 1]
    BY <1>5, <2>3, <2>4
  <2> QED  BY <2>2, <2>4, <2>5
<1> QED  BY <1>1, <1>4, <1>6

\* and forGroup() all of it.
LEMMA ForGroupIs ==
  ASSUME NEW rows, Listing(rows), \A i \in 1..Len(rows) : rows[i].group = Group
  PROVE  ForGroup(rows, Group) = rows
<1> DEFINE N == Len(rows)
           Step(g) == [n \in 0..N |-> IF n = 0 THEN <<>>
                                      ELSE IF rows[n].group = Group THEN Append(g[n - 1], rows[n]) ELSE g[n - 1]]
           f == CHOOSE g : g = Step(g)
           e == [n \in 0..N |-> SubSeq(rows, 1, n)]
<1>1. N \in Nat /\ rows \in Seq(ToSet(rows))
  BY Listed DEF Listing
<1>2. \A n \in 1..N : Append(SubSeq(rows, 1, n - 1), rows[n]) = SubSeq(rows, 1, n)
  <2> TAKE n \in 1..N
  <2>1. /\ SubSeq(rows, 1, n) \in Seq(ToSet(rows)) /\ Len(SubSeq(rows, 1, n)) = n
        /\ \A i \in 1..n : SubSeq(rows, 1, n)[i] = rows[i]
        /\ SubSeq(rows, 1, n - 1) \in Seq(ToSet(rows)) /\ Len(SubSeq(rows, 1, n - 1)) = n - 1
        /\ \A i \in 1..n - 1 : SubSeq(rows, 1, n - 1)[i] = rows[i]
    BY <1>1, SubSeqProperties
  <2>2. rows[n] \in ToSet(rows)
    BY <1>1
  <2> DEFINE a == SubSeq(rows, 1, n - 1)
             b == SubSeq(rows, 1, n)
  <2> HIDE DEF a, b
  <2>3. /\ Append(a, rows[n]) \in Seq(ToSet(rows)) /\ Len(Append(a, rows[n])) = n
        /\ \A i \in 1..n : Append(a, rows[n])[i] = b[i]
    BY <1>1, <2>1, <2>2 DEF a, b
  <2>4. Append(a, rows[n]) = b
    BY <2>1, <2>3 DEF b
  <2> QED  BY <2>4 DEF a, b
<1>3. e = Step(e)
  <2>1. \A n \in 0..N : n = 0 \/ (n - 1 \in 0..N /\ n \in 1..N)
    BY <1>1
  <2>2. SubSeq(rows, 1, 0) = <<>>
    BY <1>1
  <2>3. \A n \in 0..N : Step(e)[n] = e[n]
    BY <1>2, <2>1, <2>2
  <2> QED  BY <2>3
<1>4. f = Step(f)
  BY <1>3, Zenon
<1>5. ForGroup(rows, Group) = f[N]
  BY Zenon DEF ForGroup
<1> HIDE DEF f
<1>6. \A n \in 0..N : f[n] = IF n = 0 THEN <<>> ELSE IF rows[n].group = Group THEN Append(f[n - 1], rows[n]) ELSE f[n - 1]
  BY <1>4
<1> DEFINE Bad == {n \in 0..N : f[n] # SubSeq(rows, 1, n)}
<1>7. Bad = {}
  <2> SUFFICES ASSUME Bad # {} PROVE FALSE
    OBVIOUS
  <2>1. Bad \in SUBSET Nat
    BY <1>1
  <2>2. PICK m \in Bad : \A k \in Bad : m <= k
    BY <2>1, LeastNumber
  <2>3. m \in 0..N /\ m # 0
    <3>1. SubSeq(rows, 1, 0) = <<>> /\ f[0] = <<>>
      BY <1>1, <1>6
    <3> QED  BY <3>1
  <2>4. m - 1 \in 0..N /\ m - 1 \notin Bad /\ m \in 1..N
    BY <1>1, <2>2, <2>3
  <2>5. f[m - 1] = SubSeq(rows, 1, m - 1) /\ f[m] = Append(f[m - 1], rows[m])
    BY <1>6, <2>3, <2>4
  <2> QED  BY <1>2, <2>2, <2>4, <2>5
<1>8. f[N] = SubSeq(rows, 1, N) /\ SubSeq(rows, 1, N) = rows
  BY <1>1, <1>7
<1> QED  BY <1>5, <1>8

\* release(): that row goes.
LEMMA ReleaseIs ==
  ASSUME NEW rows, NEW row, Listing(rows), Distinct(rows)
  PROVE  /\ Thin(Release(rows, row), rows)
         /\ \A r \in ToSet(Release(rows, row)) : r.blob # row.blob
<1> DEFINE those == {i \in DOMAIN rows : rows[i].blob = row.blob}
           p == Release(rows, row)
           k == Min(those)
<1>0. Len(rows) \in Nat /\ DOMAIN rows = 1..Len(rows) /\ \A x : x \in ToSet(rows) <=> \E i \in 1..Len(rows) : rows[i] = x
  BY InSeq DEF Listing
<1>1. CASE those = {}
  <2>1. p = rows
    BY <1>1 DEF Release
  <2> QED  BY <1>0, <1>1, <2>1, ThinSame
<1>2. CASE those # {}
  <2>1. p = RemoveAt(rows, k)
    BY <1>2 DEF Release
  <2>2. k \in 1..Len(rows) /\ rows[k].blob = row.blob
    <3>1. those \in SUBSET Nat
      BY <1>0
    <3>2. k \in those
      BY <1>2, <3>1, MinIs
    <3> QED  BY <1>0, <3>2
  <2> HIDE DEF k, p
  <2>3. Thin(p, rows)
    BY <2>1, <2>2, ThinRemoved
  <2>4. /\ Listing(p)
        /\ \A i \in 1..Len(p) : p[i] = rows[IF i < k THEN i ELSE i + 1] /\ (IF i < k THEN i ELSE i + 1) \in 1..Len(rows) \ {k}
    <3>1. LET o == RemoveAt(rows, k) IN
          /\ Listing(o)
          /\ \A i \in 1..Len(o) : o[i] = rows[IF i < k THEN i ELSE i + 1] /\ (IF i < k THEN i ELSE i + 1) \in 1..Len(rows) \ {k}
      BY <2>2, Removed, Zenon
    <3> QED  BY <2>1, <3>1, Zenon
  <2>5. \A i \in 1..Len(p) : p[i].blob # row.blob
    BY <2>2, <2>4 DEF Distinct
  <2>6. \A x : x \in ToSet(p) <=> \E i \in 1..Len(p) : p[i] = x
    BY <2>4, InSeq DEF Listing
  <2> QED  BY <2>3, <2>5, <2>6 DEF p
<1> QED  BY <1>1, <1>2

-----------------------------------------------------------------------------
(* A device's record, changed. *)

\* All but these fields are as they were.
Same(s, t, F) == Fields(t) /\ \A f \in Names \ F : t[f] = s[f]

\* One field set, or two.
LEMMA SetField ==
  ASSUME NEW s, Fields(s), NEW f \in Names, NEW v
  PROVE  LET t == [s EXCEPT ![f] = v] IN Same(s, t, {f}) /\ t[f] = v
BY DEF Fields, Same

LEMMA SetTwo ==
  ASSUME NEW s, Fields(s), NEW f \in Names, NEW g \in Names, f # g, NEW v, NEW w
  PROVE  LET t == [s EXCEPT ![f] = v, ![g] = w] IN Same(s, t, {f, g}) /\ t[f] = v /\ t[g] = w
BY DEF Fields, Same

\* What has the same status is as sound.
LEMMA StatusSame ==
  ASSUME NEW s, NEW t, StatusOK(s), t.m = s.m, t.copy = s.copy, t.keys = s.keys, t.changes = s.changes,
         t.creator = s.creator
  PROVE  StatusOK(t)
BY DEF StatusOK, ChangesOK, CopyTrue

-----------------------------------------------------------------------------
(* Member statuses. *)

Told(s, t) == Same(s, t, {"m", "copy", "changes", "keys"}) /\ s.keys \subseteq t.keys

LEMMA ToldSame == ASSUME NEW s, Fields(s) PROVE Told(s, s)
BY DEF Told, Same

LEMMA ToldOn ==
  ASSUME NEW s, NEW t, NEW u, Told(s, t), Told(t, u)
  PROVE  Told(s, u)
BY DEF Told, Same

\* What counts is in the copy and in the list alike.
LEMMA ApplyIs ==
  ASSUME NEW s, Fields(s), StatusOK(s), NEW act \in {"accept", "leave"}
  PROVE  LET t == ApplyChange(s, act) IN
         Told(s, t) /\ StatusOK(t) /\ t.keys = s.keys /\ t.changes = s.changes
<1> DEFINE t == Keep(s, act)
           u == UpdateMember(t, act)
<1>1. ApplyChange(s, act) = u
  BY DEF ApplyChange
<1>2. /\ Same(s, t, {"copy"})
      /\ t.copy = IF s.creator # Distro \/ s.m = "left" \/ s.copy = "leave" THEN s.copy ELSE act
  <2>1. Same(s, [s EXCEPT !.copy = act], {"copy"}) /\ [s EXCEPT !.copy = act].copy = act
    BY SetField DEF Names
  <2>2. Same(s, s, {"copy"})
    BY DEF Same
  <2> QED  BY <2>1, <2>2 DEF Keep
<1>3. Fields(t) /\ t.m = s.m /\ t.keys = s.keys /\ t.changes = s.changes /\ t.creator = s.creator
  BY <1>2 DEF Same, Names
<1> HIDE DEF t
<1>4. /\ Same(t, u, {"m"})
      /\ u.m = IF t.m = "left" THEN "left" ELSE IF act = "leave" THEN "left" ELSE "accepted"
  <2> DEFINE v == IF act = "leave" THEN "left" ELSE "accepted"
  <2>1. Same(t, [t EXCEPT !.m = v], {"m"}) /\ [t EXCEPT !.m = v].m = v
    BY <1>3, SetField DEF Names
  <2>2. Same(t, t, {"m"})
    BY <1>3 DEF Same
  <2> QED  BY <2>1, <2>2 DEF UpdateMember
<1> HIDE DEF u
<1>5. u.copy = t.copy /\ u.keys = s.keys /\ u.changes = s.changes /\ u.creator = s.creator
  BY <1>3, <1>4 DEF Same, Names
<1>6. Told(s, u)
  BY <1>2, <1>4, <1>5 DEF Told, Same
<1>7. StatusOK(u)
  <2>1. u.m \in Statuses /\ u.copy \in {"none", "accept", "leave"} /\ u.keys \subseteq {"c", "m"} /\ ChangesOK(u)
    BY <1>2, <1>3, <1>4, <1>5 DEF StatusOK, Statuses, ChangesOK
  <2>2. CopyTrue(u)
    BY <1>2, <1>3, <1>4, <1>5 DEF StatusOK, Statuses, CopyTrue
  <2> QED  BY <2>1, <2>2 DEF StatusOK
<1> QED  BY <1>1, <1>5, <1>6, <1>7

\* Keys that are learnt.
LEMMA KeysLearnt ==
  ASSUME NEW s, StatusOK(s), NEW t, NEW ks, ks \subseteq {"c", "m"},
         Same(s, t, {"keys"}), t.keys = s.keys \cup ks
  PROVE  Told(s, t) /\ StatusOK(t)
<1>1. Fields(t) /\ t.m = s.m /\ t.copy = s.copy /\ t.changes = s.changes /\ t.creator = s.creator
  BY DEF Same, Names
<1>2. StatusOK(t)
  BY <1>1 DEF StatusOK, ChangesOK, CopyTrue
<1>3. Told(s, t)
  BY DEF Told, Same
<1> QED  BY <1>2, <1>3

LEMMA RememberIs ==
  ASSUME NEW s, Fields(s), StatusOK(s), NEW b
  PROVE  LET t == Remember(s, b) IN Told(s, t) /\ StatusOK(t) /\ Same(s, t, {"keys"})
<1>1. CASE b.keyed
  <2> DEFINE t == [s EXCEPT !.keys = s.keys \cup {"m"}]
  <2>1. Remember(s, b) = t
    BY <1>1 DEF Remember
  <2>2. Same(s, t, {"keys"}) /\ t.keys = s.keys \cup {"m"}
    BY SetField DEF Names
  <2> HIDE DEF t
  <2>3. {"m"} \subseteq {"c", "m"}
    OBVIOUS
  <2> QED  BY <2>1, <2>2, <2>3, KeysLearnt
<1>2. CASE ~b.keyed
  <2>1. Remember(s, b) = s
    BY <1>2 DEF Remember
  <2>2. Same(s, s, {"keys"})
    BY DEF Same
  <2> QED  BY <2>1, <2>2, ToldSame
<1> QED  BY <1>1, <1>2

\* One more change held undecided, and none.
LEMMA ChangesSet ==
  ASSUME NEW s, StatusOK(s), NEW t, Same(s, t, {"changes"}),
         Listing(t.changes), \A i \in 1..Len(t.changes) : Elem(t.changes[i])
  PROVE  Told(s, t) /\ StatusOK(t) /\ t.keys = s.keys
<1>1. Fields(t) /\ t.m = s.m /\ t.copy = s.copy /\ t.keys = s.keys /\ t.creator = s.creator
  BY DEF Same, Names
<1>2. StatusOK(t)
  BY <1>1 DEF StatusOK, ChangesOK, CopyTrue
<1>3. Told(s, t)
  BY <1>1 DEF Told, Same
<1> QED  BY <1>1, <1>2, <1>3

LEMMA TakeChangeIs ==
  ASSUME NEW s, Fields(s), StatusOK(s), NEW b, Elem(b)
  PROVE  LET t == TakeChange(s, b) IN Told(s, t) /\ StatusOK(t) /\ t.keys = s.keys
<1>1. CASE b.keyed \/ "m" \in s.keys \/ ~world.switched
  <2>1. TakeChange(s, b) = ApplyChange(s, b.kind)
    BY <1>1 DEF TakeChange
  <2> QED  BY <2>1, ApplyIs DEF Elem
<1>2. CASE ~(b.keyed \/ "m" \in s.keys \/ ~world.switched) /\ \E i \in DOMAIN s.changes : s.changes[i] = b
  <2>1. TakeChange(s, b) = s
    BY <1>2 DEF TakeChange
  <2> QED  BY <2>1, ToldSame
<1>3. CASE ~(b.keyed \/ "m" \in s.keys \/ ~world.switched) /\ ~\E i \in DOMAIN s.changes : s.changes[i] = b
  <2> DEFINE q == Append(s.changes, b)
  <2>1. TakeChange(s, b) = [s EXCEPT !.changes = q]
    BY <1>3 DEF TakeChange
  <2>2. Listing(s.changes) /\ \A i \in 1..Len(s.changes) : Elem(s.changes[i])
    BY DEF StatusOK, ChangesOK
  <2>3. /\ Listing(q) /\ Len(s.changes) \in Nat /\ Len(q) = Len(s.changes) + 1
        /\ q[Len(s.changes) + 1] = b /\ \A i \in 1..Len(s.changes) : q[i] = s.changes[i]
    BY <2>2, AppendedIs
  <2> HIDE DEF q
  <2>4. \A i \in 1..Len(q) : i \in 1..Len(s.changes) \/ i = Len(s.changes) + 1
    BY <2>3
  <2>5. \A i \in 1..Len(q) : Elem(q[i])
    BY <2>2, <2>3, <2>4
  <2> DEFINE t == [s EXCEPT !.changes = q]
  <2>6. Same(s, t, {"changes"}) /\ t.changes = q
    BY SetField DEF Names
  <2> HIDE DEF t
  <2>7. Told(s, t) /\ StatusOK(t) /\ t.keys = s.keys
    BY <2>3, <2>5, <2>6, ChangesSet
  <2> QED  BY <2>1, <2>7 DEF t
<1> QED  BY <1>1, <1>2, <1>3

LEMMA TakeElementIs ==
  ASSUME NEW s, Fields(s), StatusOK(s), NEW b, Elem(b)
  PROVE  LET t == TakeElement(s, b) IN Told(s, t) /\ StatusOK(t)
<1> DEFINE r == Remember(s, b)
<1>1. Told(s, r) /\ StatusOK(r) /\ Fields(r)
  BY RememberIs DEF Same
<1> HIDE DEF r
<1>2. Told(r, TakeChange(r, b)) /\ StatusOK(TakeChange(r, b))
  BY <1>1, TakeChangeIs
<1>3. TakeElement(s, b) = IF s.m = "left" THEN s ELSE TakeChange(r, b)
  BY DEF TakeElement, r
<1> QED  BY <1>1, <1>2, <1>3, ToldSame, ToldOn

-----------------------------------------------------------------------------
(* What is done with one after another: the changes held, the statuses that *)
(* came, the rows held.                                                     *)

StepOf(loop, s, e) ==
  CASE loop = "decide" -> ApplyChange(s, e.kind)
    [] loop = "take"   -> TakeElement(s, e)
    [] loop = "replay" -> ReplayRow(s, e)

\* The function such a loop runs through, as far as k.
Runs(loop, f, s, q, k) == f = [n \in 0..k |-> IF n = 0 THEN s ELSE StepOf(loop, f[n - 1], q[n])]

\* That function exists, however far it runs.
LEMMA RunsFar ==
  ASSUME NEW loop, NEW s, NEW q, NEW k \in Nat
  PROVE  \E f : Runs(loop, f, s, q, k)
<1> DEFINE Bad == {n \in Nat : ~\E f : Runs(loop, f, s, q, n)}
<1>1. SUFFICES ASSUME Bad # {} PROVE FALSE
  OBVIOUS
<1>2. PICK m \in Bad : \A n \in Bad : m <= n
  BY <1>1, LeastNumber
<1>3. m # 0
  <2> DEFINE f == [n \in 0..0 |-> s]
  <2>1. f = [n \in 0..0 |-> IF n = 0 THEN s ELSE StepOf(loop, f[n - 1], q[n])]
    OBVIOUS
  <2>2. Runs(loop, f, s, q, 0)
    BY <2>1 DEF Runs
  <2> QED  BY <2>2
<1>4. m - 1 \in Nat /\ m - 1 \notin Bad
  BY <1>2, <1>3
<1>5. PICK g : Runs(loop, g, s, q, m - 1)
  BY <1>4
<1> DEFINE f == [n \in 0..m |-> IF n = m THEN StepOf(loop, g[m - 1], q[m]) ELSE g[n]]
<1>6. \A n \in 0..(m - 1) : g[n] = IF n = 0 THEN s ELSE StepOf(loop, g[n - 1], q[n])
  BY <1>5 DEF Runs
<1>7. ASSUME NEW n \in 0..m PROVE f[n] = IF n = 0 THEN s ELSE StepOf(loop, f[n - 1], q[n])
  <2>1. CASE n = m
    <3>1. f[n] = StepOf(loop, g[m - 1], q[m]) /\ f[n - 1] = g[m - 1] /\ n # 0
      BY <1>3, <1>4, <2>1
    <3> QED  BY <2>1, <3>1
  <2>2. CASE n # m
    <3>1. n \in 0..(m - 1) /\ f[n] = g[n]
      BY <1>4, <2>2
    <3>2. n # 0 => n - 1 \in 0..m /\ n - 1 # m /\ f[n - 1] = g[n - 1]
      BY <1>4, <3>1
    <3> HIDE DEF f
    <3> QED  BY <1>6, <3>1, <3>2
  <2> QED  BY <2>1, <2>2
<1>8. Runs(loop, f, s, q, m)
  <2> DEFINE h == [n \in 0..m |-> IF n = 0 THEN s ELSE StepOf(loop, f[n - 1], q[n])]
  <2>1. \A n \in 0..m : h[n] = f[n]
    BY <1>7
  <2>2. f = h
    BY <2>1
  <2> QED  BY <2>2 DEF Runs
<1> HIDE DEF f
<1> QED  BY <1>2, <1>8

\* Its end is reached, in each of the three.
LEMMA DecideRuns ==
  ASSUME NEW s, Len(s.changes) \in Nat, "m" \in s.keys
  PROVE  \E f : /\ Runs("decide", f, s, s.changes, Len(s.changes))
                /\ DecideHeld(s) = [f[Len(s.changes)] EXCEPT !.changes = <<>>]
<1> DEFINE f == CHOOSE g : g = [n \in 0 .. Len(s.changes) |-> IF n = 0 THEN s ELSE ApplyChange(g[n - 1], s.changes[n].kind)]
<1>1. \A g, n : StepOf("decide", g[n - 1], s.changes[n]) = ApplyChange(g[n - 1], s.changes[n].kind)
  BY DEF StepOf
<1>2. \E g : Runs("decide", g, s, s.changes, Len(s.changes))
  BY RunsFar
<1>3. \E g : g = [n \in 0 .. Len(s.changes) |-> IF n = 0 THEN s ELSE ApplyChange(g[n - 1], s.changes[n].kind)]
  <2>1. PICK g : Runs("decide", g, s, s.changes, Len(s.changes))
    BY <1>2
  <2>2. g = [n \in 0 .. Len(s.changes) |-> IF n = 0 THEN s ELSE ApplyChange(g[n - 1], s.changes[n].kind)]
    BY <1>1, <2>1 DEF Runs
  <2> QED  BY <2>2
<1>4. f = [n \in 0 .. Len(s.changes) |-> IF n = 0 THEN s ELSE ApplyChange(f[n - 1], s.changes[n].kind)]
  BY <1>3, Zenon
<1>5. DecideHeld(s) = [f[Len(s.changes)] EXCEPT !.changes = <<>>]
  BY Zenon DEF DecideHeld
<1> HIDE DEF f
<1>6. Runs("decide", f, s, s.changes, Len(s.changes))
  BY <1>1, <1>4 DEF Runs
<1> QED  BY <1>5, <1>6, Zenon

LEMMA TakeRuns ==
  ASSUME NEW s, NEW els, Len(els) \in Nat
  PROVE  \E f : Runs("take", f, s, els, Len(els)) /\ TakeElements(s, els) = f[Len(els)]
<1> DEFINE f == CHOOSE g : g = [n \in 0 .. Len(els) |-> IF n = 0 THEN s ELSE TakeElement(g[n - 1], els[n])]
<1>1. \A g, n : StepOf("take", g[n - 1], els[n]) = TakeElement(g[n - 1], els[n])
  BY DEF StepOf
<1>2. \E g : Runs("take", g, s, els, Len(els))
  BY RunsFar
<1>3. \E g : g = [n \in 0 .. Len(els) |-> IF n = 0 THEN s ELSE TakeElement(g[n - 1], els[n])]
  <2>1. PICK g : Runs("take", g, s, els, Len(els))
    BY <1>2
  <2>2. g = [n \in 0 .. Len(els) |-> IF n = 0 THEN s ELSE TakeElement(g[n - 1], els[n])]
    BY <1>1, <2>1 DEF Runs
  <2> QED  BY <2>2
<1>4. f = [n \in 0 .. Len(els) |-> IF n = 0 THEN s ELSE TakeElement(f[n - 1], els[n])]
  BY <1>3, Zenon
<1>5. TakeElements(s, els) = f[Len(els)]
  BY Zenon DEF TakeElements
<1> HIDE DEF f
<1>6. Runs("take", f, s, els, Len(els))
  BY <1>1, <1>4 DEF Runs
<1> QED  BY <1>5, <1>6, Zenon

LEMMA ReplayRuns ==
  ASSUME NEW s, ForGroup(s.rows, Group) = s.rows, Len(s.rows) \in Nat
  PROVE  \E f : Runs("replay", f, s, s.rows, Len(s.rows)) /\ Replay(s) = f[Len(s.rows)]
<1> DEFINE f == CHOOSE g : g = [n \in 0 .. Len(s.rows) |-> IF n = 0 THEN s ELSE ReplayRow(g[n - 1], s.rows[n])]
<1>1. \A g, n : StepOf("replay", g[n - 1], s.rows[n]) = ReplayRow(g[n - 1], s.rows[n])
  BY DEF StepOf
<1>2. \E g : Runs("replay", g, s, s.rows, Len(s.rows))
  BY RunsFar
<1>3. \E g : g = [n \in 0 .. Len(s.rows) |-> IF n = 0 THEN s ELSE ReplayRow(g[n - 1], s.rows[n])]
  <2>1. PICK g : Runs("replay", g, s, s.rows, Len(s.rows))
    BY <1>2
  <2>2. g = [n \in 0 .. Len(s.rows) |-> IF n = 0 THEN s ELSE ReplayRow(g[n - 1], s.rows[n])]
    BY <1>1, <2>1 DEF Runs
  <2> QED  BY <2>2
<1>4. f = [n \in 0 .. Len(s.rows) |-> IF n = 0 THEN s ELSE ReplayRow(f[n - 1], s.rows[n])]
  BY <1>3, Zenon
<1>5. Replay(s) = f[Len(s.rows)]
  <2>1. \A rows : rows = s.rows =>
          (CHOOSE g : g = [n \in 0 .. Len(rows) |-> IF n = 0 THEN s ELSE ReplayRow(g[n - 1], rows[n])])[Len(rows)] = f[Len(s.rows)]
    OBVIOUS
  <2> HIDE DEF f
  <2> QED  BY <2>1, Zenon DEF Replay
<1> HIDE DEF f
<1>6. Runs("replay", f, s, s.rows, Len(s.rows))
  BY <1>1, <1>4 DEF Runs
<1> QED  BY <1>5, <1>6, Zenon

\* Changes decided: the status is sound, and of no change nothing comes.
LEMMA DecideHeldIs ==
  ASSUME NEW s, Fields(s), StatusOK(s)
  PROVE  LET t == DecideHeld(s) IN
         /\ Told(s, t) /\ StatusOK(t) /\ t.keys = s.keys
         /\ s.changes = <<>> => t.m = s.m /\ t.copy = s.copy /\ t.changes = <<>>
<1>1. CASE "m" \notin s.keys
  <2>1. DecideHeld(s) = s
    BY <1>1 DEF DecideHeld
  <2> QED  BY <2>1, ToldSame
<1>2. CASE "m" \in s.keys
  <2> DEFINE q == s.changes
  <2>1. Len(q) \in Nat /\ \A i \in 1..Len(q) : Elem(q[i])
    BY Listed DEF StatusOK, ChangesOK
  <2>2. PICK f : /\ Runs("decide", f, s, q, Len(q))
                 /\ DecideHeld(s) = [f[Len(q)] EXCEPT !.changes = <<>>]
    BY <1>2, <2>1, DecideRuns
  <2>3. \A n \in 0..Len(q) : f[n] = IF n = 0 THEN s ELSE ApplyChange(f[n - 1], q[n].kind)
    BY <2>2 DEF Runs, StepOf
  <2> DEFINE Fine(n) == Told(s, f[n]) /\ StatusOK(f[n]) /\ f[n].keys = s.keys
             Bad == {n \in Nat : n <= Len(q) /\ ~Fine(n)}
  <2>4. Bad = {}
    <3> SUFFICES ASSUME Bad # {} PROVE FALSE
      OBVIOUS
    <3>1. PICK n \in Bad : \A k \in Bad : n <= k
      BY LeastNumber
    <3>2. n # 0
      <4>1. f[0] = s
        BY <2>1, <2>3
      <4>2. Fine(0)
        BY <4>1, ToldSame
      <4> HIDE DEF Fine
      <4> QED  BY <3>1, <4>2
    <3>3. n - 1 \in Nat /\ n \in 1..Len(q) /\ n - 1 <= Len(q)
      BY <2>1, <3>1, <3>2
    <3>4. Fine(n - 1)
      <4> HIDE DEF Fine
      <4>1. n - 1 \notin Bad
        BY <3>1, <3>3
      <4> QED  BY <3>3, <4>1
    <3>5. PICK u : u = f[n - 1]
      OBVIOUS
    <3>6. f[n] = ApplyChange(u, q[n].kind)
      BY <2>3, <3>2, <3>3, <3>5
    <3>7. Told(s, u) /\ Fields(u) /\ StatusOK(u) /\ u.keys = s.keys
      BY <3>4, <3>5 DEF Told, Same
    <3>8. q[n].kind \in {"accept", "leave"}
      BY <2>1, <3>3 DEF Elem
    <3>9. PICK act : act = q[n].kind
      OBVIOUS
    <3>10. PICK v : v = ApplyChange(u, act)
      OBVIOUS
    <3>11. Told(u, v) /\ StatusOK(v) /\ v.keys = u.keys
      BY <3>7, <3>8, <3>9, <3>10, ApplyIs
    <3>12. Told(s, v)
      BY <3>7, <3>11, ToldOn
    <3>13. Fine(n)
      BY <3>6, <3>7, <3>9, <3>10, <3>11, <3>12
    <3> HIDE DEF Fine
    <3> QED  BY <3>1, <3>13
  <2>5. Fine(Len(q))
    <3> HIDE DEF Fine
    <3> QED  BY <2>1, <2>4
  <2>6. PICK u : u = f[Len(q)]
    OBVIOUS
  <2>7. Told(s, u) /\ Fields(u) /\ StatusOK(u) /\ u.keys = s.keys
    BY <2>5, <2>6 DEF Told, Same
  <2>a. PICK none : none = <<>>
    OBVIOUS
  <2> DEFINE t == [u EXCEPT !.changes = none]
  <2>8. DecideHeld(s) = t
    BY <2>2, <2>6, <2>a
  <2>9. Same(u, t, {"changes"}) /\ t.changes = <<>>
    BY <2>7, <2>a, SetField DEF Names
  <2> HIDE DEF t
  <2>10. Told(u, t) /\ StatusOK(t) /\ t.keys = u.keys
    BY <2>7, <2>9, EmptyIs, ChangesSet
  <2>11. Told(s, t)
    BY <2>7, <2>10, ToldOn
  <2>12. ASSUME q = <<>> PROVE t.m = s.m /\ t.copy = s.copy
    <3>1. f[0] = s /\ Len(q) = 0
      BY <2>1, <2>3, <2>12
    <3>2. u = s
      BY <2>6, <3>1
    <3> QED  BY <2>9, <3>2 DEF Same, Names
  <2> QED  BY <2>7, <2>8, <2>9, <2>10, <2>11, <2>12
<1> QED  BY <1>1, <1>2

\* Statuses taken.
LEMMA TakeElementsIs ==
  ASSUME NEW s, Fields(s), StatusOK(s), NEW q, Listing(q), \A i \in 1..Len(q) : Elem(q[i])
  PROVE  LET t == TakeElements(s, q) IN Told(s, t) /\ StatusOK(t)
<1>1. Len(q) \in Nat
  BY Listed
<1>2. PICK f : Runs("take", f, s, q, Len(q)) /\ TakeElements(s, q) = f[Len(q)]
  BY <1>1, TakeRuns
<1>3. \A n \in 0..Len(q) : f[n] = IF n = 0 THEN s ELSE TakeElement(f[n - 1], q[n])
  BY <1>2 DEF Runs, StepOf
<1> DEFINE Fine(n) == Told(s, f[n]) /\ StatusOK(f[n])
           Bad == {n \in Nat : n <= Len(q) /\ ~Fine(n)}
<1>4. Bad = {}
  <2> SUFFICES ASSUME Bad # {} PROVE FALSE
    OBVIOUS
  <2>1. PICK n \in Bad : \A k \in Bad : n <= k
    BY LeastNumber
  <2>2. n # 0
    <3>1. f[0] = s
      BY <1>1, <1>3
    <3>2. Fine(0)
      BY <3>1, ToldSame
    <3> HIDE DEF Fine
    <3> QED  BY <2>1, <3>2
  <2>3. n - 1 \in Nat /\ n \in 1..Len(q) /\ n - 1 <= Len(q)
    BY <1>1, <2>1, <2>2
  <2>4. Fine(n - 1)
    <3> HIDE DEF Fine
    <3>1. n - 1 \notin Bad
      BY <2>1, <2>3
    <3> QED  BY <2>3, <3>1
  <2>5. PICK u : u = f[n - 1]
    OBVIOUS
  <2>6. PICK e : e = q[n]
    OBVIOUS
  <2>7. f[n] = TakeElement(u, e)
    BY <1>3, <2>2, <2>3, <2>5, <2>6
  <2>8. Told(s, u) /\ Fields(u) /\ StatusOK(u)
    BY <2>4, <2>5 DEF Told, Same
  <2>9. Elem(e)
    BY <2>3, <2>6
  <2>10. PICK v : v = TakeElement(u, e)
    OBVIOUS
  <2>11. Told(u, v) /\ StatusOK(v)
    BY <2>8, <2>9, <2>10, TakeElementIs
  <2>12. Told(s, v)
    BY <2>8, <2>11, ToldOn
  <2>13. Fine(n)
    BY <2>7, <2>10, <2>11, <2>12
  <2> HIDE DEF Fine
  <2> QED  BY <2>1, <2>13
<1>5. Fine(Len(q))
  <2> HIDE DEF Fine
  <2> QED  BY <1>1, <1>4
<1> QED  BY <1>2, <1>5

-----------------------------------------------------------------------------
(* The record as a whole. *)

\* What a change of statuses leaves.
LEMMA ToldGood ==
  ASSUME NEW out, NEW made, NEW d, NEW s, NEW t, Good(out, made, d, s), Told(s, t), StatusOK(t),
         s.st = "none" => t.m = "invited" /\ t.copy = "none" /\ t.changes = <<>>
  PROVE  Good(out, made, d, t)
<1>1. /\ Fields(t) /\ t.st = s.st /\ t.creator = s.creator /\ t.closed = s.closed /\ t.left = s.left
      /\ t.filtered = s.filtered /\ t.rows = s.rows /\ t.allow = s.allow /\ t.shown = s.shown /\ t.chip = s.chip
      /\ t.seen = s.seen /\ t.untold = s.untold /\ t.cut = s.cut
  BY DEF Told, Same, Names
<1>2. RowsOK(out, made, d, t)
  BY <1>1 DEF Good, Core, RowsOK, RowOK
<1>3. ShownOK(out, t)
  BY <1>1 DEF Good, Core, ShownOK, Shows
<1>4. Core(out, made, d, t)
  BY <1>1, <1>2, <1>3 DEF Good, Core
<1>5. Place(made, t)
  BY <1>1 DEF Good, Place
<1> QED  BY <1>4, <1>5 DEF Good

\* Fewer rows.
LEMMA ThinRows ==
  ASSUME NEW out, NEW made, NEW d, NEW s, NEW t, RowsOK(out, made, d, s), Thin(t.rows, s.rows), t.seen = s.seen
  PROVE  RowsOK(out, made, d, t) /\ \A x : Holds(t, x) => Holds(s, x)
<1>1. /\ Listing(s.rows) /\ Distinct(s.rows) /\ InBounds(s.rows) /\ Listing(t.rows) /\ ToSet(t.rows) \subseteq ToSet(s.rows)
      /\ Distinct(t.rows) /\ InBounds(t.rows)
  BY ThinInBounds DEF RowsOK, Thin
<1>2. /\ \A x : x \in ToSet(s.rows) <=> \E i \in 1..Len(s.rows) : s.rows[i] = x
      /\ \A i \in 1..Len(t.rows) : t.rows[i] \in ToSet(t.rows)
  BY <1>1, InSeq DEF Listing
<1>3. ASSUME NEW i \in 1..Len(t.rows)
      PROVE  \E j \in 1..Len(s.rows) : s.rows[j] = t.rows[i]
  BY <1>1, <1>2
<1>4. ASSUME NEW i \in 1..Len(t.rows)
      PROVE  RowOK(out, made, d, t, t.rows[i])
  <2>1. PICK j \in 1..Len(s.rows) : s.rows[j] = t.rows[i]
    BY <1>3
  <2>2. RowOK(out, made, d, s, t.rows[i])
    BY <2>1 DEF RowsOK
  <2> QED  BY <2>2 DEF RowOK
<1>5. ASSUME NEW x, Holds(t, x) PROVE Holds(s, x)
  BY <1>3, <1>5 DEF Holds
<1> QED  BY <1>1, <1>4, <1>5 DEF RowsOK

\* What other rows leave.
LEMMA RowsGood ==
  ASSUME NEW out, NEW made, NEW d, NEW s, NEW t, Good(out, made, d, s), Same(s, t, {"rows", "pushed"}),
         RowsOK(out, made, d, t), s.closed => t.rows = <<>>
  PROVE  Good(out, made, d, t)
<1>1. /\ Fields(t) /\ t.st = s.st /\ t.creator = s.creator /\ t.closed = s.closed /\ t.left = s.left
      /\ t.filtered = s.filtered /\ t.allow = s.allow /\ t.shown = s.shown /\ t.chip = s.chip
      /\ t.seen = s.seen /\ t.untold = s.untold /\ t.cut = s.cut
      /\ t.m = s.m /\ t.copy = s.copy /\ t.keys = s.keys /\ t.changes = s.changes
  BY DEF Same, Names
<1>2. StatusOK(t)
  BY <1>1, StatusSame DEF Good, Core
<1>3. ShownOK(out, t)
  BY <1>1 DEF Good, Core, ShownOK, Shows
<1>4. Core(out, made, d, t)
  BY <1>1, <1>2, <1>3 DEF Good, Core
<1>5. Place(made, t)
  BY <1>1 DEF Good, Place
<1> QED  BY <1>4, <1>5 DEF Good

\* What may be held on a device.
MayBeHeld(out, made, d, s, b) ==
  /\ BlobOK(out, made, b) /\ b.kind # "invite"
  /\ b.kind = "sync" => b.op = "post" /\ b.by # d /\ b \notin s.seen

\* A row held.
LEMMA HoldRowIs ==
  ASSUME NEW out, NEW made, NEW d, NEW s, NEW b, Good(out, made, d, s), ~s.closed, MayBeHeld(out, made, d, s, b)
  PROVE  LET a == HoldRow(s, b) IN
         /\ a.verdict \in {"held", "dropped"}
         /\ Good(out, made, d, a.s) /\ Same(s, a.s, {"rows", "pushed"})
         /\ \A x : Holds(a.s, x) => Holds(s, x) \/ x = b
<1> DEFINE row == [blob |-> b, group |-> Group, src |-> Source(b), pending |-> s.st = "pending"]
           h == Hold(s.rows, row, Distro)
           left == h.rows
           gone == s.pushed \cup h.out
           t == [s EXCEPT !.rows = left, !.pushed = gone]
<1>1. HoldRow(s, b).s = t /\ HoldRow(s, b).verdict \in {"held", "dropped"}
  <2>1. HoldRow(s, b) = Answer(t, IF h.held THEN "held" ELSE "dropped")
    BY Zenon DEF HoldRow
  <2> HIDE DEF t, h
  <2> QED  BY <2>1 DEF Answer
<1>2. Fields(s)
  BY DEF Good, Core
<1>3. Same(s, t, {"rows", "pushed"}) /\ t.rows = h.rows
  <2> HIDE DEF left, gone
  <2>1. "rows" \in Names /\ "pushed" \in Names /\ "rows" # "pushed"
    BY DEF Names
  <2>2. Same(s, t, {"rows", "pushed"}) /\ t.rows = left
    BY <1>2, <2>1 DEF Same, Fields
  <2> QED  BY <2>2 DEF left
<1> HIDE DEF t
<1>4. /\ row.blob = b /\ row.group = Group /\ row.src = Source(b) /\ row.pending \in BOOLEAN
      /\ row.src \in {"c", "m", Distro}
  BY DEF Source
<1> HIDE DEF row
<1>5. /\ Listing(s.rows) /\ Distinct(s.rows) /\ InBounds(s.rows)
      /\ \A i \in 1..Len(s.rows) : RowOK(out, made, d, s, s.rows[i])
      /\ \A i \in 1..Len(s.rows) : s.rows[i].group = Group
  BY DEF Good, Core, RowsOK, RowOK
<1>6. /\ InBounds(h.rows)
      /\ \/ Thin(h.rows, s.rows)
         \/ /\ \A i \in 1..Len(s.rows) : s.rows[i].blob # row.blob
            /\ \E p : Thin(p, s.rows) /\ h.rows = Append(p, row)
  BY <1>4, <1>5, HoldInBounds
<1> HIDE DEF h
<1>7. t.seen = s.seen
  BY <1>3 DEF Same, Names
<1>8. RowsOK(out, made, d, t) /\ \A x : Holds(t, x) => Holds(s, x) \/ x = b
  <2>1. CASE Thin(h.rows, s.rows)
    BY <1>3, <1>7, <2>1, ThinRows DEF Good, Core
  <2>2. ASSUME \A i \in 1..Len(s.rows) : s.rows[i].blob # row.blob,
               NEW p, Thin(p, s.rows), h.rows = Append(p, row)
        PROVE  RowsOK(out, made, d, t) /\ \A x : Holds(t, x) => Holds(s, x) \/ x = b
    <3>1. Listing(p) /\ ToSet(p) \subseteq ToSet(s.rows) /\ Distinct(p)
      BY <1>5, <2>2 DEF Thin
    <3>2. /\ Listing(t.rows) /\ Len(p) \in Nat /\ Len(t.rows) = Len(p) + 1
          /\ t.rows[Len(p) + 1] = row /\ \A i \in 1..Len(p) : t.rows[i] = p[i]
      BY <1>3, <2>2, <3>1, AppendedIs
    <3>3. \A i \in 1..Len(p) : \E j \in 1..Len(s.rows) : s.rows[j] = p[i]
      <4>1. \A x : x \in ToSet(s.rows) <=> \E i \in 1..Len(s.rows) : s.rows[i] = x
        BY <1>5, InSeq DEF Listing
      <4>2. \A i \in 1..Len(p) : p[i] \in ToSet(p)
        BY <3>1, InSeq DEF Listing
      <4> QED  BY <3>1, <4>1, <4>2
    <3>4. \A i \in 1..Len(t.rows) : i \in 1..Len(p) \/ i = Len(p) + 1
      BY <3>2
    <3>5. \A i \in 1..Len(t.rows) : t.rows[i] = row \/ \E j \in 1..Len(s.rows) : s.rows[j] = t.rows[i]
      BY <3>2, <3>3, <3>4
    <3>6. ASSUME NEW i \in 1..Len(t.rows) PROVE RowOK(out, made, d, t, t.rows[i])
      <4>1. CASE t.rows[i] = row
        BY <1>4, <1>7, <4>1 DEF RowOK, MayBeHeld
      <4>2. CASE \E j \in 1..Len(s.rows) : s.rows[j] = t.rows[i]
        BY <1>5, <1>7, <4>2 DEF RowOK
      <4> QED  BY <3>5, <4>1, <4>2
    <3>7. Distinct(t.rows)
      <4> SUFFICES ASSUME NEW i \in 1..Len(t.rows), NEW j \in 1..Len(t.rows), t.rows[i].blob = t.rows[j].blob
                   PROVE  i = j
        BY DEF Distinct
      <4>1. \A k \in 1..Len(p) : t.rows[k].blob # row.blob
        BY <2>2, <3>2, <3>3
      <4>2. CASE i \in 1..Len(p) /\ j \in 1..Len(p)
        BY <3>1, <3>2, <4>2 DEF Distinct
      <4>3. CASE i = Len(p) + 1 \/ j = Len(p) + 1
        BY <3>2, <3>4, <4>1, <4>3
      <4> QED  BY <3>4, <4>2, <4>3
    <3>8. ASSUME NEW x, Holds(t, x) PROVE Holds(s, x) \/ x = b
      BY <1>4, <3>5, <3>8 DEF Holds
    <3> QED  BY <1>3, <1>6, <3>2, <3>6, <3>7, <3>8 DEF RowsOK
  <2> QED  BY <1>6, <2>1, <2>2
<1>9. Good(out, made, d, t)
  BY <1>3, <1>8, RowsGood
<1> QED  BY <1>1, <1>3, <1>8, <1>9

-----------------------------------------------------------------------------
(* What a blob may change on a device.                                      *)

\* The syncs of the user's posts of which a device may come to hear: it shows
\* none from another device that it has not seen, and a post has one of them.
Mine(s, B, x) == SyncPost(x) /\ (x \in B \/ Holds(s, x))
Known(d, s, B) ==
  /\ \A x : Mine(s, B, x) => x.post \in Device /\ (x.post # d /\ Shows(s, x.post) => x \in s.seen)
  /\ \A x, y : Mine(s, B, x) /\ Mine(s, B, y) /\ x.post = y.post => x = y

\* From s to t, of the blobs B.
Comes(d, s, t, B) ==
  /\ s.seen \subseteq t.seen /\ t.sending \in {s.sending, {}} /\ (s.closed => t.closed)
  /\ \A p : Shows(s, p) => Shows(t, p) \/ t.closed
  /\ \A x : Holds(t, x) => Holds(s, x) \/ x \in B
  /\ \A e \in Device : Shows(t, e) => Shows(s, e) \/ (e # d /\ \E x : Mine(s, B, x) /\ x.post = e /\ x \in t.seen)

\* Neither joined nor closed by it.
Steady(s, t) ==
  t.closed = s.closed /\ (t.st = "active" <=> s.st = "active") /\ (s.st = "active" => t.rows = s.rows)
Reached(out, made, d, s, t, B) ==
  Good(out, made, d, t) /\ Comes(d, s, t, B) /\ Steady(s, t) /\ t.seen \subseteq s.seen \cup B

\* One after another.
LEMMA ComesOn ==
  ASSUME NEW d, NEW s, NEW t, NEW u, NEW A, NEW B, NEW C, A \subseteq C, B \subseteq C,
         Comes(d, s, t, A), Comes(d, t, u, B)
  PROVE  Comes(d, s, u, C)
<1>1. \A x : Holds(u, x) => Holds(s, x) \/ x \in C
  BY DEF Comes
<1>2. \A p : Shows(s, p) => Shows(u, p) \/ u.closed
  BY DEF Comes
<1>3. ASSUME NEW e \in Device, Shows(u, e)
      PROVE  Shows(s, e) \/ (e # d /\ \E x : Mine(s, C, x) /\ x.post = e /\ x \in u.seen)
  <2>1. ASSUME NEW x, Mine(s, A, x) PROVE Mine(s, C, x)
    BY <2>1 DEF Mine
  <2>2. ASSUME NEW x, Mine(t, B, x) PROVE Mine(s, C, x)
    BY <2>2 DEF Mine, Comes
  <2>3. \A x \in t.seen : x \in u.seen
    BY DEF Comes
  <2>4. CASE Shows(t, e)
    BY <2>1, <2>3, <2>4 DEF Comes
  <2>5. CASE ~Shows(t, e)
    BY <1>3, <2>2, <2>5 DEF Comes
  <2> QED  BY <2>4, <2>5
<1>4. s.seen \subseteq u.seen /\ u.sending \in {s.sending, {}} /\ (s.closed => u.closed)
  BY DEF Comes
<1> QED  BY <1>1, <1>2, <1>3, <1>4 DEF Comes

LEMMA ComesMore ==
  ASSUME NEW d, NEW s, NEW t, NEW A, NEW B, A \subseteq B, Comes(d, s, t, A)
  PROVE  Comes(d, s, t, B)
<1>1. ASSUME NEW x, Mine(s, A, x) PROVE Mine(s, B, x)
  BY <1>1 DEF Mine
<1> QED  BY <1>1 DEF Comes

LEMMA ReachedOn ==
  ASSUME NEW out, NEW made, NEW d, NEW s, NEW t, NEW u, NEW A, NEW B, NEW C, A \subseteq C, B \subseteq C,
         Reached(out, made, d, s, t, A), Reached(out, made, d, t, u, B)
  PROVE  Reached(out, made, d, s, u, C)
<1>1. Comes(d, s, u, C)
  BY ComesOn DEF Reached
<1> QED  BY <1>1 DEF Reached, Steady

\* What was known is known still.
LEMMA KnownOn ==
  ASSUME NEW d, NEW s, NEW t, NEW A, NEW B, A \subseteq B, Known(d, s, B), Comes(d, s, t, A)
  PROVE  Known(d, t, B)
<1>1. ASSUME NEW x, Mine(t, B, x) PROVE Mine(s, B, x)
  BY <1>1 DEF Mine, Comes
<1>2. ASSUME NEW x, Mine(s, A, x) PROVE Mine(s, B, x)
  BY <1>2 DEF Mine
<1>3. ASSUME NEW x, Mine(t, B, x), x.post # d, Shows(t, x.post) PROVE x \in t.seen
  <2>1. Mine(s, B, x) /\ x.post \in Device
    BY <1>1, <1>3 DEF Known
  <2>2. CASE Shows(s, x.post)
    BY <1>3, <2>1, <2>2 DEF Known, Comes
  <2>3. CASE ~Shows(s, x.post)
    <3>1. PICK y : Mine(s, A, y) /\ y.post = x.post /\ y \in t.seen
      BY <1>3, <2>1, <2>3 DEF Comes
    <3>2. y = x
      BY <1>2, <2>1, <3>1 DEF Known
    <3> QED  BY <3>1, <3>2
  <2> QED  BY <2>2, <2>3
<1> QED  BY <1>1, <1>3 DEF Known

\* What is not about entry, statuses, rows or posts.
Minor == {"chip", "filtered", "left", "allow", "untold", "cut", "seen", "page", "sending", "pushed"}

LEMMA MinorIs ==
  ASSUME NEW out, NEW made, NEW d, NEW s, NEW t, NEW B, Good(out, made, d, s), Same(s, t, Minor),
         t.chip \in BOOLEAN, t.filtered \in BOOLEAN, t.left \in BOOLEAN, t.allow \in BOOLEAN,
         t.untold \in BOOLEAN, t.cut \in BOOLEAN,
         s.seen \subseteq t.seen, t.seen \subseteq s.seen \cup B, t.sending \in {s.sending, {}},
         \A b \in B : b.kind = "sync" => ~Holds(s, b)
  PROVE  Reached(out, made, d, s, t, B)
<1>1. /\ Fields(t) /\ t.st = s.st /\ t.creator = s.creator /\ t.closed = s.closed /\ t.rows = s.rows
      /\ t.shown = s.shown /\ t.m = s.m /\ t.copy = s.copy /\ t.changes = s.changes /\ t.keys = s.keys
  BY DEF Same, Names, Minor
<1>2. StatusOK(t)
  BY <1>1, StatusSame DEF Good, Core
<1>3. RowsOK(out, made, d, t)
  <2>1. \A i \in 1..Len(t.rows) : RowOK(out, made, d, s, t.rows[i]) /\ Holds(s, t.rows[i].blob)
    BY <1>1 DEF Good, Core, RowsOK, Holds
  <2>2. \A i \in 1..Len(t.rows) : RowOK(out, made, d, t, t.rows[i])
    BY <2>1 DEF RowOK
  <2> QED  BY <1>1, <2>2 DEF Good, Core, RowsOK
<1>4. ShownOK(out, t)
  BY <1>1 DEF Good, Core, ShownOK, Shows
<1>5. Core(out, made, d, t)
  BY <1>1, <1>2, <1>3, <1>4 DEF Good, Core
<1>6. Place(made, t)
  BY <1>1 DEF Good, Place
<1>7. Comes(d, s, t, B)
  BY <1>1 DEF Comes, Shows, Holds
<1>8. Steady(s, t)
  BY <1>1 DEF Steady
<1> QED  BY <1>5, <1>6, <1>7, <1>8 DEF Reached, Good

\* Statuses told.
LEMMA ToldReached ==
  ASSUME NEW out, NEW made, NEW d, NEW s, NEW t, Good(out, made, d, s), Told(s, t), StatusOK(t),
         s.st = "none" => t.m = "invited" /\ t.copy = "none" /\ t.changes = <<>>
  PROVE  Reached(out, made, d, s, t, {})
<1>1. /\ t.st = s.st /\ t.closed = s.closed /\ t.rows = s.rows /\ t.shown = s.shown
      /\ t.seen = s.seen /\ t.sending = s.sending
  BY DEF Told, Same, Names
<1>2. Good(out, made, d, t)
  BY ToldGood
<1>3. Comes(d, s, t, {})
  BY <1>1 DEF Comes, Shows, Holds
<1> QED  BY <1>1, <1>2, <1>3 DEF Reached, Steady

\* A row held.
LEMMA HoldReached ==
  ASSUME NEW out, NEW made, NEW d, NEW s, NEW b, Good(out, made, d, s), ~s.closed, s.st # "active",
         MayBeHeld(out, made, d, s, b)
  PROVE  Reached(out, made, d, s, HoldRow(s, b).s, {b}) /\ HoldRow(s, b).verdict \in {"held", "dropped"}
<1> DEFINE t == HoldRow(s, b).s
<1>1. /\ HoldRow(s, b).verdict \in {"held", "dropped"}
      /\ Good(out, made, d, t) /\ Same(s, t, {"rows", "pushed"})
      /\ \A x : Holds(t, x) => Holds(s, x) \/ x = b
  BY HoldRowIs
<1> HIDE DEF t
<1>2. /\ t.st = s.st /\ t.closed = s.closed /\ t.shown = s.shown
      /\ t.seen = s.seen /\ t.sending = s.sending
  BY <1>1 DEF Same, Names
<1>3. Comes(d, s, t, {b})
  BY <1>1, <1>2 DEF Comes, Shows
<1> QED  BY <1>1, <1>2, <1>3 DEF Reached, Steady, t

\* A post added to what is shown.
Adds(out, s, t, p) ==
  /\ Same(s, t, {"shown", "seen", "page", "sending"}) /\ t.shown = Append(s.shown, p) /\ s.seen \subseteq t.seen
  /\ s.st # "none" /\ ~Shows(s, p) /\ (\A a \in out : a.kind = "post" /\ a.post = p => a \in t.seen)
  /\ \A x : Holds(s, x) /\ x.kind = "sync" => x \in s.seen \/ x \notin t.seen

\* It is there once, like all.
LEMMA ShownGood ==
  ASSUME NEW out, NEW made, NEW d, NEW s, NEW t, NEW p, Good(out, made, d, s), Adds(out, s, t, p)
  PROVE  Good(out, made, d, t) /\ \A q : Shows(t, q) <=> Shows(s, q) \/ q = p
<1>0. /\ Same(s, t, {"shown", "seen", "page", "sending"}) /\ t.shown = Append(s.shown, p) /\ s.seen \subseteq t.seen
      /\ s.st # "none" /\ ~Shows(s, p) /\ (\A a \in out : a.kind = "post" /\ a.post = p => a \in t.seen)
      /\ \A x : Holds(s, x) /\ x.kind = "sync" => x \in s.seen \/ x \notin t.seen
  BY DEF Adds
<1>1. /\ Fields(t) /\ t.st = s.st /\ t.creator = s.creator /\ t.closed = s.closed /\ t.rows = s.rows
      /\ t.m = s.m /\ t.copy = s.copy /\ t.changes = s.changes /\ t.keys = s.keys
      /\ t.left = s.left /\ t.filtered = s.filtered /\ t.allow = s.allow /\ t.chip = s.chip
      /\ t.untold = s.untold /\ t.cut = s.cut
  BY <1>0 DEF Same, Names
<1>2. StatusOK(t)
  BY <1>1, StatusSame DEF Good, Core
<1>3. RowsOK(out, made, d, t)
  <2>1. \A i \in 1..Len(t.rows) : RowOK(out, made, d, s, t.rows[i]) /\ Holds(s, t.rows[i].blob)
    BY <1>1 DEF Good, Core, RowsOK, Holds
  <2>2. \A i \in 1..Len(t.rows) : RowOK(out, made, d, t, t.rows[i])
    BY <1>0, <2>1 DEF RowOK
  <2> QED  BY <1>1, <2>2 DEF Good, Core, RowsOK
<1>4. Listing(s.shown) /\ \A i, j \in 1..Len(s.shown) : s.shown[i] = s.shown[j] => i = j
  BY DEF Good, Core, ShownOK
<1>5. /\ Listing(t.shown) /\ Len(s.shown) \in Nat /\ Len(t.shown) = Len(s.shown) + 1 /\ DOMAIN t.shown = 1..Len(t.shown)
      /\ t.shown[Len(s.shown) + 1] = p /\ \A i \in 1..Len(s.shown) : t.shown[i] = s.shown[i]
      /\ DOMAIN s.shown = 1..Len(s.shown)
  BY <1>0, <1>4, AppendedIs
<1>6. \A i \in 1..Len(t.shown) : i \in 1..Len(s.shown) \/ i = Len(s.shown) + 1
  BY <1>5
<1>7. \A q : Shows(t, q) <=> Shows(s, q) \/ q = p
  <2>1. ASSUME NEW q, Shows(t, q) PROVE Shows(s, q) \/ q = p
    BY <1>5, <1>6, <2>1 DEF Shows
  <2>2. ASSUME NEW q, Shows(s, q) PROVE Shows(t, q)
    BY <1>5, <2>2 DEF Shows
  <2>3. Shows(t, p)
    <3>1. Len(s.shown) + 1 \in 1..Len(t.shown)
      BY <1>5
    <3> QED  BY <1>5, <3>1 DEF Shows
  <2> QED  BY <2>1, <2>2, <2>3
<1>8. \A i \in 1..Len(s.shown) : s.shown[i] # p
  BY <1>0, <1>5 DEF Shows
<1>9. ShownOK(out, t)
  <2>1. ASSUME NEW i \in 1..Len(t.shown), NEW j \in 1..Len(t.shown), t.shown[i] = t.shown[j] PROVE i = j
    <3>1. CASE i \in 1..Len(s.shown) /\ j \in 1..Len(s.shown)
      BY <1>4, <1>5, <2>1, <3>1
    <3>2. CASE i = Len(s.shown) + 1 \/ j = Len(s.shown) + 1
      BY <1>5, <1>6, <1>8, <2>1, <3>2
    <3> QED  BY <1>6, <3>1, <3>2
  <2>2. ASSUME NEW a \in out, a.kind = "post", Shows(t, a.post) PROVE a \in t.seen
    <3>1. CASE Shows(s, a.post)
      BY <1>0, <2>2, <3>1 DEF Good, Core, ShownOK
    <3>2. CASE a.post = p
      BY <1>0, <2>2, <3>2
    <3> QED  BY <1>7, <2>2, <3>1, <3>2
  <2> QED  BY <1>5, <2>1, <2>2 DEF ShownOK
<1>10. Core(out, made, d, t)
  BY <1>1, <1>2, <1>3, <1>9 DEF Good, Core
<1>11. Place(made, t)
  BY <1>0, <1>1 DEF Good, Place
<1> QED  BY <1>7, <1>10, <1>11 DEF Good

\* A post from elsewhere shown.
LEMMA ShowReached ==
  ASSUME NEW out, NEW made, NEW d, NEW s, NEW t, NEW b, NEW p, Good(out, made, d, s), s.st # "none",
         Same(s, t, {"shown", "seen", "page"}), t.shown = Append(s.shown, p), t.seen = s.seen \cup {b},
         ~Shows(s, p), \A a \in out : a.kind = "post" /\ a.post = p => a = b,
         b.kind = "sync" => ~Holds(s, b), p \in Device => SyncPost(b) /\ b.post = p /\ p # d
  PROVE  Reached(out, made, d, s, t, {b})
<1>1. t.st = s.st /\ t.closed = s.closed /\ t.rows = s.rows /\ t.sending = s.sending
  BY DEF Same, Names
<1>2. Good(out, made, d, t) /\ \A q : Shows(t, q) <=> Shows(s, q) \/ q = p
  <2>1. Same(s, t, {"shown", "seen", "page", "sending"})
    BY DEF Same
  <2>2. \A x : Holds(s, x) /\ x.kind = "sync" => x \in s.seen \/ x \notin t.seen
    OBVIOUS
  <2>3. s.seen \subseteq t.seen /\ \A a \in out : a.kind = "post" /\ a.post = p => a \in t.seen
    OBVIOUS
  <2>4. Adds(out, s, t, p)
    BY <2>1, <2>2, <2>3 DEF Adds
  <2> QED  BY <2>4, ShownGood
<1>3. Comes(d, s, t, {b})
  <2>1. \A x : Holds(t, x) => Holds(s, x)
    BY <1>1 DEF Holds
  <2>2. ASSUME NEW e \in Device, Shows(t, e), ~Shows(s, e)
        PROVE  e # d /\ \E x : Mine(s, {b}, x) /\ x.post = e /\ x \in t.seen
    <3>1. e = p
      BY <1>2, <2>2
    <3>2. Mine(s, {b}, b)
      BY <3>1 DEF Mine
    <3> QED  BY <3>1, <3>2
  <2> QED  BY <1>1, <1>2, <2>1, <2>2 DEF Comes
<1> QED  BY <1>1, <1>2, <1>3 DEF Reached, Steady

\* A mark, or what this page has seen.
LEMMA MarkSet ==
  ASSUME NEW out, NEW made, NEW d, NEW s, NEW t, Good(out, made, d, s), NEW f \in Minor \ {"seen", "sending"},
         Same(s, t, {f}), f \notin {"page", "pushed"} => t[f] \in BOOLEAN
  PROVE  Reached(out, made, d, s, t, {})
<1>1. Same(s, t, Minor)
  BY DEF Same
<1>2. t.seen = s.seen /\ t.sending = s.sending
  BY DEF Same, Names, Minor
<1>3. /\ s.chip \in BOOLEAN /\ s.filtered \in BOOLEAN /\ s.left \in BOOLEAN /\ s.allow \in BOOLEAN
      /\ s.untold \in BOOLEAN /\ s.cut \in BOOLEAN
  BY DEF Good, Core
<1>4. /\ t.chip \in BOOLEAN /\ t.filtered \in BOOLEAN /\ t.left \in BOOLEAN /\ t.allow \in BOOLEAN
      /\ t.untold \in BOOLEAN /\ t.cut \in BOOLEAN
  BY <1>3 DEF Same, Names, Minor
<1> QED  BY <1>1, <1>2, <1>4, MinorIs

\* The persisted seen list.
LEMMA SeenSet ==
  ASSUME NEW out, NEW made, NEW d, NEW s, NEW b, Good(out, made, d, s), b.kind = "sync" => ~Holds(s, b)
  PROVE  Reached(out, made, d, s, [s EXCEPT !.seen = s.seen \cup {b}], {b})
<1> DEFINE v == s.seen \cup {b}
           t == [s EXCEPT !.seen = v]
<1>1. Fields(s)
  BY DEF Good, Core
<1>2. Same(s, t, {"seen"}) /\ t.seen = v
  <2> HIDE DEF v
  <2>1. "seen" \in Names
    BY DEF Names
  <2> QED  BY <1>1, <2>1, SetField
<1> HIDE DEF t
<1>3. Same(s, t, Minor)
  BY <1>2 DEF Same, Minor
<1>4. /\ t.chip = s.chip /\ t.filtered = s.filtered /\ t.left = s.left /\ t.allow = s.allow
      /\ t.untold = s.untold /\ t.cut = s.cut /\ t.sending = s.sending
  BY <1>2 DEF Same, Names
<1>5. /\ s.chip \in BOOLEAN /\ s.filtered \in BOOLEAN /\ s.left \in BOOLEAN /\ s.allow \in BOOLEAN
      /\ s.untold \in BOOLEAN /\ s.cut \in BOOLEAN
  BY DEF Good, Core
<1>6. Reached(out, made, d, s, t, {b})
  BY <1>2, <1>3, <1>4, <1>5, MinorIs
<1> QED  BY <1>6 DEF t, v

\* What Mark makes of an answer.
LEMMA MarkIs ==
  ASSUME NEW s, NEW b, NEW a
  PROVE  /\ a.verdict # "kept" => Mark(s, b, a) = a.s
         /\ a.verdict = "kept" => Mark(s, b, a) = [a.s EXCEPT !.seen = a.s.seen \cup {b}]
BY DEF Mark

\* Nothing changed.
LEMMA ReachedSame ==
  ASSUME NEW out, NEW made, NEW d, NEW s, NEW B, Good(out, made, d, s)
  PROVE  Reached(out, made, d, s, s, B)
BY DEF Reached, Comes, Steady

\* The keys and statuses of an invite, and the entry it makes.
LEMMA InviteIs ==
  ASSUME NEW out, NEW made, NEW d, NEW s, NEW b, Good(out, made, d, s), ~s.closed, made = "c", b.key \in {"c", "m"}
  PROVE  Reached(out, made, d, s, Invite(s, b), {})
<1> DEFINE v == s.keys \cup {b.key}
           k == [s EXCEPT !.keys = v]
           t == DecideHeld(k)
           u == [t EXCEPT !.st = "pending", !.creator = "c"]
<1>1. Fields(s) /\ StatusOK(s)
  BY DEF Good, Core
<1>2. Same(s, k, {"keys"}) /\ k.keys = v
  <2> HIDE DEF v
  <2>1. "keys" \in Names
    BY DEF Names
  <2> QED  BY <1>1, <2>1, SetField
<1> HIDE DEF k
<1>3. Told(s, k) /\ StatusOK(k) /\ Fields(k)
  <2>1. {b.key} \subseteq {"c", "m"}
    OBVIOUS
  <2> QED  BY <1>1, <1>2, <2>1, KeysLearnt DEF Same
<1>4. /\ Told(k, t) /\ StatusOK(t) /\ (k.changes = <<>> => t.m = k.m /\ t.copy = k.copy /\ t.changes = <<>>)
  BY <1>3, DecideHeldIs
<1> HIDE DEF t
<1>5. Told(s, t) /\ Fields(t)
  BY <1>3, <1>4, ToldOn DEF Told, Same
<1>6. s.st = "none" => t.m = "invited" /\ t.copy = "none" /\ t.changes = <<>>
  <2>1. s.st = "none" => s.m = "invited" /\ s.copy = "none" /\ s.changes = <<>>
    BY DEF Good, Place
  <2>2. k.m = s.m /\ k.copy = s.copy /\ k.changes = s.changes
    BY <1>2 DEF Same, Names
  <2> QED  BY <1>4, <2>1, <2>2
<1>7. Reached(out, made, d, s, t, {})
  BY <1>4, <1>5, <1>6, ToldReached
<1>8. Invite(s, b) = IF t.st # "none" THEN t ELSE u
  BY DEF Invite, t, k, v
<1>9. CASE t.st = "none"
  <2>1. Same(t, u, {"st", "creator"}) /\ u.st = "pending" /\ u.creator = "c"
    <3>1. "st" \in Names /\ "creator" \in Names
      BY DEF Names
    <3> QED  BY <1>5, <3>1 DEF Same, Fields
  <2> HIDE DEF u
  <2>2. /\ Fields(u) /\ u.closed = t.closed /\ u.rows = t.rows /\ u.shown = t.shown /\ u.seen = t.seen
        /\ u.m = t.m /\ u.copy = t.copy /\ u.changes = t.changes /\ u.keys = t.keys /\ u.sending = t.sending
        /\ u.left = t.left /\ u.filtered = t.filtered /\ u.allow = t.allow /\ u.chip = t.chip
        /\ u.untold = t.untold /\ u.cut = t.cut
    BY <2>1 DEF Same, Names
  <2>3. Good(out, made, d, t) /\ ~t.closed
    BY <1>7 DEF Reached, Steady
  <2>4. StatusOK(u)
    BY <2>1, <2>2, <2>3 DEF Good, Core, StatusOK, ChangesOK, CopyTrue, Distro
  <2>5. RowsOK(out, made, d, u)
    BY <2>2, <2>3 DEF Good, Core, RowsOK, RowOK
  <2>6. ShownOK(out, u)
    BY <2>2, <2>3 DEF Good, Core, ShownOK, Shows
  <2>7. Core(out, made, d, u)
    BY <2>1, <2>2, <2>3, <2>4, <2>5, <2>6 DEF Good, Core
  <2>8. Place(made, u)
    BY <2>1, <2>2, <2>3 DEF Good, Place
  <2>9. Comes(d, t, u, {})
    BY <2>2 DEF Comes, Shows, Holds
  <2>10. Reached(out, made, d, t, u, {})
    BY <1>9, <2>1, <2>2, <2>7, <2>8, <2>9 DEF Reached, Good, Steady
  <2> QED  BY <1>7, <1>8, <1>9, <2>10, ReachedOn
<1> QED  BY <1>7, <1>8, <1>9

\* An accept or a leave of m.
LEMMA ChangeIs ==
  ASSUME NEW out, NEW made, NEW d, NEW s, NEW b, Good(out, made, d, s), s.st # "none", Elem(b)
  PROVE  Reached(out, made, d, s, Change(s, b), {})
<1> DEFINE r == Remember(s, b)
           t == IF Validated(s, b) THEN DecideHeld(r) ELSE r
           u == TakeChange(t, b)
<1>1. Fields(s) /\ StatusOK(s)
  BY DEF Good, Core
<1>2. Told(s, r) /\ StatusOK(r) /\ Fields(r)
  BY <1>1, RememberIs DEF Same
<1> HIDE DEF r
<1>3. Told(s, t) /\ StatusOK(t)
  <2>1. Told(r, DecideHeld(r)) /\ StatusOK(DecideHeld(r))
    BY <1>2, DecideHeldIs
  <2> QED  BY <1>2, <2>1, ToldOn
<1> HIDE DEF t
<1>4. Told(t, u) /\ StatusOK(u)
  BY <1>3, TakeChangeIs DEF Told, Same
<1>5. Change(s, b) = u
  BY DEF Change, t, r
<1> HIDE DEF u
<1>6. Told(s, u)
  BY <1>3, <1>4, ToldOn
<1> QED  BY <1>4, <1>5, <1>6, ToldReached

-----------------------------------------------------------------------------
(* A blob received. *)

\* A refusal.
LEMMA RefuseIs ==
  ASSUME NEW out, NEW made, NEW d, NEW s, NEW b, Good(out, made, d, s), BlobOK(out, made, b), b.kind # "sync"
  PROVE  Reached(out, made, d, s, Refuse(s, b).s, {b}) /\ Refuse(s, b).verdict # "kept"
<1>1. CASE b.kind = "invite" /\ s.st = "none" /\ ~s.closed
  <2> DEFINE t == [s EXCEPT !.filtered = TRUE]
  <2>1. Refuse(s, b) = Answer(t, "dropped")
    BY <1>1 DEF Refuse
  <2>2. Fields(s)
    BY DEF Good, Core
  <2>3. Same(s, t, {"filtered"}) /\ t.filtered = TRUE
    BY <2>2, SetField DEF Names
  <2> HIDE DEF t
  <2>4. Reached(out, made, d, s, t, {})
    BY <2>3, MarkSet DEF Minor
  <2>5. Reached(out, made, d, s, t, {b})
    BY <2>4, ComesMore DEF Reached
  <2> QED  BY <2>1, <2>5 DEF Answer
<1>2. CASE ~(b.kind = "invite" /\ s.st = "none" /\ ~s.closed) /\ MayHold(s, b)
  <2>1. Refuse(s, b) = HoldRow(s, b)
    BY <1>2 DEF Refuse
  <2>2. b.kind # "invite" /\ s.st # "active" /\ ~s.closed
    BY <1>2 DEF MayHold
  <2>3. MayBeHeld(out, made, d, s, b)
    BY <2>2 DEF MayBeHeld
  <2> QED  BY <2>1, <2>2, <2>3, HoldReached
<1>3. CASE ~(b.kind = "invite" /\ s.st = "none" /\ ~s.closed) /\ ~MayHold(s, b)
  <2>1. Refuse(s, b) = Answer(s, "dropped")
    BY <1>3 DEF Refuse
  <2> QED  BY <2>1, ReachedSame DEF Answer
<1> QED  BY <1>1, <1>2, <1>3

\* A post of c, not seen before, shown and marked.
LEMMA PostShown ==
  ASSUME NEW out, NEW made, NEW d, NEW s, NEW k, NEW b, Good(out, made, d, s), OutOK(out, made),
         b \in out, b.kind = "post", s.st # "none", b \notin s.seen, Same(s, k, {"page"})
  PROVE  Reached(out, made, d, s, [Show(k, b.post) EXCEPT !.seen = Show(k, b.post).seen \cup {b}], {b})
<1> DEFINE p == b.post
           q == Append(k.shown, p)
           w == [k EXCEPT !.shown = q]
           v == w.seen \cup {b}
           t == [w EXCEPT !.seen = v]
<1>1. Same(k, w, {"shown"}) /\ w.shown = q
  <2> HIDE DEF q
  <2>1. "shown" \in Names
    BY DEF Names
  <2>2. Fields(k)
    BY DEF Same
  <2> QED  BY <2>1, <2>2, SetField
<1>2. w = Show(k, p)
  BY DEF Show
<1> HIDE DEF w
<1>3. Same(w, t, {"seen"}) /\ t.seen = v
  <2> HIDE DEF v
  <2>1. "seen" \in Names
    BY DEF Names
  <2>2. Fields(w)
    BY <1>1 DEF Same
  <2> QED  BY <2>1, <2>2, SetField
<1>4. t = [Show(k, p) EXCEPT !.seen = Show(k, p).seen \cup {b}]
  BY <1>2
<1> HIDE DEF t, v, q
<1>5. Same(s, t, {"shown", "seen", "page"})
  BY <1>1, <1>3 DEF Same
<1>6. k.shown = s.shown /\ k.seen = s.seen /\ w.seen = k.seen /\ t.shown = w.shown
  BY <1>1, <1>3 DEF Same, Names
<1>7. t.shown = Append(s.shown, p) /\ t.seen = s.seen \cup {b}
  BY <1>1, <1>3, <1>6 DEF q, v
<1>8. ~Shows(s, p)
  BY DEF Good, Core, ShownOK
<1>9. p \notin Device /\ \A a \in out : a.kind = "post" /\ a.post = p => a = b
  BY DEF OutOK
<1> HIDE DEF p
<1>10. Reached(out, made, d, s, t, {b})
  BY <1>5, <1>7, <1>8, <1>9, ShowReached
<1> QED  BY <1>4, <1>10 DEF p

\* Any blob but a group sync.
LEMMA ReceiveIs ==
  ASSUME NEW out, NEW made, NEW d, NEW s, NEW b, Good(out, made, d, s), OutOK(out, made),
         BlobOK(out, made, b), b.kind # "sync"
  PROVE  Reached(out, made, d, s, Receive(s, b), {b})
<1> DEFINE a == GroupMessage(s, b)
           v == s.page \cup {b}
           k == [s EXCEPT !.page = v]
<1>1. CASE b \in s.seen
  BY <1>1, ReachedSame DEF Receive
<1>2. ASSUME b \notin s.seen, Reached(out, made, d, s, a.s, {b})
      PROVE  Reached(out, made, d, s, Receive(s, b), {b})
  <2>1. Receive(s, b) = Mark(s, b, a)
    BY <1>2 DEF Receive
  <2> DEFINE u == a.s
  <2> HIDE DEF a
  <2>2. CASE a.verdict # "kept"
    BY <1>2, <2>1, <2>2, MarkIs
  <2>3. CASE a.verdict = "kept"
    <3>1. Receive(s, b) = [u EXCEPT !.seen = u.seen \cup {b}]
      BY <2>1, <2>3, MarkIs
    <3> HIDE DEF u
    <3>2. Reached(out, made, d, s, u, {b}) /\ Good(out, made, d, u)
      BY <1>2 DEF u, Reached
    <3>3. Reached(out, made, d, u, [u EXCEPT !.seen = u.seen \cup {b}], {b})
      BY <3>2, SeenSet
    <3>4. Reached(out, made, d, s, [u EXCEPT !.seen = u.seen \cup {b}], {b})
      BY <3>2, <3>3, ReachedOn
    <3> QED  BY <3>1, <3>4
  <2> QED  BY <2>2, <2>3
<1>3. ASSUME b \notin s.seen, Reached(out, made, d, s, a.s, {})
      PROVE  Reached(out, made, d, s, Receive(s, b), {b})
  <2> HIDE DEF a
  <2>1. Reached(out, made, d, s, a.s, {b})
    BY <1>3, ComesMore DEF Reached
  <2> QED  BY <1>2, <1>3, <2>1
<1>4. CASE b \notin s.seen /\ ~Accepts(s, b, s.st)
  <2>1. a = Refuse(s, b)
    BY <1>4 DEF GroupMessage
  <2>2. Reached(out, made, d, s, a.s, {b})
    BY <2>1, RefuseIs
  <2> HIDE DEF a
  <2> QED  BY <1>2, <1>4, <2>2
<1>5. CASE b \notin s.seen /\ Accepts(s, b, s.st) /\ b \in s.page
  <2>1. a = Answer(s, "kept")
    BY <1>5 DEF GroupMessage
  <2>2. a.s = s
    BY <2>1 DEF Answer
  <2> HIDE DEF a
  <2> QED  BY <1>3, <1>5, <2>2, ReachedSame
<1>6. CASE b \notin s.seen /\ Accepts(s, b, s.st) /\ b \notin s.page
  <2>1. a = Handle(k, b)
    BY <1>6 DEF GroupMessage
  <2>2. Fields(s)
    BY DEF Good, Core
  <2>3. Same(s, k, {"page"})
    <3> HIDE DEF v
    <3>1. "page" \in Names
      BY DEF Names
    <3> QED  BY <2>2, <3>1, SetField
  <2> HIDE DEF k, a
  <2>4. Reached(out, made, d, s, k, {}) /\ Good(out, made, d, k)
    BY <2>3, MarkSet DEF Minor, Reached
  <2>5. k.st = s.st /\ k.closed = s.closed /\ k.seen = s.seen /\ Fields(k)
    BY <2>3 DEF Same, Names
  <2>6. ASSUME Reached(out, made, d, k, a.s, {})
        PROVE  Reached(out, made, d, s, Receive(s, b), {b})
    <3>1. Reached(out, made, d, s, a.s, {})
      BY <2>4, <2>6, ReachedOn
    <3> QED  BY <1>3, <1>6, <3>1
  <2>7. CASE b.kind = "post"
    <3>1. b \in out /\ s.st # "none"
      BY <1>6, <2>7 DEF BlobOK, StatusBlob, SyncBlob, Accepts
    <3>2. Reached(out, made, d, s, [Show(k, b.post) EXCEPT !.seen = Show(k, b.post).seen \cup {b}], {b})
      BY <1>6, <2>3, <2>7, <3>1, PostShown
    <3>3. a = Answer(Show(k, b.post), "kept")
      BY <2>1, <2>7 DEF Handle
    <3>4. a.s = Show(k, b.post) /\ a.verdict = "kept"
      BY <3>3 DEF Answer
    <3>5. Receive(s, b) = Mark(s, b, a)
      BY <1>6 DEF Receive, a
    <3>6. Receive(s, b) = [Show(k, b.post) EXCEPT !.seen = Show(k, b.post).seen \cup {b}]
      BY <3>4, <3>5, MarkIs
    <3> QED  BY <3>2, <3>6
  <2>8. CASE b.kind = "react"
    <3> DEFINE t == [k EXCEPT !.chip = TRUE]
    <3>1. a = IF Shows(k, b.post) THEN Answer(t, "kept") ELSE Answer(k, "dropped")
      BY <2>1, <2>8 DEF Handle
    <3>2. Same(k, t, {"chip"}) /\ t.chip = TRUE
      BY <2>5, SetField DEF Names
    <3> HIDE DEF t
    <3>3. Reached(out, made, d, k, t, {})
      BY <2>4, <3>2, MarkSet DEF Minor
    <3>4. a.s = t \/ a.s = k
      BY <3>1 DEF Answer
    <3> QED  BY <2>4, <2>6, <3>3, <3>4, ReachedSame
  <2>9. CASE b.kind = "invite"
    <3>1. a.s = Invite(k, b)
      BY <2>1, <2>9 DEF Handle, Answer
    <3>2. ~k.closed
      BY <1>6, <2>5, <2>9 DEF Accepts
    <3>3. b \in out
      BY <2>9 DEF BlobOK, StatusBlob, SyncBlob
    <3>4. made = "c" /\ b.key \in {"c", "m"}
      BY <2>9, <3>3 DEF OutOK
    <3>5. Reached(out, made, d, k, Invite(k, b), {})
      BY <2>4, <3>2, <3>4, InviteIs
    <3> QED  BY <2>6, <3>1, <3>5
  <2>10. CASE b.kind = "status"
    <3>1. a.s = TakeElements(k, b.els)
      BY <2>1, <2>10 DEF Handle, Answer
    <3>2. s.st # "none"
      BY <1>6, <2>10 DEF Accepts
    <3>3. b \notin out
      BY <2>10 DEF OutOK
    <3>4. Listing(b.els) /\ \A i \in 1..Len(b.els) : Elem(b.els[i])
      BY <2>10, <3>3 DEF BlobOK, StatusBlob, SyncBlob
    <3>5. StatusOK(k)
      BY <2>4 DEF Good, Core
    <3>6. Told(k, a.s) /\ StatusOK(a.s)
      BY <2>5, <3>1, <3>4, <3>5, TakeElementsIs
    <3>7. Reached(out, made, d, k, a.s, {})
      BY <2>4, <2>5, <3>2, <3>6, ToldReached
    <3> QED  BY <2>6, <3>7
  <2>11. CASE b.kind \in {"accept", "leave"}
    <3>1. a.s = Change(k, b)
      BY <2>1, <2>11 DEF Handle, Answer
    <3>2. s.st # "none"
      BY <1>6, <2>11 DEF Accepts
    <3>3. b \in out
      BY <2>11 DEF BlobOK, StatusBlob, SyncBlob
    <3>4. Elem(b)
      BY <2>11, <3>3 DEF OutOK, Elem
    <3>5. Reached(out, made, d, k, Change(k, b), {})
      BY <2>4, <2>5, <3>2, <3>4, ChangeIs
    <3> QED  BY <2>6, <3>1, <3>5
  <2>12. b.kind \in {"post", "react", "invite", "status", "accept", "leave"}
    BY DEF BlobOK, StatusBlob, SyncBlob, OutOK
  <2> QED  BY <2>7, <2>8, <2>9, <2>10, <2>11, <2>12
<1> QED  BY <1>1, <1>4, <1>5, <1>6

-----------------------------------------------------------------------------
(* A group sync applied. *)

\* The sync of a post of the user's.
LEMMA SyncedPostIs ==
  ASSUME NEW out, NEW made, NEW d, NEW s, NEW b, Good(out, made, d, s), OutOK(out, made),
         SyncBlob(made, b), b.op = "post", b.by # d, b \notin s.seen, Known(d, s, {b}),
         s.st = "active" => ~Holds(s, b)
  PROVE  Reached(out, made, d, s, Mark(s, b, SyncedPost(s, b)), {b})
<1> DEFINE a == SyncedPost(s, b)
<1>1. BlobOK(out, made, b) /\ b.kind = "sync" /\ b.post = b.by /\ b.post \in Device
  BY DEF BlobOK, SyncBlob
<1>2. CASE s.closed \/ (s.st # "active" /\ s.filtered)
  <2>1. a = Answer(s, "dropped")
    BY <1>2 DEF SyncedPost
  <2>2. a.verdict # "kept" /\ a.s = s
    BY <2>1 DEF Answer
  <2> HIDE DEF a
  <2>3. Mark(s, b, a) = s
    BY <2>2, MarkIs
  <2> QED  BY <2>3, ReachedSame DEF a
<1>3. CASE ~s.closed /\ s.st # "active" /\ ~s.filtered
  <2>1. a = HoldRow(s, b)
    BY <1>3 DEF SyncedPost
  <2>2. MayBeHeld(out, made, d, s, b)
    BY <1>1 DEF MayBeHeld
  <2>3. Reached(out, made, d, s, HoldRow(s, b).s, {b}) /\ HoldRow(s, b).verdict \in {"held", "dropped"}
    BY <1>3, <2>2, HoldReached
  <2> HIDE DEF a
  <2>4. Reached(out, made, d, s, a.s, {b}) /\ a.verdict # "kept"
    BY <2>1, <2>3
  <2>5. Mark(s, b, a) = a.s
    BY <2>4, MarkIs
  <2> QED  BY <2>4, <2>5 DEF a
<1>4. CASE ~s.closed /\ s.st = "active"
  <2> DEFINE p == b.post
             q == Append(s.shown, p)
             w == [s EXCEPT !.shown = q]
             v == w.seen \cup {b}
             t == [w EXCEPT !.seen = v]
  <2>1. a = Answer(w, "kept")
    BY <1>4 DEF SyncedPost, Show
  <2>2. Same(s, w, {"shown"}) /\ w.shown = q
    <3> HIDE DEF q
    <3>1. "shown" \in Names
      BY DEF Names
    <3>2. Fields(s)
      BY DEF Good, Core
    <3> QED  BY <3>1, <3>2, SetField
  <2> HIDE DEF w
  <2>3. Same(w, t, {"seen"}) /\ t.seen = v
    <3> HIDE DEF v
    <3>1. "seen" \in Names
      BY DEF Names
    <3>2. Fields(w)
      BY <2>2 DEF Same
    <3> QED  BY <3>1, <3>2, SetField
  <2>4. a.verdict = "kept" /\ a.s = w
    BY <2>1 DEF Answer
  <2>5. Mark(s, b, a) = t
    <3> HIDE DEF a
    <3> QED  BY <2>4, MarkIs
  <2> HIDE DEF t, v, q
  <2>6. Same(s, t, {"shown", "seen", "page"})
    BY <2>2, <2>3 DEF Same
  <2>7. t.shown = Append(s.shown, p) /\ t.seen = s.seen \cup {b}
    BY <2>2, <2>3 DEF Same, Names, q, v
  <2>8. SyncPost(b) /\ Mine(s, {b}, b)
    BY <1>1 DEF SyncPost, Mine
  <2>9. ~Shows(s, p)
    BY <1>1, <2>8 DEF Known
  <2>10. \A c \in out : c.kind = "post" /\ c.post = p => c = b
    BY <1>1 DEF OutOK
  <2>11. Reached(out, made, d, s, t, {b})
    BY <1>1, <1>4, <2>6, <2>7, <2>8, <2>9, <2>10, ShowReached
  <2> QED  BY <2>5, <2>11
<1> QED  BY <1>2, <1>3, <1>4

\* A group closed here.
LEMMA CloseIs ==
  ASSUME NEW out, NEW made, NEW d, NEW s, Good(out, made, d, s)
  PROVE  LET t == Close(s) IN
         /\ Good(out, made, d, t) /\ Comes(d, s, t, {}) /\ t.st = "none" /\ t.closed /\ t.keys = s.keys
         /\ t.sending = s.sending /\ Fields(t)
<1> DEFINE none == <<>>
           c == CloseHolding(s)
           t == [c EXCEPT !.rows = none]
<1>1. Fields(s) /\ Listing(s.rows) /\ \A i \in 1..Len(s.rows) : s.rows[i].group = Group
  BY DEF Good, Core, RowsOK, RowOK
<1>2. Close(s) = t
  <2>1. ForgetGroup(s.rows, Group) = <<>>
    BY <1>1, ForgetIs
  <2> HIDE DEF c
  <2> QED  BY <2>1 DEF Close, c
<1>3. /\ Same(s, c, {"st", "creator", "m", "copy", "changes", "closed", "shown", "chip"})
      /\ c.st = "none" /\ c.creator = "none" /\ c.m = "invited" /\ c.copy = "none" /\ c.changes = <<>>
      /\ c.closed = TRUE /\ c.shown = <<>> /\ c.chip = FALSE
  <2>1. "st" \in Names /\ "creator" \in Names /\ "m" \in Names /\ "copy" \in Names /\ "changes" \in Names
        /\ "closed" \in Names /\ "shown" \in Names /\ "chip" \in Names
    BY DEF Names
  <2> QED  BY <1>1, <2>1 DEF CloseHolding, Same, Fields
<1> HIDE DEF c
<1>4. Same(c, t, {"rows"}) /\ t.rows = <<>>
  <2>1. Fields(c) /\ "rows" \in Names
    BY <1>3 DEF Same, Names
  <2> HIDE DEF none
  <2>2. Same(c, t, {"rows"}) /\ t.rows = none
    BY <2>1 DEF Same, Fields
  <2> QED  BY <2>2 DEF none
<1> HIDE DEF t
<1>5. /\ Fields(t) /\ t.st = "none" /\ t.creator = "none" /\ t.m = "invited" /\ t.copy = "none" /\ t.changes = <<>>
      /\ t.closed = TRUE /\ t.shown = <<>> /\ t.chip = FALSE /\ t.rows = <<>>
      /\ t.left = s.left /\ t.filtered = s.filtered /\ t.allow = s.allow /\ t.keys = s.keys
      /\ t.untold = s.untold /\ t.cut = s.cut /\ t.seen = s.seen /\ t.sending = s.sending
  BY <1>3, <1>4 DEF Same, Names
<1>6. Listing(<<>>) /\ Len(<<>>) = 0
  BY EmptyIs
<1>7. StatusOK(t)
  BY <1>5, <1>6 DEF Good, Core, StatusOK, ChangesOK, CopyTrue, Statuses, Distro
<1>8. \A x : ~Shows(t, x) /\ ~Holds(t, x)
  BY <1>5, <1>6 DEF Shows, Holds
<1>9. RowsOK(out, made, d, t)
  <2>1. Thin(t.rows, s.rows)
    <3>1. Len(s.rows) \in Nat /\ \A T : Number(s.rows, T) \in Nat
      BY <1>1, Listed, NumberIs
    <3>2. \A T : Number(t.rows, T) = 0
      <4>1. \A T : Number(t.rows, T) \in Nat /\ Number(t.rows, T) <= Len(t.rows)
        BY <1>5, <1>6, NumberIs
      <4> QED  BY <1>5, <1>6, <4>1
    <3>3. ToSet(t.rows) = {} /\ Distinct(t.rows)
      BY <1>5, <1>6 DEF ToSet, Distinct
    <3> QED  BY <1>5, <1>6, <3>1, <3>2, <3>3 DEF Thin
  <2> QED  BY <1>5, <2>1, ThinRows DEF Good, Core
<1>10. ShownOK(out, t)
  BY <1>5, <1>6, <1>8 DEF ShownOK
<1>11. Core(out, made, d, t)
  BY <1>5, <1>7, <1>9, <1>10 DEF Good, Core
<1>12. Place(made, t)
  BY <1>5 DEF Place
<1>13. Comes(d, s, t, {})
  BY <1>5, <1>8 DEF Comes
<1> QED  BY <1>2, <1>5, <1>11, <1>12, <1>13 DEF Good

\* Closed, and in the left list.
LEMMA CloseFromSyncIs ==
  ASSUME NEW out, NEW made, NEW d, NEW s, Good(out, made, d, s)
  PROVE  LET t == CloseFromSync(s) IN
         Good(out, made, d, t) /\ Comes(d, s, t, {}) /\ t.st = "none" /\ t.closed /\ Fields(t)
<1> DEFINE c == Close(s)
           t == [c EXCEPT !.left = TRUE]
<1>1. Good(out, made, d, c) /\ Comes(d, s, c, {}) /\ c.st = "none" /\ c.closed /\ Fields(c)
  BY CloseIs
<1> HIDE DEF c
<1>2. Same(c, t, {"left"}) /\ t.left = TRUE
  BY <1>1, SetField DEF Names
<1> HIDE DEF t
<1>3. Reached(out, made, d, c, t, {})
  BY <1>1, <1>2, MarkSet DEF Minor
<1>4. Comes(d, s, t, {})
  BY <1>1, <1>3, ComesOn DEF Reached
<1>5. t.st = "none" /\ t.closed /\ Fields(t)
  BY <1>1, <1>2 DEF Same, Names
<1>6. CloseFromSync(s) = t
  BY DEF CloseFromSync, t, c
<1> QED  BY <1>3, <1>4, <1>5, <1>6 DEF Reached

-----------------------------------------------------------------------------
(* What was held, replayed. *)

\* A row let go.
LEMMA ReleasedIs ==
  ASSUME NEW out, NEW made, NEW d, NEW s, NEW r, Good(out, made, d, s)
  PROVE  LET t == [s EXCEPT !.rows = Release(s.rows, r)] IN
         /\ Good(out, made, d, t) /\ Comes(d, s, t, {}) /\ Same(s, t, {"rows"})
         /\ \A x : Holds(t, x) => Holds(s, x) /\ x # r.blob
<1> DEFINE q == Release(s.rows, r)
           t == [s EXCEPT !.rows = q]
<1>1. Fields(s) /\ Listing(s.rows) /\ Distinct(s.rows)
  BY DEF Good, Core, RowsOK
<1>2. Thin(q, s.rows) /\ \A x \in ToSet(q) : x.blob # r.blob
  BY <1>1, ReleaseIs
<1> HIDE DEF q
<1>3. Same(s, t, {"rows"}) /\ t.rows = q
  <2>1. "rows" \in Names
    BY DEF Names
  <2> QED  BY <1>1, <2>1 DEF Same, Fields
<1> HIDE DEF t
<1>4. t.seen = s.seen /\ t.closed = s.closed /\ t.shown = s.shown /\ t.sending = s.sending
  BY <1>3 DEF Same, Names
<1>5. RowsOK(out, made, d, t) /\ \A x : Holds(t, x) => Holds(s, x)
  BY <1>2, <1>3, <1>4, ThinRows DEF Good, Core
<1>6. \A x : Holds(t, x) => x # r.blob
  <2>1. \A i \in 1..Len(q) : q[i] \in ToSet(q)
    BY <1>2, InSeq DEF Thin, Listing
  <2> QED  BY <1>2, <1>3, <2>1 DEF Holds
<1>7. Same(s, t, {"rows", "pushed"})
  BY <1>3 DEF Same
<1>8. s.closed => t.rows = <<>>
  <2>1. ASSUME s.closed PROVE t.rows = <<>>
    <3>1. s.rows = <<>>
      BY <2>1 DEF Good, Place
    <3>2. Len(s.rows) = 0 /\ Listing(q) /\ Len(q) \in Nat /\ Len(q) <= 0
      BY <1>2, <3>1, EmptyIs, Listed DEF Thin
    <3> QED  BY <1>3, <3>2, EmptyIs
  <2> QED  BY <2>1
<1>9. Good(out, made, d, t)
  BY <1>5, <1>7, <1>8, RowsGood
<1>10. Comes(d, s, t, {})
  BY <1>4, <1>5 DEF Comes, Shows
<1> QED  BY <1>3, <1>5, <1>6, <1>9, <1>10 DEF t, q

\* A row let go and handled: s was before any was, and u before this one.
Released(out, made, d, s, u, v, b, B) ==
  /\ Good(out, made, d, v) /\ Comes(d, s, v, B) /\ v.st = "active" /\ v.closed = u.closed
  /\ v.seen \subseteq u.seen \cup {b} /\ \A x : Holds(v, x) => Holds(u, x) /\ x # b

LEMMA ReplayRowIs ==
  ASSUME NEW out, NEW made, NEW d, NEW s, NEW r, NEW b, r.blob = b, Good(out, made, d, s), OutOK(out, made),
         s.st = "active", MayBeHeld(out, made, d, s, b), Known(d, s, {b}), NEW t, t = ReplayRow(s, r)
  PROVE  Released(out, made, d, s, s, t, b, {b})
<1> DEFINE u == [s EXCEPT !.rows = Release(s.rows, r)]
<1>1. t = IF b.kind # "sync" THEN Receive(u, b) ELSE Mark(u, b, SyncedPost(u, b))
  BY DEF ReplayRow
<1>2. /\ Good(out, made, d, u) /\ Comes(d, s, u, {}) /\ Same(s, u, {"rows"})
      /\ \A x : Holds(u, x) => Holds(s, x) /\ x # b
  BY ReleasedIs
<1> HIDE DEF u
<1>3. u.st = s.st /\ u.closed = s.closed /\ u.seen = s.seen
  BY <1>2 DEF Same, Names
<1>4. Known(d, u, {b})
  BY <1>2, KnownOn
<1>5. Reached(out, made, d, u, t, {b})
  <2>1. CASE b.kind # "sync"
    <3>1. BlobOK(out, made, b)
      BY DEF MayBeHeld
    <3>2. Reached(out, made, d, u, Receive(u, b), {b})
      BY <1>2, <2>1, <3>1, ReceiveIs
    <3> QED  BY <1>1, <2>1, <3>2
  <2>2. CASE b.kind = "sync"
    <3>1. b \notin out
      BY <2>2 DEF OutOK
    <3>2. SyncBlob(made, b) /\ b.op = "post" /\ b.by # d /\ b \notin s.seen
      BY <2>2, <3>1 DEF MayBeHeld, BlobOK, StatusBlob
    <3>3. Reached(out, made, d, u, Mark(u, b, SyncedPost(u, b)), {b})
      BY <1>2, <1>3, <1>4, <3>2, SyncedPostIs
    <3> QED  BY <1>1, <2>2, <3>3
  <2> QED  BY <2>1, <2>2
<1>6. Comes(d, s, t, {b})
  BY <1>2, <1>5, ComesOn DEF Reached
<1>7. t.st = "active" /\ t.closed = s.closed /\ t.rows = u.rows /\ t.seen \subseteq s.seen \cup {b}
  BY <1>3, <1>5 DEF Reached, Steady
<1>8. \A x : Holds(t, x) => Holds(s, x) /\ x # b
  BY <1>2, <1>7 DEF Holds
<1> QED  BY <1>5, <1>6, <1>7, <1>8 DEF Reached, Released

\* What is held already comes from nowhere else.
LEMMA ComesHeld ==
  ASSUME NEW d, NEW s, NEW t, NEW b, Holds(s, b), Comes(d, s, t, {b})
  PROVE  Comes(d, s, t, {})
<1>1. ASSUME NEW x, Mine(s, {b}, x) PROVE Mine(s, {}, x)
  BY <1>1 DEF Mine
<1> QED  BY <1>1 DEF Comes

LEMMA KnownHeld ==
  ASSUME NEW d, NEW s, NEW b, Holds(s, b), Known(d, s, {})
  PROVE  Known(d, s, {b})
<1>1. ASSUME NEW x, Mine(s, {b}, x) PROVE Mine(s, {}, x)
  BY <1>1 DEF Mine
<1> QED  BY <1>1 DEF Known

\* The next row of those held in s, when it came as far as u.
LEMMA ReplayNext ==
  ASSUME NEW out, NEW made, NEW d, NEW s, NEW u, NEW r, NEW b, r.blob = b, OutOK(out, made), Holds(s, b),
         Known(d, s, {}), Comes(d, s, u, {}), Good(out, made, d, u), u.st = "active",
         MayBeHeld(out, made, d, u, b)
  PROVE  Released(out, made, d, s, u, ReplayRow(u, r), b, {})
<1>a. PICK v : v = ReplayRow(u, r)
  OBVIOUS
<1>1. Known(d, u, {b})
  <2>1. Known(d, s, {b})
    BY KnownHeld
  <2> QED  BY <2>1, KnownOn
<1>2. Released(out, made, d, u, u, v, b, {b})
  BY <1>1, <1>a, ReplayRowIs
<1>3. Comes(d, s, v, {})
  <2>1. Comes(d, s, v, {b})
    BY <1>2, ComesOn DEF Released
  <2> QED  BY <2>1, ComesHeld
<1> QED  BY <1>2, <1>3, <1>a DEF Released

\* All rows replayed: none is left.
LEMMA ReplayIs ==
  ASSUME NEW out, NEW made, NEW d, NEW s, Good(out, made, d, s), OutOK(out, made), s.st = "active", Known(d, s, {})
  PROVE  LET t == Replay(s) IN
         Good(out, made, d, t) /\ Comes(d, s, t, {}) /\ t.st = "active" /\ t.closed = s.closed /\ t.rows = <<>>
<1> DEFINE q == s.rows
<1>1. /\ Listing(q) /\ Distinct(q) /\ Len(q) \in Nat /\ \A i \in 1..Len(q) : RowOK(out, made, d, s, q[i])
      /\ \A i \in 1..Len(q) : q[i].group = Group
  BY Listed DEF Good, Core, RowsOK, RowOK
<1>2. ForGroup(q, Group) = q
  BY <1>1, ForGroupIs
<1>3. PICK f : Runs("replay", f, s, q, Len(q)) /\ Replay(s) = f[Len(q)]
  BY <1>1, <1>2, ReplayRuns
<1>4. \A n \in 0..Len(q) : f[n] = IF n = 0 THEN s ELSE ReplayRow(f[n - 1], q[n])
  BY <1>3 DEF Runs, StepOf
<1> DEFINE Fine(n) == /\ Good(out, made, d, f[n]) /\ Comes(d, s, f[n], {}) /\ f[n].st = "active" /\ f[n].closed = s.closed
                      /\ \A x : Holds(f[n], x) => \E i \in n + 1 .. Len(q) : q[i].blob = x
                      /\ \A i \in n + 1 .. Len(q) : q[i].blob.kind = "sync" => q[i].blob \notin f[n].seen
           Bad == {n \in Nat : n <= Len(q) /\ ~Fine(n)}
<1>5. Bad = {}
  <2> SUFFICES ASSUME Bad # {} PROVE FALSE
    OBVIOUS
  <2>1. PICK n \in Bad : \A k \in Bad : n <= k
    BY LeastNumber
  <2>2. n # 0
    <3>1. f[0] = s
      BY <1>1, <1>4
    <3>2. Comes(d, s, s, {})
      BY DEF Comes
    <3>3. \A i \in 0 + 1 .. Len(q) : i \in 1..Len(q)
      OBVIOUS
    <3>4. \A x : Holds(s, x) => \E i \in 0 + 1 .. Len(q) : q[i].blob = x
      BY DEF Holds
    <3>5. \A i \in 0 + 1 .. Len(q) : q[i].blob.kind = "sync" => q[i].blob \notin s.seen
      BY <1>1, <3>3 DEF RowOK
    <3>6. Fine(0)
      BY <3>1, <3>2, <3>4, <3>5
    <3> HIDE DEF Fine
    <3> QED  BY <2>1, <3>6
  <2>3. n - 1 \in Nat /\ n \in 1..Len(q) /\ n - 1 <= Len(q) /\ (n - 1) + 1 = n
    BY <1>1, <2>1, <2>2
  <2>4. Fine(n - 1)
    <3> HIDE DEF Fine
    <3>1. n - 1 \notin Bad
      BY <2>1, <2>3
    <3> QED  BY <2>3, <3>1
  <2>5. PICK u : u = f[n - 1]
    OBVIOUS
  <2>6. PICK r : r = q[n]
    OBVIOUS
  <2>7. f[n] = ReplayRow(u, r)
    BY <1>4, <2>2, <2>3, <2>5, <2>6
  <2>8. /\ Good(out, made, d, u) /\ Comes(d, s, u, {}) /\ u.st = "active" /\ u.closed = s.closed
        /\ \A x : Holds(u, x) => \E i \in n .. Len(q) : q[i].blob = x
        /\ \A i \in n .. Len(q) : q[i].blob.kind = "sync" => q[i].blob \notin u.seen
    BY <2>3, <2>4, <2>5
  <2> HIDE DEF Fine, Bad
  <2>9. n \in n .. Len(q) /\ \A i \in n .. Len(q) : i \in 1..Len(q) /\ (i = n \/ i \in n + 1 .. Len(q))
    BY <1>1, <2>3
  <2>a. PICK b : b = r.blob
    OBVIOUS
  <2>10. MayBeHeld(out, made, d, u, b)
    <3>1. RowOK(out, made, d, s, r)
      BY <1>1, <2>3, <2>6
    <3>2. b.kind = "sync" => b \notin u.seen
      BY <2>6, <2>8, <2>9, <2>a
    <3> QED  BY <2>a, <3>1, <3>2 DEF RowOK, MayBeHeld
  <2>11. Holds(s, b)
    BY <2>3, <2>6, <2>a DEF Holds
  <2>12. PICK v : v = ReplayRow(u, r)
    OBVIOUS
  <2>13. Good(out, made, d, u) /\ Comes(d, s, u, {}) /\ u.st = "active"
    BY <2>8
  <2>14. Released(out, made, d, s, u, v, b, {})
    BY <2>10, <2>11, <2>12, <2>13, <2>a, ReplayNext
  <2>15. /\ Good(out, made, d, v) /\ Comes(d, s, v, {}) /\ v.st = "active" /\ v.closed = u.closed
         /\ v.seen \subseteq u.seen \cup {b} /\ \A x : Holds(v, x) => Holds(u, x) /\ x # b
    BY <2>14 DEF Released
  <2>16. ASSUME NEW x, Holds(v, x) PROVE \E i \in n + 1 .. Len(q) : q[i].blob = x
    <3>1. Holds(u, x) /\ x # q[n].blob
      BY <2>6, <2>15, <2>16, <2>a
    <3>2. PICK i \in n .. Len(q) : q[i].blob = x
      BY <2>8, <3>1
    <3>3. i # n
      BY <3>1, <3>2
    <3> QED  BY <2>9, <3>2, <3>3
  <2>17. ASSUME NEW i \in n + 1 .. Len(q), q[i].blob.kind = "sync" PROVE q[i].blob \notin v.seen
    <3>1. i \in n .. Len(q) /\ i # n /\ i \in 1..Len(q)
      BY <1>1, <2>3
    <3>2. q[i].blob # r.blob
      BY <1>1, <2>3, <2>6, <3>1 DEF Distinct
    <3> QED  BY <2>8, <2>15, <2>17, <2>a, <3>1, <3>2
  <2>18. Fine(n)
    BY <2>7, <2>8, <2>12, <2>15, <2>16, <2>17 DEF Fine
  <2> QED  BY <2>1, <2>18 DEF Bad
<1>6. Fine(Len(q))
  <2> HIDE DEF Fine
  <2> QED  BY <1>1, <1>5
<1>7. PICK t : t = f[Len(q)]
  OBVIOUS
<1>8. /\ Good(out, made, d, t) /\ Comes(d, s, t, {}) /\ t.st = "active" /\ t.closed = s.closed
      /\ \A x : ~Holds(t, x)
  <2>1. \A i : i \notin Len(q) + 1 .. Len(q)
    BY <1>1
  <2> QED  BY <1>6, <1>7, <2>1
<1>9. t.rows = <<>>
  <2>1. Listing(t.rows) /\ Len(t.rows) \in Nat
    BY <1>8, Listed DEF Good, Core, RowsOK
  <2>2. 1 \notin 1..Len(t.rows)
    BY <1>8 DEF Holds
  <2>3. Len(t.rows) = 0
    BY <2>1, <2>2
  <2> QED  BY <2>1, <2>3, EmptyIs
<1> QED  BY <1>3, <1>7, <1>8, <1>9

-----------------------------------------------------------------------------
(* A group joined, and a group sync. *)

\* The entry as it is to be, but for its status.
Opened(out, made, d, s) ==
  Core(out, made, d, s) /\ s.creator = made /\ s.closed = FALSE /\ OutOK(out, made) /\ Known(d, s, {})

LEMMA JoinedIs ==
  ASSUME NEW out, NEW made, NEW d, NEW s, Opened(out, made, d, s)
  PROVE  LET t == Joined(s) IN Good(out, made, d, t) /\ Comes(d, s, t, {}) /\ t.rows = <<>>
<1> DEFINE k == DecideHeld(s)
           t == [k EXCEPT !.st = "active", !.allow = TRUE]
<1>1. Fields(s) /\ StatusOK(s)
  BY DEF Opened, Core
<1>2. Told(s, k) /\ StatusOK(k) /\ Fields(k)
  BY <1>1, DecideHeldIs DEF Told, Same
<1> HIDE DEF k
<1>3. Same(k, t, {"st", "allow"}) /\ t.st = "active" /\ t.allow = TRUE
  <2>1. "st" \in Names /\ "allow" \in Names
    BY DEF Names
  <2> QED  BY <1>2, <2>1 DEF Same, Fields
<1> HIDE DEF t
<1>4. /\ Fields(t) /\ t.creator = s.creator /\ t.closed = s.closed /\ t.left = s.left
      /\ t.filtered = s.filtered /\ t.rows = s.rows /\ t.shown = s.shown /\ t.chip = s.chip
      /\ t.seen = s.seen /\ t.sending = s.sending /\ t.untold = s.untold /\ t.cut = s.cut
  BY <1>2, <1>3 DEF Told, Same, Names
<1>5. StatusOK(t)
  <2>1. t.m = k.m /\ t.copy = k.copy /\ t.keys = k.keys /\ t.changes = k.changes /\ t.creator = k.creator
    BY <1>3 DEF Same, Names
  <2> QED  BY <1>2, <2>1, StatusSame
<1>6. RowsOK(out, made, d, t)
  BY <1>4 DEF Opened, Core, RowsOK, RowOK
<1>7. ShownOK(out, t)
  BY <1>4 DEF Opened, Core, ShownOK, Shows
<1>8. Core(out, made, d, t)
  BY <1>3, <1>4, <1>5, <1>6, <1>7 DEF Opened, Core
<1>9. Good(out, made, d, t)
  BY <1>3, <1>4, <1>8 DEF Opened, Good, Place
<1>10. Comes(d, s, t, {})
  BY <1>4 DEF Comes, Shows, Holds
<1>11. Known(d, t, {})
  BY <1>10, KnownOn DEF Opened
<1> DEFINE u == Replay(t)
<1>12. Good(out, made, d, u) /\ Comes(d, t, u, {}) /\ u.rows = <<>>
  BY <1>3, <1>9, <1>11, ReplayIs DEF Opened
<1>13. Joined(s) = u
  BY DEF Joined, t, k
<1> HIDE DEF u
<1>14. Comes(d, s, u, {})
  BY <1>10, <1>12, ComesOn
<1> QED  BY <1>12, <1>13, <1>14

\* With the keys of a sync.
LEMMA JoinedFromSyncIs ==
  ASSUME NEW out, NEW made, NEW d, NEW s, NEW b, Opened(out, made, d, s), b.keys \subseteq {"c", "m"}
  PROVE  LET t == JoinedFromSync(s, b) IN Good(out, made, d, t) /\ Comes(d, s, t, {}) /\ t.rows = <<>>
<1> DEFINE v == s.keys \cup b.keys
           k == [s EXCEPT !.keys = v, !.filtered = FALSE]
<1>1. Fields(s) /\ StatusOK(s)
  BY DEF Opened, Core
<1>2. Same(s, k, {"keys", "filtered"}) /\ k.keys = v /\ k.filtered = FALSE
  <2> HIDE DEF v
  <2>1. "keys" \in Names /\ "filtered" \in Names
    BY DEF Names
  <2> QED  BY <1>1, <2>1 DEF Same, Fields
<1> HIDE DEF k
<1>3. /\ Fields(k) /\ k.creator = s.creator /\ k.closed = s.closed /\ k.left = s.left
      /\ k.allow = s.allow /\ k.rows = s.rows /\ k.shown = s.shown /\ k.chip = s.chip
      /\ k.seen = s.seen /\ k.sending = s.sending /\ k.untold = s.untold /\ k.cut = s.cut
      /\ k.m = s.m /\ k.copy = s.copy /\ k.changes = s.changes
  BY <1>2 DEF Same, Names
<1>4. StatusOK(k)
  <2>1. k.keys \subseteq {"c", "m"}
    BY <1>1, <1>2 DEF StatusOK
  <2> QED  BY <1>1, <1>3, <2>1 DEF StatusOK, ChangesOK, CopyTrue
<1>5. RowsOK(out, made, d, k)
  BY <1>3 DEF Opened, Core, RowsOK, RowOK
<1>6. ShownOK(out, k)
  BY <1>3 DEF Opened, Core, ShownOK, Shows
<1>7. Core(out, made, d, k)
  BY <1>2, <1>3, <1>4, <1>5, <1>6 DEF Opened, Core
<1>8. Comes(d, s, k, {})
  BY <1>3 DEF Comes, Shows, Holds
<1>9. Known(d, k, {})
  BY <1>8, KnownOn DEF Opened
<1> DEFINE t == Joined(k)
<1>10. Good(out, made, d, t) /\ Comes(d, k, t, {}) /\ t.rows = <<>>
  <2>1. Opened(out, made, d, k)
    BY <1>3, <1>7, <1>9 DEF Opened
  <2> HIDE DEF t
  <2> QED  BY <2>1, JoinedIs DEF t
<1>11. JoinedFromSync(s, b) = t
  BY DEF JoinedFromSync, k, v
<1> HIDE DEF t
<1>12. Comes(d, s, t, {})
  BY <1>8, <1>10, ComesOn
<1> QED  BY <1>10, <1>11, <1>12

\* What a sync may make of a device: where the group is joined, nothing is
\* held, and it stays so until it is closed.
Led(out, made, d, s, t, B) ==
  /\ Good(out, made, d, t) /\ Comes(d, s, t, B) /\ (Idle(s) => Idle(t))
  /\ s.st = "active" => t.st = "active" \/ t.closed

LEMMA SyncedJoinIs ==
  ASSUME NEW out, NEW made, NEW d, NEW s, NEW b, Good(out, made, d, s), OutOK(out, made),
         SyncBlob(made, b), b.op \in {"create", "accept"}, Known(d, s, {})
  PROVE  Led(out, made, d, s, SyncedJoin(s, b), {})
<1>1. CASE s.closed \/ s.st = "active"
  <2>1. SyncedJoin(s, b) = s
    BY <1>1 DEF SyncedJoin
  <2>2. Comes(d, s, s, {})
    BY DEF Comes
  <2> QED  BY <2>1, <2>2 DEF Led
<1>2. CASE ~s.closed /\ s.st # "active"
  <2> DEFINE by == IF b.op = "create" THEN Distro ELSE "c"
             k == [s EXCEPT !.creator = by]
             t == JoinedFromSync(k, b)
  <2>1. by = made
    BY DEF SyncBlob
  <2>2. Same(s, k, {"creator"}) /\ k.creator = made
    <3>1. Fields(s) /\ "creator" \in Names
      BY DEF Good, Core, Names
    <3> HIDE DEF by
    <3> QED  BY <2>1, <3>1 DEF Same, Fields
  <2> HIDE DEF k
  <2>3. /\ Fields(k) /\ k.st = s.st /\ k.closed = s.closed /\ k.left = s.left /\ k.filtered = s.filtered
        /\ k.allow = s.allow /\ k.rows = s.rows /\ k.shown = s.shown /\ k.chip = s.chip
        /\ k.seen = s.seen /\ k.sending = s.sending /\ k.untold = s.untold /\ k.cut = s.cut
        /\ k.m = s.m /\ k.copy = s.copy /\ k.changes = s.changes /\ k.keys = s.keys
    BY <2>2 DEF Same, Names
  <2>4. StatusOK(k)
    <3>1. CASE s.st = "none"
      BY <2>3, <3>1 DEF Good, Core, Place, StatusOK, ChangesOK, CopyTrue
    <3>2. CASE s.st = "pending"
      BY <2>2, <2>3, <3>2 DEF Good, Core, Place, StatusOK, ChangesOK, CopyTrue
    <3> QED  BY <1>2, <3>1, <3>2 DEF Good, Place
  <2>5. RowsOK(out, made, d, k)
    BY <2>3 DEF Good, Core, RowsOK, RowOK
  <2>6. ShownOK(out, k)
    BY <2>3 DEF Good, Core, ShownOK, Shows
  <2>7. Core(out, made, d, k)
    BY <2>2, <2>3, <2>4, <2>5, <2>6 DEF Good, Core
  <2>8. Comes(d, s, k, {})
    BY <2>3 DEF Comes, Shows, Holds
  <2>9. Known(d, k, {})
    BY <2>8, KnownOn
  <2>10. k.closed = FALSE /\ b.keys \subseteq {"c", "m"}
    BY <1>2, <2>3 DEF Good, Place, SyncBlob
  <2>11. Good(out, made, d, t) /\ Comes(d, k, t, {}) /\ t.rows = <<>>
    <3>1. Opened(out, made, d, k)
      BY <2>2, <2>7, <2>9, <2>10 DEF Opened
    <3> HIDE DEF t
    <3> QED  BY <2>10, <3>1, JoinedFromSyncIs DEF t
  <2>12. SyncedJoin(s, b) = t
    BY <1>2 DEF SyncedJoin, k
  <2> HIDE DEF t
  <2>13. Comes(d, s, t, {})
    BY <2>8, <2>11, ComesOn
  <2> QED  BY <1>2, <2>11, <2>12, <2>13 DEF Led, Idle
<1> QED  BY <1>1, <1>2

LEMMA LedOn ==
  ASSUME NEW out, NEW made, NEW d, NEW s, NEW t, NEW u, NEW A, NEW B, NEW C, A \subseteq C, B \subseteq C,
         Led(out, made, d, s, t, A), Led(out, made, d, t, u, B)
  PROVE  Led(out, made, d, s, u, C)
<1>1. Comes(d, s, u, C)
  BY ComesOn DEF Led
<1>2. t.closed => u.closed
  BY DEF Led, Comes
<1> QED  BY <1>1, <1>2 DEF Led

LEMMA LedReached ==
  ASSUME NEW out, NEW made, NEW d, NEW s, NEW t, NEW B, Reached(out, made, d, s, t, B)
  PROVE  Led(out, made, d, s, t, B)
BY DEF Reached, Led, Steady, Idle

LEMMA LedSame ==
  ASSUME NEW out, NEW made, NEW d, NEW s, NEW B, Good(out, made, d, s)
  PROVE  Led(out, made, d, s, s, B)
BY ReachedSame, LedReached

LEMMA LedClosed ==
  ASSUME NEW out, NEW made, NEW d, NEW s, Good(out, made, d, s)
  PROVE  Led(out, made, d, s, CloseFromSync(s), {})
<1> DEFINE t == CloseFromSync(s)
<1>1. Good(out, made, d, t) /\ Comes(d, s, t, {}) /\ t.st = "none" /\ t.closed
  BY CloseFromSyncIs
<1> HIDE DEF t
<1>2. Led(out, made, d, s, t, {})
  BY <1>1 DEF Led, Idle
<1> QED  BY <1>2 DEF t

\* The left list of a sync.
LEMMA ApplyLeftIs ==
  ASSUME NEW out, NEW made, NEW d, NEW s, NEW b, Good(out, made, d, s)
  PROVE  Led(out, made, d, s, ApplyLeft(s, b), {})
<1> DEFINE t == [s EXCEPT !.left = TRUE]
<1>1. Led(out, made, d, s, t, {})
  <2>1. Fields(s)
    BY DEF Good, Core
  <2>2. Same(s, t, {"left"}) /\ t.left = TRUE
    BY <2>1, SetField DEF Names
  <2> HIDE DEF t
  <2>3. Reached(out, made, d, s, t, {})
    BY <2>2, MarkSet DEF Minor
  <2> QED  BY <2>3, LedReached
<1>2. Led(out, made, d, s, CloseFromSync(s), {}) /\ Led(out, made, d, s, s, {})
  BY LedClosed, LedSame
<1>3. ApplyLeft(s, b) = s \/ ApplyLeft(s, b) = t \/ ApplyLeft(s, b) = CloseFromSync(s)
  BY DEF ApplyLeft
<1> QED  BY <1>1, <1>2, <1>3

\* The op of a sync, but for a post's, is kept.
LEMMA ApplySyncIs ==
  ASSUME NEW out, NEW made, NEW d, NEW s, NEW b, Good(out, made, d, s), OutOK(out, made),
         SyncBlob(made, b), b.op # "post", Known(d, s, {})
  PROVE  \E x : ApplySync(s, b) = Answer(x, "kept") /\ Led(out, made, d, s, x, {})
<1>1. CASE b.op \in {"create", "accept"}
  <2>1. Led(out, made, d, s, SyncedJoin(s, b), {})
    BY <1>1, SyncedJoinIs
  <2>2. ApplySync(s, b) = Answer(SyncedJoin(s, b), "kept")
    BY <1>1 DEF ApplySync
  <2> QED  BY <2>1, <2>2
<1>2. CASE b.op = "leave"
  <2>1. ApplySync(s, b) = Answer(IF s.closed THEN s ELSE CloseFromSync(s), "kept")
    BY <1>2 DEF ApplySync
  <2> QED  BY <2>1, LedClosed, LedSame
<1>3. CASE b.op = "other"
  <2>1. ApplySync(s, b) = Answer(s, "kept")
    BY <1>3 DEF ApplySync
  <2> QED  BY <2>1, LedSame
<1> QED  BY <1>1, <1>2, <1>3 DEF SyncBlob

\* A sync that is not held: what it made of the device, then marked.
LEMMA MarkKept ==
  ASSUME NEW out, NEW made, NEW d, NEW s, NEW x, NEW b, Led(out, made, d, s, x, {}),
         b.kind = "sync" => b.op # "post" \/ b.by = d
  PROVE  Led(out, made, d, s, Mark(s, b, Answer(x, "kept")), {b})
<1> DEFINE t == [x EXCEPT !.seen = x.seen \cup {b}]
<1>1. Mark(s, b, Answer(x, "kept")) = t
  BY DEF Mark, Answer
<1>2. Good(out, made, d, x)
  BY DEF Led
<1>3. b.kind = "sync" => ~Holds(x, b)
  BY <1>2 DEF Good, Core, RowsOK, RowOK, Holds
<1>4. Reached(out, made, d, x, t, {b})
  BY <1>2, <1>3, SeenSet
<1> HIDE DEF t
<1>5. Led(out, made, d, x, t, {b})
  BY <1>4, LedReached
<1>6. Led(out, made, d, s, t, {b})
  BY <1>5, LedOn
<1> QED  BY <1>1, <1>6

LEMMA GroupSyncIs ==
  ASSUME NEW out, NEW made, NEW d, NEW s, NEW b, Good(out, made, d, s), Idle(s), OutOK(out, made),
         SyncBlob(made, b), Known(d, s, {b})
  PROVE  Led(out, made, d, s, GroupSync(s, b, d), {b})
<1>1. CASE b \in s.seen
  BY <1>1, LedSame DEF GroupSync
<1>2. CASE b \notin s.seen /\ b.by = d
  <2>1. GroupSync(s, b, d) = Mark(s, b, Answer(s, "kept"))
    BY <1>2 DEF GroupSync
  <2>2. Led(out, made, d, s, s, {})
    BY LedSame
  <2> QED  BY <1>2, <2>1, <2>2, MarkKept
<1>3. CASE b \notin s.seen /\ b.by # d /\ b.op = "post"
  <2> DEFINE a == SyncedPost(s, b)
  <2>1. PICK x, v : a = Answer(x, v)
    BY DEF SyncedPost, HoldRow
  <2>2. ApplySync(s, b) = a
    BY <1>3 DEF ApplySync
  <2> HIDE DEF a
  <2>3. [a EXCEPT !.s = ApplyLeft(a.s, b)] = Answer(x, v)
    BY <1>3, <2>1 DEF ApplyLeft, Answer
  <2>4. GroupSync(s, b, d) = Mark(s, b, a)
    BY <1>3, <2>1, <2>2, <2>3 DEF GroupSync
  <2>5. s.st = "active" => ~Holds(s, b)
    BY EmptyIs DEF Idle, Holds
  <2>6. Reached(out, made, d, s, Mark(s, b, a), {b})
    BY <1>3, <2>5, SyncedPostIs DEF a
  <2> QED  BY <2>4, <2>6, LedReached
<1>4. CASE b \notin s.seen /\ b.by # d /\ b.op # "post"
  <2>1. Known(d, s, {})
    BY DEF Known, Mine
  <2>2. PICK x : ApplySync(s, b) = Answer(x, "kept") /\ Led(out, made, d, s, x, {})
    BY <1>4, <2>1, ApplySyncIs
  <2>3. PICK y : y = ApplyLeft(x, b)
    OBVIOUS
  <2>4. Led(out, made, d, s, y, {})
    <3>1. Led(out, made, d, x, y, {})
      BY <2>2, <2>3, ApplyLeftIs DEF Led
    <3> QED  BY <2>2, <3>1, LedOn
  <2>5. GroupSync(s, b, d) = Mark(s, b, Answer(y, "kept"))
    <3>1. PICK a : a = ApplySync(s, b)
      OBVIOUS
    <3>2. [a EXCEPT !.s = ApplyLeft(a.s, b)] = Answer(y, "kept")
      BY <2>2, <2>3, <3>1 DEF Answer
    <3> QED  BY <1>4, <3>1, <3>2 DEF GroupSync
  <2> QED  BY <1>4, <2>4, <2>5, MarkKept
<1> QED  BY <1>1, <1>2, <1>3, <1>4

\* Any blob at all.
LEMMA BlobIs ==
  ASSUME NEW out, NEW made, NEW d, NEW s, NEW b, Good(out, made, d, s), Idle(s), OutOK(out, made),
         BlobOK(out, made, b), Known(d, s, {b})
  PROVE  Led(out, made, d, s, Blob(s, b, d), {b})
<1>1. CASE b.kind = "sync"
  <2>1. SyncBlob(made, b)
    BY <1>1 DEF BlobOK, StatusBlob, OutOK
  <2>2. Led(out, made, d, s, GroupSync(s, b, d), {b})
    BY <2>1, GroupSyncIs
  <2> QED  BY <1>1, <2>2 DEF Blob
<1>2. CASE b.kind # "sync"
  <2>1. Reached(out, made, d, s, Receive(s, b), {b})
    BY <1>2, ReceiveIs
  <2> QED  BY <1>2, <2>1, LedReached DEF Blob
<1> QED  BY <1>1, <1>2

-----------------------------------------------------------------------------
(* Steps.                                                                   *)

\* The sync of a post is named by the device that wrote it.
LEMMA AroundIs ==
  ASSUME NEW out, NEW made, NEW dv, NEW nt, Sound(out, made, dv, nt), NEW b, Around(dv, nt, b)
  PROVE  b.post \in Device
<1>1. PICK e \in Device : b \in nt[e] \/ Holds(dv[e], b)
  BY DEF Around
<1>2. BlobOK(out, made, b)
  <2>1. ASSUME Holds(dv[e], b) PROVE BlobOK(out, made, b)
    BY <2>1 DEF Sound, Good, Core, RowsOK, RowOK, Holds
  <2> QED  BY <1>1, <2>1 DEF Sound
<1>3. SyncBlob(made, b)
  BY <1>2 DEF Around, SyncPost, BlobOK, StatusBlob, Sound, OutOK
<1> QED  BY <1>3 DEF Around, SyncPost, SyncBlob

\* What a device may come to hear is around.
LEMMA MineAround ==
  ASSUME NEW dv, NEW nt, NEW d \in Device, NEW B, B \subseteq nt[d], NEW x, Mine(dv[d], B, x)
  PROVE  Around(dv, nt, x)
BY DEF Mine, Around

LEMMA KnownFrom ==
  ASSUME NEW out, NEW made, NEW dv, NEW nt, Sound(out, made, dv, nt), NEW d \in Device, NEW B, B \subseteq nt[d]
  PROVE  Known(d, dv[d], B)
<1>1. ASSUME NEW x, Mine(dv[d], B, x)
      PROVE  x.post \in Device /\ (x.post # d /\ Shows(dv[d], x.post) => x \in dv[d].seen)
  <2>1. Around(dv, nt, x)
    BY <1>1, MineAround
  <2>2. x.post \in Device
    BY <2>1, AroundIs
  <2> QED  BY <2>1, <2>2 DEF Sound, Posts
<1>2. ASSUME NEW x, NEW y, Mine(dv[d], B, x), Mine(dv[d], B, y), x.post = y.post
      PROVE  x = y
  <2>1. Around(dv, nt, x) /\ Around(dv, nt, y)
    BY <1>2, MineAround
  <2> QED  BY <1>2, <2>1 DEF Sound, Posts
<1> QED  BY <1>1, <1>2 DEF Known

\* What blobs may be new: any, once the group is there.
Starts(made, dw, N) ==
  N # {} => made = "c" \/ \E e \in Device : dw[e].creator = Distro \/ dw[e].closed

LEMMA FreshOn ==
  ASSUME NEW out, NEW made, NEW dv, NEW nt, NEW dw, NEW nw, NEW N, Sound(out, made, dv, nt),
         \A e \in Device : Led(out, made, e, dv[e], dw[e], nt[e]),
         \A e \in Device : nw[e] \subseteq nt[e] \cup N, Starts(made, dw, N)
  PROVE  Fresh(made, dw, nw)
<1> SUFFICES ASSUME made = Distro, \A e \in Device : dw[e].creator # Distro /\ ~dw[e].closed, NEW d \in Device
             PROVE  nw[d] = {} /\ dw[d].rows = <<>>
  BY DEF Fresh
<1>1. N = {}
  BY DEF Starts, Distro
<1>2. ASSUME NEW e \in Device PROVE dv[e].creator # Distro /\ ~dv[e].closed
  <2>1. Led(out, made, e, dv[e], dw[e], nt[e]) /\ Good(out, made, e, dv[e])
    BY DEF Sound
  <2>2. ~dv[e].closed
    BY <2>1 DEF Led, Comes
  <2>3. dw[e].st # "active"
    BY <2>1 DEF Led, Good, Place
  <2>4. dv[e].st # "active"
    BY <2>1, <2>3 DEF Led
  <2>5. dv[e].st = "none"
    BY <2>1, <2>4 DEF Good, Place, Distro
  <2> QED  BY <2>1, <2>2, <2>5 DEF Good, Place, Distro
<1>3. nt[d] = {} /\ dv[d].rows = <<>>
  BY <1>2 DEF Sound, Fresh
<1>4. Led(out, made, d, dv[d], dw[d], nt[d])
  OBVIOUS
<1>5. \A x : ~Holds(dw[d], x)
  <2>1. \A x : ~Holds(dv[d], x)
    BY <1>3, EmptyIs DEF Holds
  <2> QED  BY <1>3, <1>4, <2>1 DEF Led, Comes
<1>6. dw[d].rows = <<>>
  <2> DEFINE q == dw[d].rows
  <2>1. Listing(q) /\ Len(q) \in Nat
    BY <1>4, Listed DEF Led, Good, Core, RowsOK
  <2>2. 1 \notin 1..Len(q)
    BY <1>5 DEF Holds
  <2>3. Len(q) = 0
    BY <2>1, <2>2
  <2> QED  BY <2>1, <2>3, EmptyIs
<1> QED  BY <1>1, <1>3, <1>6

\* Any step by which a device comes from what was around for it.
LEMMA StepSound ==
  ASSUME NEW out, NEW made, NEW dv, NEW nt, NEW dw, NEW nw, NEW N, Sound(out, made, dv, nt),
         DOMAIN dw = Device, DOMAIN nw = Device,
         \A e \in Device : Led(out, made, e, dv[e], dw[e], nt[e]),
         \A e \in Device : nw[e] \subseteq nt[e] \cup N,
         \A b \in N : BlobOK(out, made, b) /\ ~SyncPost(b), Starts(made, dw, N)
  PROVE  Sound(out, made, dw, nw)
<1>1. \A e \in Device : Good(out, made, e, dw[e]) /\ Idle(dw[e]) /\ Comes(e, dv[e], dw[e], nt[e])
  BY DEF Sound, Led
<1>2. \A e \in Device : \A b \in nw[e] : BlobOK(out, made, b)
  BY DEF Sound
<1>3. ASSUME NEW b, Around(dw, nw, b) PROVE Around(dv, nt, b)
  <2>1. PICK e \in Device : b \in nw[e] \/ Holds(dw[e], b)
    BY <1>3 DEF Around
  <2>2. SyncPost(b)
    BY <1>3 DEF Around
  <2>3. b \in nt[e] \/ Holds(dv[e], b)
    BY <1>1, <2>1, <2>2 DEF Comes
  <2> QED  BY <2>2, <2>3 DEF Around
<1>4. ASSUME NEW e \in Device, Wrote(dv, e) PROVE Wrote(dw, e)
  <2>1. Comes(e, dv[e], dw[e], nt[e])
    BY <1>1
  <2> QED  BY <1>4, <2>1 DEF Wrote, Comes
<1>5. ASSUME NEW b, Around(dw, nw, b) PROVE Wrote(dw, b.post)
  <2>1. Around(dv, nt, b) /\ b.post \in Device
    BY <1>3, <1>5, AroundIs
  <2> QED  BY <1>4, <2>1 DEF Sound, Posts
<1>6. ASSUME NEW a, NEW b, Around(dw, nw, a), Around(dw, nw, b), a.post = b.post PROVE a = b
  BY <1>3, <1>6 DEF Sound, Posts
<1>7. ASSUME NEW d \in Device, NEW e \in Device, d # e, Shows(dw[d], e)
      PROVE  Shows(dv[d], e) \/ \E x : Around(dv, nt, x) /\ x.post = e /\ x \in dw[d].seen
  <2>1. Comes(d, dv[d], dw[d], nt[d])
    BY <1>1
  <2>2. CASE ~Shows(dv[d], e)
    <3>1. PICK x : Mine(dv[d], nt[d], x) /\ x.post = e /\ x \in dw[d].seen
      BY <1>7, <2>1, <2>2 DEF Comes
    <3> QED  BY <3>1, MineAround
  <2> QED  BY <2>2
<1>8. ASSUME NEW b, Around(dw, nw, b), NEW d \in Device, d # b.post, Shows(dw[d], b.post)
      PROVE  b \in dw[d].seen
  <2>1. Around(dv, nt, b) /\ b.post \in Device
    BY <1>3, <1>8, AroundIs
  <2>2. CASE Shows(dv[d], b.post)
    <3>1. b \in dv[d].seen
      BY <1>8, <2>1, <2>2 DEF Sound, Posts
    <3> QED  BY <1>1, <3>1 DEF Comes
  <2>3. CASE ~Shows(dv[d], b.post)
    <3>1. PICK x : Around(dv, nt, x) /\ x.post = b.post /\ x \in dw[d].seen
      BY <1>7, <1>8, <2>1, <2>3
    <3>2. x = b
      BY <2>1, <3>1 DEF Sound, Posts
    <3> QED  BY <3>1, <3>2
  <2> QED  BY <2>2, <2>3
<1>9. ASSUME NEW d \in Device, NEW e \in Device, d # e, Shows(dw[d], e) PROVE Wrote(dw, e)
  <2>1. Wrote(dv, e)
    BY <1>7, <1>9 DEF Sound, Posts
  <2> QED  BY <1>4, <2>1
<1>10. ASSUME NEW e \in Device, dw[e].sending # {} PROVE Shows(dw[e], e) \/ dw[e].closed
  <2>1. Comes(e, dv[e], dw[e], nt[e])
    BY <1>1
  <2>2. Shows(dv[e], e) \/ dv[e].closed
    BY <1>10, <2>1 DEF Comes, Sound, Posts
  <2> QED  BY <2>1, <2>2 DEF Comes
<1>11. Posts(dw, nw)
  BY <1>5, <1>6, <1>8, <1>9, <1>10 DEF Posts
<1>12. Fresh(made, dw, nw)
  BY FreshOn
<1> QED  BY <1>1, <1>2, <1>11, <1>12 DEF Sound

\* A step of one device, of a blob there was for it.
OneStep(out, made, dv, nt, d, s, dw, nw, N) ==
  /\ dw = [dv EXCEPT ![d] = s] /\ DOMAIN nw = Device /\ \A e \in Device : nw[e] \subseteq nt[e] \cup N
  /\ (\A b \in N : BlobOK(out, made, b) /\ ~SyncPost(b)) /\ Starts(made, dw, N)

LEMMA OneSound ==
  ASSUME NEW out, NEW made, NEW dv, NEW nt, NEW d \in Device, NEW s, NEW B, NEW dw, NEW nw, NEW N,
         Sound(out, made, dv, nt), B \subseteq nt[d], Led(out, made, d, dv[d], s, B),
         OneStep(out, made, dv, nt, d, s, dw, nw, N)
  PROVE  Sound(out, made, dw, nw)
<1>1. DOMAIN dw = Device /\ dw[d] = s /\ \A e \in Device : e # d => dw[e] = dv[e]
  BY DEF Sound, OneStep
<1>2. \A e \in Device : Led(out, made, e, dv[e], dw[e], nt[e])
  <2>1. Led(out, made, d, dv[d], s, nt[d])
    BY ComesMore DEF Led
  <2>2. \A e \in Device : Led(out, made, e, dv[e], dv[e], nt[e])
    BY LedSame DEF Sound
  <2> QED  BY <1>1, <2>1, <2>2
<1> QED  BY <1>1, <1>2, StepSound DEF OneStep

\* What a user does: the device as it is after, and a sync that is not of a
\* post.
ActOK(d, s, op, others) ==
  /\ Led(world.out, world.creator, d, dev[d], s, {}) /\ op \in {"create", "accept", "leave", "other"}
  /\ (op = "create" => world.creator = Distro) /\ (op = "accept" => world.creator = "c")
  /\ others \subseteq world.out /\ (world.creator = "c" \/ s.creator = Distro \/ s.closed)

LEMMA ActSound ==
  ASSUME Invariant, Outside', NEW d \in Device, NEW s, NEW op, NEW p, NEW mute \in BOOLEAN, NEW others,
         Act(d, s, op, p, mute, others), ActOK(d, s, op, others)
  PROVE  Invariant'
<1> DEFINE out == world.out
           made == world.creator
           N == Owe(op, d, s, p, mute) \cup others
<1>1. WorldForm(world') /\ world'.out = out /\ world'.creator = made
  BY DEF Invariant, WorldForm, Act
<1>2. Sound(out, made, dev, net)
  BY DEF Invariant
<1>3. dev' = [dev EXCEPT ![d] = s] /\ net' = [e \in Device |-> net[e] \cup N]
  BY DEF Act, FanOut
<1>4. \A b \in N : BlobOK(out, made, b) /\ ~SyncPost(b)
  <2>1. ASSUME NEW b \in others PROVE BlobOK(out, made, b) /\ ~SyncPost(b)
    <3>1. b \in out
      BY DEF ActOK
    <3>2. b.kind # "sync"
      BY <1>2, <3>1 DEF Sound, OutOK
    <3> QED  BY <3>1, <3>2 DEF BlobOK, SyncPost
  <2>2. ASSUME NEW b \in Owe(op, d, s, p, mute) PROVE BlobOK(out, made, b) /\ ~SyncPost(b)
    <3>1. b = Sync(op, d, s, p)
      BY <2>2 DEF Owe
    <3>2. b.kind = "sync" /\ b.op = op /\ b.by = d /\ b.keys = s.keys
      BY <3>1 DEF Sync
    <3>3. s.keys \subseteq {"c", "m"}
      BY DEF ActOK, Led, Good, Core, StatusOK
    <3>4. /\ op \in {"create", "accept", "leave", "other"}
          /\ (op = "create" => made = Distro) /\ (op = "accept" => made = "c")
      BY DEF ActOK
    <3>5. SyncBlob(made, b)
      BY <3>2, <3>3, <3>4 DEF SyncBlob
    <3> QED  BY <3>2, <3>4, <3>5 DEF BlobOK, SyncPost
  <2> QED  BY <2>1, <2>2
<1> HIDE DEF N, out, made
<1>5. DOMAIN net' = Device /\ \A e \in Device : net'[e] \subseteq net[e] \cup N
  BY <1>3
<1>6. Starts(made, dev', N)
  <2>1. dev'[d] = s
    BY <1>2, <1>3 DEF Sound
  <2> QED  BY <2>1 DEF Starts, made, ActOK
<1>7. {} \subseteq net[d] /\ Led(out, made, d, dev[d], s, {})
  BY DEF ActOK, out, made
<1>8. Sound(out, made, dev', net')
  <2>1. OneStep(out, made, dev, net, d, s, dev', net', N)
    BY <1>3, <1>4, <1>5, <1>6 DEF OneStep
  <2> QED  BY <1>2, <1>7, <2>1, OneSound
<1> QED  BY <1>1, <1>8 DEF Invariant, out, made

\* A device in the invariant.
LEMMA DeviceIs ==
  ASSUME Invariant, NEW d \in Device
  PROVE  /\ OutOK(world.out, world.creator) /\ Good(world.out, world.creator, d, dev[d]) /\ Idle(dev[d])
         /\ Fields(dev[d]) /\ \A B : B \subseteq net[d] => Known(d, dev[d], B)
<1>1. Sound(world.out, world.creator, dev, net)
  BY DEF Invariant
<1>2. \A B : B \subseteq net[d] => Known(d, dev[d], B)
  BY <1>1, KnownFrom
<1> QED  BY <1>1, <1>2 DEF Sound, Good, Core

\* A group made.
LEMMA CreateSound ==
  ASSUME Invariant, NEW d \in Device, NEW mute \in BOOLEAN, Create(d, mute)
  PROVE  Invariant'
<1>a. PICK s : s = dev[d]
  OBVIOUS
<1>b. PICK out : out = world.out
  OBVIOUS
<1> DEFINE t == [s EXCEPT !.st = "active", !.creator = Distro, !.allow = TRUE]
<1>1. /\ world.creator = Distro /\ s.st = "none" /\ ~s.closed /\ Outside'
      /\ \A e \in Device : dev[e].creator # Distro /\ ~dev[e].closed
      /\ Act(d, t, "create", "none", mute, out)
  BY <1>a, <1>b DEF Create, Invariant, Outside
<1>2. Good(out, Distro, d, s) /\ Fields(s)
  BY <1>1, <1>a, <1>b, DeviceIs
<1>3. s.rows = <<>>
  BY <1>1, <1>a DEF Invariant, Sound, Fresh
<1>4. Same(s, t, {"st", "creator", "allow"}) /\ t.st = "active" /\ t.creator = Distro /\ t.allow = TRUE
  <2>1. "st" \in Names /\ "creator" \in Names /\ "allow" \in Names
    BY DEF Names
  <2> QED  BY <1>2, <2>1 DEF Same, Fields
<1> HIDE DEF t
<1>5. /\ Fields(t) /\ t.closed = s.closed /\ t.left = s.left /\ t.filtered = s.filtered
      /\ t.rows = s.rows /\ t.shown = s.shown /\ t.chip = s.chip
      /\ t.seen = s.seen /\ t.sending = s.sending /\ t.untold = s.untold /\ t.cut = s.cut
      /\ t.m = s.m /\ t.copy = s.copy /\ t.changes = s.changes /\ t.keys = s.keys
  BY <1>4 DEF Same, Names
<1>6. StatusOK(t)
  BY <1>1, <1>2, <1>5 DEF Good, Core, Place, StatusOK, ChangesOK, CopyTrue
<1>7. RowsOK(out, Distro, d, t)
  BY <1>2, <1>5 DEF Good, Core, RowsOK, RowOK
<1>8. ShownOK(out, t)
  BY <1>2, <1>5 DEF Good, Core, ShownOK, Shows
<1>9. Core(out, Distro, d, t)
  BY <1>2, <1>4, <1>5, <1>6, <1>7, <1>8 DEF Good, Core
<1>10. Good(out, Distro, d, t)
  BY <1>1, <1>2, <1>4, <1>5, <1>9 DEF Good, Place
<1>11. Comes(d, s, t, {})
  BY <1>5 DEF Comes, Shows, Holds
<1>12. Led(world.out, world.creator, d, dev[d], t, {})
  BY <1>1, <1>3, <1>4, <1>5, <1>10, <1>11, <1>a, <1>b DEF Led, Idle
<1>13. ActOK(d, t, "create", out)
  BY <1>1, <1>4, <1>12, <1>b DEF ActOK
<1> QED  BY <1>1, <1>13, ActSound

\* An invitation accepted.
LEMMA AcceptSound ==
  ASSUME Invariant, NEW d \in Device, NEW mute \in BOOLEAN, AcceptInvite(d, mute)
  PROVE  Invariant'
<1>a. PICK s : s = dev[d]
  OBVIOUS
<1>b. PICK t : t = Joined(s)
  OBVIOUS
<1>1. s.st = "pending" /\ Act(d, t, "accept", "none", mute, {}) /\ Outside'
  BY <1>a, <1>b DEF AcceptInvite, SendGroupAccept, TellMembers, Invariant, Outside
<1>2. /\ OutOK(world.out, world.creator) /\ Good(world.out, world.creator, d, s) /\ Known(d, s, {})
  BY <1>a, DeviceIs
<1>3. world.creator = "c" /\ Opened(world.out, world.creator, d, s)
  BY <1>1, <1>2 DEF Opened, Good, Place
<1>4. Good(world.out, world.creator, d, t) /\ Comes(d, s, t, {}) /\ t.rows = <<>>
  BY <1>3, <1>b, JoinedIs
<1>5. Led(world.out, world.creator, d, dev[d], t, {})
  BY <1>1, <1>4, <1>a DEF Led, Idle
<1>6. ActOK(d, t, "accept", {})
  BY <1>3, <1>5 DEF ActOK
<1> QED  BY <1>1, <1>6, ActSound

\* Marks of an entry.
LEMMA MarksLed ==
  ASSUME NEW out, NEW made, NEW d, NEW s, NEW t, Good(out, made, d, s),
         Same(s, t, {"left", "untold", "cut", "page", "sending"}),
         t.left \in BOOLEAN, t.untold \in BOOLEAN, t.cut \in BOOLEAN, t.sending \in {s.sending, {}}
  PROVE  Led(out, made, d, s, t, {})
<1>1. Same(s, t, Minor)
  BY DEF Same, Minor
<1>2. t.seen = s.seen /\ t.chip = s.chip /\ t.filtered = s.filtered /\ t.allow = s.allow
  BY DEF Same, Names
<1>3. s.chip \in BOOLEAN /\ s.filtered \in BOOLEAN /\ s.allow \in BOOLEAN
  BY DEF Good, Core
<1>4. Reached(out, made, d, s, t, {})
  BY <1>1, <1>2, <1>3, MinorIs
<1> QED  BY <1>4, LedReached

\* A group left or declined.
LEMMA QuitSound ==
  ASSUME Invariant, NEW d \in Device, NEW mute \in BOOLEAN, Quit(d, mute)
  PROVE  Invariant'
<1>a. PICK s : s = dev[d]
  OBVIOUS
<1>b. PICK c : c = Close(s)
  OBVIOUS
<1> DEFINE t == [c EXCEPT !.left = TRUE, !.untold = mute]
<1>1. Act(d, t, "leave", "none", mute, {}) /\ Outside'
  BY <1>a, <1>b DEF Quit, SendGroupLeave, TellMembers, Invariant, Outside
<1>2. Good(world.out, world.creator, d, s)
  BY <1>a, DeviceIs
<1>3. Good(world.out, world.creator, d, c) /\ Comes(d, s, c, {}) /\ c.st = "none" /\ c.closed /\ Fields(c)
  BY <1>2, <1>b, CloseIs
<1>4. Same(c, t, {"left", "untold"}) /\ t.left = TRUE /\ t.untold = mute
  <2>1. "left" \in Names /\ "untold" \in Names
    BY DEF Names
  <2> QED  BY <1>3, <2>1 DEF Same, Fields
<1> HIDE DEF t
<1>5. t.cut = c.cut /\ t.sending = c.sending /\ t.closed = c.closed /\ c.cut \in BOOLEAN
  BY <1>3, <1>4 DEF Same, Names, Good, Core
<1>6. Led(world.out, world.creator, d, c, t, {})
  <2>1. Same(c, t, {"left", "untold", "cut", "page", "sending"})
    BY <1>4 DEF Same
  <2> QED  BY <1>3, <1>4, <1>5, <2>1, MarksLed
<1>7. Led(world.out, world.creator, d, s, c, {})
  BY <1>3 DEF Led, Idle
<1>8. Led(world.out, world.creator, d, dev[d], t, {})
  BY <1>6, <1>7, <1>a, LedOn
<1>9. ActOK(d, t, "leave", {})
  BY <1>3, <1>5, <1>8 DEF ActOK
<1> QED  BY <1>1, <1>9, ActSound

\* A sync of another group.
LEMMA OtherSyncSound ==
  ASSUME Invariant, NEW d \in Device, OtherSync(d)
  PROVE  Invariant'
<1>a. PICK s : s = dev[d]
  OBVIOUS
<1> DEFINE t == [s EXCEPT !.untold = FALSE]
<1>1. s.closed /\ Act(d, t, "other", "none", FALSE, {}) /\ Outside'
  BY <1>a DEF OtherSync, Invariant, Outside
<1>2. Good(world.out, world.creator, d, s) /\ Fields(s)
  BY <1>a, DeviceIs
<1>3. Same(s, t, {"untold"}) /\ t.untold = FALSE
  BY <1>2, SetField DEF Names
<1> HIDE DEF t
<1>4. t.left = s.left /\ t.cut = s.cut /\ t.sending = s.sending /\ t.closed = s.closed /\ s.left \in BOOLEAN /\ s.cut \in BOOLEAN
  BY <1>2, <1>3 DEF Same, Names, Good, Core
<1>5. Led(world.out, world.creator, d, s, t, {})
  <2>1. Same(s, t, {"left", "untold", "cut", "page", "sending"})
    BY <1>3 DEF Same
  <2> QED  BY <1>2, <1>3, <1>4, <2>1, MarksLed
<1>6. ActOK(d, t, "other", {})
  BY <1>1, <1>4, <1>5, <1>a DEF ActOK
<1> QED  BY <1>1, <1>6, ActSound

\* What leaves the members, and what they send, as they are.
WorldKept == WorldForm(world') /\ world'.out = world.out /\ world'.creator = world.creator

LEMMA StepOne ==
  ASSUME Invariant, Outside', WorldKept, NEW d \in Device, NEW s, NEW B, B \subseteq net[d], NEW N,
         Led(world.out, world.creator, d, dev[d], s, B),
         OneStep(world.out, world.creator, dev, net, d, s, dev', net', N)
  PROVE  Invariant'
<1>1. Sound(world.out, world.creator, dev, net)
  BY DEF Invariant
<1>2. Sound(world.out, world.creator, dev', net')
  BY <1>1, OneSound
<1> QED  BY <1>2 DEF Invariant, WorldKept

\* A device is another, and no blob is new.
LEMMA OneQuiet ==
  ASSUME Invariant, NEW d, NEW s, NEW nw, dev' = [dev EXCEPT ![d] = s], net' = nw, DOMAIN nw = Device,
         \A e \in Device : nw[e] \subseteq net[e]
  PROVE  OneStep(world.out, world.creator, dev, net, d, s, dev', net', {})
BY DEF OneStep, Starts

LEMMA NetIs == Invariant => DOMAIN net = Device
BY DEF Invariant, Sound

\* A blob delivered.
LEMMA DeliverSound ==
  ASSUME Invariant, NEW d \in Device, NEW b \in net[d], NEW again \in BOOLEAN, Deliver(d, b, again)
  PROVE  Invariant'
<1>a. PICK s : s = Blob(dev[d], b, d)
  OBVIOUS
<1>1. Outside' /\ WorldKept
  BY DEF Deliver, Invariant, Outside, WorldKept, WorldForm
<1>2. /\ OutOK(world.out, world.creator) /\ Good(world.out, world.creator, d, dev[d]) /\ Idle(dev[d])
      /\ Known(d, dev[d], {b})
  <2>1. {b} \subseteq net[d]
    OBVIOUS
  <2> QED  BY <2>1, DeviceIs
<1>3. BlobOK(world.out, world.creator, b)
  BY DEF Invariant, Sound
<1>4. Led(world.out, world.creator, d, dev[d], s, {b})
  BY <1>2, <1>3, <1>a, BlobIs
<1>5. OneStep(world.out, world.creator, dev, net, d, s, dev', net', {})
  <2>1. dev' = [dev EXCEPT ![d] = s]
    BY <1>a DEF Deliver
  <2>2. DOMAIN net' = Device /\ \A e \in Device : net'[e] \subseteq net[e]
    <3>1. DOMAIN net = Device
      BY NetIs
    <3>2. net' = [net EXCEPT ![d] = IF again THEN net[d] ELSE net[d] \ {b}]
      BY DEF Deliver
    <3> QED  BY <3>1, <3>2
  <2> QED  BY <2>1, <2>2, OneQuiet
<1> QED  BY <1>1, <1>4, <1>5, StepOne

\* An announce of m.
LEMMA AnnouncedSound ==
  ASSUME Invariant, NEW d \in Device, Announced(d)
  PROVE  Invariant'
<1>a. PICK s : s = dev[d]
  OBVIOUS
<1> DEFINE v == s.keys \cup {"m"}
           k == [s EXCEPT !.keys = v]
           t == DecideHeld(k)
<1>1. /\ Outside' /\ WorldKept
  BY DEF Announced, Invariant, Outside, WorldKept, WorldForm
<1>2. Good(world.out, world.creator, d, s) /\ Fields(s) /\ StatusOK(s)
  BY <1>a, DeviceIs DEF Good, Core
<1>3. Same(s, k, {"keys"}) /\ k.keys = v
  <2> HIDE DEF v
  <2>1. "keys" \in Names
    BY DEF Names
  <2> QED  BY <1>2, <2>1, SetField
<1>4. dev' = [dev EXCEPT ![d] = t] /\ net' = net
  BY <1>a DEF Announced
<1> HIDE DEF k
<1>5. Told(s, k) /\ StatusOK(k) /\ Fields(k)
  <2>1. {"m"} \subseteq {"c", "m"}
    OBVIOUS
  <2> QED  BY <1>2, <1>3, <2>1, KeysLearnt DEF Same
<1>6. /\ Told(k, t) /\ StatusOK(t) /\ (k.changes = <<>> => t.m = k.m /\ t.copy = k.copy /\ t.changes = <<>>)
  BY <1>5, DecideHeldIs
<1> HIDE DEF t
<1>7. Told(s, t)
  BY <1>5, <1>6, ToldOn
<1>8. s.st = "none" => t.m = "invited" /\ t.copy = "none" /\ t.changes = <<>>
  <2>1. s.st = "none" => s.m = "invited" /\ s.copy = "none" /\ s.changes = <<>>
    BY <1>2 DEF Good, Place
  <2>2. k.m = s.m /\ k.copy = s.copy /\ k.changes = s.changes
    BY <1>3 DEF Same, Names
  <2> QED  BY <1>6, <2>1, <2>2
<1>9. Reached(world.out, world.creator, d, s, t, {})
  BY <1>2, <1>6, <1>7, <1>8, ToldReached
<1>10. Led(world.out, world.creator, d, dev[d], t, {})
  BY <1>9, <1>a, LedReached
<1>11. OneStep(world.out, world.creator, dev, net, d, t, dev', net', {})
  BY <1>4, NetIs, OneQuiet
<1>12. {} \subseteq net[d]
  OBVIOUS
<1> QED  BY <1>1, <1>10, <1>11, <1>12, StepOne

\* A page loaded anew.
LEMMA ReloadSound ==
  ASSUME Invariant, NEW d \in Device, Reload(d)
  PROVE  Invariant'
<1>a. PICK s : s = dev[d]
  OBVIOUS
<1>b. PICK v : v = (s.cut \/ s.sending # {})
  OBVIOUS
<1> DEFINE t == [s EXCEPT !.page = {}, !.sending = {}, !.cut = v]
<1>1. /\ Outside' /\ WorldKept
  BY DEF Reload, Invariant, Outside, WorldKept, WorldForm
<1>2. Good(world.out, world.creator, d, s) /\ Fields(s)
  BY <1>a, DeviceIs
<1>3. dev' = [dev EXCEPT ![d] = t] /\ net' = net
  BY <1>a, <1>b DEF Reload
<1>4. Same(s, t, {"page", "sending", "cut"}) /\ t.sending = {} /\ t.cut = v
  <2>1. "page" \in Names /\ "sending" \in Names /\ "cut" \in Names
    BY DEF Names
  <2> QED  BY <1>2, <2>1 DEF Same, Fields
<1> HIDE DEF t
<1>5. t.left \in BOOLEAN /\ t.untold \in BOOLEAN /\ t.cut \in BOOLEAN
  <2>1. t.left = s.left /\ t.untold = s.untold
    BY <1>4 DEF Same, Names
  <2>2. s.left \in BOOLEAN /\ s.untold \in BOOLEAN /\ s.cut \in BOOLEAN
    BY <1>2 DEF Good, Core
  <2>3. v \in BOOLEAN
    BY <1>b, <2>2
  <2> QED  BY <1>4, <2>1, <2>2, <2>3
<1>6. Same(s, t, {"left", "untold", "cut", "page", "sending"})
  BY <1>4 DEF Same
<1>7. Led(world.out, world.creator, d, dev[d], t, {})
  BY <1>2, <1>4, <1>5, <1>6, <1>a, MarksLed
<1>8. OneStep(world.out, world.creator, dev, net, d, t, dev', net', {})
  BY <1>3, NetIs, OneQuiet
<1>9. {} \subseteq net[d]
  OBVIOUS
<1> QED  BY <1>1, <1>7, <1>8, <1>9, StepOne

\* c's client answers.
LEMMA HeardSound ==
  ASSUME Invariant, NEW msg \in wire, Heard(msg)
  PROVE  Invariant'
<1> DEFINE out == world.out
           made == world.creator
<1>1. Outside' /\ WorldForm(world') /\ world'.out = out /\ world'.creator = made /\ dev' = dev
  BY DEF Heard, Invariant, Outside
<1>2. Sound(out, made, dev, net)
  BY DEF Invariant
<1>3. \A e \in Device : Led(out, made, e, dev[e], dev[e], net[e])
  BY <1>2, LedSame DEF Sound
<1>4. CASE net' = net
  BY <1>1, <1>2, <1>4 DEF Invariant
<1>5. CASE net' # net
  <2>1. PICK els \in {<<>>} \cup {<<b>> : b \in Changes} :
          FanOut(IF els = <<>> THEN {} ELSE {[kind |-> "status", els |-> els]})
    BY <1>5 DEF Heard
  <2>2. made = "c"
    BY <1>5 DEF Heard
  <2> DEFINE N == IF els = <<>> THEN {} ELSE {[kind |-> "status", els |-> els]}
  <2>3. \A b \in N : BlobOK(out, made, b) /\ ~SyncPost(b)
    <3> SUFFICES ASSUME NEW b \in N PROVE BlobOK(out, made, b) /\ ~SyncPost(b)
      OBVIOUS
    <3>1. b.kind = "status" /\ b.els = els /\ els # <<>>
      OBVIOUS
    <3>2. PICK c \in Changes : els = <<c>>
      BY <2>1, <3>1
    <3>3. Elem(c)
      BY <1>2 DEF Changes, Elem, Sound, OutOK, out
    <3>4. Listing(els) /\ \A i \in 1..Len(els) : Elem(els[i])
      <4>1. els \in Seq({c}) /\ Len(els) = 1 /\ els[1] = c
        BY <3>2
      <4>2. ToSet(els) = {c}
        BY <4>1 DEF ToSet
      <4> QED  BY <3>3, <4>1, <4>2 DEF Listing
    <3>5. StatusBlob(made, b)
      BY <2>2, <3>1, <3>4 DEF StatusBlob
    <3> QED  BY <3>1, <3>5 DEF BlobOK, SyncPost
  <2>4. net' = [e \in Device |-> net[e] \cup N]
    BY <2>1 DEF FanOut
  <2> HIDE DEF N, out, made
  <2>5. DOMAIN net' = Device /\ \A e \in Device : net'[e] \subseteq net[e] \cup N
    BY <2>4
  <2>6. Starts(made, dev, N)
    BY <2>2 DEF Starts
  <2>7. DOMAIN dev = Device
    BY <1>2 DEF Sound
  <2>8. Sound(out, made, dev, net')
    BY <1>2, <1>3, <2>3, <2>5, <2>6, <2>7, StepSound
  <2> QED  BY <1>1, <2>8 DEF Invariant, out, made
<1> QED  BY <1>4, <1>5

\* A device's own post, when it shows none: no sync of one is around.
LEMMA NonePosted ==
  ASSUME NEW dv, NEW nt, Posts(dv, nt), NEW d \in Device, ~Wrote(dv, d)
  PROVE  (\A b : Around(dv, nt, b) => b.post # d) /\ \A e \in Device : e # d => ~Shows(dv[e], d)
BY DEF Posts

\* A post written: no device knows of it.
LEMMA PostedPosts ==
  ASSUME NEW dv, NEW nt, Posts(dv, nt), \A b : Around(dv, nt, b) => b.post \in Device,
         NEW d \in Device, NEW dw, ~Wrote(dv, d),
         \A e \in Device : e # d => dw[e] = dv[e], dw[d].rows = dv[d].rows, dw[d].seen = dv[d].seen,
         \A q : Shows(dw[d], q) <=> Shows(dv[d], q) \/ q = d
  PROVE  Posts(dw, nt)
<1>1. (\A b : Around(dv, nt, b) => b.post # d) /\ \A e \in Device : e # d => ~Shows(dv[e], d)
  BY NonePosted
<1>2. ASSUME NEW b, Around(dw, nt, b) PROVE Around(dv, nt, b)
  <2>1. PICK e \in Device : b \in nt[e] \/ Holds(dw[e], b)
    BY <1>2 DEF Around
  <2>2. b \in nt[e] \/ Holds(dv[e], b)
    BY <2>1 DEF Holds
  <2> QED  BY <1>2, <2>2 DEF Around
<1>3. ASSUME NEW e, e # d, Wrote(dv, e), e \in Device PROVE Wrote(dw, e)
  BY <1>3 DEF Wrote
<1>4. ASSUME NEW b, Around(dw, nt, b) PROVE Wrote(dw, b.post)
  <2>1. Wrote(dv, b.post) /\ b.post # d /\ b.post \in Device
    BY <1>1, <1>2, <1>4 DEF Posts
  <2> QED  BY <1>3, <2>1
<1>5. ASSUME NEW a, NEW b, Around(dw, nt, a), Around(dw, nt, b), a.post = b.post PROVE a = b
  BY <1>2, <1>5 DEF Posts
<1>6. ASSUME NEW b, Around(dw, nt, b), NEW e \in Device, e # b.post, Shows(dw[e], b.post)
      PROVE  b \in dw[e].seen
  <2>1. Around(dv, nt, b) /\ b.post # d
    BY <1>1, <1>2, <1>6
  <2>2. Shows(dv[e], b.post)
    BY <1>6, <2>1
  <2>3. b \in dv[e].seen
    BY <1>6, <2>1, <2>2 DEF Posts
  <2> QED  BY <2>3
<1>7. ASSUME NEW e \in Device, NEW f \in Device, e # f, Shows(dw[e], f) PROVE Wrote(dw, f)
  <2>1. Shows(dv[e], f)
    BY <1>7
  <2>2. Wrote(dv, f)
    BY <1>7, <2>1 DEF Posts
  <2>3. f # d
    BY <2>2
  <2> QED  BY <1>3, <2>2, <2>3
<1>8. ASSUME NEW e \in Device, dw[e].sending # {} PROVE Shows(dw[e], e) \/ dw[e].closed
  BY <1>8 DEF Posts
<1> QED  BY <1>4, <1>5, <1>6, <1>7, <1>8 DEF Posts

LEMMA PostSound ==
  ASSUME Invariant, NEW d \in Device, Post(d)
  PROVE  Invariant'
<1>a. PICK s : s = dev[d]
  OBVIOUS
<1>b. PICK own : own = {d}
  OBVIOUS
<1> DEFINE out == world.out
           made == world.creator
           q == Append(s.shown, d)
           w == [s EXCEPT !.shown = q]
           t == [w EXCEPT !.sending = own]
<1>1. /\ Outside' /\ WorldForm(world') /\ world'.out = out /\ world'.creator = made /\ net' = net
  BY DEF Post, Invariant, Outside, WorldForm
<1>2. Sound(out, made, dev, net)
  BY DEF Invariant
<1>3. Good(out, made, d, s) /\ Fields(s) /\ Idle(s) /\ s.st = "active" /\ ~Shows(s, d) /\ ~s.closed
  <2>1. Good(out, made, d, s) /\ Fields(s) /\ Idle(s)
    BY <1>a, DeviceIs
  <2>2. s.st = "active" /\ ~Shows(s, d)
    BY <1>a DEF Post
  <2> QED  BY <2>1, <2>2 DEF Good, Place
<1>4. dev' = [dev EXCEPT ![d] = t]
  BY <1>a, <1>b DEF Post, Show
<1>5. Same(s, w, {"shown"}) /\ w.shown = q
  <2> HIDE DEF q
  <2>1. "shown" \in Names
    BY DEF Names
  <2> QED  BY <1>3, <2>1, SetField
<1> HIDE DEF w
<1>6. Same(w, t, {"sending"}) /\ t.sending = own
  <2>1. "sending" \in Names /\ Fields(w)
    BY <1>5 DEF Same, Names
  <2> QED  BY <2>1, SetField
<1> HIDE DEF t, q
<1>7. /\ Same(s, t, {"shown", "seen", "page", "sending"}) /\ t.shown = Append(s.shown, d)
      /\ t.seen = s.seen /\ t.rows = s.rows /\ t.closed = s.closed /\ t.creator = s.creator /\ t.st = s.st
  BY <1>5, <1>6 DEF Same, Names, q
<1>8. Adds(out, s, t, d)
  <2>1. \A a \in out : a.kind = "post" => a.post # d
    BY <1>2 DEF Sound, OutOK
  <2> QED  BY <1>3, <1>7, <2>1 DEF Adds
<1>9. Good(out, made, d, t) /\ \A p : Shows(t, p) <=> Shows(s, p) \/ p = d
  BY <1>3, <1>8, ShownGood
<1>10. DOMAIN dev' = Device /\ dev'[d] = t /\ \A e \in Device : e # d => dev'[e] = dev[e]
  BY <1>2, <1>4 DEF Sound
<1> HIDE DEF out, made
<1>11. \A e \in Device : Good(out, made, e, dev'[e]) /\ Idle(dev'[e])
  BY <1>2, <1>3, <1>7, <1>9, <1>10 DEF Sound, Idle
<1>12. Posts(dev', net)
  <2>1. ~Wrote(dev, d)
    BY <1>3, <1>a DEF Wrote
  <2>2. \A b : Around(dev, net, b) => b.post \in Device
    BY <1>2, AroundIs
  <2>3. \A e \in Device : e # d => dev'[e] = dev[e]
    BY <1>10
  <2>4. dev'[d].rows = dev[d].rows /\ dev'[d].seen = dev[d].seen
    BY <1>7, <1>10, <1>a
  <2>5. \A p : Shows(dev'[d], p) <=> Shows(dev[d], p) \/ p = d
    BY <1>9, <1>10, <1>a
  <2>6. PICK dw : dw = dev'
    OBVIOUS
  <2>7. Posts(dw, net)
    BY <1>2, <2>1, <2>2, <2>3, <2>4, <2>5, <2>6, PostedPosts DEF Sound
  <2> QED  BY <2>6, <2>7
<1>13. Fresh(made, dev', net)
  BY <1>2, <1>7, <1>10, <1>a DEF Sound, Fresh
<1>14. Sound(out, made, dev', net')
  BY <1>1, <1>2, <1>10, <1>11, <1>12, <1>13 DEF Sound
<1> QED  BY <1>1, <1>14 DEF Invariant, out, made

\* A post handed on: its one sync is around from then on.
LEMMA SubmittedPosts ==
  ASSUME NEW dv, NEW nt, Posts(dv, nt), \A b : Around(dv, nt, b) => b.post \in Device,
         NEW d \in Device, NEW dw, NEW nw, NEW n, dv[d].sending # {}, Shows(dv[d], d),
         \A e \in Device : e # d => dw[e] = dv[e], dw[d].rows = dv[d].rows, dw[d].seen = dv[d].seen,
         dw[d].shown = dv[d].shown, dw[d].closed = dv[d].closed, dw[d].sending = {},
         \A e \in Device : nw[e] \subseteq nt[e] \cup {n}, n.post = d
  PROVE  Posts(dw, nw)
<1>1. (\A b : Around(dv, nt, b) => b.post # d) /\ \A e \in Device : e # d => ~Shows(dv[e], d)
  <2>1. ~Wrote(dv, d)
    BY DEF Wrote
  <2> QED  BY <2>1, NonePosted
<1>2. ASSUME NEW b, Around(dw, nw, b) PROVE Around(dv, nt, b) \/ b = n
  <2>1. PICK e \in Device : b \in nw[e] \/ Holds(dw[e], b)
    BY <1>2 DEF Around
  <2>2. b \in nt[e] \/ Holds(dv[e], b) \/ b = n
    BY <2>1 DEF Holds
  <2> QED  BY <1>2, <2>2 DEF Around
<1>3. \A e \in Device : \A p : Shows(dw[e], p) <=> Shows(dv[e], p)
  BY DEF Shows
<1>4. ASSUME NEW e \in Device, Wrote(dv, e) \/ e = d PROVE Wrote(dw, e)
  <2>1. CASE e = d
    BY <1>3, <2>1 DEF Wrote
  <2>2. CASE e # d
    BY <1>3, <1>4, <2>2 DEF Wrote
  <2> QED  BY <2>1, <2>2
<1>5. ASSUME NEW b, Around(dw, nw, b) PROVE Wrote(dw, b.post)
  <2>1. b = n \/ (Wrote(dv, b.post) /\ b.post \in Device)
    BY <1>2, <1>5 DEF Posts
  <2> QED  BY <1>4, <2>1
<1>6. ASSUME NEW a, NEW b, Around(dw, nw, a), Around(dw, nw, b), a.post = b.post PROVE a = b
  <2>1. (Around(dv, nt, a) \/ a = n) /\ (Around(dv, nt, b) \/ b = n)
    BY <1>2, <1>6
  <2>2. (Around(dv, nt, a) => a.post # d) /\ (Around(dv, nt, b) => b.post # d)
    BY <1>1
  <2> QED  BY <1>6, <2>1, <2>2 DEF Posts
<1>7. ASSUME NEW b, Around(dw, nw, b), NEW e \in Device, e # b.post, Shows(dw[e], b.post)
      PROVE  b \in dw[e].seen
  <2>1. Shows(dv[e], b.post)
    BY <1>3, <1>7
  <2>2. b # n
    BY <1>1, <1>7, <2>1
  <2>3. b \in dv[e].seen
    BY <1>2, <1>7, <2>1, <2>2 DEF Posts
  <2> QED  BY <2>3
<1>8. ASSUME NEW e \in Device, NEW f \in Device, e # f, Shows(dw[e], f) PROVE Wrote(dw, f)
  <2>1. Shows(dv[e], f)
    BY <1>3, <1>8
  <2>2. Wrote(dv, f)
    BY <1>8, <2>1 DEF Posts
  <2> QED  BY <1>4, <2>2
<1>9. ASSUME NEW e \in Device, dw[e].sending # {} PROVE Shows(dw[e], e) \/ dw[e].closed
  <2>1. e # d
    BY <1>9
  <2> QED  BY <1>9, <2>1 DEF Posts
<1> QED  BY <1>5, <1>6, <1>7, <1>8, <1>9 DEF Posts

LEMMA SubmittedSound ==
  ASSUME Invariant, NEW d \in Device, Submitted(d)
  PROVE  Invariant'
<1>a. PICK s : s = dev[d]
  OBVIOUS
<1>b. PICK empty : empty = {}
  OBVIOUS
<1> DEFINE out == world.out
           made == world.creator
           t == [s EXCEPT !.sending = empty]
           n == Sync("post", d, s, d)
<1>1. Outside' /\ WorldKept
  BY DEF Submitted, Invariant, Outside, WorldKept
<1>2. Sound(out, made, dev, net)
  BY DEF Invariant
<1>3. Good(out, made, d, s) /\ Fields(s) /\ Idle(s) /\ s.sending # {}
  BY <1>a, DeviceIs DEF Submitted
<1>4. dev' = [dev EXCEPT ![d] = t]
  BY <1>a, <1>b DEF Submitted
<1>5. Same(s, t, {"sending"}) /\ t.sending = {}
  <2>1. "sending" \in Names
    BY DEF Names
  <2> QED  BY <1>3, <2>1, <1>b, SetField
<1> HIDE DEF t
<1>6. Led(out, made, d, s, t, {})
  <2>1. t.left \in BOOLEAN /\ t.untold \in BOOLEAN /\ t.cut \in BOOLEAN
    BY <1>3, <1>5 DEF Same, Names, Good, Core
  <2>2. Same(s, t, {"left", "untold", "cut", "page", "sending"})
    BY <1>5 DEF Same
  <2> QED  BY <1>3, <1>5, <2>1, <2>2, MarksLed
<1>7. CASE s.st = "none"
  <2>1. net' = [e \in Device |-> net[e]]
    BY <1>7, <1>a DEF Submitted, Owe, FanOut
  <2>2. OneStep(out, made, dev, net, d, t, dev', net', {})
    BY <1>4, <2>1, OneQuiet
  <2>3. {} \subseteq net[d]
    OBVIOUS
  <2> QED  BY <1>1, <1>6, <1>a, <2>2, <2>3, StepOne
<1>8. CASE s.st # "none"
  <2>1. net' = [e \in Device |-> net[e] \cup {n}]
    BY <1>8, <1>a DEF Submitted, Owe, FanOut
  <2>2. SyncBlob(made, n) /\ n.post = d
    <3>1. s.keys \subseteq {"c", "m"}
      BY <1>3 DEF Good, Core, StatusOK
    <3> QED  BY <3>1 DEF Sync, SyncBlob
  <2> HIDE DEF n, out, made
  <2>3. ~s.closed /\ Shows(s, d)
    BY <1>2, <1>3, <1>8, <1>a DEF Good, Place, Sound, Posts
  <2>4. /\ t.rows = s.rows /\ t.seen = s.seen /\ t.shown = s.shown /\ t.closed = s.closed
        /\ t.creator = s.creator /\ t.st = s.st
    BY <1>5 DEF Same, Names
  <2>5. DOMAIN dev' = Device /\ dev'[d] = t /\ \A e \in Device : e # d => dev'[e] = dev[e]
    BY <1>2, <1>4 DEF Sound
  <2>6. \A e \in Device : Good(out, made, e, dev'[e]) /\ Idle(dev'[e])
    BY <1>2, <1>3, <1>6, <2>5 DEF Sound, Led
  <2>7. DOMAIN net' = Device /\ \A e \in Device : net'[e] = net[e] \cup {n}
    BY <2>1
  <2>8. \A e \in Device : \A b \in net'[e] : BlobOK(out, made, b)
    BY <1>2, <2>2, <2>7 DEF Sound, BlobOK
  <2>9. Posts(dev', net')
    <3>1. \A b : Around(dev, net, b) => b.post \in Device
      BY <1>2, AroundIs
    <3>2. PICK dw, nw : dw = dev' /\ nw = net'
      OBVIOUS
    <3>3. dw[d].rows = dev[d].rows /\ dw[d].seen = dev[d].seen /\ dw[d].shown = dev[d].shown
          /\ dw[d].closed = dev[d].closed /\ dw[d].sending = {}
      BY <1>5, <2>4, <2>5, <3>2, <1>a
    <3>4. dev[d].sending # {} /\ Shows(dev[d], d)
      BY <1>3, <2>3, <1>a
    <3>5. \A e \in Device : nw[e] \subseteq net[e] \cup {n}
      BY <2>7, <3>2
    <3>6. \A e \in Device : e # d => dw[e] = dev[e]
      BY <2>5, <3>2
    <3>7. Posts(dw, nw)
      BY <1>2, <2>2, <3>1, <3>3, <3>4, <3>5, <3>6, SubmittedPosts DEF Sound
    <3> QED  BY <3>2, <3>7
  <2>10. Fresh(made, dev', net')
    <3>1. made = Distro => t.creator = Distro
      BY <1>3, <1>8, <2>4 DEF Good, Place, Distro
    <3> QED  BY <2>5, <3>1 DEF Fresh
  <2>11. Sound(out, made, dev', net')
    BY <1>2, <2>5, <2>6, <2>7, <2>8, <2>9, <2>10 DEF Sound
  <2> QED  BY <1>1, <2>11 DEF Invariant, WorldKept, out, made
<1> QED  BY <1>7, <1>8

-----------------------------------------------------------------------------
(* The invariant, and what follows from it. *)

\* A device as it starts.
Starting(w, d, s) ==
  /\ Fields(s) /\ s.st = "none" /\ s.creator = "none" /\ s.m = "invited" /\ s.copy = "none"
  /\ s.changes = <<>> /\ s.closed = FALSE /\ s.left = FALSE /\ s.filtered = FALSE /\ s.rows = <<>>
  /\ s.allow \in BOOLEAN /\ s.keys = w.knows[d] /\ s.shown = <<>> /\ s.chip = FALSE
  /\ s.sending = {} /\ s.untold = FALSE /\ s.cut = FALSE

LEMMA Device0Is ==
  ASSUME NEW w, NEW d, NEW s, s = Device0(w, d)
  PROVE  Starting(w, d, s)
<1>a. PICK none, empty : none = <<>> /\ empty = {}
  OBVIOUS
<1>b. PICK yes, keys : yes = (d \in w.allows) /\ keys = w.knows[d]
  OBVIOUS
<1>1. s = [st |-> "none", creator |-> "none", m |-> "invited", copy |-> "none", changes |-> none,
           closed |-> FALSE, left |-> FALSE, filtered |-> FALSE, rows |-> none,
           allow |-> yes, keys |-> keys, shown |-> none, chip |-> FALSE, seen |-> empty, page |-> empty,
           sending |-> empty, pushed |-> empty, untold |-> FALSE, cut |-> FALSE]
  BY <1>a, <1>b DEF Device0
<1>2. Fields(s)
  BY <1>1 DEF Fields, Names
<1>3. /\ s.st = "none" /\ s.creator = "none" /\ s.m = "invited" /\ s.copy = "none"
      /\ s.changes = none /\ s.closed = FALSE /\ s.left = FALSE /\ s.filtered = FALSE /\ s.rows = none
      /\ s.allow = yes /\ s.keys = keys /\ s.shown = none /\ s.chip = FALSE
      /\ s.sending = empty /\ s.untold = FALSE /\ s.cut = FALSE
  BY <1>1
<1>4. yes \in BOOLEAN
  BY <1>b
<1> QED  BY <1>2, <1>3, <1>4, <1>a, <1>b DEF Starting

LEMMA StartsSound == Init => Invariant
<1> SUFFICES ASSUME Init PROVE Invariant
  OBVIOUS
<1> DEFINE out == world.out
           made == world.creator
<1>1. /\ WorldForm(world) /\ OutOK(out, made)
      /\ \A d \in Device : world.knows[d] \subseteq {"c", "m"}
  <2>1. world \in Worlds
    BY DEF Init
  <2>2. WorldForm(world) /\ made \in {"c", Distro} /\ world.knows \in [Device -> SUBSET {"c", "m"}]
    BY <2>1, GroupWorldsSound DEF WorldForm, Distro
  <2>3. \A b \in out :
          /\ b.kind \in {"invite", "post", "react", "accept", "leave"}
          /\ b.kind = "invite" => made = "c" /\ b.key \in {"c", "m"}
          /\ b.kind \in {"accept", "leave"} => b.keyed \in BOOLEAN
          /\ b.kind = "post" => b.post \notin Device /\ \A a \in out : a.kind = "post" /\ a.post = b.post => a = b
    BY <2>1, GroupWorldsSound
  <2> QED  BY <2>2, <2>3 DEF OutOK
<1>2. DOMAIN dev = Device /\ DOMAIN net = Device /\ \A d \in Device : dev[d] = Device0(world, d)
  BY DEF Init
<1>3. \A d \in Device : net[d] \subseteq out /\ (made = Distro => net[d] = {})
  BY DEF Init, Distro
<1> HIDE DEF out, made
<1>4. Listing(<<>>) /\ Len(<<>>) = 0
  BY EmptyIs
<1>5. ASSUME NEW d \in Device
      PROVE  Good(out, made, d, dev[d]) /\ Idle(dev[d]) /\ dev[d].rows = <<>> /\ dev[d].shown = <<>> /\ dev[d].sending = {}
  <2>a. PICK s : s = dev[d]
    OBVIOUS
  <2>1. /\ Fields(s) /\ s.st = "none" /\ s.creator = "none" /\ s.m = "invited" /\ s.copy = "none"
        /\ s.changes = <<>> /\ s.closed = FALSE /\ s.left = FALSE /\ s.filtered = FALSE /\ s.rows = <<>>
        /\ s.allow \in BOOLEAN /\ s.keys = world.knows[d] /\ s.shown = <<>> /\ s.chip = FALSE
        /\ s.sending = {} /\ s.untold = FALSE /\ s.cut = FALSE
    <3>1. s = Device0(world, d)
      BY <1>2, <2>a
    <3>2. Starting(world, d, s)
      BY <3>1, Device0Is
    <3> QED  BY <3>2 DEF Starting
  <2>2. StatusOK(s)
    <3>1. s.keys \subseteq {"c", "m"}
      BY <1>1, <2>1
    <3>2. ChangesOK(s)
      BY <1>4, <2>1 DEF ChangesOK
    <3>3. CopyTrue(s)
      BY <2>1 DEF CopyTrue, Distro
    <3> QED  BY <2>1, <3>1, <3>2, <3>3 DEF StatusOK, Statuses
  <2>3. RowsOK(out, made, d, s)
    <3>1. Distinct(s.rows) /\ \A i \in 1..Len(s.rows) : RowOK(out, made, d, s, s.rows[i])
      BY <1>4, <2>1 DEF Distinct
    <3>2. InBounds(s.rows)
      <4>1. {i \in 1..Len(s.rows) : ~s.rows[i].pending} = {}
            /\ \A src : {i \in 1..Len(s.rows) : s.rows[i].src = src} = {}
        BY <1>4, <2>1
      <4>2. Uninvited(s.rows) = 0 /\ \A src : FromSource(s.rows, src) = 0
        BY <4>1, FS_EmptySet DEF Uninvited, FromSource
      <4> QED  BY <1>4, <2>1, <4>2, BoundsAre DEF InBounds
    <3> QED  BY <1>4, <2>1, <3>1, <3>2 DEF RowsOK
  <2>4. ShownOK(out, s)
    <3>1. \A p : ~Shows(s, p)
      BY <1>4, <2>1 DEF Shows
    <3> QED  BY <1>4, <2>1, <3>1 DEF ShownOK
  <2>5. Good(out, made, d, s)
    BY <2>1, <2>2, <2>3, <2>4 DEF Good, Core, Place
  <2> QED  BY <2>1, <2>5, <2>a DEF Idle
<1>6. \A d \in Device : \A x : ~Holds(dev[d], x) /\ ~Shows(dev[d], x)
  BY <1>4, <1>5 DEF Holds, Shows
<1>7. \A d \in Device : \A b \in net[d] : BlobOK(out, made, b) /\ ~SyncPost(b)
  BY <1>1, <1>3 DEF BlobOK, SyncPost, OutOK
<1>8. Posts(dev, net)
  <2>1. \A b : ~Around(dev, net, b)
    BY <1>6, <1>7 DEF Around
  <2> QED  BY <1>5, <1>6, <2>1 DEF Posts
<1>9. Fresh(made, dev, net)
  BY <1>3, <1>5 DEF Fresh
<1>10. Sound(out, made, dev, net)
  BY <1>1, <1>2, <1>5, <1>7, <1>8, <1>9 DEF Sound
<1>11. Outside
  BY DEF Init, Outside
<1> QED  BY <1>1, <1>10, <1>11 DEF Invariant, out, made

LEMMA StepsSound == Invariant /\ [Next]_vars => Invariant'
<1> SUFFICES ASSUME Invariant, [Next]_vars PROVE Invariant'
  OBVIOUS
<1>1. ASSUME NEW d \in Device, NEW mute \in BOOLEAN, Create(d, mute) PROVE Invariant'
  BY <1>1, CreateSound
<1>2. ASSUME NEW d \in Device, NEW mute \in BOOLEAN, AcceptInvite(d, mute) PROVE Invariant'
  BY <1>2, AcceptSound
<1>3. ASSUME NEW d \in Device, NEW mute \in BOOLEAN, Quit(d, mute) PROVE Invariant'
  BY <1>3, QuitSound
<1>4. ASSUME NEW d \in Device, Post(d) PROVE Invariant'
  BY <1>4, PostSound
<1>5. ASSUME NEW d \in Device, Submitted(d) PROVE Invariant'
  BY <1>5, SubmittedSound
<1>6. ASSUME NEW d \in Device, OtherSync(d) PROVE Invariant'
  BY <1>6, OtherSyncSound
<1>7. ASSUME NEW d \in Device, Announced(d) PROVE Invariant'
  BY <1>7, AnnouncedSound
<1>8. ASSUME NEW d \in Device, Reload(d) PROVE Invariant'
  BY <1>8, ReloadSound
<1>9. ASSUME NEW d \in Device, NEW b \in net[d], NEW again \in BOOLEAN, Deliver(d, b, again) PROVE Invariant'
  BY <1>9, DeliverSound
<1>10. ASSUME NEW msg \in wire, Heard(msg) PROVE Invariant'
  BY <1>10, HeardSound
<1>11. ASSUME UNCHANGED vars PROVE Invariant'
  BY <1>11 DEF vars, Invariant, Outside
<1> QED  BY <1>1, <1>2, <1>3, <1>4, <1>5, <1>6, <1>7, <1>8, <1>9, <1>10, <1>11 DEF Next

LEMMA InvariantHolds == Spec => []Invariant
BY StartsSound, StepsSound, PTL DEF Spec

LEMMA SoundOfIt == Invariant => GroupSound
<1> SUFFICES ASSUME Invariant PROVE GroupSound
  OBVIOUS
<1>1. ASSUME NEW d \in Device
      PROVE  /\ Core(world.out, world.creator, d, dev[d]) /\ Place(world.creator, dev[d])
             /\ world.creator \in {"c", Distro}
             /\ DOMAIN dev[d].rows = 1..Len(dev[d].rows) /\ DOMAIN dev[d].shown = 1..Len(dev[d].shown)
  <2>1. OutOK(world.out, world.creator) /\ Good(world.out, world.creator, d, dev[d])
    BY DeviceIs
  <2>2. Listing(dev[d].rows) /\ Listing(dev[d].shown)
    BY <2>1 DEF Good, Core, RowsOK, ShownOK
  <2> QED  BY <2>1, <2>2, Listed DEF Good, OutOK
<1>2. TypeOK
  <2>1. ASSUME NEW d \in Device
        PROVE  /\ dev[d].st \in {"none", "pending", "active"} /\ dev[d].m \in {"invited", "accepted", "left"}
               /\ dev[d].creator \in {"none", "c", Distro} /\ dev[d].copy \in {"none", "accept", "leave"}
               /\ dev[d].keys \subseteq {"c", "m"}
               /\ \A mark \in {"closed", "left", "filtered", "allow", "chip", "untold", "cut"} : dev[d][mark] \in BOOLEAN
    <3>1. Core(world.out, world.creator, d, dev[d]) /\ Place(world.creator, dev[d]) /\ world.creator \in {"c", Distro}
      BY <1>1
    <3>2. /\ dev[d].st \in {"none", "pending", "active"} /\ dev[d].m \in {"invited", "accepted", "left"}
          /\ dev[d].copy \in {"none", "accept", "leave"} /\ dev[d].keys \subseteq {"c", "m"}
      BY <3>1 DEF Core, Place, StatusOK, Statuses
    <3>3. dev[d].creator \in {"none", "c", Distro}
      BY <3>1 DEF Core
    <3>4. /\ dev[d].closed \in BOOLEAN /\ dev[d].left \in BOOLEAN /\ dev[d].filtered \in BOOLEAN
          /\ dev[d].allow \in BOOLEAN /\ dev[d].chip \in BOOLEAN /\ dev[d].untold \in BOOLEAN
          /\ dev[d].cut \in BOOLEAN
      BY <3>1 DEF Core, Place
    <3>5. ASSUME NEW mark \in {"closed", "left", "filtered", "allow", "chip", "untold", "cut"}
          PROVE  dev[d][mark] \in BOOLEAN
      BY <3>4, <3>5
    <3> QED  BY <3>2, <3>3, <3>5
  <2>2. Outside
    BY DEF Invariant
  <2> QED  BY <2>1, <2>2 DEF TypeOK, Outside
<1>3. HeldInBounds
  <2> SUFFICES ASSUME NEW d \in Device
               PROVE  LET rows == dev[d].rows IN
                      /\ Len(rows) <= PerGroup /\ Len(rows) <= MaxBlobs
                      /\ Cardinality({i \in DOMAIN rows : ~rows[i].pending}) <= NotHeld
                      /\ \A src \in {"c", "m"} : Cardinality({i \in DOMAIN rows : rows[i].src = src}) <= PerSource
    BY DEF HeldInBounds
  <2>1. InBounds(dev[d].rows) /\ DOMAIN dev[d].rows = 1..Len(dev[d].rows)
    BY <1>1 DEF Core, RowsOK
  <2> QED  BY <2>1 DEF InBounds, Uninvited, FromSource
<1>4. ShownOnce
  BY <1>1 DEF ShownOnce, Core, ShownOK
<1>5. CopiesTrue
  BY <1>1 DEF CopiesTrue, Core, StatusOK, CopyTrue
<1> QED  BY <1>2, <1>3, <1>4, <1>5 DEF GroupSound

LEMMA ClosedOfIt == Invariant => ClosedIsEmpty
<1> SUFFICES ASSUME Invariant, NEW d \in Device, dev[d].closed
             PROVE  /\ dev[d].st = "none" /\ dev[d].shown = <<>>
                    /\ dev[d].rows = <<>> /\ dev[d].changes = <<>> /\ dev[d].copy = "none"
  BY DEF ClosedIsEmpty
<1> QED  BY DeviceIs DEF Good, Place

\* What is held for a group stays within its bounds and of no source beyond
\* its share, no post is shown twice however it comes (held, replayed, sent
\* again, or as the sync of the device's own), and what the creator would
\* pass on of a member is what its list shows (handleDistroGroupSync,
\* _handleGroupMessage, HeldGroupArrivals, GroupStore).
THEOREM GroupSoundHolds == Spec => []GroupSound
BY InvariantHolds, SoundOfIt, PTL

\* Of a group left or declined nothing is back on a device: not its entry, a
\* post, a status, nor anything held for it, whatever comes late, twice or
\* from the other devices (GroupStore.close, _applyGroupSync, _joinedFromSync).
THEOREM ClosedIsEmptyHolds == Spec => []ClosedIsEmpty
BY InvariantHolds, ClosedOfIt, PTL
============================================================================
