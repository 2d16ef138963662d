-------------------------- MODULE ActiveTabProofs --------------------------
(***************************************************************************)
(* The safety of ActiveTab, for every set of tabs and every bound.         *)
(***************************************************************************)
EXTENDS ActiveTab, WellFoundedInduction, TLAPS
Elems(s) == {s[k] : k \in 1..Len(s)}
Distinct(s) == \A i, j \in 1..Len(s) : s[i] = s[j] => i = j
-----------------------------------------------------------------------------
(* Natural numbers, and the queue without one tab.                         *)

Less == {p \in Nat \X Nat : p[1] < p[2]}

\* A set of natural numbers that is not empty has a least element.
LEMMA LeastNumber ==
  ASSUME NEW T, T \subseteq Nat, T # {}
  PROVE  \E m \in T : \A k \in T : m <= k
<1>1. IsWellFoundedOn(Less, Nat)
  BY Zenon, NatLessThanWellFounded DEF OpToRel, Less
<1>2. PICK m \in T : \A k \in T : <<k, m>> \notin Less
  BY <1>1, WFMin, Zenon
<1>3. \A k \in Nat : k < m => <<k, m>> \in Less
  BY DEF Less
<1>4. \A k \in T : ~(k < m)
  BY <1>2, <1>3
<1> QED  BY <1>4

Kept(s, t, n, f) ==
  f = [k \in 0..n |->
        IF k = 0 THEN <<>>
        ELSE IF s[k][1] # t THEN Append(f[k - 1], s[k]) ELSE f[k - 1]]

\* The function WithoutTab is defined by exists.
LEMMA KeptExists ==
  ASSUME NEW s, Len(s) \in Nat, NEW t
  PROVE  \E f : Kept(s, t, Len(s), f)
<1> DEFINE T == {n \in Nat : ~\E f : Kept(s, t, n, f)}
<1> SUFFICES ASSUME T # {} PROVE FALSE
  OBVIOUS
<1>1. PICK m \in T : \A k \in T : m <= k
  <2>1. T \subseteq Nat
    OBVIOUS
  <2> QED  BY <2>1, LeastNumber, Zenon
<1>2. CASE m = 0
  <2>1. Kept(s, t, 0, [k \in 0..0 |-> <<>>])
    BY DEF Kept
  <2> QED  BY <1>2, <2>1
<1>3. CASE m # 0
  <2>1. m - 1 \in Nat /\ m - 1 \notin T
    BY <1>1, <1>3
  <2>2. PICK f : Kept(s, t, m - 1, f)
    BY <2>1
  <2> DEFINE g == [k \in 0..m |->
                    IF k = 0 THEN <<>>
                    ELSE IF s[k][1] # t THEN Append(f[k - 1], s[k]) ELSE f[k - 1]]
  <2>3. f = [k \in 0..m - 1 |->
              IF k = 0 THEN <<>>
              ELSE IF s[k][1] # t THEN Append(f[k - 1], s[k]) ELSE f[k - 1]]
    BY <2>2 DEF Kept
  <2>4. \A k \in 0..m - 1 : g[k] = f[k]
    <3> SUFFICES ASSUME NEW k \in 0..m - 1 PROVE g[k] = f[k]
      OBVIOUS
    <3>1. f[k] = IF k = 0 THEN <<>>
                 ELSE IF s[k][1] # t THEN Append(f[k - 1], s[k]) ELSE f[k - 1]
      BY <2>3, Zenon
    <3>2. k \in 0..m
      BY <1>1
    <3> QED  BY <3>1, <3>2, Zenon
  <2> HIDE DEF g
  <2>5. \A k \in 0..m : k # 0 => f[k - 1] = g[k - 1]
    <3>1. \A k \in 0..m : k # 0 => k - 1 \in 0..m - 1
      BY <1>1
    <3> QED  BY <2>4, <3>1
  <2>6. g = [k \in 0..m |->
              IF k = 0 THEN <<>>
              ELSE IF s[k][1] # t THEN Append(g[k - 1], s[k]) ELSE g[k - 1]]
    BY <2>5 DEF g
  <2> QED  BY <2>6 DEF Kept
<1> QED  BY <1>2, <1>3

\* Dropping a tab's requests leaves the others', none of them twice.
LEMMA WithoutTabKeeps ==
  ASSUME NEW S, NEW s \in Seq(S), NEW t
  PROVE  /\ WithoutTab(s, t) \in Seq(S)
         /\ Elems(WithoutTab(s, t)) \subseteq {r \in Elems(s) : r[1] # t}
         /\ Distinct(s) => Distinct(WithoutTab(s, t))
<1> DEFINE f == CHOOSE f : Kept(s, t, Len(s), f)
<1>1. Len(s) \in Nat /\ \A k \in 1..Len(s) : s[k] \in S
  OBVIOUS
<1>2. Kept(s, t, Len(s), f)
  BY <1>1, KeptExists
<1>3. WithoutTab(s, t) = f[Len(s)]
  BY Zenon DEF WithoutTab, Kept
<1> HIDE DEF f
<1>4. \A k \in 0..Len(s) :
        f[k] = IF k = 0 THEN <<>>
               ELSE IF s[k][1] # t THEN Append(f[k - 1], s[k]) ELSE f[k - 1]
  BY <1>2, Zenon DEF Kept
<1> DEFINE Good(k) == /\ f[k] \in Seq(S)
                      /\ \A i \in 1..Len(f[k]) : \E j \in 1..k : f[k][i] = s[j] /\ s[j][1] # t
                      /\ Distinct(s) => Distinct(f[k])
<1> DEFINE T == {k \in 0..Len(s) : ~Good(k)}
<1>5. SUFFICES \A k \in 0..Len(s) : Good(k)
  <2> HIDE DEF Good
  <2>1. Good(Len(s))
    BY <1>1, <1>5
  <2> DEFINE q == f[Len(s)]
  <2>2. /\ q \in Seq(S)
        /\ \A i \in 1..Len(q) : \E j \in 1..Len(s) : q[i] = s[j] /\ s[j][1] # t
        /\ Distinct(s) => Distinct(q)
    BY <2>1 DEF Good
  <2> HIDE DEF q
  <2>3. WithoutTab(s, t) = q
    BY <1>3 DEF q
  <2> QED  BY <2>2, <2>3 DEF Elems
<1> SUFFICES ASSUME T # {} PROVE FALSE
  OBVIOUS
<1>6. PICK m \in T : \A k \in T : m <= k
  <2>1. T \subseteq Nat
    OBVIOUS
  <2> HIDE DEF T
  <2> QED  BY <2>1, LeastNumber, Zenon
<1>7. m # 0
  <2>1. f[0] = <<>>
    BY <1>1, <1>4
  <2>2. Good(0)
    BY <2>1 DEF Distinct
  <2> QED  BY <2>2, <1>6
<1>8. m \in 1..Len(s) /\ m - 1 \in 0..Len(s) /\ Good(m - 1)
  <2> HIDE DEF Good
  <2>1. m - 1 \in 0..Len(s) /\ m - 1 \notin T
    BY <1>1, <1>6, <1>7
  <2> QED  BY <1>1, <1>7, <2>1
<1>9. Good(m)
  <2> DEFINE q == f[m - 1]
  <2> HIDE DEF q
  <2>1. CASE s[m][1] # t
    <3>1. f[m] = Append(q, s[m])
      BY <1>4, <1>7, <1>8, <2>1 DEF q
    <3>2. q \in Seq(S) /\ \A i \in 1..Len(q) : \E j \in 1..m - 1 : q[i] = s[j] /\ s[j][1] # t
      BY <1>8 DEF q
    <3>3. Append(q, s[m]) \in Seq(S) /\ Len(Append(q, s[m])) = Len(q) + 1 /\ Len(q) \in Nat
          /\ Append(q, s[m])[Len(q) + 1] = s[m]
          /\ \A i \in 1..Len(q) : Append(q, s[m])[i] = q[i]
      BY <1>1, <1>8, <3>2
    <3>4. ASSUME NEW i \in 1..Len(q) + 1
          PROVE  \E j \in 1..m : Append(q, s[m])[i] = s[j] /\ s[j][1] # t
      <4>1. CASE i = Len(q) + 1
        BY <1>8, <2>1, <3>3, <4>1
      <4>2. CASE i \in 1..Len(q)
        <5>1. PICK j \in 1..m - 1 : q[i] = s[j] /\ s[j][1] # t
          BY <3>2, <4>2
        <5>2. j \in 1..m
          BY <1>8
        <5> QED  BY <3>3, <4>2, <5>1, <5>2
      <4> QED  BY <3>3, <4>1, <4>2
    <3>5. ASSUME Distinct(s) PROVE Distinct(Append(q, s[m]))
      <4>1. Distinct(q)
        BY <1>8, <3>5 DEF q
      <4>2. \A i \in 1..Len(q) : q[i] # s[m]
        BY <1>8, <3>2, <3>5 DEF Distinct
      <4> QED  BY <4>1, <4>2, <3>3 DEF Distinct
    <3> QED  BY <3>1, <3>3, <3>4, <3>5
  <2>2. CASE s[m][1] = t
    <3>1. f[m] = q
      BY <1>4, <1>7, <1>8, <2>2 DEF q
    <3> QED  BY <1>8, <3>1 DEF q
  <2> QED  BY <2>1, <2>2
<1> QED  BY <1>6, <1>9
-----------------------------------------------------------------------------
(* The inductive invariant.                                                *)

Called(r) == [req |-> r, lock |-> TRUE] \in calls
Denied(r) == [req |-> r, lock |-> FALSE] \in calls
Over(r) == [req |-> r, how |-> "ended"] \in settled
Refusal(r) == [req |-> r, how |-> "refused"] \in settled
Queued == Elems(queue)

\* The tab has no connection to stop, and no lock.
Quiet(t) == grant[t] = 0 /\ ~held[t] /\ ~stopping[t]

\* Nothing is left of a page that is not loaded, here or at the browser.
Blank(t) ==
  /\ ~locks[t] /\ Quiet(t) /\ waiting[t] = 0 /\ asked[t] = 0 /\ mail[t] = 0
  /\ loads[t] = 0 /\ ~rns[t] /\ ~overlay[t]
  /\ \A n \in Nat : LET r == <<t, n>> IN
       r \notin Queued /\ r \notin freeing /\ ~Called(r) /\ ~Denied(r) /\ ~Over(r) /\ ~Refusal(r)
ClosedBlank == \A t \in Tabs : ~open[t] => Blank(t)

\* A page has room for one more load.
Room(t) == loads[t] < MaxLoads

\* Of one page: a connection only while it is active, and room for the load
\* that follows when a request it waits for is granted.
PageOK(t) ==
  /\ ~(held[t] /\ stopping[t])
  /\ waiting[t] # 0 => Quiet(t) /\ Room(t)
  /\ rns[t] => held[t]
PageSound == \A t \in Tabs : PageOK(t)

\* Where requests are refused, or cannot be made, the manager holds nothing;
\* a page asks once, and has heard the refusal when it is active.
RefusalOK(t, n) ==
  LET r == <<t, n>> IN
  /\ ~Over(r)
  /\ Refusal(r) => /\ mode = "refused" /\ n = 1 /\ locks[t] /\ Quiet(t) /\ Room(t)
                   /\ waiting[t] = 0 => ~overlay[t]
UnmanagedTab(t) ==
  /\ grant[t] = 0
  /\ locks[t] => Refusal(<<t, 1>>)
  /\ waiting[t] # 0 => waiting[t] = 1 /\ Refusal(<<t, 1>>)
  /\ \A n \in Nat : RefusalOK(t, n)
Unmanaged ==
  mode # "given" =>
    /\ holder = Free /\ queue = <<>> /\ calls = {} /\ freeing = {}
    /\ \A t \in Tabs : UnmanagedTab(t)

\* Where locks are given: a request is in one place, its page in the state
\* that fits it, and whoever is active holds the lock or was robbed of it.
RequestOK(t, n) ==
  LET r == <<t, n>> IN
  /\ ~Refusal(r)
  /\ r \in Queued => waiting[t] = n /\ n # 0
  /\ Called(r) => /\ holder = r /\ n # 0 /\ n <= asked[t] /\ r \notin Queued
                  /\ Quiet(t) /\ Room(t) /\ ~Denied(<<t, 1>>)
                  /\ waiting[t] = n \/ (waiting[t] = 0 /\ ~overlay[t])
  /\ Denied(r) => n = 1 /\ Quiet(t) /\ Room(t) /\ waiting[t] = 0 /\ ~overlay[t]
  /\ r \in freeing \/ Over(r) => n # 0 /\ n <= asked[t] /\ r \notin Queued /\ ~Called(r)
  /\ r \in freeing => grant[t] # n
  /\ Over(r) /\ holder = r => r \in freeing
  /\ holder = r => Called(r) \/ (grant[t] = n /\ Active(t)) \/ r \in freeing
ManagedTab(t) ==
  /\ open[t] => locks[t]
  /\ waiting[t] <= asked[t]
  /\ Active(t) <=> grant[t] # 0
  /\ grant[t] # 0 => /\ waiting[t] = 0 /\ grant[t] <= asked[t]
                     /\ holder = <<t, grant[t]>> \/ Over(<<t, grant[t]>>)
  /\ \A n \in Nat : RequestOK(t, n)
Managed ==
  mode = "given" => Distinct(queue) /\ \A t \in Tabs : ManagedTab(t)

IInv ==
  /\ TypeOK /\ ClosedBlank /\ PageSound /\ NeverSilent
  /\ Unmanaged /\ Managed
  /\ HasChannel => NewestHeard

-----------------------------------------------------------------------------
(* What the lock manager's operations do.                                  *)

\* The lock is handed to one of those who waited for it, or to nobody.
LEMMA HandOverEffect ==
  ASSUME NEW q \in Seq(Request), NEW callbacks, HandOver(q, callbacks)
  PROVE  /\ queue' \in Seq(Request) /\ holder' \in {Free} \cup Request
         /\ Elems(queue') \subseteq Elems(q)
         /\ Distinct(q) => Distinct(queue')
         /\ \/ holder' = Free /\ calls' = callbacks
            \/ \E r \in Elems(q) :
                 /\ holder' = r /\ r \in Request
                 /\ calls' = callbacks \cup {[req |-> r, lock |-> TRUE]}
                 /\ Distinct(q) => r \notin Elems(queue')
<1>1. CASE q = <<>>
  <2>1. holder' = Free /\ queue' = <<>> /\ calls' = callbacks
    BY <1>1 DEF HandOver
  <2>2. Elems(<<>>) = {} /\ Distinct(<<>>)
    BY DEF Elems, Distinct
  <2> QED  BY <2>1, <2>2
<1>2. CASE q # <<>>
  <2>1. /\ holder' = Head(q) /\ queue' = Tail(q)
        /\ calls' = callbacks \cup {[req |-> Head(q), lock |-> TRUE]}
    BY <1>2 DEF HandOver
  <2> DEFINE p == Tail(q)
  <2>2. /\ Len(q) \in Nat /\ Len(q) > 0 /\ Head(q) = q[1]
        /\ p \in Seq(Request) /\ Len(p) = Len(q) - 1
        /\ \A k \in 1..Len(p) : p[k] = q[k + 1]
        /\ \A k \in 1..Len(q) : q[k] \in Request
    BY <1>2
  <2> HIDE DEF p
  <2>3. Head(q) \in Elems(q) /\ Head(q) \in Request
    BY <2>2 DEF Elems
  <2>4. \A k \in 1..Len(p) : k + 1 \in 1..Len(q)
    BY <2>2
  <2>5. Elems(p) \subseteq Elems(q)
    BY <2>2, <2>4 DEF Elems
  <2>6. Distinct(q) => Distinct(p)
    BY <2>2, <2>4 DEF Distinct
  <2>7. Distinct(q) => Head(q) \notin Elems(p)
    <3> SUFFICES ASSUME Distinct(q), NEW k \in 1..Len(p) PROVE p[k] # Head(q)
      BY DEF Elems
    <3> QED  BY <2>2, <2>4 DEF Distinct
  <2> QED  BY <2>1, <2>2, <2>3, <2>5, <2>6, <2>7 DEF p
<1> QED  BY <1>1, <1>2

\* A request appended to the queue is the one element more.
LEMMA AppendEffect ==
  ASSUME NEW q \in Seq(Request), NEW r \in Request
  PROVE  /\ Append(q, r) \in Seq(Request)
         /\ Elems(Append(q, r)) = Elems(q) \cup {r}
         /\ Distinct(q) /\ r \notin Elems(q) => Distinct(Append(q, r))
<1> DEFINE p == Append(q, r)
<1>1. /\ Len(q) \in Nat /\ p \in Seq(Request) /\ Len(p) = Len(q) + 1
      /\ p[Len(q) + 1] = r /\ \A k \in 1..Len(q) : p[k] = q[k]
  OBVIOUS
<1> HIDE DEF p
<1>2. 1..Len(p) = 1..Len(q) \cup {Len(q) + 1}
  BY <1>1
<1>3. Elems(p) = Elems(q) \cup {r}
  BY <1>1, <1>2 DEF Elems
<1>4. Distinct(q) /\ r \notin Elems(q) => Distinct(p)
  BY <1>1, <1>2 DEF Distinct, Elems
<1> QED  BY <1>1, <1>3, <1>4 DEF p

-----------------------------------------------------------------------------
(* Each step keeps the invariant.                                          *)

\* The identity is let go of: the request held ends, and the page is out of its hold.
LEMMA ReleaseKeeps ==
  ASSUME IInv, NEW t \in Tabs, AppRelease(t)
  PROVE  IInv'
<1> USE DEF AppRelease, Release, app, manager
<1>2. Released(t) = IF grant[t] = 0 THEN {} ELSE {<<t, grant[t]>>}
  BY DEF Released
<1>1. TypeOK'
  <2>1. Released(t) \subseteq Request
    BY <1>2 DEF IInv, TypeOK, Request
  <2>2. settled' \subseteq [req : Request, how : {"ended", "refused"}]
    BY <2>1 DEF IInv, TypeOK
  <2> QED  BY <2>1, <2>2 DEF IInv, TypeOK
<1>3. \A r : /\ Called(r)' <=> Called(r)
             /\ Denied(r)' <=> Denied(r)
             /\ Refusal(r)' <=> Refusal(r)
             /\ Over(r)' <=> Over(r) \/ r \in Released(t)
  BY DEF Called, Denied, Refusal, Over
<1>4. \A u \in Tabs : Room(u)' <=> Room(u)
  BY DEF Room
<1>5. open[t]
  BY DEF IInv, ClosedBlank, Blank, Quiet, TypeOK
<1>6. ClosedBlank'
  BY <1>2, <1>3, <1>5 DEF IInv, TypeOK, ClosedBlank, Blank, Quiet, Queued
<1>7. PageSound'
  BY <1>4 DEF IInv, TypeOK, PageSound, PageOK, Quiet
<1>8. NeverSilent'
  BY DEF IInv, TypeOK, PageSound, PageOK, NeverSilent
<1>9. Unmanaged'
  <2> SUFFICES ASSUME mode # "given"
               PROVE  /\ holder = Free /\ queue = <<>> /\ calls = {} /\ freeing' = {}
                      /\ \A u \in Tabs : UnmanagedTab(u)'
    BY DEF Unmanaged
  <2>1. Released(t) = {}
    BY <1>2 DEF IInv, Unmanaged, UnmanagedTab
  <2>2. ASSUME NEW u \in Tabs PROVE UnmanagedTab(u)'
    BY <1>3, <1>4, <2>1 DEF IInv, TypeOK, Unmanaged, UnmanagedTab, RefusalOK, Quiet
  <2> QED  BY <2>1, <2>2 DEF IInv, Unmanaged
<1>10. Managed'
  <2> SUFFICES ASSUME mode = "given" PROVE Distinct(queue)' /\ \A u \in Tabs : ManagedTab(u)'
    BY DEF Managed
  <2>1. Distinct(queue)'
    BY DEF IInv, Managed
  <2>2. ASSUME NEW u \in Tabs PROVE ManagedTab(u)'
    <3>1. /\ ManagedTab(u) /\ PageOK(u) /\ Queued' = Queued
          /\ grant[t] # 0 /\ Released(t) = {<<t, grant[t]>>}
      BY <1>2 DEF IInv, Managed, PageSound, Queued, ManagedTab, Active
    <3>2. ASSUME NEW n \in Nat PROVE RequestOK(u, n)'
      <4>1. RequestOK(u, n)
        BY <3>1 DEF ManagedTab
      <4>2. <<u, n>> \in Released(t) <=> u = t /\ n = grant[t]
        BY <3>1
      <4>3. <<u, n>> \in freeing' <=> <<u, n>> \in freeing \/ <<u, n>> \in Released(t)
        OBVIOUS
      <4> QED  BY <1>3, <1>4, <3>1, <4>1, <4>2, <4>3 DEF IInv, TypeOK, ManagedTab, PageOK, RequestOK, Quiet, Active
    <3> QED  BY <1>3, <3>1, <3>2 DEF IInv, TypeOK, ManagedTab, PageOK, Active
  <2> QED  BY <2>1, <2>2
<1>11. HasChannel => NewestHeard'
  BY DEF IInv, TypeOK, NewestHeard
<1> QED  BY <1>1, <1>6, <1>7, <1>8, <1>9, <1>10, <1>11 DEF IInv

\* The configuration loads: the page connects, or is told the identity is in use.
LEMMA ConfigLoadedKeeps ==
  ASSUME IInv, NEW t \in Tabs, ConfigLoaded(t)
  PROVE  IInv'
<1> USE DEF ConfigLoaded, vars, page, manager
<1>1. TypeOK'
  <2>1. loads' \in [Tabs -> 0..MaxLoads]
    BY ActiveTabAssumption DEF IInv, TypeOK
  <2>2. rns' \in [Tabs -> BOOLEAN]
    <3>1. CASE MayConnect(t)
      BY <3>1 DEF IInv, TypeOK
    <3>2. CASE ~MayConnect(t)
      BY <3>2 DEF IInv, TypeOK
    <3> QED  BY <3>1, <3>2
  <2> QED  BY <2>1, <2>2 DEF IInv, TypeOK
<1>2. \A r : /\ Called(r)' <=> Called(r)
             /\ Denied(r)' <=> Denied(r)
             /\ Refusal(r)' <=> Refusal(r)
             /\ Over(r)' <=> Over(r)
  BY DEF Called, Denied, Refusal, Over
<1>3. \A u \in Tabs : Room(u) => Room(u)'
  BY SMTT(30), ActiveTabAssumption DEF Room, IInv, TypeOK
<1>4. ClosedBlank'
  BY <1>2 DEF IInv, TypeOK, ClosedBlank, Blank, Quiet, Queued, Idle
<1>5. PageSound'
  <2> SUFFICES ASSUME NEW u \in Tabs PROVE PageOK(u)'
    BY DEF PageSound
  <2>1. PageOK(u) /\ (Room(u) => Room(u)') /\ (Quiet(u)' <=> Quiet(u))
    BY <1>3 DEF IInv, PageSound, Quiet
  <2>2. rns'[u] => held[u]
    BY <2>1 DEF IInv, TypeOK, PageOK, MayConnect
  <2> QED  BY <2>1, <2>2 DEF PageOK
<1>6. NeverSilent'
  BY DEF IInv, NeverSilent
<1>7. Unmanaged'
  BY <1>2, <1>3 DEF IInv, TypeOK, Unmanaged, UnmanagedTab, RefusalOK, Quiet
<1>8. Managed'
  <2> SUFFICES ASSUME mode = "given", NEW u \in Tabs PROVE ManagedTab(u)'
    BY DEF Managed, IInv
  <2>1. ManagedTab(u) /\ Queued' = Queued
    BY DEF IInv, Managed, Queued
  <2>2. ASSUME NEW n \in Nat PROVE RequestOK(u, n)'
    <3>1. RequestOK(u, n)
      BY <2>1 DEF ManagedTab
    <3> QED  BY <1>2, <1>3, <2>1, <3>1 DEF RequestOK, Quiet, Active
  <2> QED  BY <1>2, <2>1, <2>2 DEF ManagedTab, Active
<1>9. HasChannel => NewestHeard'
  BY DEF IInv, NewestHeard
<1> QED  BY <1>1, <1>4, <1>5, <1>6, <1>7, <1>8, <1>9 DEF IInv

\* Settings are saved: the page connects with what was chosen.
LEMMA SaveSettingsKeeps ==
  ASSUME IInv, NEW t \in Tabs, SaveSettings(t)
  PROVE  IInv'
<1> USE DEF SaveSettings, Disconnect, Connect, vars, page, manager
<1>1. TypeOK'
  <2>1. rns' \in [Tabs -> BOOLEAN]
    BY DEF IInv, TypeOK
  <2>2. loads' \in [Tabs -> 0..MaxLoads]
    <3>1. CASE held[t]
      <4>1. loads[t] + 1 \in 0..MaxLoads
        BY <3>1, ActiveTabAssumption DEF IInv, TypeOK, Room, MayLoad
      <4> QED  BY <3>1, <4>1 DEF IInv, TypeOK
    <3>2. CASE ~held[t]
      BY <3>2 DEF IInv, TypeOK
    <3> QED  BY <3>1, <3>2
  <2> QED  BY <2>1, <2>2 DEF IInv, TypeOK
<1>2. \A r : /\ Called(r)' <=> Called(r)
             /\ Denied(r)' <=> Denied(r)
             /\ Refusal(r)' <=> Refusal(r)
             /\ Over(r)' <=> Over(r)
  BY DEF Called, Denied, Refusal, Over
<1>3. \A u \in Tabs : ~held[u] /\ Room(u) => Room(u)'
  BY DEF Room, IInv, TypeOK
<1>4. ClosedBlank'
  BY <1>2 DEF IInv, TypeOK, ClosedBlank, Blank, Quiet, Queued, Idle
<1>5. PageSound'
  BY <1>3 DEF IInv, TypeOK, PageSound, PageOK, Quiet, Idle, Room
<1>6. NeverSilent'
  BY DEF IInv, NeverSilent
<1>7. Unmanaged'
  BY SMTT(30), <1>2, <1>3 DEF IInv, TypeOK, Unmanaged, UnmanagedTab, RefusalOK, Quiet
<1>8. Managed'
  <2> SUFFICES ASSUME mode = "given", NEW u \in Tabs PROVE ManagedTab(u)'
    BY DEF Managed, IInv
  <2>1. ManagedTab(u) /\ Queued' = Queued
    BY DEF IInv, Managed, Queued
  <2>2. ASSUME NEW n \in Nat PROVE RequestOK(u, n)'
    <3>1. RequestOK(u, n)
      BY <2>1 DEF ManagedTab
    <3> QED  BY <1>2, <1>3, <2>1, <3>1 DEF RequestOK, Quiet, Active
  <2> QED  BY <1>2, <2>1, <2>2 DEF ManagedTab, Active
<1>9. HasChannel => NewestHeard'
  BY DEF IInv, NewestHeard
<1> QED  BY <1>1, <1>4, <1>5, <1>6, <1>7, <1>8, <1>9 DEF IInv

\* A page hears another: it yields, asks again, or lets it pass.
LEMMA OnMessageKeeps ==
  ASSUME IInv, NEW t \in Tabs, AppOnMessage(t)
  PROVE  IInv'
<1> USE DEF AppOnMessage, OnMessage, TakenOver, Show, Disconnect, manager
<1>1. TypeOK'
  <2>1. mail' \in [Tabs -> 0..MaxMail]
    BY TabLockAssumption DEF IInv, TypeOK
  <2>2. held' \in [Tabs -> BOOLEAN] /\ stopping' \in [Tabs -> BOOLEAN]
    BY DEF IInv, TypeOK
  <2>3. /\ rns' \in [Tabs -> BOOLEAN]
        /\ overlay' \in [Tabs -> BOOLEAN]
    <3>1. CASE held[t]
      BY ZenonT(40), <3>1 DEF IInv, TypeOK
    <3>2. CASE ~held[t]
      BY <3>2 DEF IInv, TypeOK
    <3> QED  BY <3>1, <3>2
  <2> QED  BY <2>1, <2>2, <2>3 DEF IInv, TypeOK
<1>2. \A r : /\ Called(r)' <=> Called(r)
             /\ Denied(r)' <=> Denied(r)
             /\ Refusal(r)' <=> Refusal(r)
             /\ Over(r)' <=> Over(r)
  BY DEF Called, Denied, Refusal, Over
<1>3. \A u \in Tabs : Room(u)' <=> Room(u)
  BY DEF Room
<1>4. ClosedBlank'
  BY <1>2 DEF IInv, TypeOK, ClosedBlank, Blank, Quiet, Queued, Idle
<1>5. PageSound'
  <2> SUFFICES ASSUME NEW u \in Tabs PROVE PageOK(u)'
    BY DEF PageSound
  <2>1. PageOK(u)
    BY DEF IInv, PageSound
  <2>2. CASE held[t] /\ u = t
    BY <1>3, <2>1, <2>2 DEF IInv, TypeOK, PageOK, Quiet, Idle
  <2>3. CASE ~held[t] \/ u # t
    <3>1. /\ held'[u] = held[u] /\ stopping'[u] = stopping[u]
          /\ rns'[u] = rns[u]
      BY <2>3 DEF IInv, TypeOK
    <3> QED  BY <1>3, <2>1, <3>1 DEF PageOK, Quiet
  <2> QED  BY <2>2, <2>3
<1>6. NeverSilent'
  <2> SUFFICES ASSUME NEW u \in Tabs, open[u], ~overlay'[u],
                      ~\E c \in calls : c.req[1] = u,
                      ~\E s \in settled : s.req[1] = u /\ s.how = "refused"
               PROVE  held'[u]
    BY DEF NeverSilent
  <2>1. ~overlay[u] => held[u]
    BY DEF IInv, NeverSilent
  <2> QED  BY <2>1 DEF IInv, TypeOK
<1>7. Unmanaged'
  <2> SUFFICES ASSUME mode # "given", NEW u \in Tabs PROVE UnmanagedTab(u)'
    BY DEF IInv, Unmanaged
  <2>1. UnmanagedTab(u) /\ UNCHANGED <<grant, locks, waiting>>
    BY DEF IInv, Unmanaged
  <2>2. ASSUME NEW n \in Nat PROVE RefusalOK(u, n)'
    <3>1. RefusalOK(u, n)
      BY <2>1 DEF UnmanagedTab
    <3>2. Quiet(u) => Quiet(u)' /\ overlay'[u] = overlay[u]
      BY DEF Quiet, IInv, TypeOK
    <3> QED  BY <1>2, <1>3, <2>1, <3>1, <3>2 DEF RefusalOK
  <2> QED  BY <1>2, <2>1, <2>2 DEF UnmanagedTab
<1>8. Managed'
  <2> SUFFICES ASSUME mode = "given", NEW u \in Tabs PROVE ManagedTab(u)'
    BY DEF Managed, IInv
  <2>1. ManagedTab(u) /\ Queued' = Queued
    BY DEF IInv, Managed, Queued
  <2>2. Active(u)' <=> Active(u)
    BY DEF Active, IInv, TypeOK
  <2>3. ASSUME NEW n \in Nat PROVE RequestOK(u, n)'
    <3>1. RequestOK(u, n)
      BY <2>1 DEF ManagedTab
    <3> QED  BY <1>2, <1>3, <2>1, <2>2, <3>1 DEF RequestOK, Quiet, IInv, TypeOK
  <2> QED  BY <1>2, <2>1, <2>2, <2>3 DEF ManagedTab
<1>9. HasChannel => NewestHeard'
  BY DEF IInv, TypeOK, NewestHeard
<1> QED  BY <1>1, <1>4, <1>5, <1>6, <1>7, <1>8, <1>9 DEF IInv

\* The page hears that the lock was not to be had.
LEMMA NotAvailableKeeps ==
  ASSUME IInv, NEW t \in Tabs, NEW m \in 1..MaxRequests, AppNotAvailable(t, m)
  PROVE  IInv'
<1> USE DEF AppNotAvailable, NotAvailable, Show, page
<1>1. TypeOK'
  BY DEF IInv, TypeOK
<1>2. \A r : /\ Called(r)' <=> Called(r)
             /\ Denied(r)' => Denied(r) /\ r # <<t, m>>
             /\ Refusal(r)' <=> Refusal(r)
             /\ Over(r)' <=> Over(r)
  BY DEF Called, Denied, Refusal, Over
<1>3. \A u \in Tabs : Room(u)' <=> Room(u)
  BY DEF Room
<1>4. ClosedBlank'
  BY <1>2 DEF IInv, TypeOK, ClosedBlank, Blank, Quiet, Queued, Idle
<1>5. PageSound'
  BY <1>3 DEF IInv, TypeOK, PageSound, PageOK, Quiet, Idle
<1>6. NeverSilent'
  <2> SUFFICES ASSUME NEW u \in Tabs, open[u], ~overlay'[u], ~held[u],
                      ~\E s \in settled : s.req[1] = u /\ s.how = "refused"
               PROVE  \E c \in calls' : c.req[1] = u
    BY DEF NeverSilent
  <2>1. u # t /\ ~overlay[u]
    BY DEF IInv, TypeOK
  <2>2. PICK c \in calls : c.req[1] = u
    BY <2>1 DEF IInv, NeverSilent
  <2> QED  BY <2>1, <2>2
<1>7. Unmanaged'
  BY <1>2, <1>3 DEF IInv, TypeOK, Unmanaged, UnmanagedTab, RefusalOK, Quiet
<1>8. Managed'
  <2> SUFFICES ASSUME mode = "given", NEW u \in Tabs PROVE ManagedTab(u)'
    BY DEF Managed, IInv
  <2>1. ManagedTab(u) /\ Queued' = Queued
    BY DEF IInv, Managed, Queued
  <2>3. ASSUME NEW n \in Nat PROVE RequestOK(u, n)'
    <3>1. RequestOK(u, n)
      BY <2>1 DEF ManagedTab
    <3>2. ManagedTab(t) /\ Denied(<<t, m>>) /\ m \in Nat
      BY TabLockAssumption DEF IInv, Managed, Denied
    <3>3. RequestOK(t, m)
      BY <3>2 DEF ManagedTab
    <3>4. m = 1
      BY <3>2, <3>3 DEF RequestOK
    <3>5. u = t => ~Called(<<u, n>>)
      BY <3>1, <3>2, <3>4 DEF RequestOK
    <3>6. u # t => overlay'[u] = overlay[u]
      BY DEF IInv, TypeOK
    <3>7. u = t => ~Denied(<<u, n>>)'
      BY <1>2, <3>1, <3>4 DEF RequestOK
    <3> QED  BY <1>2, <1>3, <2>1, <3>1, <3>5, <3>6, <3>7 DEF RequestOK, Quiet, Active
  <2> QED  BY <1>2, <2>1, <2>3 DEF ManagedTab, Active
<1>9. HasChannel => NewestHeard'
  BY DEF IInv, TypeOK, NewestHeard
<1> QED  BY <1>1, <1>4, <1>5, <1>6, <1>7, <1>8, <1>9 DEF IInv

\* The page hears that the lock is its own.
LEMMA GrantedKeeps ==
  ASSUME IInv, NEW t \in Tabs, NEW m \in 1..MaxRequests, AppGranted(t, m)
  PROVE  IInv'
<1> USE DEF AppGranted, Granted, Activate, Connect, Show
<1>0. m \in Nat /\ Called(<<t, m>>) /\ open[t] /\ ~stopping[t] /\ mode = "given"
  BY TabLockAssumption DEF Idle, Called, IInv, Unmanaged
<1>1. ManagedTab(t) /\ RequestOK(t, m) /\ PageOK(t)
  BY <1>0 DEF IInv, Managed, ManagedTab, PageSound
<1>2. Quiet(t) /\ Room(t) /\ ~rns[t] /\ holder = <<t, m>> /\ waiting[t] \in {0, m}
  BY <1>0, <1>1 DEF RequestOK, PageOK, Quiet
<1>3. \A r : /\ Called(r)' <=> Called(r) /\ r # <<t, m>>
             /\ Denied(r)' <=> Denied(r)
             /\ Refusal(r)' <=> Refusal(r)
             /\ Over(r)' <=> Over(r)
  BY DEF Called, Denied, Refusal, Over
<1>4. \A u \in Tabs : u # t => /\ Room(u)' <=> Room(u)
                               /\ Quiet(u)' <=> Quiet(u)
                               /\ Active(u)' <=> Active(u)
                               /\ overlay'[u] = overlay[u] /\ loads'[u] = loads[u]
                               /\ held'[u] = held[u] /\ grant'[u] = grant[u] /\ waiting'[u] = waiting[u]
  BY DEF Room, Quiet, Active, IInv, TypeOK
<1>5. /\ held'[t] = TRUE /\ grant'[t] = m /\ waiting'[t] = 0
      /\ ~overlay'[t] /\ loads'[t] = loads[t] + 1
  BY <1>2 DEF IInv, TypeOK
<1>6. TypeOK'
  <2>1. loads[t] + 1 \in 0..MaxLoads
    BY <1>2, ActiveTabAssumption DEF IInv, TypeOK, Room
  <2> QED  BY <1>0, <2>1 DEF IInv, TypeOK
<1>7. ClosedBlank'
  <2> SUFFICES ASSUME NEW u \in Tabs, ~open[u] PROVE Blank(u)'
    BY DEF ClosedBlank
  <2>1. Blank(u) /\ u # t
    BY <1>0 DEF IInv, ClosedBlank
  <2> QED  BY <1>3, <1>4, <2>1 DEF Blank, Queued, Quiet
<1>8. PageSound'
  <2> SUFFICES ASSUME NEW u \in Tabs PROVE PageOK(u)'
    BY DEF PageSound
  <2>1. CASE u = t
    BY <1>0, <1>1, <1>2, <1>5, <2>1 DEF PageOK, Room, IInv, TypeOK
  <2>2. CASE u # t
    BY <1>4, <2>2 DEF PageOK, IInv, PageSound
  <2> QED  BY <2>1, <2>2
<1>9. NeverSilent'
  <2> SUFFICES ASSUME NEW u \in Tabs, open[u], ~overlay'[u], ~held'[u],
                      ~\E s \in settled : s.req[1] = u /\ s.how = "refused"
               PROVE  \E c \in calls' : c.req[1] = u
    BY DEF NeverSilent
  <2>1. u # t /\ ~overlay[u] /\ ~held[u]
    BY <1>4, <1>5
  <2>2. PICK c \in calls : c.req[1] = u
    BY <2>1 DEF IInv, NeverSilent
  <2> QED  BY <2>1, <2>2
<1>10. Unmanaged'
  BY <1>0 DEF Unmanaged
<1>11. Managed'
  <2> SUFFICES ASSUME NEW u \in Tabs PROVE ManagedTab(u)'
    BY <1>0 DEF Managed, IInv
  <2>1. ManagedTab(u) /\ Queued' = Queued
    BY <1>0 DEF IInv, Managed, Queued
  <2>2. ASSUME NEW n \in Nat PROVE RequestOK(u, n)'
    <3>1. RequestOK(u, n)
      BY <2>1 DEF ManagedTab
    <3>2. CASE u # t
      BY <1>3, <1>4, <2>1, <3>1, <3>2 DEF RequestOK
    <3>3. CASE u = t
      BY <1>0, <1>1, <1>2, <1>3, <1>5, <2>1, <3>1, <3>3 DEF RequestOK, Active
    <3> QED  BY <3>2, <3>3
  <2>3. CASE u # t
    BY <1>3, <1>4, <2>1, <2>2, <2>3 DEF ManagedTab
  <2>4. CASE u = t
    BY <1>0, <1>1, <1>2, <1>3, <1>5, <2>1, <2>2, <2>4 DEF ManagedTab, RequestOK, Active, IInv, TypeOK
  <2> QED  BY <2>3, <2>4
<1>12. NewestHeard'
  BY <1>0 DEF NewestHeard
<1> QED  BY <1>6, <1>7, <1>8, <1>9, <1>10, <1>11, <1>12 DEF IInv

\* A hold or a wait ends: what the page held is another's, or nobody's.
LEMMA EndedKeeps ==
  ASSUME IInv, NEW t \in Tabs, NEW m \in 1..MaxRequests, AppEnded(t, m)
  PROVE  IInv'
<1> USE DEF AppEnded, Ended, TakenOver, Disconnect, Show
<1>0. m \in Nat /\ Over(<<t, m>>) /\ open[t] /\ ~stopping[t] /\ mode = "given"
  <2>1. m \in Nat /\ Over(<<t, m>>) /\ open[t] /\ ~stopping[t]
    BY TabLockAssumption DEF Idle, Over
  <2>2. mode # "given" => RefusalOK(t, m)
    BY <2>1 DEF IInv, Unmanaged, UnmanagedTab
  <2> QED  BY <2>1, <2>2 DEF RefusalOK
<1>1. ManagedTab(t) /\ RequestOK(t, m) /\ PageOK(t)
  BY <1>0 DEF IInv, Managed, ManagedTab, PageSound
<1>2. grant[t] = m => held[t] /\ waiting[t] = 0 /\ holder # <<t, m>>
  BY <1>0, <1>1 DEF ManagedTab, RequestOK, Active
<1>3. \A r : /\ Called(r)' <=> Called(r)
             /\ Denied(r)' <=> Denied(r)
             /\ Refusal(r)' <=> Refusal(r)
             /\ Over(r)' <=> Over(r) /\ r # <<t, m>>
  BY DEF Called, Denied, Refusal, Over
<1>4. \A u \in Tabs : u # t \/ grant[t] # m =>
        /\ Quiet(u)' <=> Quiet(u)
        /\ Active(u)' <=> Active(u)
        /\ overlay'[u] = overlay[u] /\ rns'[u] = rns[u]
        /\ held'[u] = held[u] /\ grant'[u] = grant[u]
  BY SMTT(30) DEF Quiet, Active, IInv, TypeOK
<1>5. grant[t] = m => /\ ~held'[t] /\ grant'[t] = 0 /\ overlay'[t] /\ ~rns'[t]
  <2> SUFFICES ASSUME grant[t] = m
               PROVE  /\ ~held'[t] /\ grant'[t] = 0 /\ overlay'[t] /\ ~rns'[t]
    OBVIOUS
  <2>1. ~held'[t] /\ grant'[t] = 0
    BY DEF IInv, TypeOK
  <2>2. /\ overlay' = [overlay EXCEPT ![t] = TRUE]
        /\ rns' = [rns EXCEPT ![t] = FALSE]
    BY <1>2
  <2> QED  BY <2>1, <2>2 DEF IInv, TypeOK
<1>6. TypeOK'
  <2>2. settled' \subseteq [req : Request, how : {"ended", "refused"}]
    BY DEF IInv, TypeOK
  <2>3. CASE grant[t] = m
    <3>1. /\ grant' = [grant EXCEPT ![t] = 0] /\ held' = [held EXCEPT ![t] = FALSE]
          /\ overlay' = [overlay EXCEPT ![t] = TRUE]
          /\ rns' = [rns EXCEPT ![t] = FALSE]
      BY <1>2, <2>3
    <3> QED  BY <2>2, <3>1 DEF IInv, TypeOK
  <2>4. CASE grant[t] # m
    BY <2>2, <2>4 DEF IInv, TypeOK
  <2> QED  BY <2>3, <2>4
<1>7. ClosedBlank'
  <2> SUFFICES ASSUME NEW u \in Tabs, ~open[u] PROVE Blank(u)'
    BY DEF ClosedBlank
  <2>1. Blank(u) /\ u # t
    BY <1>0 DEF IInv, ClosedBlank
  <2> QED  BY <1>3, <1>4, <2>1 DEF Blank, Queued, Quiet
<1>8. PageSound'
  <2> SUFFICES ASSUME NEW u \in Tabs PROVE PageOK(u)'
    BY DEF PageSound
  <2>1. PageOK(u)
    BY DEF IInv, PageSound
  <2>2. CASE u = t /\ grant[t] = m
    BY <1>0, <1>2, <1>5, <2>1, <2>2 DEF PageOK, Room, IInv, TypeOK
  <2>3. CASE u # t \/ grant[t] # m
    BY <1>4, <2>1, <2>3 DEF PageOK, Room
  <2> QED  BY <2>2, <2>3
<1>9. NeverSilent'
  <2> SUFFICES ASSUME NEW u \in Tabs, open[u], ~overlay'[u], ~held'[u],
                      ~\E c \in calls : c.req[1] = u
               PROVE  \E s \in settled' : s.req[1] = u /\ s.how = "refused"
    BY DEF NeverSilent
  <2>1. ~overlay[u] /\ ~held[u]
    BY <1>4, <1>5
  <2>2. PICK s \in settled : s.req[1] = u /\ s.how = "refused"
    BY <2>1 DEF IInv, NeverSilent
  <2> QED  BY <2>2
<1>10. Unmanaged'
  BY <1>0 DEF Unmanaged
<1>11. Managed'
  <2> SUFFICES ASSUME NEW u \in Tabs PROVE ManagedTab(u)'
    BY <1>0 DEF Managed, IInv
  <2>1. ManagedTab(u) /\ Queued' = Queued
    BY <1>0 DEF IInv, Managed, Queued
  <2>2. ASSUME NEW n \in Nat PROVE RequestOK(u, n)'
    <3>1. RequestOK(u, n) /\ (Room(u)' <=> Room(u))
      BY <2>1 DEF ManagedTab, Room
    <3>2. CASE u # t \/ grant[t] # m
      BY <1>3, <1>4, <2>1, <3>1, <3>2 DEF RequestOK
    <3>3. CASE u = t /\ grant[t] = m
      BY <1>0, <1>1, <1>2, <1>3, <1>5, <2>1, <3>1, <3>3 DEF RequestOK, Active, Quiet
    <3> QED  BY <3>2, <3>3
  <2>3. CASE u # t \/ grant[t] # m
    BY <1>3, <1>4, <2>1, <2>2, <2>3 DEF ManagedTab
  <2>4. CASE u = t /\ grant[t] = m
    BY <1>0, <1>1, <1>2, <1>3, <1>5, <2>1, <2>2, <2>4 DEF ManagedTab, Active
  <2> QED  BY <2>3, <2>4
<1>12. NewestHeard'
  BY <1>0 DEF NewestHeard
<1> QED  BY <1>6, <1>7, <1>8, <1>9, <1>10, <1>11, <1>12 DEF IInv

\* A broadcast leaves the tabs' mail within its bound.
LEMMA BroadcastEffect ==
  ASSUME mail \in [Tabs -> 0..MaxMail], NEW t \in Tabs, Broadcast(t, open)
  PROVE  /\ mail' \in [Tabs -> 0..MaxMail]
         /\ \A u \in Tabs : /\ mail'[u] >= mail[u]
                            /\ u = t \/ ~open[u] => mail'[u] = mail[u]
                            /\ HasChannel /\ u # t /\ open[u] => mail'[u] > 0
<1>1. CASE HasChannel
  <2>1. mail' = [u \in Tabs |-> IF u # t /\ open[u] THEN mail[u] + 1 ELSE mail[u]]
    BY <1>1 DEF Broadcast
  <2>2. \A u \in Tabs \ {t} : open[u] => mail[u] < MaxMail
    BY <1>1 DEF Broadcast
  <2> QED  BY <2>1, <2>2, TabLockAssumption
<1>2. CASE ~HasChannel
  BY <1>2 DEF Broadcast
<1> QED  BY <1>1, <1>2

\* A request that would not wait is refused while another tab holds the lock.
LEMMA RefusedKeeps ==
  ASSUME IInv, NEW t \in Tabs, NEW m \in 1..MaxRequests, AppRefused(t, m)
  PROVE  IInv'
<1> USE DEF AppRefused, Refused, Activate, Connect, Show, TakeWithoutLocks
<1>0. /\ m = 1 /\ Refusal(<<t, m>>) /\ open[t] /\ mode = "refused"
      /\ Quiet(t) /\ Room(t) /\ waiting[t] \in {0, 1} /\ locks[t]
  <2>1. m \in Nat /\ Refusal(<<t, m>>) /\ open[t]
    BY TabLockAssumption DEF Idle, Refusal
  <2>2. mode # "given"
    BY <2>1 DEF IInv, Managed, ManagedTab, RequestOK
  <2>3. UnmanagedTab(t) /\ RefusalOK(t, m)
    BY <2>1, <2>2 DEF IInv, Unmanaged, UnmanagedTab
  <2> QED  BY <2>1, <2>3 DEF UnmanagedTab, RefusalOK
<1>1. PageOK(t) /\ ~rns[t]
  BY <1>0 DEF IInv, PageSound, PageOK, Quiet
<1>2. \A r : /\ Called(r)' <=> Called(r)
             /\ Denied(r)' <=> Denied(r)
             /\ Refusal(r)' <=> Refusal(r) /\ r # <<t, m>>
             /\ Over(r)' <=> Over(r)
  BY DEF Called, Denied, Refusal, Over
<1>3. \A u \in Tabs : u # t => /\ Room(u)' <=> Room(u)
                               /\ Quiet(u)' <=> Quiet(u)
                               /\ overlay'[u] = overlay[u] /\ loads'[u] = loads[u]
                               /\ held'[u] = held[u] /\ waiting'[u] = waiting[u] /\ locks'[u] = locks[u]
  BY DEF Room, Quiet, IInv, TypeOK
<1>4. /\ held'[t] = TRUE /\ locks'[t] = FALSE /\ waiting'[t] = 0
      /\ ~overlay'[t] /\ loads'[t] = loads[t] + 1
  BY <1>0 DEF IInv, TypeOK
<1>5. /\ mail' \in [Tabs -> 0..MaxMail]
      /\ \A u \in Tabs : /\ mail'[u] >= mail[u]
                         /\ u = t \/ ~open[u] => mail'[u] = mail[u]
                         /\ HasChannel /\ u # t /\ open[u] => mail'[u] > 0
  <2>1. mail \in [Tabs -> 0..MaxMail] /\ Broadcast(t, open)
    BY DEF IInv, TypeOK
  <2> QED  BY <2>1, BroadcastEffect
<1>6. TypeOK'
  <2>1. loads[t] + 1 \in 0..MaxLoads
    BY <1>0, ActiveTabAssumption DEF IInv, TypeOK, Room
  <2> QED  BY <1>5, <2>1 DEF IInv, TypeOK
<1>7. ClosedBlank'
  <2> SUFFICES ASSUME NEW u \in Tabs, ~open[u] PROVE Blank(u)'
    BY DEF ClosedBlank
  <2>1. Blank(u) /\ u # t
    BY <1>0 DEF IInv, ClosedBlank
  <2> QED  BY <1>2, <1>3, <1>5, <2>1 DEF Blank, Queued, Quiet
<1>8. PageSound'
  <2> SUFFICES ASSUME NEW u \in Tabs PROVE PageOK(u)'
    BY DEF PageSound
  <2>1. CASE u = t
    BY <1>0, <1>1, <1>4, <2>1 DEF PageOK, Room, Quiet, IInv, TypeOK
  <2>2. CASE u # t
    BY <1>3, <2>2 DEF PageOK, IInv, PageSound
  <2> QED  BY <2>1, <2>2
<1>9. NeverSilent'
  <2> SUFFICES ASSUME NEW u \in Tabs, open[u], ~overlay'[u], ~held'[u],
                      ~\E c \in calls : c.req[1] = u
               PROVE  \E s \in settled' : s.req[1] = u /\ s.how = "refused"
    BY DEF NeverSilent
  <2>1. u # t /\ ~overlay[u] /\ ~held[u]
    BY <1>3, <1>4
  <2>2. PICK s \in settled : s.req[1] = u /\ s.how = "refused"
    BY <2>1 DEF IInv, NeverSilent
  <2> QED  BY <2>1, <2>2
<1>10. Unmanaged'
  <2> SUFFICES ASSUME NEW u \in Tabs PROVE UnmanagedTab(u)'
    BY <1>0 DEF Unmanaged, IInv
  <2>1. UnmanagedTab(u)
    BY <1>0 DEF IInv, Unmanaged
  <2>2. ASSUME NEW n \in Nat PROVE RefusalOK(u, n)'
    <3>1. RefusalOK(u, n)
      BY <2>1 DEF UnmanagedTab
    <3> QED  BY <1>0, <1>2, <1>3, <3>1 DEF RefusalOK
  <2>3. CASE u = t
    BY <1>4, <2>1, <2>2, <2>3 DEF UnmanagedTab
  <2>4. CASE u # t
    BY <1>2, <1>3, <2>1, <2>2, <2>4 DEF UnmanagedTab
  <2> QED  BY <2>3, <2>4
<1>11. Managed'
  BY <1>0 DEF Managed
<1>12. HasChannel => NewestHeard'
  <2> SUFFICES ASSUME HasChannel, NEW u \in Tabs, NEW v \in Tabs, u # v, held'[u], held'[v]
               PROVE  mail'[u] > 0 \/ mail'[v] > 0
    BY DEF NewestHeard
  <2>1. CASE u = t
    <3>1. open[v]
      BY <1>3, <2>1 DEF IInv, ClosedBlank, Blank, Quiet
    <3> QED  BY <1>5, <2>1, <3>1
  <2>2. CASE v = t
    <3>1. open[u]
      BY <1>3, <2>2 DEF IInv, ClosedBlank, Blank, Quiet
    <3> QED  BY <1>5, <2>2, <3>1
  <2>3. CASE u # t /\ v # t
    <3>1. mail[u] > 0 \/ mail[v] > 0
      BY <1>0, <1>3, <2>3 DEF IInv, NewestHeard
    <3> QED  BY <1>5, <3>1 DEF IInv, TypeOK
  <2> QED  BY <2>1, <2>2, <2>3
<1> QED  BY <1>6, <1>7, <1>8, <1>9, <1>10, <1>11, <1>12 DEF IInv

\* What a hand-over leaves of the requests' places, when the one who held the
\* lock has no callback on its way.
LEMMA PassOn ==
  ASSUME TypeOK, Distinct(queue), HandOver(queue, calls)
  PROVE  /\ queue' \in Seq(Request) /\ Distinct(queue') /\ holder' \in {Free} \cup Request
         /\ calls' \subseteq [req : Request, lock : BOOLEAN] /\ calls \subseteq calls'
         /\ \A r : /\ r \in Queued' => r \in Queued
                   /\ Denied(r)' <=> Denied(r)
                   /\ Called(r)' => Called(r) \/ (holder' = r /\ r \in Queued /\ r \notin Queued')
                   /\ r # Free /\ holder' = r => Called(r)'
<1> USE DEF Queued
<1>1. queue \in Seq(Request)
  BY DEF TypeOK
<1>2. /\ queue' \in Seq(Request) /\ holder' \in {Free} \cup Request
      /\ Elems(queue') \subseteq Elems(queue) /\ Distinct(queue')
      /\ \/ holder' = Free /\ calls' = calls
         \/ \E r \in Elems(queue) :
              /\ holder' = r /\ r \in Request
              /\ calls' = calls \cup {[req |-> r, lock |-> TRUE]}
              /\ r \notin Elems(queue')
  BY <1>1, HandOverEffect
<1>3. CASE holder' = Free /\ calls' = calls
  BY <1>2, <1>3 DEF Called, Denied, TypeOK
<1>4. CASE \E r \in Elems(queue) :
              /\ holder' = r /\ r \in Request
              /\ calls' = calls \cup {[req |-> r, lock |-> TRUE]}
              /\ r \notin Elems(queue')
  <2>1. PICK r \in Elems(queue) :
              /\ holder' = r /\ r \in Request
              /\ calls' = calls \cup {[req |-> r, lock |-> TRUE]}
              /\ r \notin Elems(queue')
    BY <1>4
  <2>2. calls' \subseteq [req : Request, lock : BOOLEAN]
    <3>1. [req |-> r, lock |-> TRUE] \in [req : Request, lock : BOOLEAN]
      BY <2>1
    <3>2. calls \subseteq [req : Request, lock : BOOLEAN]
      BY DEF TypeOK
    <3> QED  BY <2>1, <3>1, <3>2
  <2>3. \A x : (Denied(x)' <=> Denied(x)) /\ (Called(x)' <=> Called(x) \/ x = r)
    BY <2>1 DEF Called, Denied
  <2> QED  BY <1>2, <2>1, <2>2, <2>3
<1> QED  BY <1>2, <1>3, <1>4

\* Nothing of the pages changes, and the lock passes on.
LEMMA PassOnKeeps ==
  ASSUME IInv, mode = "given", UNCHANGED <<mode, page, mail, app>>,
         NEW h \in Tabs, NEW k \in Nat, holder = <<h, k>>, ~Called(<<h, k>>),
         HandOver(queue, calls),
         freeing' = freeing \/ freeing' = freeing \ {<<h, k>>},
         settled' = settled \/ settled' = settled \cup {[req |-> <<h, k>>, how |-> "ended"]},
         <<h, k>> \in freeing \/ (Over(<<h, k>>)' /\ grant[h] = k /\ open[h]),
         grant[h] = k => Over(<<h, k>>)'
  PROVE  IInv'
<1> USE DEF page, app
<1>0. /\ queue' \in Seq(Request) /\ Distinct(queue') /\ holder' \in {Free} \cup Request
      /\ calls' \subseteq [req : Request, lock : BOOLEAN] /\ calls \subseteq calls'
      /\ \A r : /\ r \in Queued' => r \in Queued
                /\ Denied(r)' <=> Denied(r)
                /\ Called(r)' => Called(r) \/ (holder' = r /\ r \in Queued /\ r \notin Queued')
                /\ r # Free /\ holder' = r => Called(r)'
  BY PassOn DEF IInv, Managed
<1>1. \A r : /\ Refusal(r)' <=> Refusal(r)
             /\ Over(r)' => Over(r) \/ r = <<h, k>>
             /\ Over(r) => Over(r)'
  BY DEF Refusal, Over
<1>2. \A u \in Tabs : Room(u)' <=> Room(u)
  BY DEF Room
<1>4. ManagedTab(h) /\ RequestOK(h, k)
  BY DEF IInv, Managed, ManagedTab
<1>5. <<h, k>> \notin Queued /\ k # 0 /\ k <= asked[h] /\ open[h]
  BY <1>4 DEF ManagedTab, RequestOK, IInv, ClosedBlank, Blank, TypeOK
<1>6. TypeOK'
  <2>1. settled' \subseteq [req : Request, how : {"ended", "refused"}]
    BY DEF IInv, TypeOK, Request
  <2> QED  BY <1>0, <2>1 DEF IInv, TypeOK
<1>7. ClosedBlank'
  <2> SUFFICES ASSUME NEW u \in Tabs, ~open[u] PROVE Blank(u)'
    BY DEF ClosedBlank
  <2>1. Blank(u) /\ u # h
    BY <1>5 DEF IInv, ClosedBlank
  <2> QED  BY <1>0, <1>1, <2>1 DEF Blank, Quiet
<1>8. PageSound'
  BY <1>2 DEF IInv, PageSound, PageOK, Quiet
<1>9. NeverSilent'
  BY <1>0 DEF IInv, NeverSilent
<1>10. Managed'
  <2> SUFFICES ASSUME NEW u \in Tabs PROVE ManagedTab(u)'
    BY <1>0 DEF Managed
  <2>1. ManagedTab(u)
    BY DEF IInv, Managed
  <2>2. ASSUME NEW n \in Nat PROVE RequestOK(u, n)'
    <3>1. RequestOK(u, n)
      BY <2>1 DEF ManagedTab
    <3>2. <<u, n>> # Free
      BY DEF Free
    <3>3. <<u, n>> = <<h, k>> => u = h /\ n = k
      OBVIOUS
    <3>4. Called(<<u, n>>) => FALSE
      BY <3>1 DEF RequestOK
    <3>5. Called(<<u, n>>)' => /\ <<u, n>> \in Queued /\ waiting[u] = n /\ n # 0 /\ holder' = <<u, n>>
                               /\ <<u, n>> \notin Queued' /\ Quiet(u) /\ Room(u)
      BY <1>0, <3>1, <3>4 DEF RequestOK, IInv, PageSound, PageOK
    <3> QED  BY <1>0, <1>1, <1>2, <1>4, <1>5, <2>1, <3>1, <3>2, <3>3, <3>4, <3>5
             DEF RequestOK, Quiet, Active, ManagedTab
  <2> QED  BY <1>1, <2>1, <2>2 DEF ManagedTab, Active
<1> QED  BY <1>6, <1>7, <1>8, <1>9, <1>10 DEF IInv, Unmanaged, NewestHeard

\* The holder's callback returns, and the lock passes on.
LEMMA FreeLockKeeps ==
  ASSUME IInv, NEW req \in freeing, FreeLock(req), UNCHANGED app
  PROVE  IInv'
<1> USE DEF FreeLock
<1>1. mode = "given"
  BY DEF IInv, Unmanaged
<1>2. PICK t \in Tabs, n \in Nat : req = <<t, n>>
  BY DEF IInv, TypeOK, Request
<1>3. ManagedTab(t) /\ RequestOK(t, n)
  BY <1>1 DEF IInv, Managed, ManagedTab
<1>4. CASE holder = req
  <2>1. ~Called(<<t, n>>) /\ grant[t] # n
    BY <1>2, <1>3, <1>4 DEF RequestOK
  <2> QED  BY <1>1, <1>2, <1>4, <2>1, PassOnKeeps
<1>5. CASE holder # req
  <2> USE DEF page, app
  <2>1. \A r : /\ Called(r)' <=> Called(r)
               /\ Denied(r)' <=> Denied(r)
               /\ Refusal(r)' <=> Refusal(r)
               /\ Over(r)' <=> Over(r)
    BY <1>5 DEF Called, Denied, Refusal, Over
  <2>2. \A u \in Tabs : Room(u)' <=> Room(u)
    BY DEF Room
  <2>3. TypeOK'
    BY <1>5 DEF IInv, TypeOK
  <2>4. ClosedBlank'
    BY <1>5, <2>1 DEF IInv, ClosedBlank, Blank, Quiet, Queued
  <2>5. PageSound' /\ NeverSilent'
    BY <1>5, <2>2 DEF IInv, PageSound, PageOK, NeverSilent, Quiet
  <2>6. Managed'
    <3> SUFFICES ASSUME NEW u \in Tabs PROVE ManagedTab(u)'
      BY <1>1, <1>5 DEF Managed, IInv
    <3>1. ManagedTab(u) /\ Queued' = Queued
      BY <1>1, <1>5 DEF IInv, Managed, Queued
    <3>2. ASSUME NEW k \in Nat PROVE RequestOK(u, k)'
      <4>1. RequestOK(u, k)
        BY <3>1 DEF ManagedTab
      <4> QED  BY <1>5, <2>1, <2>2, <3>1, <4>1 DEF RequestOK, Quiet, Active
    <3> QED  BY <1>5, <2>1, <3>1, <3>2 DEF ManagedTab, Active
  <2> QED  BY <1>1, <2>3, <2>4, <2>5, <2>6 DEF IInv, Unmanaged, NewestHeard
<1> QED  BY <1>4, <1>5

\* A request that steals takes the lock, and its holder is robbed.
LEMMA StealKeeps ==
  ASSUME IInv, NEW t \in Tabs, Steal(t), UNCHANGED app
  PROVE  IInv'
<1> USE DEF Steal
<1>1. mode = "given"
  BY DEF IInv, Unmanaged, UnmanagedTab
<1>2. grant[t] \in Nat /\ grant[t] # 0 /\ holder = <<t, grant[t]>>
  BY DEF IInv, TypeOK
<1>3. ManagedTab(t) /\ RequestOK(t, grant[t])
  BY <1>1, <1>2 DEF IInv, Managed, ManagedTab
<1>4. ~Called(<<t, grant[t]>>) /\ open[t]
  BY <1>2, <1>3 DEF RequestOK, Quiet, IInv, ClosedBlank, Blank
<1>5. PICK k \in Nat : k = grant[t]
  BY <1>2
<1>6. Over(<<t, k>>)'
  BY <1>2, <1>5 DEF Over
<1> QED  BY <1>1, <1>2, <1>4, <1>5, <1>6, PassOnKeeps

\* What the browser keeps when a page goes.
LEMMA CloseEffect ==
  ASSUME TypeOK, Distinct(queue), NEW t \in Tabs, Close(t)
  PROVE  /\ queue' \in Seq(Request) /\ Distinct(queue') /\ holder' \in {Free} \cup Request
         /\ calls' \subseteq [req : Request, lock : BOOLEAN]
         /\ queue = <<>> => queue' = <<>>
         /\ calls = {} /\ queue = <<>> => calls' = {} /\ (holder = Free => holder' = Free)
         /\ \A c \in calls : c.req[1] # t => c \in calls'
         /\ \A u \in Tabs, n \in Nat : LET r == <<u, n>> IN
              /\ r \in Queued' => r \in Queued /\ u # t
              /\ Denied(r)' <=> Denied(r) /\ u # t
              /\ Called(r)' => /\ u # t
                               /\ Called(r) \/ (holder' = r /\ r \in Queued /\ r \notin Queued')
              /\ u # t /\ holder' = r => Called(r)' \/ holder = r
              /\ u # t /\ holder = r => holder' = r /\ (Called(r)' <=> Called(r))
              /\ u = t => holder' # r
<1> USE DEF Queued
<1> DEFINE others == WithoutTab(queue, t)
           left == {c \in calls : c.req[1] # t}
<1>1. queue \in Seq(Request) /\ calls \subseteq [req : Request, lock : BOOLEAN]
  BY DEF TypeOK
<1>2. /\ others \in Seq(Request) /\ Distinct(others)
      /\ Elems(others) \subseteq {r \in Elems(queue) : r[1] # t}
  BY <1>1, WithoutTabKeeps
<1>3. queue = <<>> => others = <<>>
  <2> SUFFICES ASSUME queue = <<>> PROVE others = <<>>
    OBVIOUS
  <2>1. Elems(queue) = {}
    BY DEF Elems
  <2> HIDE DEF others
  <2>2. Elems(others) = {}
    BY <1>2, <2>1
  <2>3. Len(others) \in Nat /\ (Len(others) # 0 => 1 \in 1..Len(others))
    BY <1>2
  <2>4. Len(others) = 0
    BY <2>2, <2>3 DEF Elems
  <2> QED  BY <1>2, <2>4
<1>4. IF holder # Free /\ holder[1] = t
      THEN HandOver(others, left)
      ELSE holder' = holder /\ queue' = others /\ calls' = left
  BY DEF Close
<1> HIDE DEF others
<1>5. CASE holder # Free /\ holder[1] = t
  <2>1. /\ queue' \in Seq(Request) /\ holder' \in {Free} \cup Request
        /\ Elems(queue') \subseteq Elems(others) /\ Distinct(queue')
        /\ \/ holder' = Free /\ calls' = left
           \/ \E r \in Elems(others) :
                /\ holder' = r /\ r \in Request
                /\ calls' = left \cup {[req |-> r, lock |-> TRUE]}
                /\ r \notin Elems(queue')
    BY <1>2, <1>4, <1>5, HandOverEffect
  <2>2. others = <<>> => queue' = <<>> /\ holder' = Free /\ calls' = left
    BY <1>4, <1>5 DEF HandOver
  <2>3. CASE holder' = Free /\ calls' = left
    <3>1. \A u \in Tabs, n \in Nat : holder' # <<u, n>>
      BY <2>3 DEF Free
    <3> QED  BY <1>1, <1>2, <1>3, <1>5, <2>1, <2>2, <2>3, <3>1 DEF Called, Denied
  <2>4. CASE \E r \in Elems(others) :
                /\ holder' = r /\ r \in Request
                /\ calls' = left \cup {[req |-> r, lock |-> TRUE]}
                /\ r \notin Elems(queue')
    <3>1. PICK r \in Elems(others) :
                /\ holder' = r /\ r \in Request
                /\ calls' = left \cup {[req |-> r, lock |-> TRUE]}
                /\ r \notin Elems(queue')
      BY <2>4
    <3>2. r \in Elems(queue) /\ r[1] # t
      BY <1>2
    <3>3. calls' \subseteq [req : Request, lock : BOOLEAN]
      <4>1. [req |-> r, lock |-> TRUE] \in [req : Request, lock : BOOLEAN]
        BY <3>1
      <4> QED  BY <1>1, <3>1, <4>1
    <3>4. \A u \in Tabs, n \in Nat :
            /\ Denied(<<u, n>>)' <=> Denied(<<u, n>>) /\ u # t
            /\ Called(<<u, n>>)' <=> (Called(<<u, n>>) /\ u # t) \/ r = <<u, n>>
      BY <3>1 DEF Called, Denied
    <3>5. queue # <<>>
      BY <3>2 DEF Elems
    <3> QED  BY SMTT(30), <1>2, <1>5, <2>1, <3>1, <3>2, <3>3, <3>4, <3>5
  <2> QED  BY <2>1, <2>3, <2>4
<1>6. CASE ~(holder # Free /\ holder[1] = t)
  <2>1. holder' = holder /\ queue' = others /\ calls' = left
    BY <1>4, <1>6
  <2>2. \A u \in Tabs, n \in Nat : holder = <<u, n>> => u # t
    BY <1>6 DEF Free
  <2>3. \A u \in Tabs, n \in Nat :
            /\ Denied(<<u, n>>)' <=> Denied(<<u, n>>) /\ u # t
            /\ Called(<<u, n>>)' <=> Called(<<u, n>>) /\ u # t
    BY <2>1 DEF Called, Denied
  <2> QED  BY <1>1, <1>2, <1>3, <2>1, <2>2, <2>3 DEF TypeOK
<1> QED  BY <1>5, <1>6

\* A page goes: nothing of it is left with the browser.
LEMMA UnloadKeeps ==
  ASSUME IInv, NEW t \in Tabs, Unload(t), flag' \in [Tabs -> BOOLEAN]
  PROVE  IInv'
<1> USE DEF Unload, Show
<1>1. Distinct(queue)
  BY DEF IInv, Managed, Unmanaged, Distinct
<1>2. /\ queue' \in Seq(Request) /\ Distinct(queue') /\ holder' \in {Free} \cup Request
      /\ calls' \subseteq [req : Request, lock : BOOLEAN]
      /\ queue = <<>> => queue' = <<>>
      /\ calls = {} /\ queue = <<>> => calls' = {} /\ (holder = Free => holder' = Free)
      /\ \A c \in calls : c.req[1] # t => c \in calls'
      /\ \A u \in Tabs, n \in Nat : LET r == <<u, n>> IN
           /\ r \in Queued' => r \in Queued /\ u # t
           /\ Denied(r)' <=> Denied(r) /\ u # t
           /\ Called(r)' => /\ u # t
                            /\ Called(r) \/ (holder' = r /\ r \in Queued /\ r \notin Queued')
           /\ u # t /\ holder' = r => Called(r)' \/ holder = r
           /\ u # t /\ holder = r => holder' = r /\ (Called(r)' <=> Called(r))
           /\ u = t => holder' # r
  BY <1>1, CloseEffect DEF IInv
<1>3. \A u \in Tabs, n \in Nat :
        /\ Over(<<u, n>>)' <=> Over(<<u, n>>) /\ u # t
        /\ Refusal(<<u, n>>)' <=> Refusal(<<u, n>>) /\ u # t
        /\ <<u, n>> \in freeing' <=> <<u, n>> \in freeing /\ u # t
  BY DEF Close, Over, Refusal
<1>4. \A u \in Tabs : u # t =>
        /\ open'[u] = open[u] /\ locks'[u] = locks[u] /\ held'[u] = held[u]
        /\ grant'[u] = grant[u] /\ waiting'[u] = waiting[u] /\ stopping'[u] = stopping[u]
        /\ asked'[u] = asked[u] /\ mail'[u] = mail[u] /\ loads'[u] = loads[u]
        /\ rns'[u] = rns[u] /\ overlay'[u] = overlay[u]
  BY DEF Close, IInv, TypeOK
<1>5. /\ ~open'[t] /\ ~locks'[t] /\ ~held'[t] /\ grant'[t] = 0 /\ waiting'[t] = 0 /\ ~stopping'[t]
      /\ asked'[t] = 0 /\ mail'[t] = 0 /\ loads'[t] = 0 /\ ~rns'[t]
      /\ ~overlay'[t]
  BY DEF Close, IInv, TypeOK
<1>6. \A u \in Tabs : u # t => /\ Room(u)' <=> Room(u)
                               /\ Quiet(u)' <=> Quiet(u)
                               /\ Active(u)' <=> Active(u)
  BY <1>4 DEF Room, Quiet, Active
<1>7. TypeOK'
  <2>1. /\ mode' \in LockModes /\ storage' \in StorageModes
        /\ freeing' \subseteq Request
        /\ settled' \subseteq [req : Request, how : {"ended", "refused"}]
    BY DEF Close, IInv, TypeOK
  <2>2. /\ open' \in [Tabs -> BOOLEAN] /\ locks' \in [Tabs -> BOOLEAN]
        /\ held' \in [Tabs -> BOOLEAN] /\ stopping' \in [Tabs -> BOOLEAN]
        /\ grant' \in [Tabs -> Nat] /\ waiting' \in [Tabs -> Nat]
    BY DEF Close, IInv, TypeOK
  <2>3. /\ asked' \in [Tabs -> 0..MaxRequests] /\ mail' \in [Tabs -> 0..MaxMail]
    BY TabLockAssumption DEF Close, IInv, TypeOK
  <2>4. /\ configured' \in [Tabs -> BOOLEAN] /\ rns' \in [Tabs -> BOOLEAN]
        /\ loads' \in [Tabs -> 0..MaxLoads]
        /\ overlay' \in [Tabs -> BOOLEAN]
    BY ActiveTabAssumption DEF IInv, TypeOK
  <2> QED  BY <1>2, <2>1, <2>2, <2>3, <2>4 DEF TypeOK
<1>8. ClosedBlank'
  <2> SUFFICES ASSUME NEW u \in Tabs, ~open'[u] PROVE Blank(u)'
    BY DEF ClosedBlank
  <2>1. CASE u = t
    BY <1>2, <1>3, <1>5, <2>1 DEF Blank, Quiet
  <2>2. CASE u # t
    <3>1. Blank(u)
      BY <1>4, <2>2 DEF IInv, ClosedBlank
    <3> QED  BY <1>2, <1>3, <1>4, <1>6, <2>2, <3>1 DEF Blank
  <2> QED  BY <2>1, <2>2
<1>9. PageSound'
  <2> SUFFICES ASSUME NEW u \in Tabs PROVE PageOK(u)'
    BY DEF PageSound
  <2>1. CASE u = t
    BY <1>5, <2>1 DEF PageOK
  <2>2. CASE u # t
    BY <1>4, <1>6, <2>2 DEF PageOK, IInv, PageSound
  <2> QED  BY <2>1, <2>2
<1>10. NeverSilent'
  <2> SUFFICES ASSUME NEW u \in Tabs, open'[u], ~overlay'[u], ~held'[u],
                      ~\E c \in calls' : c.req[1] = u
               PROVE  \E s \in settled' : s.req[1] = u /\ s.how = "refused"
    BY DEF NeverSilent
  <2>1. u # t /\ open[u] /\ ~overlay[u] /\ ~held[u]
    BY <1>4, <1>5
  <2>2. ~\E c \in calls : c.req[1] = u
    BY <1>2, <2>1
  <2>3. PICK s \in settled : s.req[1] = u /\ s.how = "refused"
    BY <2>1, <2>2 DEF IInv, NeverSilent
  <2> QED  BY <2>1, <2>3 DEF Close
<1>11. mode' = mode
  BY DEF Close
<1>12. Unmanaged'
  <2> SUFFICES ASSUME mode # "given"
               PROVE  /\ holder' = Free /\ queue' = <<>> /\ calls' = {} /\ freeing' = {}
                      /\ \A u \in Tabs : UnmanagedTab(u)'
    BY <1>11 DEF Unmanaged
  <2>1. freeing' = {}
    BY DEF Close, IInv, Unmanaged
  <2>2. holder' = Free /\ queue' = <<>> /\ calls' = {}
    BY <1>2 DEF IInv, Unmanaged
  <2>3. ASSUME NEW u \in Tabs PROVE UnmanagedTab(u)'
    <3>1. CASE u = t
      BY <1>3, <1>5, <3>1 DEF UnmanagedTab, RefusalOK
    <3>2. CASE u # t
      <4>1. UnmanagedTab(u)
        BY DEF IInv, Unmanaged
      <4> QED  BY <1>3, <1>4, <1>6, <1>11, <3>2, <4>1 DEF UnmanagedTab, RefusalOK
    <3> QED  BY <3>1, <3>2
  <2> QED  BY <2>1, <2>2, <2>3
<1>13. Managed'
  <2> SUFFICES ASSUME mode = "given", NEW u \in Tabs PROVE ManagedTab(u)'
    BY <1>2, <1>11 DEF Managed
  <2>1. CASE u = t
    <3>1. ASSUME NEW n \in Nat PROVE RequestOK(u, n)'
      BY <1>2, <1>3, <2>1 DEF RequestOK
    <3> QED  BY <1>5, <2>1, <3>1 DEF ManagedTab, Active
  <2>2. CASE u # t
    <3>1. ManagedTab(u) /\ PageOK(u)
      BY DEF IInv, Managed, PageSound
    <3>2. ASSUME NEW n \in Nat PROVE RequestOK(u, n)'
      <4>1. RequestOK(u, n)
        BY <3>1 DEF ManagedTab
      <4>2. Called(<<u, n>>)' => \/ Called(<<u, n>>)
                                 \/ /\ <<u, n>> \in Queued /\ holder' = <<u, n>> /\ <<u, n>> \notin Queued'
                                    /\ waiting[u] = n /\ n # 0 /\ Quiet(u) /\ Room(u)
        BY <1>2, <3>1, <4>1 DEF RequestOK, PageOK
      <4>3. 1 \in Nat
        OBVIOUS
      <4> QED  BY <1>2, <1>3, <1>4, <1>6, <2>2, <3>1, <4>1, <4>2, <4>3 DEF RequestOK, ManagedTab
    <3>3. grant[u] \in Nat
      BY DEF IInv, TypeOK
    <3> QED  BY ZenonT(40), <1>2, <1>3, <1>4, <1>6, <2>2, <3>1, <3>2, <3>3 DEF ManagedTab
  <2> QED  BY <2>1, <2>2
<1>14. HasChannel => NewestHeard'
  <2> SUFFICES ASSUME HasChannel, mode # "given",
                      NEW u \in Tabs, NEW v \in Tabs, u # v, held'[u], held'[v]
               PROVE  mail'[u] > 0 \/ mail'[v] > 0
    BY <1>11 DEF NewestHeard
  <2> QED  BY <1>4, <1>5 DEF IInv, NewestHeard
<1> QED  BY <1>7, <1>8, <1>9, <1>10, <1>12, <1>13, <1>14 DEF IInv

\* Where request k of tab t went: it was refused, given the lock, denied it
\* or queued; no other request moved.
Placed(t, k, soon) ==
  LET r == <<t, k>> IN
  /\ queue' \in Seq(Request) /\ holder' \in {Free} \cup Request
  /\ calls' \subseteq [req : Request, lock : BOOLEAN] /\ calls \subseteq calls'
  /\ settled' \subseteq [req : Request, how : {"ended", "refused"}] /\ settled \subseteq settled'
  /\ freeing' = freeing
  /\ Distinct(queue) /\ r \notin Queued => Distinct(queue')
  /\ mode = "refused" => /\ UNCHANGED <<holder, queue, calls>>
                         /\ [req |-> r, how |-> "refused"] \in settled'
  /\ mode = "given" =>
       /\ settled' = settled
       /\ \/ /\ holder' = r /\ Called(r)' /\ [req |-> r, lock |-> TRUE] \in calls'
             /\ (Denied(r)' <=> Denied(r)) /\ r \notin Queued'
          \/ /\ soon /\ Denied(r)' /\ [req |-> r, lock |-> FALSE] \in calls'
             /\ holder' = holder /\ Queued' = Queued /\ (Called(r)' <=> Called(r))
          \/ /\ ~soon /\ r \in Queued' /\ holder' = holder
             /\ (Called(r)' <=> Called(r)) /\ (Denied(r)' <=> Denied(r))
  /\ \A u \in Tabs, n \in Nat : LET x == <<u, n>> IN
       /\ Over(x)' <=> Over(x)
       /\ Refusal(x)' <=> Refusal(x) \/ (mode = "refused" /\ u = t /\ n = k)
       /\ u # t \/ n # k => /\ x \in Queued' <=> x \in Queued
                            /\ Called(x)' <=> Called(x)
                            /\ Denied(x)' <=> Denied(x)
                            /\ holder' = x <=> holder = x

\* A request that is made is placed.
LEMMA AskEffect ==
  ASSUME TypeOK, NEW t \in Tabs, NEW k \in Nat, NEW soon \in BOOLEAN,
         Ask(t, k, soon), mode \in {"given", "refused"}
  PROVE  Placed(t, k, soon)
<1> DEFINE r == <<t, k>>
<1> USE DEF Placed, Queued, Called, Denied, Over, Refusal
<1>1. /\ r \in Request /\ queue \in Seq(Request)
      /\ calls \subseteq [req : Request, lock : BOOLEAN]
      /\ settled \subseteq [req : Request, how : {"ended", "refused"}]
      /\ holder \in {Free} \cup Request
  BY DEF TypeOK, Request
<1>2. \A u \in Tabs, n \in Nat : <<u, n>> = r <=> u = t /\ n = k
  OBVIOUS
<1>3. \A u \in Tabs, n \in Nat : <<u, n>> # Free
  BY DEF Free
<1> HIDE DEF r
<1>4. CASE mode = "refused"
  <2>1. /\ settled' = settled \cup {[req |-> r, how |-> "refused"]}
        /\ UNCHANGED <<holder, queue, calls, freeing>>
    BY <1>4 DEF Ask, r
  <2>2. [req |-> r, how |-> "refused"] \in [req : Request, how : {"ended", "refused"}]
    BY <1>1
  <2> QED  BY <1>1, <1>2, <1>4, <2>1, <2>2 DEF r
<1>5. CASE mode = "given" /\ holder = Free /\ queue = <<>>
  <2>1. /\ holder' = r /\ queue' = <<>> /\ calls' = calls \cup {[req |-> r, lock |-> TRUE]}
        /\ UNCHANGED <<freeing, settled>>
    <3>1. HandOver(<<r>>, calls) /\ UNCHANGED <<freeing, settled>>
      BY <1>5 DEF Ask, r
    <3>2. <<r>> # <<>> /\ Head(<<r>>) = r /\ Tail(<<r>>) = <<>>
      BY <1>1
    <3> QED  BY <3>1, <3>2 DEF HandOver
  <2>2. [req |-> r, lock |-> TRUE] \in [req : Request, lock : BOOLEAN]
    BY <1>1
  <2>3. Elems(<<>>) = {} /\ Distinct(<<>>)
    BY DEF Elems, Distinct
  <2> QED  BY <1>1, <1>2, <1>3, <1>5, <2>1, <2>2, <2>3 DEF r
<1>6. CASE mode = "given" /\ (holder # Free \/ queue # <<>>) /\ soon
  <2>1. /\ calls' = calls \cup {[req |-> r, lock |-> FALSE]}
        /\ UNCHANGED <<holder, queue, freeing, settled>>
    BY <1>6 DEF Ask, r
  <2>2. [req |-> r, lock |-> FALSE] \in [req : Request, lock : BOOLEAN]
    BY <1>1
  <2> QED  BY <1>1, <1>2, <1>6, <2>1, <2>2 DEF r
<1>7. CASE mode = "given" /\ (holder # Free \/ queue # <<>>) /\ ~soon
  <2>1. queue' = Append(queue, r) /\ UNCHANGED <<holder, calls, freeing, settled>>
    BY <1>7 DEF Ask, r
  <2>2. /\ queue' \in Seq(Request) /\ Elems(queue') = Elems(queue) \cup {r}
        /\ Distinct(queue) /\ r \notin Elems(queue) => Distinct(queue')
    BY <1>1, <2>1, AppendEffect
  <2> QED  BY <1>1, <1>2, <1>7, <2>1, <2>2 DEF r
<1> QED  BY <1>4, <1>5, <1>6, <1>7

\* A page opens, with a request of its own when it has an identity.
LEMMA StartKeeps ==
  ASSUME IInv, NEW t \in Tabs, AppStart(t)
  PROVE  IInv'
<1> USE DEF AppStart, Start, Activate, Connect, Show, TakeWithoutLocks
<1>1. /\ ~open[t] /\ Blank(t) /\ PageOK(t) /\ flag[t] \in BOOLEAN /\ Room(t)
      /\ mode' = mode /\ mode \in {"given", "refused", "absent"}
      /\ held[t] \in BOOLEAN /\ loads[t] \in Nat
  BY TabLockAssumption, ActiveTabAssumption DEF IInv, TypeOK, ClosedBlank, PageSound, Room, Blank
<1>2. \A u \in Tabs : u # t =>
        /\ open'[u] = open[u] /\ locks'[u] = locks[u] /\ held'[u] = held[u]
        /\ grant'[u] = grant[u] /\ waiting'[u] = waiting[u] /\ stopping'[u] = stopping[u]
        /\ asked'[u] = asked[u] /\ loads'[u] = loads[u]
        /\ rns'[u] = rns[u] /\ overlay'[u] = overlay[u]
  BY <1>1 DEF IInv, TypeOK, manager
<1>3. \A u \in Tabs : u # t => /\ Room(u)' <=> Room(u)
                               /\ Quiet(u)' <=> Quiet(u)
                               /\ Active(u)' <=> Active(u)
  BY <1>2 DEF Room, Quiet, Active
<1>4. /\ mail' \in [Tabs -> 0..MaxMail]
      /\ \A u \in Tabs : /\ mail[u] \in Nat /\ mail'[u] \in Nat /\ mail'[u] >= mail[u]
                         /\ u = t \/ ~open[u] => mail'[u] = mail[u]
                         /\ mode = "absent" /\ HasChannel /\ u # t /\ open[u] => mail'[u] > 0
  <2>1. mail \in [Tabs -> 0..MaxMail] /\ \A u \in Tabs : mail[u] \in Nat
    BY TabLockAssumption DEF IInv, TypeOK
  <2>2. Broadcast(t, open) \/ (mode # "absent" /\ mail' = mail)
    BY <1>1
  <2>3. mail' \in [Tabs -> 0..MaxMail] => \A u \in Tabs : mail'[u] \in Nat
    BY TabLockAssumption
  <2> QED  BY <2>1, <2>2, <2>3, BroadcastEffect
<1>5. /\ open'[t] = TRUE /\ grant'[t] = 0 /\ stopping'[t] = FALSE
      /\ rns'[t] = FALSE
  BY <1>1 DEF IInv, TypeOK, Blank, Quiet
<1>6. CASE mode = "absent"
  <2>1. /\ held' = [held EXCEPT ![t] = TRUE] /\ locks' = [locks EXCEPT ![t] = FALSE]
        /\ overlay' = [overlay EXCEPT ![t] = FALSE] /\ loads' = [loads EXCEPT ![t] = @ + 1]
        /\ UNCHANGED <<waiting, asked, manager>>
    BY <1>6 DEF IInv, TypeOK
  <2>2. /\ held'[t] = TRUE /\ locks'[t] = FALSE /\ waiting'[t] = 0
        /\ ~overlay'[t] /\ loads'[t] = loads[t] + 1 /\ loads[t] = 0
    BY <1>1, <2>1 DEF IInv, TypeOK, Blank
  <2>3. \A r : /\ Called(r)' <=> Called(r)
               /\ Denied(r)' <=> Denied(r)
               /\ Refusal(r)' <=> Refusal(r)
               /\ Over(r)' <=> Over(r)
    BY <2>1 DEF Called, Denied, Refusal, Over, manager
  <2>4. TypeOK'
    <3>1. loads[t] + 1 \in 0..MaxLoads
      BY <2>2, ActiveTabAssumption
    <3> QED  BY <1>4, <2>1, <3>1 DEF IInv, TypeOK, manager
  <2>5. ClosedBlank'
    <3> SUFFICES ASSUME NEW u \in Tabs, ~open'[u] PROVE Blank(u)'
      BY DEF ClosedBlank
    <3>1. Blank(u) /\ u # t
      BY <1>2, <1>5 DEF IInv, ClosedBlank
    <3>2. Queued' = Queued /\ freeing' = freeing /\ ~open[u]
      BY <1>2, <2>1, <3>1 DEF Queued, manager
    <3> QED  BY <1>2, <1>3, <1>4, <2>3, <3>1, <3>2 DEF Blank
  <2>6. PageSound'
    <3> SUFFICES ASSUME NEW u \in Tabs PROVE PageOK(u)'
      BY DEF PageSound
    <3>1. CASE u = t
      BY <1>5, <2>2, <3>1 DEF PageOK
    <3>2. CASE u # t
      BY <1>2, <1>3, <3>2 DEF PageOK, IInv, PageSound
    <3> QED  BY <3>1, <3>2
  <2>7. NeverSilent'
    <3> SUFFICES ASSUME NEW u \in Tabs, open'[u], ~overlay'[u], ~held'[u]
                 PROVE  \/ \E c \in calls : c.req[1] = u
                        \/ \E s \in settled : s.req[1] = u /\ s.how = "refused"
      BY <2>1 DEF NeverSilent, manager
    <3> QED  BY <1>2, <2>2 DEF IInv, NeverSilent
  <2>8. Unmanaged'
    <3>1. holder' = Free /\ queue' = <<>> /\ calls' = {} /\ freeing' = {}
      BY <1>6, <2>1 DEF IInv, Unmanaged, manager
    <3>2. ASSUME NEW u \in Tabs PROVE UnmanagedTab(u)'
      <4>1. UnmanagedTab(u)
        BY <1>6 DEF IInv, Unmanaged
      <4>2. ASSUME NEW n \in Nat PROVE RefusalOK(u, n)'
        BY <1>1, <1>6, <2>3, <4>1 DEF UnmanagedTab, RefusalOK
      <4> QED  BY <1>2, <1>5, <2>2, <2>3, <4>1, <4>2 DEF UnmanagedTab
    <3> QED  BY <3>1, <3>2 DEF Unmanaged
  <2>9. HasChannel => NewestHeard'
    <3> SUFFICES ASSUME HasChannel, NEW u \in Tabs, NEW v \in Tabs, u # v, held'[u], held'[v]
                 PROVE  mail'[u] > 0 \/ mail'[v] > 0
      BY DEF NewestHeard
    <3>1. CASE u = t
      <4>1. open[v]
        BY <1>2, <3>1 DEF IInv, ClosedBlank, Blank, Quiet
      <4> QED  BY <1>4, <1>6, <3>1, <4>1
    <3>2. CASE v = t
      <4>1. open[u]
        BY <1>2, <3>2 DEF IInv, ClosedBlank, Blank, Quiet
      <4> QED  BY <1>4, <1>6, <3>2, <4>1
    <3>3. CASE u # t /\ v # t
      <4>1. mail[u] > 0 \/ mail[v] > 0
        BY <1>2, <1>6, <3>3 DEF IInv, NewestHeard
      <4> QED  BY <1>4, <4>1
    <3> QED  BY <3>1, <3>2, <3>3
  <2> QED  BY <1>1, <1>6, <2>4, <2>5, <2>6, <2>7, <2>8, <2>9 DEF IInv, Managed
<1>7. CASE mode # "absent"
  <2> DEFINE k == 1
  <2>1. /\ Ask(t, 1, ~flag[t]) /\ asked' = [asked EXCEPT ![t] = 1] /\ held' = held
        /\ locks' = [locks EXCEPT ![t] = TRUE] /\ loads' = loads
        /\ overlay' = [overlay EXCEPT ![t] = flag[t]]
        /\ waiting' = IF flag[t] THEN [waiting EXCEPT ![t] = 1] ELSE waiting
    BY <1>1, <1>7 DEF Blank, Quiet
  <2>2. /\ ~held'[t] /\ locks'[t] = TRUE /\ asked'[t] = 1 /\ loads'[t] = 0
        /\ overlay'[t] = flag[t]
        /\ waiting'[t] = IF flag[t] THEN 1 ELSE 0
    BY <1>1, <2>1 DEF IInv, TypeOK, Blank, Quiet
  <2>3. /\ Quiet(t)' /\ ~Active(t)' /\ Room(t)'
      BY <1>1, <1>5, <2>2 DEF Quiet, Active, Room
  <2>4. Placed(t, 1, ~flag[t])
    <3>1. TypeOK /\ mode \in {"given", "refused"} /\ (~flag[t]) \in BOOLEAN
      BY <1>1, <1>7 DEF IInv
    <3> QED  BY <2>1, <3>1, AskEffect
  <2>5. TypeOK'
    <3>1. 1 \in 0..MaxRequests
      BY TabLockAssumption
    <3>2. /\ open' \in [Tabs -> BOOLEAN] /\ locks' \in [Tabs -> BOOLEAN]
          /\ asked' \in [Tabs -> 0..MaxRequests] /\ waiting' \in [Tabs -> Nat]
          /\ flag' \in [Tabs -> BOOLEAN]
          /\ overlay' \in [Tabs -> BOOLEAN]
      BY <2>1, <3>1 DEF IInv, TypeOK
    <3> QED  BY <1>4, <2>1, <2>4, <3>2 DEF IInv, TypeOK, Placed
  <2>6. ClosedBlank'
    <3> SUFFICES ASSUME NEW u \in Tabs, ~open'[u] PROVE Blank(u)'
      BY DEF ClosedBlank
    <3>1. u # t /\ ~open[u]
      BY <1>2, <1>5
    <3>2. Blank(u)
      BY <3>1 DEF IInv, ClosedBlank
    <3> QED  BY <1>2, <1>3, <1>4, <2>4, <3>1, <3>2 DEF Blank, Placed
  <2>7. PageSound'
    <3> SUFFICES ASSUME NEW u \in Tabs PROVE PageOK(u)'
      BY DEF PageSound
    <3>1. CASE u = t
      BY <1>5, <2>2, <2>3, <3>1 DEF PageOK
    <3>2. CASE u # t
      BY <1>2, <1>3, <3>2 DEF PageOK, IInv, PageSound
    <3> QED  BY <3>1, <3>2
  <2>8. NeverSilent'
    <3> SUFFICES ASSUME NEW u \in Tabs, open'[u], ~overlay'[u], ~held'[u]
                 PROVE  \/ \E c \in calls' : c.req[1] = u
                        \/ \E s \in settled' : s.req[1] = u /\ s.how = "refused"
      BY DEF NeverSilent
    <3>1. CASE u # t
      <4>1. open[u] /\ ~overlay[u] /\ ~held[u]
        BY <1>2, <3>1
      <4>2. \/ \E c \in calls : c.req[1] = u
            \/ \E s \in settled : s.req[1] = u /\ s.how = "refused"
        BY <4>1 DEF IInv, NeverSilent
      <4> QED  BY <2>4, <4>2 DEF Placed
    <3>2. CASE u = t /\ mode = "refused"
      <4>1. [req |-> <<t, 1>>, how |-> "refused"].req[1] = t
        OBVIOUS
      <4> QED  BY <2>4, <3>2, <4>1 DEF Placed
    <3>3. CASE u = t /\ mode = "given"
      <4>1. ~flag[t]
        BY <2>2, <3>3
      <4>2. \E b \in BOOLEAN : [req |-> <<t, 1>>, lock |-> b] \in calls'
        BY <2>4, <3>3, <4>1 DEF Placed
      <4> QED  BY <3>3, <4>2
    <3> QED  BY <1>1, <1>7, <3>1, <3>2, <3>3
  <2>9. Unmanaged'
    <3> SUFFICES ASSUME mode = "refused"
                 PROVE  /\ holder' = Free /\ queue' = <<>> /\ calls' = {} /\ freeing' = {}
                        /\ \A u \in Tabs : UnmanagedTab(u)'
      BY <1>1, <1>7 DEF Unmanaged
    <3>1. holder' = Free /\ queue' = <<>> /\ calls' = {} /\ freeing' = {}
      BY <2>4 DEF IInv, Unmanaged, Placed
    <3>2. ASSUME NEW u \in Tabs PROVE UnmanagedTab(u)'
      <4>1. UnmanagedTab(u)
        BY DEF IInv, Unmanaged
      <4>2. CASE u # t
        BY <1>1, <1>2, <1>3, <2>4, <4>1, <4>2 DEF UnmanagedTab, RefusalOK, Placed
      <4>3. CASE u = t
        <5>1. ASSUME NEW n \in Nat PROVE RefusalOK(u, n)'
          BY <1>1, <2>2, <2>3, <2>4, <4>1, <4>3, <5>1 DEF UnmanagedTab, RefusalOK, Blank, Placed
        <5>2. Refusal(<<u, 1>>)'
          BY <2>4, <4>3 DEF Placed
        <5> QED  BY <1>5, <2>2, <4>3, <5>1, <5>2 DEF UnmanagedTab
      <4> QED  BY <4>2, <4>3
    <3> QED  BY <3>1, <3>2
  <2>10. Managed'
    <3> SUFFICES ASSUME mode = "given"
                 PROVE  Distinct(queue)' /\ \A u \in Tabs : ManagedTab(u)'
      BY <1>1 DEF Managed
    <3>1. <<t, 1>> \notin Queued /\ 1 \in Nat
      BY <1>1 DEF Blank
    <3>2. Distinct(queue)'
      BY <2>4, <3>1 DEF IInv, Managed, Placed
    <3>3. ASSUME NEW u \in Tabs PROVE ManagedTab(u)'
      <4>1. ManagedTab(u) /\ grant[u] \in Nat
        BY DEF IInv, Managed, TypeOK
      <4>2. CASE u # t
        <5>1. ASSUME NEW n \in Nat PROVE RequestOK(u, n)'
          <6>1. RequestOK(u, n)
            BY <4>1 DEF ManagedTab
          <6> QED  BY <1>2, <1>3, <2>4, <3>1, <4>1, <4>2, <6>1 DEF RequestOK, Placed
        <5> QED  BY <1>2, <1>3, <2>4, <4>1, <4>2, <5>1 DEF ManagedTab, Placed
      <4>3. CASE u = t
        <5>1. ASSUME NEW n \in Nat PROVE RequestOK(u, n)'
          <6>1. RequestOK(u, n)
            BY <4>1 DEF ManagedTab
          <6>2. CASE n = 1
            BY SMTT(30), <1>1, <1>5, <2>2, <2>3, <2>4, <4>3, <6>1, <6>2 DEF RequestOK, Blank, Placed
          <6>3. CASE n # 1
            BY <1>1, <1>5, <2>2, <2>3, <2>4, <4>3, <6>1, <6>3 DEF RequestOK, Blank, Active, Quiet, Placed
          <6> QED  BY <6>2, <6>3
        <5> QED  BY <1>5, <2>2, <2>3, <4>3, <5>1 DEF ManagedTab
      <4> QED  BY <4>2, <4>3
    <3> QED  BY <3>2, <3>3
  <2>11. HasChannel => NewestHeard'
    <3> SUFFICES ASSUME HasChannel, mode = "refused",
                        NEW u \in Tabs, NEW v \in Tabs, u # v, held[u], held[v]
                 PROVE  mail'[u] > 0 \/ mail'[v] > 0
      BY <1>1, <1>7, <2>1 DEF NewestHeard
    <3>1. mail[u] > 0 \/ mail[v] > 0
      BY DEF IInv, NewestHeard
    <3> QED  BY <1>4, <3>1
  <2> QED  BY <2>5, <2>6, <2>7, <2>8, <2>9, <2>10, <2>11 DEF IInv
<1> QED  BY <1>6, <1>7

\* "Use here" makes a page the newest, and asks for the lock by stealing it.
LEMMA UseHereInPlaceKeeps ==
  ASSUME IInv, NEW t \in Tabs, UseHereInPlace(t)
  PROVE  IInv'
<1> USE DEF UseHereInPlace, Activate, Connect, Show, TakeWithoutLocks
<1>1. /\ open[t] /\ overlay[t] /\ ~held[t] /\ ~stopping[t]
      /\ PageOK(t) /\ ~rns[t] /\ Room(t)
      /\ mode' = mode /\ mode \in {"given", "refused", "absent"}
      /\ loads[t] \in Nat /\ waiting[t] \in Nat /\ asked[t] \in Nat
  <2>1. PageOK(t) /\ held[t] \in BOOLEAN /\ loads[t] \in Nat /\ waiting[t] \in Nat /\ asked[t] \in Nat
    BY TabLockAssumption DEF IInv, TypeOK, PageSound
  <2>2. open[t] /\ overlay[t] /\ ~held[t] /\ ~stopping[t] /\ mode' = mode
    BY DEF TakeOver, Idle
  <2>3. Room(t) /\ ~rns[t]
    BY <2>1, <2>2 DEF PageOK, MayLoad, Room
  <2> QED  BY <2>1, <2>2, <2>3, TabLockAssumption DEF IInv, TypeOK
<1>2. /\ UNCHANGED <<open, locks, grant, stopping, storage, flag, configured, rns>>
      /\ Broadcast(t, open)
  BY DEF TakeOver
<1>3. /\ mail' \in [Tabs -> 0..MaxMail]
      /\ \A u \in Tabs : /\ mail[u] \in Nat /\ mail'[u] \in Nat /\ mail'[u] >= mail[u]
                         /\ u = t \/ ~open[u] => mail'[u] = mail[u]
                         /\ HasChannel /\ u # t /\ open[u] => mail'[u] > 0
  <2>1. mail \in [Tabs -> 0..MaxMail] /\ \A u \in Tabs : mail[u] \in Nat
    BY TabLockAssumption DEF IInv, TypeOK
  <2>2. mail' \in [Tabs -> 0..MaxMail] => \A u \in Tabs : mail'[u] \in Nat
    BY TabLockAssumption
  <2> QED  BY <1>2, <2>1, <2>2, BroadcastEffect
<1>4. ASSUME ~locks[t], held' = [held EXCEPT ![t] = TRUE], UNCHANGED <<waiting, asked, manager>>
      PROVE  IInv'
  <2>1. mode # "given" /\ Quiet(t)
    <3>1. mode # "given"
      BY <1>1, <1>4 DEF IInv, Managed, ManagedTab
    <3> QED  BY <1>1, <3>1 DEF IInv, Unmanaged, UnmanagedTab, Quiet
  <2>2. held'[t] = TRUE
    BY <1>4 DEF IInv, TypeOK
  <2>3. /\ overlay' = [overlay EXCEPT ![t] = FALSE] /\ loads' = [loads EXCEPT ![t] = @ + 1]
    BY <2>2
  <2>4. ~overlay'[t] /\ loads'[t] = loads[t] + 1
    BY <2>3 DEF IInv, TypeOK
  <2>5. \A u \in Tabs : u # t =>
          /\ held'[u] = held[u] /\ overlay'[u] = overlay[u] /\ loads'[u] = loads[u]
          /\ (Room(u)' <=> Room(u)) /\ (Quiet(u)' <=> Quiet(u))
    BY <1>2, <1>4, <2>3 DEF IInv, TypeOK, Room, Quiet
  <2>6. \A r : /\ Called(r)' <=> Called(r)
               /\ Denied(r)' <=> Denied(r)
               /\ Refusal(r)' <=> Refusal(r)
               /\ Over(r)' <=> Over(r)
    BY <1>4 DEF Called, Denied, Refusal, Over, manager
  <2>7. UnmanagedTab(t)
    BY <2>1 DEF IInv, Unmanaged
  <2>8. waiting[t] = 0 /\ \A n \in Nat : ~Refusal(<<t, n>>)
    BY <1>4, <2>7 DEF UnmanagedTab, RefusalOK
  <2>9. TypeOK'
    <3>1. loads[t] + 1 \in 0..MaxLoads
      BY <1>1, ActiveTabAssumption DEF IInv, TypeOK, Room
    <3> QED  BY <1>1, <1>2, <1>3, <1>4, <2>3, <3>1 DEF IInv, TypeOK, manager
  <2>10. ClosedBlank'
    <3> SUFFICES ASSUME NEW u \in Tabs, ~open[u] PROVE Blank(u)'
      BY <1>2 DEF ClosedBlank
    <3>1. Blank(u) /\ u # t
      BY <1>1 DEF IInv, ClosedBlank
    <3>2. Queued' = Queued /\ freeing' = freeing
      BY <1>4 DEF Queued, manager
    <3> QED  BY <1>2, <1>3, <1>4, <2>5, <2>6, <3>1, <3>2 DEF Blank
  <2>11. PageSound'
    <3> SUFFICES ASSUME NEW u \in Tabs PROVE PageOK(u)'
      BY DEF PageSound
    <3>1. CASE u = t
      BY <1>1, <1>2, <1>4, <2>2, <2>4, <2>8, <3>1 DEF PageOK, Room
    <3>2. CASE u # t
      BY <1>2, <1>4, <2>5, <3>2 DEF PageOK, IInv, PageSound
    <3> QED  BY <3>1, <3>2
  <2>12. NeverSilent'
    <3> SUFFICES ASSUME NEW u \in Tabs, open[u], ~overlay'[u], ~held'[u]
                 PROVE  \/ \E c \in calls : c.req[1] = u
                        \/ \E s \in settled : s.req[1] = u /\ s.how = "refused"
      BY <1>2, <1>4 DEF NeverSilent, manager
    <3> QED  BY <2>2, <2>5 DEF IInv, NeverSilent
  <2>13. Unmanaged'
    <3>1. holder' = Free /\ queue' = <<>> /\ calls' = {} /\ freeing' = {}
      BY <1>4, <2>1 DEF IInv, Unmanaged, manager
    <3>2. ASSUME NEW u \in Tabs PROVE UnmanagedTab(u)'
      <4>1. UnmanagedTab(u)
        BY <2>1 DEF IInv, Unmanaged
      <4>2. CASE u = t
        BY <1>1, <1>2, <1>4, <2>6, <2>8, <4>1, <4>2 DEF UnmanagedTab, RefusalOK
      <4>3. CASE u # t
        BY <1>1, <1>2, <1>4, <2>5, <2>6, <4>1, <4>3 DEF UnmanagedTab, RefusalOK
      <4> QED  BY <4>2, <4>3
    <3> QED  BY <3>1, <3>2 DEF Unmanaged
  <2>14. HasChannel => NewestHeard'
    <3> SUFFICES ASSUME HasChannel, NEW u \in Tabs, NEW v \in Tabs, u # v, held'[u], held'[v]
                 PROVE  mail'[u] > 0 \/ mail'[v] > 0
      BY DEF NewestHeard
    <3>1. CASE u = t
      <4>1. open[v]
        BY <2>5, <3>1 DEF IInv, ClosedBlank, Blank, Quiet
      <4> QED  BY <1>3, <3>1, <4>1
    <3>2. CASE v = t
      <4>1. open[u]
        BY <2>5, <3>2 DEF IInv, ClosedBlank, Blank, Quiet
      <4> QED  BY <1>3, <3>2, <4>1
    <3>3. CASE u # t /\ v # t
      <4>1. mail[u] > 0 \/ mail[v] > 0
        BY <2>1, <2>5, <3>3 DEF IInv, NewestHeard
      <4> QED  BY <1>3, <4>1
    <3> QED  BY <3>1, <3>2, <3>3
  <2> QED  BY <1>1, <2>1, <2>9, <2>10, <2>11, <2>12, <2>13, <2>14 DEF IInv, Managed
<1>5. ASSUME locks[t], UNCHANGED held
      PROVE  /\ UNCHANGED loads /\ overlay' = [overlay EXCEPT ![t] = TRUE]
             /\ overlay'[t]
             /\ \A u \in Tabs : u # t => overlay'[u] = overlay[u]
             /\ \A u \in Tabs : (Room(u)' <=> Room(u)) /\ (Quiet(u)' <=> Quiet(u))
                                /\ (Active(u)' <=> Active(u))
  <2>1. ~held'[t]
    BY <1>1, <1>5
  <2>2. UNCHANGED loads /\ overlay' = [overlay EXCEPT ![t] = TRUE]
    BY <2>1
  <2> QED  BY <1>2, <1>5, <2>2 DEF IInv, TypeOK, Room, Quiet, Active
<1>6. ASSUME locks[t], UNCHANGED held, mode # "given"
      PROVE  HasChannel => NewestHeard'
  <2> SUFFICES ASSUME HasChannel, NEW u \in Tabs, NEW v \in Tabs, u # v, held[u], held[v]
               PROVE  mail'[u] > 0 \/ mail'[v] > 0
    BY <1>6 DEF NewestHeard
  <2>1. mail[u] > 0 \/ mail[v] > 0
    BY <1>6 DEF IInv, NewestHeard
  <2> QED  BY <1>3, <2>1
<1>7. ASSUME locks[t], waiting[t] = 0, asked[t] < MaxRequests,
             asked' = [asked EXCEPT ![t] = @ + 1], waiting' = [waiting EXCEPT ![t] = asked[t] + 1],
             Ask(t, asked[t] + 1, FALSE), UNCHANGED held
      PROVE  IInv'
  <2>1. mode = "given"
    <3> SUFFICES ASSUME mode # "given" PROVE FALSE
      OBVIOUS
    <3>1. UnmanagedTab(t) /\ RefusalOK(t, 1) /\ Refusal(<<t, 1>>)
      BY <1>7 DEF IInv, Unmanaged, UnmanagedTab
    <3> QED  BY <1>1, <1>7, <3>1 DEF RefusalOK
  <2>2. ManagedTab(t) /\ Quiet(t) /\ \A n \in Nat : RequestOK(t, n)
    BY <1>1, <2>1 DEF IInv, Managed, ManagedTab, Active, Quiet
  <2>3. \A n \in Nat : <<t, n>> \notin Queued /\ ~Called(<<t, n>>) /\ ~Denied(<<t, n>>)
    BY <1>1, <1>7, <2>2 DEF RequestOK
  <2> PICK k \in Nat : k = asked[t] + 1
    BY <1>1
  <2>4. k \in Nat /\ k # 0 /\ ~Over(<<t, k>>) /\ <<t, k>> \notin freeing /\ holder # <<t, k>>
    <3>1. k \in Nat /\ k # 0
      BY <1>1
    <3>2. RequestOK(t, k)
      BY <2>2, <3>1
    <3>3. ~(k <= asked[t]) /\ ~Active(t)
      BY <1>1 DEF Active
    <3> QED  BY <2>3, <3>1, <3>2, <3>3 DEF RequestOK
  <2>5. waiting'[t] = k /\ asked'[t] = k /\ \A u \in Tabs : u # t => waiting'[u] = waiting[u] /\ asked'[u] = asked[u]
    BY <1>7 DEF IInv, TypeOK
  <2>6. Placed(t, k, FALSE)
    <3>1. PICK soon \in BOOLEAN : soon = FALSE
      OBVIOUS
    <3>2. TypeOK /\ mode \in {"given", "refused"} /\ Ask(t, k, soon) /\ k \in Nat
      BY <1>7, <2>1, <2>4, <3>1 DEF IInv
    <3>3. Placed(t, k, soon)
      BY <3>2, AskEffect
    <3> QED  BY <3>1, <3>3
  <2>12. \A n \in Nat : ~Denied(<<t, n>>)'
    <3> SUFFICES ASSUME NEW n \in Nat PROVE ~Denied(<<t, n>>)'
      OBVIOUS
    <3>1. ~Denied(<<t, n>>) /\ ~Denied(<<t, k>>)
      BY <2>3, <2>4
    <3>2. CASE n = k
      BY <2>1, <2>6, <3>1, <3>2 DEF Placed
    <3>3. CASE n # k
      BY <2>6, <3>1, <3>3 DEF Placed
    <3> QED  BY <3>2, <3>3
  <2>7. TypeOK'
    <3>1. waiting' \in [Tabs -> Nat] /\ asked' \in [Tabs -> 0..MaxRequests]
      <4>1. asked[t] + 1 \in 0..MaxRequests /\ asked[t] + 1 \in Nat
        BY <1>1, <1>7, TabLockAssumption
      <4> QED  BY <1>7, <4>1 DEF IInv, TypeOK
    <3>2. overlay' \in [Tabs -> BOOLEAN]
      BY <1>5, <1>7 DEF IInv, TypeOK
    <3> QED  BY <1>1, <1>2, <1>3, <1>5, <1>7, <2>6, <3>1, <3>2 DEF IInv, TypeOK, Placed
  <2>8. ClosedBlank'
    <3> SUFFICES ASSUME NEW u \in Tabs, ~open[u] PROVE Blank(u)'
      BY <1>2 DEF ClosedBlank
    <3>1. Blank(u) /\ u # t
      BY <1>1 DEF IInv, ClosedBlank
    <3> QED  BY <1>2, <1>3, <1>5, <1>7, <2>1, <2>5, <2>6, <3>1 DEF Blank, Placed
  <2>9. PageSound'
    BY <1>1, <1>2, <1>5, <1>7, <2>2, <2>5 DEF IInv, PageSound, PageOK
  <2>10. NeverSilent'
    <3> SUFFICES ASSUME NEW u \in Tabs, open[u], ~overlay'[u], ~held[u]
                 PROVE  \/ \E c \in calls' : c.req[1] = u
                        \/ \E s \in settled' : s.req[1] = u /\ s.how = "refused"
      BY <1>2, <1>7 DEF NeverSilent
    <3>1. ~overlay[u]
      BY <1>5, <1>7
    <3>2. \/ \E c \in calls : c.req[1] = u
          \/ \E s \in settled : s.req[1] = u /\ s.how = "refused"
      BY <3>1 DEF IInv, NeverSilent
    <3> QED  BY <2>6, <3>2 DEF Placed
  <2>11. Managed'
    <3> SUFFICES Distinct(queue)' /\ \A u \in Tabs : ManagedTab(u)'
      BY DEF Managed
    <3>1. Distinct(queue)'
      BY <2>1, <2>3, <2>4, <2>6 DEF IInv, Managed, Placed
    <3>2. ASSUME NEW u \in Tabs PROVE ManagedTab(u)'
      <4>1. ManagedTab(u) /\ grant[u] \in Nat
        BY <2>1 DEF IInv, Managed, TypeOK
      <4>2. CASE u # t
        <5>1. ASSUME NEW n \in Nat PROVE RequestOK(u, n)'
          <6>1. RequestOK(u, n) /\ 1 \in Nat
            BY <4>1 DEF ManagedTab
          <6> QED  BY <1>2, <1>5, <1>7, <2>1, <2>5, <2>6, <4>1, <4>2, <6>1 DEF RequestOK, Placed
        <5> QED  BY <1>2, <1>5, <1>7, <2>1, <2>5, <2>6, <4>1, <4>2, <5>1 DEF ManagedTab, Placed
      <4>3. CASE u = t
        <5>1. ASSUME NEW n \in Nat PROVE RequestOK(u, n)'
          <6>1. RequestOK(u, n) /\ 1 \in Nat
            BY <4>1 DEF ManagedTab
          <6>2. CASE n = k
            BY <1>1, <1>2, <1>5, <1>7, <2>1, <2>2, <2>3, <2>4, <2>5, <2>6, <2>12, <4>3, <6>1, <6>2 DEF RequestOK, Placed
          <6>3. CASE n # k
            <7>1. n <= asked[t] => n <= k
              BY <1>1, <6>3
            <7> QED  BY <1>1, <1>2, <1>5, <1>7, <2>1, <2>2, <2>3, <2>5, <2>6, <4>3, <6>1, <6>3, <7>1 DEF RequestOK, Placed
          <6> QED  BY <6>2, <6>3
        <5> QED  BY <1>1, <1>2, <1>5, <1>7, <2>2, <2>4, <2>5, <4>1, <4>3, <5>1 DEF ManagedTab, Active, Quiet
      <4> QED  BY <4>2, <4>3
    <3> QED  BY <3>1, <3>2
  <2> QED  BY <1>1, <2>1, <2>7, <2>8, <2>9, <2>10, <2>11 DEF IInv, Unmanaged, NewestHeard
<1>8. ASSUME locks[t], waiting[t] # 0, UNCHANGED <<held, waiting, asked, manager>>
      PROVE  IInv'
  <2>1. \A r : /\ Called(r)' <=> Called(r)
               /\ Denied(r)' <=> Denied(r)
               /\ Refusal(r)' <=> Refusal(r)
               /\ Over(r)' <=> Over(r)
    BY <1>8 DEF Called, Denied, Refusal, Over, manager
  <2>2. TypeOK'
    <3>1. overlay' \in [Tabs -> BOOLEAN]
      BY <1>5, <1>8 DEF IInv, TypeOK
    <3> QED  BY <1>1, <1>2, <1>3, <1>5, <1>8, <3>1 DEF IInv, TypeOK, manager
  <2>3. ClosedBlank'
    <3> SUFFICES ASSUME NEW u \in Tabs, ~open[u] PROVE Blank(u)'
      BY <1>2 DEF ClosedBlank
    <3>1. Blank(u) /\ u # t
      BY <1>1 DEF IInv, ClosedBlank
    <3> QED  BY <1>2, <1>3, <1>5, <1>8, <2>1, <3>1 DEF Blank, Queued, manager
  <2>4. PageSound'
    BY <1>1, <1>2, <1>5, <1>8 DEF IInv, PageSound, PageOK
  <2>5. NeverSilent'
    <3> SUFFICES ASSUME NEW u \in Tabs, open[u], ~overlay'[u], ~held[u]
                 PROVE  \/ \E c \in calls : c.req[1] = u
                        \/ \E s \in settled : s.req[1] = u /\ s.how = "refused"
      BY <1>2, <1>8 DEF NeverSilent, manager
    <3>1. ~overlay[u]
      BY <1>5, <1>8
    <3> QED  BY <3>1 DEF IInv, NeverSilent
  <2>6. Unmanaged'
    <3> SUFFICES ASSUME mode # "given"
                 PROVE  /\ holder' = Free /\ queue' = <<>> /\ calls' = {} /\ freeing' = {}
                        /\ \A u \in Tabs : UnmanagedTab(u)'
      BY <1>1 DEF Unmanaged
    <3>1. holder' = Free /\ queue' = <<>> /\ calls' = {} /\ freeing' = {}
      BY <1>8 DEF IInv, Unmanaged, manager
    <3>2. ASSUME NEW u \in Tabs PROVE UnmanagedTab(u)'
      <4>1. UnmanagedTab(u)
        BY DEF IInv, Unmanaged
      <4> QED  BY <1>1, <1>2, <1>5, <1>8, <2>1, <4>1 DEF UnmanagedTab, RefusalOK
    <3> QED  BY <3>1, <3>2
  <2>7. Managed'
    <3> SUFFICES ASSUME mode = "given", NEW u \in Tabs PROVE ManagedTab(u)'
      BY <1>1, <1>8 DEF Managed, IInv, manager
    <3>1. ManagedTab(u) /\ Queued' = Queued /\ holder' = holder /\ freeing' = freeing
      BY <1>8 DEF IInv, Managed, Queued, manager
    <3>2. ASSUME NEW n \in Nat PROVE RequestOK(u, n)'
      <4>1. RequestOK(u, n)
        BY <3>1 DEF ManagedTab
      <4> QED  BY <1>1, <1>2, <1>5, <1>8, <2>1, <3>1, <4>1 DEF RequestOK
    <3> QED  BY <1>2, <1>5, <1>8, <2>1, <3>1, <3>2 DEF ManagedTab
  <2> QED  BY <1>1, <1>6, <1>8, <2>2, <2>3, <2>4, <2>5, <2>6, <2>7 DEF IInv, NewestHeard
<1> QED  BY <1>4, <1>7, <1>8 DEF TakeOver

-----------------------------------------------------------------------------
(* The theorems.                                                           *)

\* The invariant holds where no page is open yet.
LEMMA InitHolds == AppInit => IInv
<1> SUFFICES ASSUME AppInit PROVE IInv
  OBVIOUS
<1> USE DEF AppInit, Init
<1>1. TypeOK
  BY TabLockAssumption, ActiveTabAssumption DEF TypeOK
<1>2. Elems(<<>>) = {} /\ Distinct(<<>>)
  BY DEF Elems, Distinct
<1>3. ClosedBlank
  BY <1>2 DEF ClosedBlank, Blank, Quiet, Queued, Called, Denied, Over, Refusal
<1>4. PageSound /\ NeverSilent /\ NewestHeard
  BY DEF PageSound, PageOK, NeverSilent, NewestHeard
<1>5. Unmanaged
  BY DEF Unmanaged, UnmanagedTab, RefusalOK, Over, Refusal
<1>6. Managed
  <2>1. \A t \in Tabs, n \in Nat : holder # <<t, n>>
    BY DEF Free
  <2> QED  BY <1>2, <2>1 DEF Managed, ManagedTab, RequestOK, Active, Queued, Called, Denied, Over, Refusal
<1> QED  BY <1>1, <1>3, <1>4, <1>5, <1>6 DEF IInv

\* Every step keeps the invariant.
LEMMA StepKeeps == IInv /\ [AppNext]_allVars => IInv'
<1> SUFFICES ASSUME IInv, [AppNext]_allVars PROVE IInv'
  OBVIOUS
<1>1. ASSUME NEW t \in Tabs, AppTabNext(t) PROVE IInv'
  <2>1. ASSUME UseHere(t) PROVE IInv'
    <3>1. Unload(t) /\ flag' \in [Tabs -> BOOLEAN]
      BY <2>1 DEF UseHere, IInv, TypeOK
    <3> QED  BY <3>1, UnloadKeeps
  <2>2. ASSUME AppClose(t) PROVE IInv'
    <3>1. Unload(t) /\ flag' \in [Tabs -> BOOLEAN]
      BY <2>2 DEF AppClose, IInv, TypeOK
    <3> QED  BY <3>1, UnloadKeeps
  <2> QED  BY <1>1, <2>1, <2>2, StartKeeps, UseHereInPlaceKeeps, GrantedKeeps, NotAvailableKeeps,
              EndedKeeps, RefusedKeeps, OnMessageKeeps, ReleaseKeeps, ConfigLoadedKeeps, SaveSettingsKeeps
           DEF AppTabNext
<1>2. ASSUME BrowserNext, UNCHANGED app PROVE IInv'
  BY <1>2, FreeLockKeeps, StealKeeps DEF BrowserNext
<1>3. ASSUME UNCHANGED allVars PROVE IInv'
  <2> USE <1>3 DEF allVars, vars, page, manager, app
  <2>1. \A r : /\ Called(r)' <=> Called(r)
               /\ Denied(r)' <=> Denied(r)
               /\ Refusal(r)' <=> Refusal(r)
               /\ Over(r)' <=> Over(r)
    BY DEF Called, Denied, Refusal, Over
  <2>2. TypeOK' /\ NeverSilent' /\ (NewestHeard' <=> NewestHeard)
    BY DEF IInv, TypeOK, NeverSilent, NewestHeard
  <2>3. ClosedBlank' /\ PageSound'
    BY <2>1 DEF IInv, ClosedBlank, Blank, Quiet, Queued, PageSound, PageOK, Room
  <2>4. Unmanaged'
    BY <2>1 DEF IInv, Unmanaged, UnmanagedTab, RefusalOK, Quiet, Room
  <2>5. Managed'
    BY <2>1 DEF IInv, Managed, ManagedTab, RequestOK, Quiet, Room, Active, Queued
  <2> QED  BY <2>2, <2>3, <2>4, <2>5 DEF IInv
<1> QED  BY <1>1, <1>2, <1>3 DEF AppNext

\* The invariant holds of every behaviour.
THEOREM Invariance == AppSpec => []IInv
BY InitHolds, StepKeeps, PTL DEF AppSpec

\* A connect() begins in a page that does not exchange: it has just become
\* active, or has just disconnected.
LEMMA ConnectsIdle ==
  ASSUME IInv, AppNext, NEW u \in Tabs, loads'[u] > loads[u]
  PROVE  ~rns'[u]
<1>1. \A t \in Tabs : loads[t] \in Nat /\ (rns[t] => held[t])
  BY ActiveTabAssumption DEF IInv, TypeOK, PageSound, PageOK
<1>2. ~(BrowserNext /\ UNCHANGED app)
  BY <1>1 DEF app
<1>3. PICK t \in Tabs : AppTabNext(t)
  BY <1>2 DEF AppNext
<1>4. CASE AppStart(t)
  <2>1. ~open[t] /\ UNCHANGED rns
    BY <1>4 DEF AppStart, Start
  <2>2. u = t
    <3>1. loads' = [loads EXCEPT ![t] = @ + 1] \/ UNCHANGED loads
      BY <1>4 DEF AppStart, Activate, Connect
    <3> QED  BY <1>1, <3>1 DEF IInv, TypeOK
  <2> QED  BY <2>1, <2>2 DEF IInv, ClosedBlank, Blank
<1>5. CASE UseHereInPlace(t)
  <2>1. ~held[t] /\ UNCHANGED rns
    BY <1>5 DEF UseHereInPlace, TakeOver
  <2>2. u = t
    <3>1. loads' = [loads EXCEPT ![t] = @ + 1] \/ UNCHANGED loads
      BY <1>5 DEF UseHereInPlace, Activate, Connect
    <3> QED  BY <1>1, <3>1 DEF IInv, TypeOK
  <2> QED  BY <1>1, <2>1, <2>2
<1>6. ASSUME NEW n \in 1..MaxRequests, AppGranted(t, n) PROVE ~rns'[u]
  <2>1. UNCHANGED rns /\ Called(<<t, n>>) /\ n \in Nat
    BY <1>6, TabLockAssumption DEF AppGranted, Granted, Called
  <2>2. mode = "given"
    BY <2>1 DEF IInv, Unmanaged, Called
  <2>3. ~held[t]
    BY <2>1, <2>2 DEF IInv, Managed, ManagedTab, RequestOK, Quiet
  <2>4. u = t
    BY <1>1, <1>6 DEF AppGranted, Activate, Connect, IInv, TypeOK
  <2> QED  BY <1>1, <2>1, <2>3, <2>4
<1>7. ASSUME NEW n \in 1..MaxRequests, AppRefused(t, n) PROVE ~rns'[u]
  <2>1. UNCHANGED rns /\ Refusal(<<t, n>>) /\ n \in Nat
    BY <1>7, TabLockAssumption DEF AppRefused, Refused, Refusal
  <2>2. mode # "given"
    BY <2>1 DEF IInv, Managed, ManagedTab, RequestOK
  <2>3. ~held[t]
    BY <2>1, <2>2 DEF IInv, Unmanaged, UnmanagedTab, RefusalOK, Quiet
  <2>4. u = t
    BY <1>1, <1>7 DEF AppRefused, Activate, Connect, IInv, TypeOK
  <2> QED  BY <1>1, <2>1, <2>3, <2>4
<1>8. CASE SaveSettings(t)
  <2>1. u = t
    BY <1>1, <1>8 DEF SaveSettings, Connect, IInv, TypeOK
  <2> QED  BY <1>8, <2>1 DEF SaveSettings, Disconnect, IInv, TypeOK
<1>9. CASE UseHere(t) \/ AppClose(t) \/ ConfigLoaded(t)
  <2>1. CASE loads' = [loads EXCEPT ![t] = 0]
    <3>1. loads'[u] = 0 \/ loads'[u] = loads[u]
      BY <2>1 DEF IInv, TypeOK
    <3> QED  BY <1>1, <3>1
  <2>2. CASE loads' = [loads EXCEPT ![t] = @ - 1]
    <3>1. loads'[u] = loads[u] - 1 \/ loads'[u] = loads[u]
      BY <2>2 DEF IInv, TypeOK
    <3> QED  BY <1>1, <3>1
  <2> QED  BY <1>9, <2>1, <2>2 DEF UseHere, AppClose, Unload, ConfigLoaded
<1>10. ASSUME NEW n \in 1..MaxRequests, AppNotAvailable(t, n) \/ AppEnded(t, n) PROVE ~rns'[u]
  <2>1. UNCHANGED loads
    BY <1>10 DEF AppNotAvailable, AppEnded
  <2> QED  BY <1>1, <2>1
<1>11. CASE AppOnMessage(t) \/ AppRelease(t)
  <2>1. UNCHANGED loads
    BY <1>11 DEF AppOnMessage, AppRelease, app
  <2> QED  BY <1>1, <2>1
<1> QED  BY <1>3, <1>4, <1>5, <1>6, <1>7, <1>8, <1>9, <1>10, <1>11 DEF AppTabNext

\* Where locks are given, the current interfaces of no two tabs exchange at
\* once, but for a tab that has yet to hear it was robbed of the lock; and
\* however many connects of a page overlap, none begins while it exchanges.
THEOREM NoTwoExchange == AppSpec => OneExchange
<1> DEFINE Apart == mode = "given" =>
                      \A t, u \in Tabs : t # u /\ rns[t] /\ rns[u] => Robbed(t) \/ Robbed(u)
           StartsIdle == \A t \in Tabs : loads'[t] > loads[t] => ~rns'[t]
<1>1. IInv => Apart
  <2> SUFFICES ASSUME IInv, mode = "given"
               PROVE  \A t, u \in Tabs : t # u /\ rns[t] /\ rns[u] => Robbed(t) \/ Robbed(u)
    OBVIOUS
  <2>1. \A t \in Tabs : rns[t] => held[t]
    BY DEF IInv, PageSound, PageOK
  <2>2. ASSUME NEW t \in Tabs, held[t] PROVE holder = <<t, grant[t]>> \/ Robbed(t)
    BY <2>2 DEF IInv, Managed, ManagedTab, Active, Over, Robbed
  <2> QED  BY <2>1, <2>2
<1>2. IInv /\ IInv' /\ [AppNext]_allVars => [StartsIdle]_allVars
  BY ConnectsIdle DEF StartsIdle, allVars, app
<1> QED  BY <1>1, <1>2, Invariance, PTL DEF AppSpec, OneExchange

\* Every state is typed, and no tab is stranded: not by another that stays
\* active beside it, not by a lock that nobody uses, and not in silence.
\* (Tabs hear of each other through BroadcastChannel.)
THEOREM NoneStranded == HasChannel => (AppSpec => []LockSound)
<1> SUFFICES ASSUME HasChannel PROVE AppSpec => []LockSound
  OBVIOUS
<1>1. IInv => LockSound
  <2> SUFFICES ASSUME IInv PROVE NoOrphanLock
    BY DEF IInv, LockSound
  <2> SUFFICES ASSUME holder # Free
               PROVE  \/ [req |-> holder, lock |-> TRUE] \in calls
                      \/ grant[holder[1]] = holder[2] /\ Active(holder[1])
                      \/ holder \in freeing
    BY DEF NoOrphanLock
  <2>1. PICK t \in Tabs, n \in Nat : holder = <<t, n>>
    BY DEF IInv, TypeOK, Request
  <2>2. mode = "given"
    BY DEF IInv, Unmanaged
  <2>3. RequestOK(t, n)
    BY <2>2 DEF IInv, Managed, ManagedTab
  <2> QED  BY <2>1, <2>3 DEF RequestOK, Called
<1> QED  BY <1>1, Invariance, PTL
=============================================================================
