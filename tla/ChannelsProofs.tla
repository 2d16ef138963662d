--------------------------- MODULE ChannelsProofs ---------------------------
(***************************************************************************)
(* Proofs about Channels and RfedLink: a connection has one rfed link, no  *)
(* post that the node said it has is shown failed, and the last choice of  *)
(* join or leave is the node's last word, for any posts, choices, faults   *)
(* and connections.                                                        *)
(***************************************************************************)
EXTENDS Channels, SequenceTheorems, TLAPS

-----------------------------------------------------------------------------
(* The client's record: what the proofs look at has its type, and of the   *)
(* rest only the field is there.                                           *)

Fields == {"n", "live", "down", "initialized", "distro", "ready", "links", "events", "current",
           "attempt", "failed", "armed", "parked", "asks", "owed", "refused", "claims", "due",
           "first", "listed", "inited", "resub", "tail", "sub", "stream", "opened", "opening",
           "screen", "pulling", "pulled", "posts", "chain"}

Choice == {"sub", "unsub"}
Ops == Choice \cup {"register", "announce", "bind", "pull", "redrive", "stream", "chpull", "publish"}
LinkRecs == [n : Nat, status : {"pending", "active", "stale", "closed"}, heard : BOOLEAN,
             why : {"open", "ours", "peer"}]
Asks == [op : Ops, who : Int, n : Nat \ {0}, link : Int, sent : BOOLEAN, then : Seq(Choice)]
PostRecs == [pc : {"chain", "sub", "stream", "stamp", "out", "over"}, n : Nat, prev : Nat,
             status : {"sending", "sent", "failed"}, key : BOOLEAN, paged : BOOLEAN]

Typed(d) ==
  /\ DOMAIN d = Fields
  /\ d.n \in Nat \ {0}
  /\ d.links \in Seq(LinkRecs)
  /\ d.current \in 0..Len(d.links) /\ d.attempt \in 0..Len(d.links)
  /\ d.events \in Seq({"established", "close"} \X (1..Len(d.links)))
  /\ d.asks \subseteq Asks
  /\ \A a \in d.asks : a.link <= Len(d.links)
  /\ d.posts \in Seq(PostRecs)
  /\ d.listed \in BOOLEAN /\ d.chain \in Nat

\* Of this connection only the attempt is not closed, and none is of a later one.
Attempts(d) ==
  \A l \in 1..Len(d.links) :
    /\ d.links[l].n <= d.n
    /\ d.links[l].n = d.n /\ d.links[l].status # "closed" => d.attempt = l

\* A close that is heard is of a link that closed.
Heards(d) ==
  \A i \in 1..Len(d.events) : d.events[i][1] = "close" => d.links[d.events[i][2]].status = "closed"

\* A post that was put on the wire is known by its echo, or is sent.
Tracked(q) == q.key \/ q.status = "sent"
Published(d) ==
  \A a \in d.asks : a.op = "publish" => a.who \in 1..Len(d.posts) /\ Tracked(d.posts[a.who])

\* What the node is asked of the channel's subscription ends as the list says.
LastOp(a) == IF a.then = <<>> THEN a.op ELSE a.then[Len(a.then)]
Wanted(d) == IF d.listed THEN "sub" ELSE "unsub"
Chosen(d) ==
  /\ ~d.listed => d.sub = "none"
  /\ \A a \in d.asks : a.n <= d.n /\ (a.op \notin Choice => a.then = <<>>)
  /\ \A a \in d.asks : a.op \in Choice /\ a.n = d.n => LastOp(a) = Wanted(d)
Choosing(d) == \E a \in d.asks : a.op \in Choice /\ a.n = d.n

OK(d) == Typed(d) /\ Attempts(d) /\ Heards(d) /\ Published(d) /\ Chosen(d)

\* As the user's choice is made: what is asked does not follow it yet.
Orderly(d) ==
  /\ Typed(d) /\ Attempts(d) /\ Heards(d) /\ Published(d)
  /\ ~d.listed => d.sub = "none"
  /\ \A a \in d.asks : a.n <= d.n /\ (a.op \notin Choice => a.then = <<>>)

\* Of the node: the posts it holds will be known by their echoes, and what it
\* has of the subscription, while nothing is asked and nothing failed.
Echoes ==
  /\ node.holds \subseteq 1..Len(c.posts) /\ node.told \subseteq node.holds
  /\ \A p \in node.holds : Tracked(c.posts[p]) \/ ~c.posts[p].paged
  /\ TruthWins
NodeTyped ==
  /\ DOMAIN node = {"subscribed", "stream", "holds", "told"}
  /\ node.subscribed \in BOOLEAN
  /\ lost \in BOOLEAN
Decided == ~Choosing(c) /\ ~lost => node.subscribed = c.listed

IInv == OK(c) /\ NodeTyped /\ Echoes /\ Decided

-----------------------------------------------------------------------------
(* What a method of the client may do: it stays in order, no post forgets  *)
(* what it is known by, and what is asked of the subscription goes on.     *)

Keeps(q, r) ==
  /\ q.status = "sent" => r.status = "sent"
  /\ Tracked(q) => Tracked(r)
  /\ ~q.paged => ~r.paged
Goes(d, e) ==
  /\ e.n = d.n /\ e.listed = d.listed
  /\ Len(e.posts) = Len(d.posts)
  /\ \A p \in 1..Len(d.posts) : Keeps(d.posts[p], e.posts[p])
  /\ Choosing(d) => Choosing(e)
Fine(d, e) == OK(e) /\ Goes(d, e)

\* What is as it was but for fields the invariant does not look at.
Same(d, e) ==
  /\ DOMAIN e = DOMAIN d /\ e.n = d.n /\ e.links = d.links /\ e.events = d.events
  /\ e.current = d.current /\ e.attempt = d.attempt /\ e.asks = d.asks /\ e.posts = d.posts
  /\ e.listed = d.listed /\ e.chain = d.chain /\ e.sub = d.sub

\* One after the other.
LEMMA FineThen ==
  ASSUME NEW d, NEW e, NEW f, Fine(d, e), Fine(e, f)
  PROVE  Fine(d, f)
BY DEF Fine, Goes, Keeps

\* Nothing that matters.
LEMMA SameFine ==
  ASSUME NEW d, NEW e, OK(d), Same(d, e)
  PROVE  Fine(d, e)
BY DEF Fine, OK, Goes, Keeps, Same, Typed, Attempts, Heards, Published, Chosen, Choosing, Wanted

\* The events of fewer links are events of more.
LEMMA MoreLinks ==
  ASSUME NEW n \in Nat, NEW k \in Nat, n <= k, NEW s \in Seq({"established", "close"} \X (1..n))
  PROVE  s \in Seq({"established", "close"} \X (1..k))
<1>1. \A i \in 1..Len(s) : s[i] \in {"established", "close"} \X (1..k)
  <2> TAKE i \in 1..Len(s)
  <2>1. s[i] \in {"established", "close"} \X (1..n)
    OBVIOUS
  <2>2. 1..n \subseteq 1..k
    OBVIOUS
  <2> QED  BY <2>1, <2>2, Zenon
<1> QED  BY <1>1

\* An event names a link.
LEMMA EventTyped ==
  ASSUME NEW n \in Nat, NEW s \in Seq({"established", "close"} \X (1..n)), NEW i \in 1..Len(s)
  PROVE  s[i][1] \in {"established", "close"} /\ s[i][2] \in 1..n
<1>1. s[i] \in {"established", "close"} \X (1..n)
  OBVIOUS
<1> QED  BY <1>1

\* A link of its own for the client, when it has none that it would use.
LEMMA EnsureFine ==
  ASSUME NEW d, OK(d)
  PROVE  Fine(d, Ensure(d))
<1>1. CASE Route(d) # None \/ ~d.ready
  BY <1>1, SameFine DEF Ensure, Same
<1>2. CASE ~(Route(d) # None \/ ~d.ready)
  <2> DEFINE new == [n |-> d.n, status |-> "pending", heard |-> FALSE, why |-> "open"]
  <2> DEFINE e == Ensure(d)
  <2>1. /\ DOMAIN e = Fields /\ e.n = d.n /\ e.links = Append(d.links, new) /\ e.events = d.events
        /\ e.current = d.current /\ e.attempt = Len(d.links) + 1 /\ e.asks = d.asks /\ e.posts = d.posts
        /\ e.listed = d.listed /\ e.chain = d.chain /\ e.sub = d.sub
    BY <1>2 DEF Ensure, OK, Typed, Fields
  <2>2. /\ e.links \in Seq(LinkRecs) /\ Len(e.links) = Len(d.links) + 1
        /\ \A l \in 1..Len(d.links) : e.links[l] = d.links[l]
        /\ e.links[Len(d.links) + 1] = new
    BY <2>1 DEF OK, Typed, LinkRecs
  <2>3. d.attempt = 0 /\ \A l \in 1..Len(d.links) : d.links[l].n = d.n => d.links[l].status = "closed"
    BY <1>2 DEF OK, Typed, Attempts, Route, Up, None
  <2> HIDE DEF e
  <2>4. Typed(e)
    <3>1. e.events \in Seq({"established", "close"} \X (1..Len(e.links)))
      BY <2>1, <2>2, MoreLinks DEF OK, Typed
    <3>2. \A a \in e.asks : a.link <= Len(e.links)
      BY <2>1, <2>2 DEF OK, Typed, Asks
    <3> QED  BY <2>1, <2>2, <3>1, <3>2 DEF OK, Typed
  <2>5. Attempts(e)
    BY <2>1, <2>2, <2>3 DEF OK, Typed, Attempts
  <2>6. Published(e) /\ Chosen(e) /\ Goes(d, e)
    BY <2>1 DEF OK, Published, Chosen, Goes, Keeps, Choosing, Wanted
  <2>7. Heards(e)
    <3> SUFFICES ASSUME NEW i \in 1..Len(d.events), d.events[i][1] = "close"
                 PROVE  e.links[d.events[i][2]].status = "closed"
      BY <2>1 DEF Heards
    <3>1. /\ Len(d.links) \in Nat
          /\ d.events \in Seq({"established", "close"} \X (1..Len(d.links)))
      BY DEF OK, Typed
    <3>2. d.events[i][2] \in 1..Len(d.links)
      BY <3>1, EventTyped
    <3> QED  BY <2>2, <3>2 DEF OK, Heards
  <2> QED  BY <2>4, <2>5, <2>6, <2>7 DEF Fine, OK, e
<1> QED  BY <1>1, <1>2

\* A link, or its event, goes on.
LEMMA LinksFine ==
  ASSUME NEW d, NEW e, OK(d),
         DOMAIN e = Fields, e.n = d.n, e.asks = d.asks, e.posts = d.posts, e.listed = d.listed, e.chain = d.chain, e.sub = d.sub,
         e.links \in Seq(LinkRecs), Len(e.links) = Len(d.links),
         e.current \in 0..Len(d.links), e.attempt \in 0..Len(d.links),
         e.events \in Seq({"established", "close"} \X (1..Len(d.links))),
         Attempts(e), Heards(e)
  PROVE  Fine(d, e)
BY DEF Fine, OK, Typed, Published, Chosen, Goes, Keeps, Choosing, Wanted

\* A link closes, and its event follows.
LEMMA CloseLinkFine ==
  ASSUME NEW d, OK(d), NEW l \in 1..Len(d.links), NEW why \in {"ours", "peer"}
  PROVE  Fine(d, CloseLink(d, l, why))
<1>1. CASE d.links[l].status = "closed"
  BY <1>1, SameFine DEF CloseLink, Same
<1>2. CASE d.links[l].status # "closed"
  <2> DEFINE e == CloseLink(d, l, why)
  <2> DEFINE link == [d.links[l] EXCEPT !.status = "closed", !.why = why]
  <2>1. /\ DOMAIN e = Fields /\ e.n = d.n /\ e.links = [d.links EXCEPT ![l] = link]
        /\ e.events = Append(d.events, <<"close", l>>)
        /\ e.current = d.current /\ e.attempt = d.attempt /\ e.asks = d.asks /\ e.posts = d.posts
        /\ e.listed = d.listed /\ e.chain = d.chain /\ e.sub = d.sub
    BY <1>2 DEF CloseLink, OK, Typed, Fields
  <2>2. d.links[l] \in LinkRecs
    BY DEF OK, Typed
  <2>3. link \in LinkRecs /\ link.n = d.links[l].n /\ link.status = "closed"
    BY <2>2 DEF LinkRecs
  <2> HIDE DEF e, link
  <2>4. /\ e.links \in Seq(LinkRecs) /\ Len(e.links) = Len(d.links) /\ e.links[l] = link
        /\ \A k \in 1..Len(d.links) : k # l => e.links[k] = d.links[k]
    BY <2>1, <2>3 DEF OK, Typed
  <2>5. <<"close", l>> \in {"established", "close"} \X (1..Len(d.links))
    OBVIOUS
  <2>6. /\ e.events \in Seq({"established", "close"} \X (1..Len(d.links)))
        /\ Len(e.events) = Len(d.events) + 1
        /\ \A i \in 1..Len(d.events) : e.events[i] = d.events[i]
        /\ e.events[Len(d.events) + 1] = <<"close", l>>
    BY SMTT(30), <2>1, <2>5 DEF OK, Typed
  <2>7. Attempts(e)
    BY SMTT(30), <2>1, <2>3, <2>4 DEF OK, Typed, Attempts
  <2>8. Heards(e)
    <3> SUFFICES ASSUME NEW i \in 1..Len(e.events), e.events[i][1] = "close"
                 PROVE  e.links[e.events[i][2]].status = "closed"
      BY DEF Heards
    <3>1. CASE i = Len(d.events) + 1
      BY <2>3, <2>4, <2>6, <3>1
    <3>2. CASE i # Len(d.events) + 1
      <4>0. i \in 1..Len(d.events)
        <5>1. Len(d.events) \in Nat
          BY DEF OK, Typed
        <5> QED  BY <2>6, <3>2, <5>1
      <4>1. e.events[i] = d.events[i] /\ d.events[i][2] \in 1..Len(d.links)
        <5>1. /\ Len(d.links) \in Nat
              /\ d.events \in Seq({"established", "close"} \X (1..Len(d.links)))
          BY DEF OK, Typed
        <5>2. d.events[i][2] \in 1..Len(d.links)
          BY <4>0, <5>1, EventTyped
        <5> QED  BY <2>6, <4>0, <5>2
      <4>2. d.links[d.events[i][2]].status = "closed"
        BY <4>0, <4>1 DEF OK, Heards
      <4> QED  BY <2>3, <2>4, <4>1, <4>2
    <3> QED  BY <3>1, <3>2
  <2>9. e.current \in 0..Len(d.links) /\ e.attempt \in 0..Len(d.links)
    BY <2>1 DEF OK, Typed
  <2> QED  BY <2>1, <2>4, <2>6, <2>7, <2>8, <2>9, LinksFine DEF e, OK, Typed
<1> QED  BY <1>1, <1>2

\* The requests change, and with them the memo of the subscription.
LEMMA AsksFine ==
  ASSUME NEW d, NEW e, OK(d),
         DOMAIN e = Fields, e.n = d.n, e.links = d.links, e.events = d.events, e.current = d.current,
         e.attempt = d.attempt, e.posts = d.posts, e.listed = d.listed, e.chain = d.chain,
         e.asks \subseteq Asks, \A a \in e.asks : a.link <= Len(d.links),
         Published(e), Chosen(e), Choosing(d) => Choosing(e)
  PROVE  Fine(d, e)
BY DEF Fine, OK, Typed, Attempts, Heards, Goes, Keeps

\* Of a new request that is in order.
Proper(d, op, who, n, then) ==
  /\ op \in Ops /\ who \in Int /\ n \in Nat \ {0} /\ n <= d.n /\ then \in Seq(Choice)
  /\ op \notin Choice => then = <<>>
  /\ op = "publish" => who \in 1..Len(d.posts) /\ Tracked(d.posts[who])
  /\ op \in Choice /\ n = d.n => (IF then = <<>> THEN op ELSE then[Len(then)]) = Wanted(d)

\* What a request is sent on: a link of the client's, or none yet.
LEMMA RouteTyped ==
  ASSUME NEW d, OK(d), NEW l \in {Route(d), None}
  PROVE  l \in Int /\ l <= Len(d.links) /\ Heard(d, l) \in BOOLEAN
<1>1. Len(d.links) \in Nat /\ l \in 0..Len(d.links)
  BY DEF Route, None, OK, Typed
<1>2. l # 0 => d.links[l] \in LinkRecs
  BY <1>1 DEF OK, Typed
<1>3. Heard(d, l) \in BOOLEAN
  BY <1>2 DEF Heard, None, LinkRecs
<1> QED  BY <1>1, <1>3

\* A request is made.
LEMMA AskForFine ==
  ASSUME NEW d, OK(d), NEW op, NEW who, NEW n, NEW then, Proper(d, op, who, n, then)
  PROVE  /\ Fine(d, AskFor(d, op, who, n, then))
         /\ op \in Choice /\ n = d.n => Choosing(AskFor(d, op, who, n, then))
<1> DEFINE b == Ensure(d)
<1>1. Fine(d, b)
  BY EnsureFine
<1> HIDE DEF b
<1> DEFINE l == IF b.ready THEN Route(b) ELSE None
<1> DEFINE new == [op |-> op, who |-> who, n |-> n, link |-> l, sent |-> Heard(b, l), then |-> then]
<1> DEFINE e == [b EXCEPT !.asks = @ \cup {new}]
<1>2. e = AskFor(d, op, who, n, then)
  BY DEF AskFor, b
<1>3. l \in Int /\ l <= Len(b.links) /\ Heard(b, l) \in BOOLEAN
  BY <1>1, RouteTyped DEF Fine
<1> HIDE DEF l
<1>4. new \in Asks /\ new.link <= Len(b.links)
  BY <1>3 DEF Proper, Asks
<1>5. /\ DOMAIN e = Fields /\ e.n = b.n /\ e.links = b.links /\ e.events = b.events /\ e.current = b.current
      /\ e.attempt = b.attempt /\ e.posts = b.posts /\ e.listed = b.listed /\ e.chain = b.chain /\ e.sub = b.sub
      /\ e.asks = b.asks \cup {new}
  BY <1>1 DEF Fine, OK, Typed, Fields
<1>6. new.op = op /\ new.who = who /\ new.n = n /\ new.then = then
  OBVIOUS
<1> HIDE DEF e, new
<1>7. Published(e)
  BY <1>1, <1>5, <1>6 DEF Fine, Goes, Keeps, OK, Published, Proper
<1>8. Chosen(e)
  BY <1>1, <1>5, <1>6 DEF Fine, Goes, OK, Chosen, Proper, Wanted, LastOp
<1>9. (Choosing(b) => Choosing(e)) /\ (op \in Choice /\ n = d.n => Choosing(e))
  BY <1>1, <1>5, <1>6 DEF Choosing, Fine, Goes
<1>10. e.asks \subseteq Asks /\ \A a \in e.asks : a.link <= Len(b.links)
  BY <1>1, <1>4, <1>5 DEF Fine, OK, Typed
<1>11. OK(b) /\ DOMAIN b = Fields
  BY <1>1 DEF Fine, OK, Typed
<1>12. Fine(b, e)
  BY <1>5, <1>7, <1>8, <1>9, <1>10, <1>11, AsksFine
<1> QED  BY <1>1, <1>2, <1>9, <1>12, FineThen

-----------------------------------------------------------------------------
(* The rfed link and the distro's requests.                                *)

\* Any request but one about the subscription or a post.
LEMMA AskFine ==
  ASSUME NEW d, OK(d), NEW op \in Ops \ (Choice \cup {"publish"}), NEW who \in Int
  PROVE  Fine(d, Ask(d, op, who))
<1>1. Proper(d, op, who, d.n, <<>>)
  BY DEF Proper, OK, Typed
<1> QED  BY <1>1, AskForFine DEF Ask

\* Nothing is done.
LEMMA StillFine ==
  ASSUME NEW d, OK(d)
  PROVE  Fine(d, d)
BY SameFine DEF Same

\* _redriveRfedLink.
LEMMA RedriveFine ==
  ASSUME NEW d, OK(d)
  PROVE  Fine(d, Redrive(d))
BY AskFine, StillFine DEF Redrive, Ops, Choice

\* _rfedDeferUntilAnnounce.
LEMMA ParkFine ==
  ASSUME NEW d, OK(d)
  PROVE  Fine(d, Park(d))
<1>1. Same(d, Park(d))
  BY DEF Park, Same, OK, Typed, Fields
<1> QED  BY <1>1, SameFine

\* _closeRefusedRfedLink.
LEMMA CloseRefusedFine ==
  ASSUME NEW d, OK(d)
  PROVE  Fine(d, CloseRefused(d))
<1> DEFINE e == [d EXCEPT !.armed = FALSE]
<1>1. Same(d, e)
  BY DEF Same, OK, Typed, Fields
<1>2. Fine(d, e) /\ OK(e) /\ e.current = d.current
  BY <1>1, SameFine DEF Fine, Same
<1>3. d.current # None => d.current \in 1..Len(e.links)
  BY <1>1 DEF Same, OK, Typed, None
<1> HIDE DEF e
<1>4. CloseRefused(d) = IF d.current = None THEN e ELSE CloseLink(e, e.current, "ours")
  BY <1>2 DEF CloseRefused, e
<1>5. d.current # None => Fine(e, CloseLink(e, e.current, "ours"))
  BY <1>2, <1>3, CloseLinkFine
<1> QED  BY <1>2, <1>4, <1>5, FineThen

\* _onRfedLinkClosed.
LEMMA ReopenFine ==
  ASSUME NEW d, OK(d), NEW l
  PROVE  Fine(d, Reopen(d, l))
<1> DEFINE e == [d EXCEPT !.armed = FALSE]
<1>1. Same(d, e)
  BY DEF Same, OK, Typed, Fields
<1>2. Fine(d, e) /\ OK(e)
  BY <1>1, SameFine DEF Fine
<1>3. Fine(d, Redrive(e))
  BY <1>2, RedriveFine, FineThen
<1> QED  BY <1>2, <1>3, StillFine DEF Reopen

\* The "close" handler, of a link that closed.
LEMMA CloseHeardFine ==
  ASSUME NEW d, OK(d), NEW l \in 1..Len(d.links), d.links[l].status = "closed"
  PROVE  Fine(d, CloseHeard(d, l))
<1> DEFINE f == [d EXCEPT !.stream = "none", !.attempt = None, !.failed = ~d.links[l].heard]
<1> DEFINE g == IF d.attempt = l THEN f ELSE d
<1> DEFINE h == IF d.current = l THEN [g EXCEPT !.current = None] ELSE g
<1>1. Fine(d, g)
  <2>1. CASE d.attempt = l
    <3>1. /\ DOMAIN f = Fields /\ f.n = d.n /\ f.links = d.links /\ f.events = d.events
          /\ f.current = d.current /\ f.attempt = 0 /\ f.asks = d.asks /\ f.posts = d.posts
          /\ f.listed = d.listed /\ f.chain = d.chain /\ f.sub = d.sub
      BY DEF OK, Typed, Fields, None
    <3> HIDE DEF f
    <3>2. Attempts(f) /\ Heards(f)
      BY <2>1, <3>1 DEF OK, Typed, Attempts, Heards
    <3>3. /\ f.links \in Seq(LinkRecs) /\ Len(f.links) = Len(d.links)
          /\ f.events \in Seq({"established", "close"} \X (1..Len(d.links)))
          /\ f.current \in 0..Len(d.links) /\ f.attempt \in 0..Len(d.links)
      BY <3>1 DEF OK, Typed
    <3>4. Fine(d, f)
      BY <3>1, <3>2, <3>3, LinksFine
    <3> QED  BY <2>1, <3>4
  <2>2. CASE d.attempt # l
    BY <2>2, StillFine
  <2> QED  BY <2>1, <2>2
<1>2. g.current = d.current
  BY DEF OK, Typed, Fields
<1>3. CloseHeard(d, l) = IF d.links[l].heard /\ d.current = l THEN Reopen(h, l) ELSE h
  BY DEF CloseHeard, CloseHeardOf
<1> HIDE DEF g
<1>4. Fine(g, h)
  <2>1. CASE d.current = l
    <3>1. /\ DOMAIN h = Fields /\ h.n = g.n /\ h.links = g.links /\ h.events = g.events
          /\ h.current = 0 /\ h.attempt = g.attempt /\ h.asks = g.asks /\ h.posts = g.posts
          /\ h.listed = g.listed /\ h.chain = g.chain /\ h.sub = g.sub
      BY <1>1, <2>1 DEF Fine, OK, Typed, Fields, None
    <3> HIDE DEF h
    <3>2. Attempts(h) /\ Heards(h) /\ OK(g)
      <4>1. OK(g)
        BY <1>1 DEF Fine
      <4> QED  BY <3>1, <4>1 DEF OK, Attempts, Heards
    <3>3. /\ h.links \in Seq(LinkRecs) /\ Len(h.links) = Len(g.links)
          /\ h.events \in Seq({"established", "close"} \X (1..Len(g.links)))
          /\ h.current \in 0..Len(g.links) /\ h.attempt \in 0..Len(g.links)
      BY <3>1, <3>2 DEF OK, Typed
    <3> QED  BY <3>1, <3>2, <3>3, LinksFine
  <2>2. CASE d.current # l
    BY <1>1, <2>2, StillFine DEF Fine
  <2> QED  BY <2>1, <2>2
<1> HIDE DEF h
<1>5. Fine(d, h) /\ OK(h)
  BY <1>1, <1>4, FineThen DEF Fine
<1>6. Fine(d, Reopen(h, l))
  BY <1>5, ReopenFine, FineThen
<1> QED  BY <1>3, <1>5, <1>6

\* _bindRfedLinkForDistroPush.
LEMMA BindPushFine ==
  ASSUME NEW d, OK(d)
  PROVE  Fine(d, BindPush(d))
<1> DEFINE e == [d EXCEPT !.claims = IF d.current = None THEN @ ELSE @ \cup {d.current}]
<1>1. Same(d, e) /\ d.current \in Int
  BY DEF Same, OK, Typed, Fields
<1>2. Fine(d, e) /\ OK(e)
  BY <1>1, SameFine DEF Fine
<1> HIDE DEF e
<1>3. Fine(d, Ask(e, "bind", d.current))
  BY <1>1, <1>2, AskFine, FineThen DEF Ops, Choice
<1> QED  BY <1>3, StillFine DEF BindPush, e

\* _registerDistro.
LEMMA RegisterFine ==
  ASSUME NEW d, OK(d)
  PROVE  Fine(d, Register(d))
<1> DEFINE e == [d EXCEPT !.owed = TRUE]
<1>1. Same(d, e)
  BY DEF Same, OK, Typed, Fields
<1>2. Fine(d, e) /\ OK(e)
  BY <1>1, SameFine DEF Fine
<1> HIDE DEF e
<1>3. Fine(d, Ask(e, "register", 0))
  BY <1>1, <1>2, AskFine, FineThen DEF Ops, Choice
<1> QED  BY <1>3, StillFine DEF Register, e

\* _registerOwedDistro.
LEMMA RegisterOwedFine ==
  ASSUME NEW d, OK(d)
  PROVE  Fine(d, RegisterOwed(d))
BY RegisterFine, StillFine DEF RegisterOwed

\* _pullDistroMessages.
LEMMA PullFine ==
  ASSUME NEW d, OK(d)
  PROVE  Fine(d, Pull(d))
BY AskFine, StillFine DEF Pull, Ops, Choice

\* The pull that waits for the bindings.
LEMMA PullDueFine ==
  ASSUME NEW d, OK(d)
  PROVE  Fine(d, PullDue(d))
<1> DEFINE e == [d EXCEPT !.due = None]
<1>1. Same(d, e)
  BY DEF Same, OK, Typed, Fields
<1>2. Fine(d, e) /\ OK(e)
  BY <1>1, SameFine DEF Fine
<1> HIDE DEF e
<1>3. Fine(d, Pull(e))
  BY <1>2, PullFine, FineThen
<1> QED  BY <1>2, <1>3, StillFine DEF PullDue, e

\* What follows a registration.
LEMMA RegisteredFine ==
  ASSUME NEW d, OK(d), NEW a, NEW res
  PROVE  Fine(d, Registered(d, a, res))
<1> DEFINE e == [d EXCEPT !.owed = FALSE]
<1> DEFINE f == [d EXCEPT !.refused = a.link]
<1> DEFINE g == [Park(d) EXCEPT !.refused = a.link]
<1>1. Same(d, e) /\ Same(d, f)
  BY DEF Same, OK, Typed, Fields
<1>2. Fine(d, e) /\ OK(e) /\ Fine(d, f)
  BY <1>1, SameFine DEF Fine
<1>3. Fine(d, Park(d)) /\ OK(Park(d))
  BY ParkFine DEF Fine
<1>4. Same(Park(d), g)
  BY <1>3 DEF Same, OK, Typed, Fields
<1>5. Fine(d, g)
  BY <1>3, <1>4, SameFine, FineThen
<1> HIDE DEF e, f, g
<1>6. Fine(d, BindPush(e)) /\ OK(BindPush(e))
  BY <1>2, BindPushFine, FineThen DEF Fine
<1>7. Fine(d, Ask(BindPush(e), "announce", 0))
  BY <1>6, AskFine, FineThen DEF Ops, Choice
<1> QED  BY <1>2, <1>5, <1>7, StillFine DEF Registered, e, f, g

-----------------------------------------------------------------------------
(* The channel's subscription, its stream and its pull.                    *)

\* What follows the request under way, for the channel's sake.
LEMMA QueueFine ==
  ASSUME NEW d, Orderly(d), NEW op \in Choice, op = Wanted(d)
  PROVE  Fine(d, Queue(d, op))
<1> DEFINE More(a) == IF a \in Chain(d) THEN [a EXCEPT !.then = Append(@, op)] ELSE a
<1> DEFINE e == Queue(d, op)
<1>1. /\ DOMAIN e = Fields /\ e.n = d.n /\ e.links = d.links /\ e.events = d.events
      /\ e.current = d.current /\ e.attempt = d.attempt /\ e.posts = d.posts
      /\ e.listed = d.listed /\ e.chain = d.chain /\ e.sub = d.sub /\ e.asks = {More(a) : a \in d.asks}
  BY DEF Queue, Orderly, Typed, Fields
<1>2. ASSUME NEW a \in d.asks
      PROVE  /\ More(a) \in Asks /\ More(a).op = a.op /\ More(a).who = a.who /\ More(a).n = a.n
             /\ More(a).link = a.link
             /\ a \in Chain(d) => LastOp(More(a)) = op
             /\ a \notin Chain(d) => More(a) = a
  <2>1. a \in Asks /\ a.then \in Seq(Choice)
    BY DEF Orderly, Typed, Asks
  <2>2. CASE a \in Chain(d)
    <3>1. Append(a.then, op) \in Seq(Choice) /\ Append(a.then, op) # <<>>
          /\ Append(a.then, op)[Len(Append(a.then, op))] = op
      BY <2>1
    <3>2. More(a) = [a EXCEPT !.then = Append(a.then, op)]
      BY <2>2
    <3> HIDE DEF More
    <3> QED  BY <2>1, <2>2, <3>1, <3>2 DEF Asks, LastOp
  <2>3. CASE a \notin Chain(d)
    BY <2>1, <2>3
  <2> QED  BY <2>2, <2>3
<1>3. \A a \in d.asks : a \in Chain(d) <=> a.op \in Choice /\ a.n = d.n
  BY DEF Chain, Own, Choice
<1> HIDE DEF e, More
<1>4. e.asks \subseteq Asks /\ \A a \in e.asks : a.link <= Len(d.links)
  BY <1>1, <1>2 DEF Orderly, Typed
<1>5. Typed(e)
  BY <1>1, <1>4 DEF Orderly, Typed
<1>6. Published(e)
  BY <1>1, <1>2 DEF Orderly, Published
<1>7. Chosen(e)
  <2>1. ASSUME NEW a \in d.asks PROVE More(a).n <= d.n /\ (More(a).op \notin Choice => More(a).then = <<>>)
    BY <1>2, <1>3 DEF Orderly
  <2>2. ASSUME NEW a \in d.asks, a.n = d.n, a.op \in Choice PROVE LastOp(More(a)) = op
    BY <1>2, <1>3, <2>2
  <2> QED  BY <1>1, <1>2, <2>1, <2>2 DEF Chosen, Wanted, Orderly
<1>8. Attempts(e) /\ Heards(e)
  BY <1>1 DEF Orderly, Attempts, Heards
<1>9. Goes(d, e)
  BY <1>1, <1>2 DEF Goes, Keeps, Choosing
<1> QED  BY <1>5, <1>6, <1>7, <1>8, <1>9 DEF Fine, OK, e

\* While no request about the subscription is under way, nothing is behind the choice.
LEMMA NoneBehind ==
  ASSUME NEW d, Orderly(d), Chain(d) = {}
  PROVE  OK(d)
<1>1. ASSUME NEW a \in d.asks, a.n = d.n PROVE a.op \notin Choice
  BY <1>1 DEF Chain, Own, Choice
<1> QED  BY <1>1 DEF OK, Orderly, Chosen

\* The choice that was made is asked for: a listed channel's subscription.
LEMMA SubscribeAnew ==
  ASSUME NEW d, Orderly(d), d.listed, d.sub = "none"
  PROVE  Fine(d, Subscribe(d)) /\ Choosing(Subscribe(d))
<1> DEFINE e == [d EXCEPT !.sub = "asked"]
<1>1. /\ DOMAIN e = Fields /\ e.n = d.n /\ e.links = d.links /\ e.events = d.events
      /\ e.current = d.current /\ e.attempt = d.attempt /\ e.posts = d.posts
      /\ e.listed = d.listed /\ e.chain = d.chain /\ e.asks = d.asks
  BY DEF Orderly, Typed, Fields
<1>2. Subscribe(d) = IF Chain(d) # {} THEN Queue(e, "sub") ELSE Ask(e, "sub", 0)
  BY DEF Subscribe
<1> HIDE DEF e
<1>3. Orderly(e) /\ Chain(e) = Chain(d) /\ Wanted(e) = "sub"
  BY <1>1 DEF Orderly, Typed, Attempts, Heards, Published, Chain, Own, Wanted
<1>4. Goes(d, e)
  BY <1>1 DEF Goes, Keeps, Choosing
<1>5. CASE Chain(d) # {}
  <2>1. Fine(e, Queue(e, "sub"))
    BY <1>3, QueueFine DEF Choice
  <2>2. Choosing(e)
    BY <1>3, <1>5 DEF Choosing, Chain, Own, Choice
  <2> QED  BY <1>2, <1>4, <1>5, <2>1, <2>2 DEF Fine, Goes, Keeps
<1>6. CASE Chain(d) = {}
  <2>1. OK(e)
    BY <1>3, <1>6, NoneBehind
  <2>2. Proper(e, "sub", 0, e.n, <<>>)
    BY <1>3 DEF Proper, Orderly, Typed, Ops, Choice
  <2>3. Fine(e, Ask(e, "sub", 0)) /\ Choosing(Ask(e, "sub", 0))
    BY <2>1, <2>2, AskForFine DEF Ask, Choice
  <2> QED  BY <1>2, <1>4, <1>6, <2>3 DEF Fine, Goes, Keeps
<1> QED  BY <1>5, <1>6

\* _ensureChannelSubscribed, of a listed channel.
LEMMA SubscribeFine ==
  ASSUME NEW d, OK(d), d.listed
  PROVE  Fine(d, Subscribe(d))
<1>1. CASE d.sub = "none"
  BY <1>1, SubscribeAnew DEF OK, Orderly, Chosen
<1>2. CASE d.sub # "none"
  BY <1>2, StillFine DEF Subscribe
<1> QED  BY <1>1, <1>2

\* _ensureChannelStreamConfigured.
LEMMA StreamFine ==
  ASSUME NEW d, OK(d)
  PROVE  Fine(d, Stream(d))
<1> DEFINE e == [d EXCEPT !.opened = TRUE]
<1> DEFINE f == [e EXCEPT !.stream = "ok"]
<1> DEFINE g == [e EXCEPT !.stream = "asked"]
<1>1. Same(d, e) /\ Same(d, f) /\ Same(d, g)
  BY DEF Same, OK, Typed, Fields
<1>2. Fine(d, e) /\ Fine(d, f) /\ Fine(d, g)
  BY <1>1, SameFine
<1>3. Stream(d) \in {e, f, Ask(g, "stream", None)}
  BY DEF Stream
<1> HIDE DEF e, f, g
<1>4. Fine(d, Ask(g, "stream", None))
  BY <1>2, AskFine, FineThen DEF Fine, Ops, Choice, None
<1> QED  BY <1>2, <1>3, <1>4

\* pullChannel.
LEMMA PullChannelFine ==
  ASSUME NEW d, OK(d)
  PROVE  Fine(d, PullChannel(d))
<1> DEFINE e == [d EXCEPT !.pulling = TRUE]
<1>1. Same(d, e)
  BY DEF Same, OK, Typed, Fields
<1>2. Fine(d, e)
  BY <1>1, SameFine
<1>3. PullChannel(d) \in {d, Ask(e, "chpull", 0)}
  BY DEF PullChannel
<1> HIDE DEF e
<1>4. Fine(d, Ask(e, "chpull", 0))
  BY <1>2, AskFine, FineThen DEF Fine, Ops, Choice
<1> QED  BY <1>3, <1>4, StillFine

\* _pullChannelOnScreen.
LEMMA PullOnScreenFine ==
  ASSUME NEW d, OK(d), NEW generation
  PROVE  Fine(d, PullOnScreen(d, generation))
BY PullChannelFine, StillFine DEF PullOnScreen

\* _rebindChannelStream.
LEMMA RebindFine ==
  ASSUME NEW d, OK(d), NEW l \in Int
  PROVE  Fine(d, Rebind(d, l))
<1> DEFINE e == [d EXCEPT !.stream = "asked"]
<1>1. Same(d, e)
  BY DEF Same, OK, Typed, Fields
<1>2. Fine(d, e)
  BY <1>1, SameFine
<1>3. Rebind(d, l) \in {d, PullOnScreen(d, l), Ask(e, "stream", l)}
  BY DEF Rebind
<1> HIDE DEF e
<1>4. Fine(d, Ask(e, "stream", l))
  BY <1>2, AskFine, FineThen DEF Fine, Ops, Choice
<1> QED  BY <1>3, <1>4, StillFine, PullOnScreenFine

\* The rest of openChannel.
LEMMA OpensFine ==
  ASSUME NEW d, OK(d)
  PROVE  Fine(d, Opens(d))
<1> DEFINE e == [d EXCEPT !.opened = TRUE]
<1>1. Same(d, e)
  BY DEF Same, OK, Typed, Fields
<1>2. Fine(d, e)
  BY <1>1, SameFine
<1>3. Opens(d) \in {d, PullChannel(Stream(e))}
  BY DEF Opens
<1> HIDE DEF e
<1>4. Fine(d, Stream(e))
  BY <1>2, StreamFine, FineThen DEF Fine
<1>5. Fine(d, PullChannel(Stream(e)))
  BY <1>4, PullChannelFine, FineThen DEF Fine
<1> QED  BY <1>3, <1>5, StillFine

\* _initChannels after the subscription.
LEMMA InitTailFine ==
  ASSUME NEW d, OK(d)
  PROVE  Fine(d, InitTail(d))
BY StreamFine, StillFine DEF InitTail

\* _initChannels, of the stored channel.
LEMMA ResubscribeFine ==
  ASSUME NEW d, OK(d)
  PROVE  Fine(d, Resubscribe(d))
<1> DEFINE e == [d EXCEPT !.tail = @ \cup {d.n}]
<1>1. Same(d, e)
  BY DEF Same, OK, Typed, Fields
<1>2. Fine(d, e)
  BY <1>1, SameFine
<1>3. Resubscribe(d) \in {d, InitTail(d)} \/ (d.listed /\ Resubscribe(d) = Subscribe(e))
  BY DEF Resubscribe
<1> HIDE DEF e
<1>4. ASSUME d.listed PROVE Fine(d, Subscribe(e))
  BY <1>1, <1>2, <1>4, SubscribeFine, FineThen DEF Fine, Same
<1> QED  BY <1>3, <1>4, StillFine, InitTailFine

-----------------------------------------------------------------------------
(* The posts.                                                              *)

\* What is done to a post keeps what it is known by.
LEMMA PostKept ==
  ASSUME NEW q \in PostRecs, NEW pc \in {"chain", "sub", "stream", "stamp", "out", "over"}, NEW n \in Nat
  PROVE  /\ [q EXCEPT !.pc = pc] \in PostRecs /\ Keeps(q, [q EXCEPT !.pc = pc])
         /\ [q EXCEPT !.pc = pc, !.n = n] \in PostRecs /\ Keeps(q, [q EXCEPT !.pc = pc, !.n = n])
         /\ [q EXCEPT !.pc = pc, !.key = TRUE] \in PostRecs /\ Keeps(q, [q EXCEPT !.pc = pc, !.key = TRUE])
         /\ Tracked([q EXCEPT !.pc = pc, !.key = TRUE])
BY DEF PostRecs, Keeps, Tracked

\* A failure does, too.
LEMMA FailsKept ==
  ASSUME NEW q \in PostRecs
  PROVE  /\ Failed(q) \in PostRecs /\ Keeps(q, Failed(q))
         /\ Over(q) \in PostRecs /\ Keeps(q, Over(q))
         /\ Fails(q) \in PostRecs /\ Keeps(q, Fails(q))
<1>1. Failed(q) \in PostRecs /\ Keeps(q, Failed(q))
  BY DEF Failed, PostRecs, Keeps, Tracked
<1>2. \A r \in PostRecs : Over(r) \in PostRecs /\ Keeps(r, Over(r))
  BY PostKept DEF Over
<1>3. Keeps(Failed(q), Fails(q)) /\ Fails(q) \in PostRecs
  BY <1>1, <1>2 DEF Fails
<1> QED  BY <1>1, <1>2, <1>3 DEF Keeps

\* An answer or an echo shows as sent what is known by it.
LEMMA SentKept ==
  ASSUME NEW q \in PostRecs
  PROVE  /\ Sent(q) \in PostRecs /\ Keeps(q, Sent(q)) /\ Over(Sent(q)) \in PostRecs /\ Keeps(q, Over(Sent(q)))
         /\ Tracked(q) => Sent(q).status = "sent" /\ Over(Sent(q)).status = "sent"
         /\ EchoHeard(q) \in PostRecs /\ Keeps(q, EchoHeard(q))
         /\ Tracked(q) \/ ~q.paged => EchoHeard(q).status = "sent"
<1>1. Sent(q) \in PostRecs /\ Keeps(q, Sent(q)) /\ (Tracked(q) => Sent(q).status = "sent")
  BY DEF Sent, PostRecs, Keeps, Tracked
<1>2. Over(Sent(q)) \in PostRecs /\ Keeps(Sent(q), Over(Sent(q)))
  BY <1>1, FailsKept
<1>3. Keeps(q, Over(Sent(q))) /\ (Tracked(q) => Over(Sent(q)).status = "sent")
  BY <1>1, <1>2 DEF Keeps
<1> DEFINE r == [q EXCEPT !.status = "sent"]
<1>4. r \in PostRecs /\ Keeps(q, r) /\ r.status = "sent"
  BY DEF PostRecs, Keeps, Tracked
<1>5. Keeps(q, q)
  BY DEF Keeps
<1>6. EchoHeard(q) = IF q.key THEN Over(Sent(q)) ELSE IF ~q.paged /\ q.status # "sent" THEN r ELSE q
  BY DEF EchoHeard
<1> HIDE DEF r
<1>7. EchoHeard(q) \in PostRecs /\ Keeps(q, EchoHeard(q))
  BY <1>2, <1>3, <1>4, <1>5, <1>6
<1>8. Tracked(q) \/ ~q.paged => EchoHeard(q).status = "sent"
  BY <1>3, <1>4, <1>6 DEF Tracked
<1> QED  BY <1>1, <1>2, <1>3, <1>7, <1>8

\* The posts go on.
LEMMA PostsFine ==
  ASSUME NEW d, NEW e, OK(d),
         DOMAIN e = Fields, e.n = d.n, e.links = d.links, e.events = d.events, e.current = d.current,
         e.attempt = d.attempt, e.asks = d.asks, e.listed = d.listed, e.chain = d.chain, e.sub = d.sub,
         e.posts \in Seq(PostRecs), Len(e.posts) = Len(d.posts),
         \A p \in 1..Len(d.posts) : Keeps(d.posts[p], e.posts[p])
  PROVE  Fine(d, e)
<1>1. Typed(e) /\ Attempts(e) /\ Heards(e) /\ Chosen(e)
  BY DEF OK, Typed, Attempts, Heards, Chosen, Wanted
<1>2. Published(e)
  BY DEF OK, Published, Keeps
<1>3. Goes(d, e)
  BY DEF Goes, Choosing
<1> QED  BY <1>1, <1>2, <1>3 DEF Fine, OK

\* One post does.
LEMMA SetPostFine ==
  ASSUME NEW d, OK(d), NEW p \in 1..Len(d.posts), NEW q \in PostRecs, Keeps(d.posts[p], q)
  PROVE  Fine(d, SetPost(d, p, q)) /\ SetPost(d, p, q).posts[p] = q
                                   /\ Len(SetPost(d, p, q).posts) = Len(d.posts)
<1> DEFINE e == SetPost(d, p, q)
<1>1. /\ DOMAIN e = Fields /\ e.n = d.n /\ e.links = d.links /\ e.events = d.events
      /\ e.current = d.current /\ e.attempt = d.attempt /\ e.asks = d.asks /\ e.listed = d.listed /\ e.chain = d.chain
      /\ e.sub = d.sub /\ e.posts = [d.posts EXCEPT ![p] = q]
  BY DEF SetPost, OK, Typed, Fields
<1>2. /\ e.posts \in Seq(PostRecs) /\ Len(e.posts) = Len(d.posts) /\ e.posts[p] = q
      /\ \A k \in 1..Len(d.posts) : k # p => e.posts[k] = d.posts[k]
  BY <1>1 DEF OK, Typed
<1> HIDE DEF e
<1>3. \A k \in 1..Len(d.posts) : Keeps(d.posts[k], e.posts[k])
  BY <1>2 DEF Keeps
<1> QED  BY <1>1, <1>2, <1>3, PostsFine DEF e

\* Some of them fail, or go on together.
LEMMA TheseFine ==
  ASSUME NEW d, OK(d), NEW ps, NEW pc \in {"chain", "sub", "stream", "stamp", "out", "over"}
  PROVE  Fine(d, FailThese(d, ps)) /\ Fine(d, MoveThese(d, ps, pc))
<1> DEFINE e == FailThese(d, ps)
<1> DEFINE f == MoveThese(d, ps, pc)
<1> DEFINE es == [p \in 1..Len(d.posts) |-> IF p \in ps THEN Fails(d.posts[p]) ELSE d.posts[p]]
<1> DEFINE fs == [p \in 1..Len(d.posts) |-> IF p \in ps THEN [d.posts[p] EXCEPT !.pc = pc] ELSE d.posts[p]]
<1>0. DOMAIN d.posts = 1..Len(d.posts) /\ Len(d.posts) \in Nat /\ \A p \in 1..Len(d.posts) : d.posts[p] \in PostRecs
  BY DEF OK, Typed
<1>1. /\ DOMAIN e = Fields /\ e.n = d.n /\ e.links = d.links /\ e.events = d.events
      /\ e.current = d.current /\ e.attempt = d.attempt /\ e.asks = d.asks /\ e.listed = d.listed /\ e.chain = d.chain
      /\ e.sub = d.sub /\ e.posts = es
  BY <1>0 DEF FailThese, OK, Typed, Fields
<1>2. /\ DOMAIN f = Fields /\ f.n = d.n /\ f.links = d.links /\ f.events = d.events
      /\ f.current = d.current /\ f.attempt = d.attempt /\ f.asks = d.asks /\ f.listed = d.listed /\ f.chain = d.chain
      /\ f.sub = d.sub /\ f.posts = fs
  BY <1>0 DEF MoveThese, OK, Typed, Fields
<1> HIDE DEF e, f
<1>3. ASSUME NEW p \in 1..Len(d.posts)
      PROVE  /\ es[p] \in PostRecs /\ Keeps(d.posts[p], es[p])
             /\ fs[p] \in PostRecs /\ Keeps(d.posts[p], fs[p])
  <2>1. d.posts[p] \in PostRecs /\ Keeps(d.posts[p], d.posts[p])
    BY <1>0 DEF Keeps
  <2>2. es[p] \in {d.posts[p], Fails(d.posts[p])} /\ fs[p] \in {d.posts[p], [d.posts[p] EXCEPT !.pc = pc]}
    OBVIOUS
  <2> HIDE DEF es, fs
  <2>3. es[p] \in PostRecs /\ Keeps(d.posts[p], es[p])
    BY <2>1, <2>2, FailsKept, Zenon
  <2>4. [d.posts[p] EXCEPT !.pc = pc] \in PostRecs /\ Keeps(d.posts[p], [d.posts[p] EXCEPT !.pc = pc])
    BY <2>1, 0 \in Nat, PostKept, Zenon
  <2>5. fs[p] \in PostRecs /\ Keeps(d.posts[p], fs[p])
    BY <2>1, <2>2, <2>4, Zenon
  <2> QED  BY <2>3, <2>5
<1>4. es \in Seq(PostRecs) /\ Len(es) = Len(d.posts) /\ fs \in Seq(PostRecs) /\ Len(fs) = Len(d.posts)
  <2>1. \A p \in 1..Len(d.posts) : es[p] \in PostRecs /\ fs[p] \in PostRecs
    BY <1>3
  <2>2. es \in [1..Len(d.posts) -> PostRecs] /\ fs \in [1..Len(d.posts) -> PostRecs]
    BY <2>1
  <2> HIDE DEF es, fs
  <2> QED  BY <1>0, <2>2
<1> HIDE DEF es, fs
<1> QED  BY <1>1, <1>2, <1>3, <1>4, PostsFine DEF e, f

\* Those that wait for a memo that fails.
LEMMA FailWaitingFine ==
  ASSUME NEW d, OK(d), NEW pc, NEW n
  PROVE  Fine(d, FailWaiting(d, pc, n))
BY TheseFine DEF FailWaiting

\* sendChannelMessage, past the subscription.
LEMMA AdvanceFine ==
  ASSUME NEW d, OK(d), NEW ps
  PROVE  Fine(d, Advance(d, ps))
<1> DEFINE e == Stream(d)
<1>1. Advance(d, ps) \in {d, FailThese(d, ps), FailThese(e, ps), MoveThese(e, ps, "stamp"), MoveThese(e, ps, "stream")}
  BY DEF Advance
<1>2. Fine(d, e)
  BY StreamFine
<1> HIDE DEF e
<1>3. Fine(e, FailThese(e, ps)) /\ Fine(e, MoveThese(e, ps, "stamp")) /\ Fine(e, MoveThese(e, ps, "stream"))
  BY <1>2, TheseFine DEF Fine
<1>4. Fine(d, FailThese(d, ps))
  BY TheseFine
<1> QED  BY <1>1, <1>2, <1>3, <1>4, StillFine, FineThen

\* A post whose turn has come.
LEMMA StartsFine ==
  ASSUME NEW d, OK(d), d.listed, NEW p \in 1..Len(d.posts)
  PROVE  Fine(d, Starts(d, p))
<1> DEFINE q == [d.posts[p] EXCEPT !.pc = "sub", !.n = d.n]
<1> DEFINE e == SetPost(d, p, q)
<1>1. d.posts[p] \in PostRecs /\ d.n \in Nat
  BY DEF OK, Typed
<1>2. q \in PostRecs /\ Keeps(d.posts[p], q)
  BY <1>1, PostKept
<1> HIDE DEF q
<1>3. Fine(d, e)
  BY <1>2, SetPostFine
<1>4. Starts(d, p) = Advance(Subscribe(e), {p})
  BY DEF Starts, q
<1> HIDE DEF e
<1>5. Fine(d, Subscribe(e))
  BY <1>3, SubscribeFine, FineThen DEF Fine, Goes
<1> QED  BY <1>4, <1>5, AdvanceFine, FineThen DEF Fine

-----------------------------------------------------------------------------
(* The ends of the requests.                                               *)

\* A subscription's, or an unsubscription's.
LEMMA SubEndsFine ==
  ASSUME NEW d, OK(d), NEW a, NEW ok
  PROVE  Fine(d, SubEnds(d, a, ok))
<1> DEFINE mine == a.n = d.n /\ a.then = <<>> /\ d.sub = "asked"
<1> DEFINE memo == IF ok THEN "ok" ELSE "bad"
<1> DEFINE e == IF ~mine THEN d ELSE [d EXCEPT !.sub = memo, !.opening = FALSE]
<1> DEFINE f == IF mine /\ ok /\ d.opening THEN Opens(e) ELSE e
<1> DEFINE g == IF ok /\ mine THEN AdvanceAll(f) ELSE FailWaiting(f, "sub", a.n)
<1> DEFINE h == [g EXCEPT !.tail = @ \ {a.n}]
<1>1. Fine(d, e)
  <2>1. CASE ~mine
    BY <2>1, StillFine
  <2>2. CASE mine
    <3>1. /\ DOMAIN e = Fields /\ e.n = d.n /\ e.links = d.links /\ e.events = d.events
          /\ e.current = d.current /\ e.attempt = d.attempt /\ e.posts = d.posts
          /\ e.listed = d.listed /\ e.chain = d.chain /\ e.asks = d.asks
      BY <2>2 DEF OK, Typed, Fields
    <3>2. d.listed
      BY <2>2 DEF OK, Typed, Chosen
    <3> HIDE DEF e
    <3>3. Published(e) /\ Chosen(e) /\ (Choosing(d) => Choosing(e))
      BY <3>1, <3>2 DEF OK, Published, Chosen, Wanted, Choosing
    <3>4. e.asks \subseteq Asks /\ \A b \in e.asks : b.link <= Len(d.links)
      BY <3>1 DEF OK, Typed
    <3> QED  BY <3>1, <3>3, <3>4, AsksFine
  <2> QED  BY <2>1, <2>2
<1>2. SubEnds(d, a, ok) \in {g, InitTail(h)}
  BY DEF SubEnds
<1> HIDE DEF e
<1>3. Fine(d, f)
  BY <1>1, OpensFine, FineThen DEF Fine
<1> HIDE DEF f
<1>4. Fine(d, g)
  BY <1>3, AdvanceFine, FailWaitingFine, FineThen DEF Fine, AdvanceAll
<1> HIDE DEF g
<1>5. Same(g, h)
  BY <1>4 DEF Same, Fine, OK, Typed, Fields
<1>6. Fine(d, h)
  BY <1>4, <1>5, SameFine, FineThen DEF Fine
<1> HIDE DEF h
<1>7. Fine(d, InitTail(h))
  BY <1>6, InitTailFine, FineThen DEF Fine
<1> QED  BY <1>2, <1>4, <1>7

\* A stream's.
LEMMA StreamEndsFine ==
  ASSUME NEW d, OK(d), NEW a, NEW ok
  PROVE  Fine(d, StreamEnds(d, a, ok))
<1> DEFINE mine == a.n = d.n /\ d.stream = "asked"
<1> DEFINE memo == IF ok THEN "ok" ELSE "bad"
<1> DEFINE e == IF mine THEN [d EXCEPT !.stream = memo] ELSE d
<1> DEFINE f == IF ~ok THEN FailWaiting(e, "stream", a.n) ELSE MoveThese(e, Waiting(e, "stream", a.n), "stamp")
<1>1. Same(d, e)
  BY DEF Same, OK, Typed, Fields
<1>2. Fine(d, e)
  BY <1>1, SameFine
<1>3. StreamEnds(d, a, ok) \in {f, PullOnScreen(f, a.who)}
  BY DEF StreamEnds
<1> HIDE DEF e
<1>4. Fine(d, f)
  BY <1>2, FailWaitingFine, TheseFine, FineThen DEF Fine
<1> HIDE DEF f
<1>5. Fine(d, PullOnScreen(f, a.who))
  BY <1>4, PullOnScreenFine, FineThen DEF Fine
<1> QED  BY <1>3, <1>4, <1>5

\* A publish's.
LEMMA PublishEndsFine ==
  ASSUME NEW d, OK(d), NEW p \in 1..Len(d.posts), NEW res
  PROVE  /\ Fine(d, PublishEnds(d, p, res))
         /\ res = "yes" /\ Tracked(d.posts[p]) => PublishEnds(d, p, res).posts[p].status = "sent"
<1> DEFINE q == IF res = "yes" THEN Over(Sent(d.posts[p])) ELSE Fails(d.posts[p])
<1>1. d.posts[p] \in PostRecs
  BY DEF OK, Typed
<1>2. q \in PostRecs /\ Keeps(d.posts[p], q) /\ (res = "yes" /\ Tracked(d.posts[p]) => q.status = "sent")
  BY <1>1, SentKept, FailsKept
<1>3. PublishEnds(d, p, res) = SetPost(d, p, q)
  BY DEF PublishEnds, Fails
<1> HIDE DEF q
<1> QED  BY <1>2, <1>3, SetPostFine

\* The distro's pull's.
LEMMA PullEndsFine ==
  ASSUME NEW d, OK(d), NEW a, NEW res
  PROVE  Fine(d, PullEnds(d, a, res))
<1> DEFINE e == CASE res = "refused" -> CloseRefused(d)
                  [] res = "fail" -> IF a.n = d.n /\ d.live THEN Park(d) ELSE d
                  [] OTHER -> d
<1> DEFINE f == [e EXCEPT !.first = FALSE]
<1>1. Fine(d, e)
  <2>1. e \in {d, CloseRefused(d), Park(d)}
    OBVIOUS
  <2> QED  BY <2>1, CloseRefusedFine, ParkFine, StillFine
<1>2. PullEnds(d, a, res) \in {Ask(d, "pull", 0), Resubscribe(f), e}
  BY DEF PullEnds
<1> HIDE DEF e
<1>3. Same(e, f)
  BY <1>1 DEF Same, Fine, OK, Typed, Fields
<1>4. Fine(d, f)
  BY <1>1, <1>3, SameFine, FineThen DEF Fine
<1> HIDE DEF f
<1>5. Fine(d, Resubscribe(f))
  BY <1>4, ResubscribeFine, FineThen DEF Fine
<1>6. Fine(d, Ask(d, "pull", 0))
  BY AskFine DEF Ops, Choice
<1> QED  BY <1>1, <1>2, <1>5, <1>6

\* A request that was under way.
Known(d, a) ==
  /\ a \in Asks /\ a.n <= d.n /\ (a.op \notin Choice => a.then = <<>>)
  /\ a.op = "publish" => a.who \in 1..Len(d.posts) /\ Tracked(d.posts[a.who])
  /\ a.n = d.n /\ a.op \in Choice => LastOp(a) = Wanted(d)

\* What follows one is asked for with its end.
LEMMA NextProper ==
  ASSUME NEW d, NEW e, OK(d), Fine(d, e), NEW a, Known(d, a), a.then # <<>>
  PROVE  Proper(e, Head(a.then), 0, a.n, Tail(a.then)) /\ Head(a.then) \in Choice
<1> DEFINE s == a.then
<1> DEFINE t == Tail(s)
<1>1. s \in Seq(Choice) /\ Len(s) \in Nat \ {0} /\ a.op \in Choice /\ a.n \in Nat \ {0} /\ a.n <= e.n
  BY DEF Known, Asks, Fine, Goes
<1>2. /\ Head(s) = s[1] /\ s[1] \in Choice /\ t \in Seq(Choice) /\ Len(t) = Len(s) - 1
      /\ \A i \in 1..Len(t) : t[i] = s[i + 1]
  BY <1>1
<1>3. LastOp(a) = s[Len(s)]
  BY <1>1 DEF LastOp
<1> HIDE DEF t
<1>0. t = <<>> <=> Len(t) = 0
  <2>1. t \in Seq(Choice)
    BY <1>2
  <2> QED  BY <2>1, EmptySeq
<1>4. (IF t = <<>> THEN Head(s) ELSE t[Len(t)]) = s[Len(s)]
  <2> DEFINE m == Len(s)
  <2>0. m \in Nat \ {0} /\ Len(t) = m - 1
    BY <1>1, <1>2
  <2> HIDE DEF m
  <2>1. CASE m = 1
    BY <1>0, <1>2, <2>0, <2>1 DEF m
  <2>2. CASE m # 1
    <3>1. m - 1 \in 1..Len(t) /\ Len(t) # 0 /\ (m - 1) + 1 = m
      BY <2>0, <2>2
    <3>2. t[m - 1] = s[m]
      BY <1>2, <3>1
    <3> QED  BY <1>0, <1>2, <2>0, <3>1, <3>2 DEF m
  <2> QED  BY <2>1, <2>2
<1> HIDE DEF s
<1>5. a.n = e.n => s[Len(s)] = Wanted(e)
  BY <1>1, <1>3 DEF Known, Fine, Goes, Wanted
<1>6. Head(s) \in Ops /\ Head(s) # "publish"
  BY <1>2 DEF Choice, Ops
<1> QED  BY <1>1, <1>2, <1>4, <1>5, <1>6 DEF Proper, s, t

\* Any request's.
LEMMA EndsFine ==
  ASSUME NEW d, OK(d), NEW a, Known(d, a), NEW res
  PROVE  /\ Fine(d, Ends(d, a, res))
         /\ a.then # <<>> /\ a.n = d.n => Choosing(Ends(d, a, res))
         /\ a.op = "publish" /\ res = "yes" => Ends(d, a, res).posts[a.who].status = "sent"
<1> DEFINE refuse == IF res = "refused" THEN CloseRefused(d) ELSE d
<1> DEFINE pulled == [refuse EXCEPT !.pulling = FALSE, !.pulled = IF res = "yes" THEN d.current ELSE @]
<1> DEFINE unbound == [d EXCEPT !.claims = @ \ {a.who}]
<1> DEFINE e == CASE a.op = "register" -> Registered(d, a, res)
                  [] a.op = "bind" -> IF res = "yes" THEN d ELSE unbound
                  [] a.op = "pull" -> PullEnds(d, a, res)
                  [] a.op = "redrive" -> IF res = "fail" THEN Park(d) ELSE d
                  [] a.op = "sub" -> SubEnds(d, a, res = "yes")
                  [] a.op = "stream" -> StreamEnds(d, a, res = "yes")
                  [] a.op = "chpull" -> pulled
                  [] a.op = "publish" -> PublishEnds(d, a.who, res)
                  [] OTHER -> d
<1> DEFINE next == IF a.then = <<>> THEN e ELSE AskFor(e, Head(a.then), 0, a.n, Tail(a.then))
<1>1. Ends(d, a, res) = PullDue(next)
  BY DEF Ends
<1>2. Fine(d, unbound)
  <2>1. Same(d, unbound)
    BY DEF Same, OK, Typed, Fields
  <2> QED  BY <2>1, SameFine
<1>3. Fine(d, pulled)
  <2>1. Fine(d, refuse)
    BY CloseRefusedFine, StillFine
  <2> HIDE DEF refuse
  <2>2. Same(refuse, pulled)
    BY <2>1 DEF Same, Fine, OK, Typed, Fields
  <2> QED  BY <2>1, <2>2, SameFine, FineThen DEF Fine
<1>4. ASSUME a.op = "publish"
      PROVE  e = PublishEnds(d, a.who, res) /\ a.who \in 1..Len(d.posts) /\ Tracked(d.posts[a.who])
  BY <1>4 DEF Known
<1>5. a.op # "publish" => e \in {d, unbound, pulled, Registered(d, a, res), PullEnds(d, a, res), Park(d),
                                 SubEnds(d, a, res = "yes"), StreamEnds(d, a, res = "yes")}
  OBVIOUS
<1> HIDE DEF e, unbound, pulled
<1>6. Fine(d, e)
  <2>1. CASE a.op = "publish"
    BY <1>4, <2>1, PublishEndsFine
  <2>2. CASE a.op # "publish"
    BY <1>2, <1>3, <1>5, <2>2, StillFine, RegisteredFine, PullEndsFine, ParkFine, SubEndsFine, StreamEndsFine
  <2> QED  BY <2>1, <2>2
<1>7. a.op = "publish" /\ res = "yes" => e.posts[a.who].status = "sent" /\ a.who \in 1..Len(d.posts)
  BY <1>4, PublishEndsFine
<1>8. Fine(d, next) /\ (a.then # <<>> /\ a.n = d.n => Choosing(next)) /\ Fine(e, next)
  <2>1. CASE a.then = <<>>
    BY <1>6, <2>1, StillFine DEF Fine
  <2>2. CASE a.then # <<>>
    <3>1. Proper(e, Head(a.then), 0, a.n, Tail(a.then)) /\ Head(a.then) \in Choice
      BY <1>6, <2>2, NextProper
    <3>2. Fine(e, next) /\ (a.n = d.n => Choosing(next))
      BY <1>6, <2>2, <3>1, AskForFine DEF Fine, Goes
    <3> QED  BY <1>6, <3>2, FineThen
  <2> QED  BY <2>1, <2>2
<1> HIDE DEF next
<1>9. Fine(next, PullDue(next))
  BY <1>8, PullDueFine DEF Fine
<1>10. Fine(d, PullDue(next)) /\ (a.then # <<>> /\ a.n = d.n => Choosing(PullDue(next)))
  BY <1>8, <1>9, FineThen DEF Fine, Goes
<1>11. a.op = "publish" /\ res = "yes" => PullDue(next).posts[a.who].status = "sent"
  BY <1>6, <1>7, <1>8, <1>9 DEF Fine, Goes, Keeps
<1> QED  BY <1>1, <1>10, <1>11

-----------------------------------------------------------------------------
(* The events, the announces and the page.                                 *)

\* The requests are as they were but for the link they are on.
LEMMA AsksMoved ==
  ASSUME NEW d, NEW e, OK(d),
         DOMAIN e = Fields, e.n = d.n, e.posts = d.posts, e.listed = d.listed, e.chain = d.chain, e.sub = d.sub,
         e.links \in Seq(LinkRecs), Len(d.links) <= Len(e.links),
         e.current \in 0..Len(e.links), e.attempt \in 0..Len(e.links),
         e.events \in Seq({"established", "close"} \X (1..Len(e.links))),
         Attempts(e), Heards(e),
         \A a \in e.asks :
           /\ a \in Asks /\ a.link <= Len(e.links)
           /\ \E b \in d.asks : a.op = b.op /\ a.who = b.who /\ a.n = b.n /\ a.then = b.then,
         \A b \in d.asks : b.op \in Choice => \E a \in e.asks : a.op = b.op /\ a.n = b.n
  PROVE  Fine(d, e)
<1>1. Typed(e)
  BY DEF OK, Typed
<1>2. Published(e)
  BY DEF OK, Published
<1>3. Chosen(e)
  <2>1. ASSUME NEW a \in e.asks
        PROVE  /\ a.n <= e.n /\ (a.op \notin Choice => a.then = <<>>)
               /\ a.op \in Choice /\ a.n = e.n => LastOp(a) = Wanted(e)
    <3>1. PICK b \in d.asks : a.op = b.op /\ a.who = b.who /\ a.n = b.n /\ a.then = b.then
      BY <2>1
    <3>2. /\ b.n <= d.n /\ (b.op \notin Choice => b.then = <<>>)
          /\ b.op \in Choice /\ b.n = d.n => LastOp(b) = Wanted(d)
      BY DEF OK, Chosen
    <3> QED  BY <3>1, <3>2 DEF LastOp, Wanted
  <2>2. ~e.listed => e.sub = "none"
    BY DEF OK, Chosen
  <2> QED  BY <2>1, <2>2 DEF Chosen
<1>4. Goes(d, e)
  BY DEF Goes, Keeps, Choosing
<1> QED  BY <1>1, <1>2, <1>3, <1>4 DEF Fine, OK

\* "established": the client's bindings and pulls follow on the new link.
LEMMA EstablishedFine ==
  ASSUME NEW d, OK(d), NEW l \in 1..Len(d.links)
  PROVE  Fine(d, EstablishedHeard(d, l))
<1> DEFINE link == [d.links[l] EXCEPT !.heard = TRUE]
<1> DEFINE Moved(a) == IF a.link = l THEN [a EXCEPT !.sent = TRUE] ELSE a
<1> DEFINE stay == {a \in d.asks : ~(a.link = l /\ a.op = "redrive")}
<1> DEFINE u == [d EXCEPT !.links[l].heard = TRUE, !.current = l, !.failed = FALSE, !.armed = TRUE,
                          !.asks = {Moved(a) : a \in stay}]
<1> DEFINE e == [u EXCEPT !.due = l]
<1>1. EstablishedHeard(d, l) = PullDue(Rebind(BindPush(RegisterOwed(e)), l))
  BY DEF EstablishedHeard
<1>2. /\ DOMAIN e = Fields /\ e.n = d.n /\ e.posts = d.posts /\ e.listed = d.listed /\ e.chain = d.chain /\ e.sub = d.sub
      /\ e.links = [d.links EXCEPT ![l] = link] /\ e.current = l /\ e.attempt = d.attempt
      /\ e.events = d.events /\ e.asks = {Moved(a) : a \in stay}
  BY DEF OK, Typed, Fields
<1> HIDE DEF e, u
<1>3. link \in LinkRecs /\ link.n = d.links[l].n /\ link.status = d.links[l].status
  <2>1. d.links[l] \in LinkRecs
    BY DEF OK, Typed
  <2> QED  BY <2>1 DEF LinkRecs
<1> HIDE DEF link
<1>4. /\ e.links \in Seq(LinkRecs) /\ Len(e.links) = Len(d.links) /\ e.links[l] = link
      /\ \A k \in 1..Len(d.links) : k # l => e.links[k] = d.links[k]
  BY <1>2, <1>3 DEF OK, Typed
<1>5. ASSUME NEW a \in stay
      PROVE  /\ Moved(a) \in Asks /\ Moved(a).link = a.link /\ Moved(a).op = a.op /\ Moved(a).who = a.who
             /\ Moved(a).n = a.n /\ Moved(a).then = a.then
  BY DEF OK, Typed, Asks
<1>6. \A a \in e.asks :
        /\ a \in Asks /\ a.link <= Len(e.links)
        /\ \E b \in d.asks : a.op = b.op /\ a.who = b.who /\ a.n = b.n /\ a.then = b.then
  <2>1. \A a \in stay : a \in d.asks /\ a.link <= Len(d.links)
    BY DEF OK, Typed
  <2> HIDE DEF Moved, stay
  <2> SUFFICES ASSUME NEW b \in stay
               PROVE  /\ Moved(b) \in Asks /\ Moved(b).link <= Len(e.links) /\ b \in d.asks
                      /\ Moved(b).op = b.op /\ Moved(b).who = b.who /\ Moved(b).n = b.n /\ Moved(b).then = b.then
    BY <1>2
  <2> QED  BY <1>4, <1>5, <2>1
<1>7. \A b \in d.asks : b.op \in Choice => \E a \in e.asks : a.op = b.op /\ a.n = b.n
  <2> SUFFICES ASSUME NEW b \in d.asks, b.op \in Choice
               PROVE  Moved(b) \in e.asks /\ Moved(b).op = b.op /\ Moved(b).n = b.n
    OBVIOUS
  <2>1. b \in stay
    BY DEF Choice
  <2> HIDE DEF Moved, stay
  <2> QED  BY <1>2, <1>5, <2>1
<1>8. Attempts(e)
  BY <1>2, <1>3, <1>4 DEF OK, Typed, Attempts
<1>9. Heards(e)
  <2> SUFFICES ASSUME NEW i \in 1..Len(d.events), d.events[i][1] = "close"
               PROVE  e.links[d.events[i][2]].status = "closed"
    BY <1>2 DEF Heards
  <2>1. d.links[d.events[i][2]].status = "closed"
    BY DEF OK, Heards
  <2>2. /\ Len(d.links) \in Nat
        /\ d.events \in Seq({"established", "close"} \X (1..Len(d.links)))
    BY DEF OK, Typed
  <2>3. d.events[i][2] \in 1..Len(d.links)
    BY <2>2, EventTyped
  <2> QED  BY <1>3, <1>4, <2>1, <2>3
<1>10. /\ e.current \in 0..Len(e.links) /\ e.attempt \in 0..Len(e.links)
       /\ e.events \in Seq({"established", "close"} \X (1..Len(e.links))) /\ Len(d.links) <= Len(e.links)
  BY <1>2, <1>4 DEF OK, Typed
<1>11. Fine(d, e)
  BY <1>2, <1>4, <1>6, <1>7, <1>8, <1>9, <1>10, AsksMoved
<1>12. Fine(d, RegisterOwed(e))
  BY <1>11, RegisterOwedFine, FineThen DEF Fine
<1>13. Fine(d, BindPush(RegisterOwed(e)))
  BY <1>12, BindPushFine, FineThen DEF Fine
<1>14. Fine(d, Rebind(BindPush(RegisterOwed(e)), l))
  BY <1>13, RebindFine, FineThen DEF Fine
<1> QED  BY <1>1, <1>14, PullDueFine, FineThen DEF Fine

\* The next event is heard.
LEMMA HearFine ==
  ASSUME NEW d, OK(d), d.events # <<>>
  PROVE  Fine(d, Hear(d))
<1> DEFINE e == [d EXCEPT !.events = Tail(@)]
<1> DEFINE l == Head(d.events)[2]
<1>1. /\ DOMAIN e = Fields /\ e.n = d.n /\ e.links = d.links /\ e.events = Tail(d.events)
      /\ e.current = d.current /\ e.attempt = d.attempt /\ e.asks = d.asks /\ e.posts = d.posts
      /\ e.listed = d.listed /\ e.chain = d.chain /\ e.sub = d.sub
  BY DEF OK, Typed, Fields
<1>2. /\ Len(d.links) \in Nat /\ d.events \in Seq({"established", "close"} \X (1..Len(d.links)))
      /\ Len(d.events) \in Nat \ {0}
  BY DEF OK, Typed
<1>3. /\ Tail(d.events) \in Seq({"established", "close"} \X (1..Len(d.links)))
      /\ Len(Tail(d.events)) = Len(d.events) - 1
      /\ \A i \in 1..Len(Tail(d.events)) : Tail(d.events)[i] = d.events[i + 1]
      /\ Head(d.events) = d.events[1] /\ 1 \in 1..Len(d.events)
  BY <1>2
<1>4. l \in 1..Len(d.links) /\ Head(d.events)[1] \in {"established", "close"}
  BY <1>2, <1>3, EventTyped
<1>5. Hear(d) = IF Head(d.events)[1] = "established" THEN EstablishedHeard(e, l) ELSE CloseHeard(e, l)
  BY DEF Hear
<1>6. Head(d.events)[1] = "close" => d.links[l].status = "closed"
  BY <1>3 DEF OK, Heards
<1> HIDE DEF e, l
<1>7. Heards(e) /\ Attempts(e)
  <2>1. Attempts(e)
    BY <1>1 DEF OK, Attempts
  <2>2. ASSUME NEW i \in 1..Len(e.events), e.events[i][1] = "close"
        PROVE  e.links[e.events[i][2]].status = "closed"
    <3>1. i + 1 \in 1..Len(d.events) /\ e.events[i] = d.events[i + 1]
      BY <1>1, <1>2, <1>3
    <3> QED  BY <1>1, <2>2, <3>1 DEF OK, Heards
  <2> QED  BY <2>1, <2>2 DEF Heards
<1>8. e.links \in Seq(LinkRecs) /\ e.current \in 0..Len(d.links) /\ e.attempt \in 0..Len(d.links)
  BY <1>1 DEF OK, Typed
<1>9. Fine(d, e)
  BY <1>1, <1>3, <1>7, <1>8, LinksFine
<1>10. Fine(d, EstablishedHeard(e, l))
  BY <1>1, <1>4, <1>9, EstablishedFine, FineThen DEF Fine
<1>11. Head(d.events)[1] = "close" => Fine(d, CloseHeard(e, l))
  BY <1>1, <1>4, <1>6, <1>9, CloseHeardFine, FineThen DEF Fine
<1> QED  BY <1>4, <1>5, <1>10, <1>11

\* The announce of rfed.link.
LEMMA LinkAnnouncedFine ==
  ASSUME NEW d, OK(d), NEW expired
  PROVE  Fine(d, LinkAnnounced(d, expired))
<1> DEFINE r == [d EXCEPT !.ready = TRUE, !.armed = TRUE, !.parked = FALSE]
<1> DEFINE e == Ensure(r)
<1> DEFINE waited == {a \in d.asks : a.link = None}
<1> DEFINE Moved(a) == [a EXCEPT !.link = Route(e), !.sent = Heard(e, Route(e))]
<1> DEFINE g == [e EXCEPT !.asks = (@ \ waited) \cup {Moved(a) : a \in waited}]
<1>1. LinkAnnounced(d, expired) \in {r, g, Redrive(r), Redrive(g)}
  BY DEF LinkAnnounced
<1>2. Same(d, r)
  BY DEF Same, OK, Typed, Fields
<1>3. Fine(d, r) /\ r.asks = d.asks
  BY <1>2, SameFine DEF Same
<1> HIDE DEF r
<1>4. Fine(d, e) /\ Fine(r, e)
  BY <1>3, EnsureFine, FineThen DEF Fine
<1>5. e.asks = d.asks
  BY <1>3 DEF Ensure, Fine, OK, Typed, Fields
<1>6. Route(e) \in Int /\ Route(e) <= Len(e.links) /\ Heard(e, Route(e)) \in BOOLEAN
  BY <1>4, RouteTyped DEF Fine
<1> HIDE DEF e
<1>7. ASSUME NEW a \in d.asks
      PROVE  /\ Moved(a) \in Asks /\ Moved(a).link <= Len(e.links) /\ Moved(a).op = a.op /\ Moved(a).who = a.who
             /\ Moved(a).n = a.n /\ Moved(a).then = a.then
  <2>1. a \in Asks
    BY DEF OK, Typed
  <2> QED  BY <1>6, <2>1 DEF Asks
<1>8. /\ DOMAIN g = Fields /\ g.n = e.n /\ g.links = e.links /\ g.events = e.events /\ g.current = e.current
      /\ g.attempt = e.attempt /\ g.posts = e.posts /\ g.listed = e.listed /\ g.chain = e.chain /\ g.sub = e.sub
      /\ g.asks = (d.asks \ waited) \cup {Moved(a) : a \in waited}
  BY <1>4, <1>5 DEF Fine, OK, Typed, Fields
<1> HIDE DEF g, Moved
<1>9. \A a \in g.asks :
        /\ a \in Asks /\ a.link <= Len(g.links)
        /\ \E b \in e.asks : a.op = b.op /\ a.who = b.who /\ a.n = b.n /\ a.then = b.then
  <2> SUFFICES ASSUME NEW a \in g.asks
               PROVE  /\ a \in Asks /\ a.link <= Len(g.links)
                      /\ \E b \in e.asks : a.op = b.op /\ a.who = b.who /\ a.n = b.n /\ a.then = b.then
    OBVIOUS
  <2>1. CASE a \in d.asks
    BY <1>4, <1>5, <1>8, <2>1 DEF Fine, OK, Typed
  <2>2. CASE a \notin d.asks
    <3>1. PICK b \in d.asks : a = Moved(b)
      BY <1>8, <2>2
    <3> QED  BY <1>5, <1>7, <1>8, <3>1
  <2> QED  BY <2>1, <2>2
<1>10. \A b \in e.asks : b.op \in Choice => \E a \in g.asks : a.op = b.op /\ a.n = b.n
  <2> SUFFICES ASSUME NEW b \in d.asks PROVE \E a \in g.asks : a.op = b.op /\ a.n = b.n
    BY <1>5
  <2>1. CASE b \in waited
    <3>1. Moved(b) \in g.asks /\ Moved(b).op = b.op /\ Moved(b).n = b.n
      BY <1>7, <1>8, <2>1
    <3> QED  BY <3>1
  <2>2. CASE b \notin waited
    BY <1>8, <2>2
  <2> QED  BY <2>1, <2>2
<1>11. Attempts(g) /\ Heards(g) /\ OK(e)
  BY <1>4, <1>8 DEF Fine, OK, Attempts, Heards
<1>12. /\ g.links \in Seq(LinkRecs) /\ Len(e.links) <= Len(g.links)
       /\ g.current \in 0..Len(g.links) /\ g.attempt \in 0..Len(g.links)
       /\ g.events \in Seq({"established", "close"} \X (1..Len(g.links)))
  BY <1>8, <1>11 DEF OK, Typed
<1>13. Fine(e, g)
  BY <1>8, <1>9, <1>10, <1>11, <1>12, AsksMoved
<1>14. Fine(d, g)
  BY <1>4, <1>13, FineThen
<1>15. Fine(d, Redrive(r)) /\ Fine(d, Redrive(g))
  BY <1>3, <1>14, RedriveFine, FineThen DEF Fine
<1> QED  BY <1>1, <1>3, <1>14, <1>15

\* The announce of rfed.channel.
LEMMA ChannelAnnouncedFine ==
  ASSUME NEW d, OK(d)
  PROVE  Fine(d, ChannelAnnounced(d))
<1> DEFINE e == [d EXCEPT !.armed = TRUE, !.inited = TRUE, !.resub = TRUE]
<1> DEFINE f == [e EXCEPT !.first = TRUE]
<1>1. Same(d, e) /\ Same(d, f)
  BY DEF Same, OK, Typed, Fields
<1>2. Fine(d, e) /\ Fine(d, f)
  BY <1>1, SameFine
<1>3. ChannelAnnounced(d) \in {InitTail(e), Pull(f), Resubscribe(e)}
  BY DEF ChannelAnnounced
<1> HIDE DEF e, f
<1>4. Fine(d, InitTail(e)) /\ Fine(d, Pull(f)) /\ Fine(d, Resubscribe(e))
  BY <1>2, InitTailFine, PullFine, ResubscribeFine, FineThen DEF Fine
<1> QED  BY <1>3, <1>4

\* _onPageResume.
LEMMA ResumedFine ==
  ASSUME NEW d, OK(d)
  PROVE  Fine(d, Resumed(d))
<1> DEFINE e == [d EXCEPT !.armed = TRUE]
<1>1. Same(d, e)
  BY DEF Same, OK, Typed, Fields
<1>2. Fine(d, e)
  BY <1>1, SameFine
<1>3. Resumed(d) \in {e, Pull(PullOnScreen(e, None)), Redrive(e)}
  BY DEF Resumed
<1> HIDE DEF e
<1>4. Fine(d, PullOnScreen(e, None))
  BY <1>2, PullOnScreenFine, FineThen DEF Fine
<1>5. Fine(d, Pull(PullOnScreen(e, None))) /\ Fine(d, Redrive(e))
  BY <1>2, <1>4, PullFine, RedriveFine, FineThen DEF Fine
<1> QED  BY <1>2, <1>3, <1>5

-----------------------------------------------------------------------------
(* Another connection.                                                     *)

\* disconnect().
LEMMA StoppedOK ==
  ASSUME NEW d, OK(d)
  PROVE  /\ OK(Stopped(d)) /\ Stopped(d).listed = d.listed /\ Len(Stopped(d).posts) = Len(d.posts)
         /\ \A p \in 1..Len(d.posts) : Keeps(d.posts[p], Stopped(d).posts[p])
<1> DEFINE b == IF d.current = None THEN d ELSE CloseLink(d, d.current, "ours")
<1> DEFINE Moved(a) == IF a.link = None THEN [a EXCEPT !.link = Rejected] ELSE a
<1> DEFINE k == Client(d.distro, d.listed)
<1> DEFINE e == Stopped(d)
<1>1. Fine(d, b)
  <2>1. d.current # None => d.current \in 1..Len(d.links)
    BY DEF OK, Typed, None
  <2> QED  BY <2>1, CloseLinkFine, StillFine
<1>2. DOMAIN k = Fields /\ k.current = 0 /\ k.attempt = 0 /\ k.sub = "none" /\ k.listed = d.listed /\ k.chain = 0
  BY DEF Client, Fields, None
<1>3. e = [k EXCEPT !.n = d.n + 1, !.links = b.links, !.events = b.events, !.posts = d.posts,
             !.failed = d.failed, !.parked = d.parked, !.tail = d.tail, !.screen = d.screen, !.claims = d.claims,
             !.asks = {Moved(a) : a \in d.asks}]
  BY DEF Stopped
<1> HIDE DEF e, k, b
<1>4. /\ DOMAIN e = Fields /\ e.n = d.n + 1 /\ e.links = b.links /\ e.events = b.events /\ e.current = 0
      /\ e.attempt = 0 /\ e.posts = d.posts /\ e.listed = d.listed /\ e.chain = 0 /\ e.sub = "none"
      /\ e.asks = {Moved(a) : a \in d.asks}
  BY <1>2, <1>3 DEF Fields
<1>5. ASSUME NEW a \in d.asks
      PROVE  /\ Moved(a) \in Asks /\ Moved(a).op = a.op /\ Moved(a).who = a.who /\ Moved(a).n = a.n
             /\ Moved(a).then = a.then /\ Moved(a).link <= Len(e.links)
  <2>1. a \in Asks /\ a.link <= Len(d.links) /\ Len(d.links) \in Nat /\ Len(e.links) \in Nat
    <3>1. a \in Asks /\ a.link <= Len(d.links) /\ Len(d.links) \in Nat
      BY DEF OK, Typed
    <3>2. b.links \in Seq(LinkRecs)
      BY <1>1 DEF Fine, OK, Typed
    <3> QED  BY <1>4, <3>1, <3>2
  <2>2. d.n = b.n /\ Len(d.links) <= Len(e.links)
    <3>1. Len(b.links) = Len(d.links)
      BY DEF b, CloseLink, OK, Typed, Fields
    <3> QED  BY <1>1, <1>4, <2>1, <3>1 DEF Fine, Goes
  <2> QED  BY <2>1, <2>2 DEF Asks, Rejected, None
<1> HIDE DEF Moved
<1>6. Typed(e)
  <2>1. e.asks \subseteq Asks /\ \A a \in e.asks : a.link <= Len(e.links)
    BY <1>4, <1>5
  <2>2. /\ e.n \in Nat \ {0} /\ e.links \in Seq(LinkRecs) /\ 0 \in 0..Len(e.links)
        /\ e.events \in Seq({"established", "close"} \X (1..Len(e.links)))
        /\ e.posts \in Seq(PostRecs) /\ e.listed \in BOOLEAN
    <3>1. d.n \in Nat \ {0} /\ d.posts \in Seq(PostRecs) /\ d.listed \in BOOLEAN
      BY DEF OK, Typed
    <3>2. b.links \in Seq(LinkRecs) /\ b.events \in Seq({"established", "close"} \X (1..Len(b.links)))
      BY <1>1 DEF Fine, OK, Typed
    <3>3. Len(b.links) \in Nat
      BY <3>2
    <3> QED  BY <1>4, <3>1, <3>2, <3>3
  <2> QED  BY <1>4, <2>1, <2>2 DEF Typed
<1>7. Attempts(e)
  <2>1. ASSUME NEW l \in 1..Len(b.links) PROVE b.links[l].n <= d.n /\ b.links[l].n \in Nat /\ d.n \in Nat
    <3>1. b.links[l] \in LinkRecs /\ d.n \in Nat /\ b.links[l].n <= b.n /\ b.n = d.n
      BY <1>1 DEF Fine, Goes, OK, Typed, Attempts
    <3> QED  BY <3>1 DEF LinkRecs
  <2> QED  BY <1>4, <2>1 DEF Attempts
<1>8. Heards(e)
  BY <1>1, <1>4 DEF Fine, OK, Heards
<1>9. Published(e)
  BY <1>4, <1>5 DEF OK, Published
<1>10. Chosen(e)
  <2>1. d.n \in Nat \ {0} /\ \A a \in d.asks : a.n <= d.n /\ a.n \in Nat
    BY <1>4 DEF OK, Typed, Asks, Chosen
  <2>2. \A a \in e.asks : a.n <= e.n /\ a.n # e.n /\ (a.op \notin Choice => a.then = <<>>)
    BY <1>4, <1>5, <2>1 DEF OK, Chosen
  <2> QED  BY <1>4, <2>1, <2>2 DEF Chosen
<1> QED  BY <1>4, <1>6, <1>7, <1>8, <1>9, <1>10 DEF OK, e, Keeps

\* The page is loaded again: its posts are known by what is stored of them.
LEMMA ReloadedOK ==
  ASSUME NEW d, OK(d)
  PROVE  /\ OK(Reloaded(d)) /\ Reloaded(d).listed = d.listed /\ Len(Reloaded(d).posts) = Len(d.posts)
         /\ \A p \in 1..Len(d.posts) :
              Reloaded(d).posts[p].status = d.posts[p].status /\ ~Reloaded(d).posts[p].paged
<1> DEFINE k == Client(d.distro, d.listed)
<1> DEFINE ls == [l \in 1..Len(d.links) |-> [d.links[l] EXCEPT !.status = "closed"]]
<1> DEFINE ps == [p \in 1..Len(d.posts) |-> [d.posts[p] EXCEPT !.paged = FALSE, !.key = FALSE, !.pc = "over"]]
<1> DEFINE e == Reloaded(d)
<1>1. /\ DOMAIN k = Fields /\ k.current = 0 /\ k.attempt = 0 /\ k.sub = "none" /\ k.listed = d.listed /\ k.chain = 0
      /\ k.events = <<>> /\ k.asks = {}
  BY DEF Client, Fields, None
<1>2. /\ DOMAIN d.links = 1..Len(d.links) /\ DOMAIN d.posts = 1..Len(d.posts)
      /\ Len(d.links) \in Nat /\ Len(d.posts) \in Nat
  BY DEF OK, Typed
<1>3. e = [k EXCEPT !.n = d.n + 1, !.links = ls, !.posts = ps]
  BY <1>2 DEF Reloaded
<1>4. ASSUME NEW l \in 1..Len(d.links)
      PROVE  ls[l] \in LinkRecs /\ ls[l].n = d.links[l].n /\ ls[l].status = "closed"
  <2>1. d.links[l] \in LinkRecs
    BY DEF OK, Typed
  <2> QED  BY <2>1 DEF LinkRecs
<1>5. ASSUME NEW p \in 1..Len(d.posts)
      PROVE  ps[p] \in PostRecs /\ ps[p].status = d.posts[p].status /\ ~ps[p].paged
  <2>1. d.posts[p] \in PostRecs
    BY DEF OK, Typed
  <2> QED  BY <2>1 DEF PostRecs
<1>6. ls \in Seq(LinkRecs) /\ Len(ls) = Len(d.links) /\ ps \in Seq(PostRecs) /\ Len(ps) = Len(d.posts)
  <2>1. ls \in [1..Len(d.links) -> LinkRecs] /\ ps \in [1..Len(d.posts) -> PostRecs]
    BY <1>4, <1>5
  <2> HIDE DEF ls, ps
  <2> QED  BY <1>2, <2>1
<1> HIDE DEF e, k, ls, ps
<1>7. /\ DOMAIN e = Fields /\ e.n = d.n + 1 /\ e.links = ls /\ e.events = <<>> /\ e.current = 0
      /\ e.attempt = 0 /\ e.posts = ps /\ e.listed = d.listed /\ e.chain = 0 /\ e.sub = "none" /\ e.asks = {}
  BY <1>1, <1>3 DEF Fields
<1>8. e.n \in Nat \ {0} /\ e.n > 1 /\ d.n \in Nat /\ d.listed \in BOOLEAN
  BY SMTT(30), <1>7 DEF OK, Typed
<1>9. Typed(e)
  BY <1>2, <1>6, <1>7, <1>8 DEF Typed
<1>10. Attempts(e)
  <2>1. ASSUME NEW l \in 1..Len(d.links) PROVE d.links[l].n <= d.n /\ d.links[l].n \in Nat
    <3>1. d.links[l] \in LinkRecs /\ d.links[l].n <= d.n
      BY DEF OK, Typed, Attempts
    <3> QED  BY <3>1 DEF LinkRecs
  <2> QED  BY <1>4, <1>6, <1>7, <1>8, <2>1 DEF Attempts
<1>11. Heards(e) /\ Published(e) /\ Chosen(e)
  BY <1>7 DEF Heards, Published, Chosen
<1> QED  BY <1>5, <1>6, <1>7, <1>8, <1>9, <1>10, <1>11 DEF OK, e

-----------------------------------------------------------------------------
(* The steps.                                                              *)

\* What the node has is untouched, and no post forgets what it is known by.
LEMMA NodeStands ==
  ASSUME IInv, NodeTyped', OK(c'), node'.holds = node.holds, node'.told = node.told,
         Len(c'.posts) = Len(c.posts),
         \A p \in 1..Len(c.posts) :
           \/ Keeps(c.posts[p], c'.posts[p])
           \/ c'.posts[p].status = c.posts[p].status /\ ~c'.posts[p].paged
  PROVE  Echoes'
<1>1. ASSUME NEW p \in node.holds PROVE Tracked(c'.posts[p]) \/ ~c'.posts[p].paged
  BY DEF IInv, Echoes, Keeps, Tracked
<1>2. ASSUME NEW p \in node.told PROVE c'.posts[p].status = "sent"
  BY DEF IInv, Echoes, TruthWins, Keeps
<1> QED  BY <1>1, <1>2 DEF IInv, Echoes, TruthWins

\* The client goes on, and the node does not.
LEMMA ClientGoes ==
  ASSUME IInv, Fine(c, c'), UNCHANGED <<node, lost>>
  PROVE  IInv'
<1>1. OK(c') /\ c'.n = c.n /\ c'.listed = c.listed /\ (Choosing(c) => Choosing(c'))
  BY DEF Fine, Goes
<1>2. NodeTyped'
  BY DEF IInv, NodeTyped
<1>3. Echoes'
  BY <1>1, <1>2, NodeStands DEF Fine, Goes
<1>4. ASSUME ~Choosing(c'), ~lost' PROVE node'.subscribed = c'.listed
  BY <1>1, <1>4 DEF IInv, Decided
<1> QED  BY <1>1, <1>2, <1>3, <1>4 DEF IInv, Decided

\* Another connection, that finds what was decided as it was.
LEMMA ConnectionGoes ==
  ASSUME IInv, OK(c'), c'.listed = c.listed, Len(c'.posts) = Len(c.posts),
         NodeTyped', node'.holds = node.holds, node'.told = node.told,
         ~lost' => ~lost /\ ~Choosing(c) /\ node'.subscribed = node.subscribed,
         \A p \in 1..Len(c.posts) :
           \/ Keeps(c.posts[p], c'.posts[p])
           \/ c'.posts[p].status = c.posts[p].status /\ ~c'.posts[p].paged
  PROVE  IInv'
<1>1. Echoes'
  BY NodeStands
<1> QED  BY <1>1 DEF IInv, Decided

\* The end of a request, whatever the node did of it.
LEMMA FinishKeeps ==
  ASSUME IInv, NEW a \in c.asks, NEW res, Finish(a, res),
         \/ node' = node /\ (a.op \in Choice => res # "yes")
         \/ a.op # "publish" /\ node' = Taken(a)
         \/ a.op = "publish" /\ res = "yes" /\ a.who \in node.holds
            /\ node' = [node EXCEPT !.told = @ \cup {a.who}]
  PROVE  IInv'
<1> DEFINE d == [c EXCEPT !.asks = @ \ {a}]
<1>1. /\ DOMAIN d = Fields /\ d.n = c.n /\ d.links = c.links /\ d.events = c.events
      /\ d.current = c.current /\ d.attempt = c.attempt /\ d.posts = c.posts
      /\ d.listed = c.listed /\ d.chain = c.chain /\ d.sub = c.sub /\ d.asks = c.asks \ {a}
  BY DEF IInv, OK, Typed, Fields
<1>2. c' = Ends(d, a, res)
  BY DEF Finish
<1> HIDE DEF d
<1>3. OK(d)
  BY <1>1 DEF IInv, OK, Typed, Attempts, Heards, Published, Chosen, Wanted
<1>4. Known(d, a)
  BY <1>1 DEF IInv, OK, Typed, Published, Chosen, Known, Wanted
<1>5. /\ Fine(d, c') /\ (a.then # <<>> /\ a.n = d.n => Choosing(c'))
      /\ a.op = "publish" /\ res = "yes" => c'.posts[a.who].status = "sent"
  BY <1>2, <1>3, <1>4, EndsFine
<1>6. OK(c') /\ c'.n = c.n /\ c'.listed = c.listed /\ Len(c'.posts) = Len(c.posts)
      /\ \A p \in 1..Len(c.posts) : Keeps(c.posts[p], c'.posts[p])
  BY <1>1, <1>5 DEF Fine, Goes
<1>7. a.op \in Ops /\ (a.op \in Choice => a.op \in {"sub", "unsub"})
  BY <1>4 DEF Known, Asks, Choice
<1>8. /\ NodeTyped' /\ node'.holds = node.holds
      /\ node'.told = node.told \/ (a.op = "publish" /\ res = "yes" /\ a.who \in node.holds
                                    /\ node'.told = node.told \cup {a.who})
      /\ a.op \notin Choice => node'.subscribed = node.subscribed
      /\ a.op \in Choice /\ res = "yes" => node'.subscribed = (a.op = "sub")
  <2>1. lost' \in BOOLEAN
    BY DEF Finish, IInv, NodeTyped
  <2>2. CASE node' = node /\ (a.op \in Choice => res # "yes")
    BY <2>1, <2>2 DEF IInv, NodeTyped
  <2>3. CASE a.op # "publish" /\ node' = Taken(a)
    BY <1>7, <2>1, <2>3 DEF IInv, NodeTyped, Taken, Choice
  <2>4. CASE a.op = "publish" /\ res = "yes" /\ a.who \in node.holds
             /\ node' = [node EXCEPT !.told = @ \cup {a.who}]
    BY <2>1, <2>4 DEF IInv, NodeTyped, Choice
  <2> QED  BY <2>2, <2>3, <2>4
<1>9. Echoes'
  <2>1. ASSUME NEW p \in node.holds PROVE Tracked(c'.posts[p]) \/ ~c'.posts[p].paged
    BY <1>6 DEF IInv, Echoes, Keeps
  <2>2. ASSUME NEW p \in node.told PROVE c'.posts[p].status = "sent"
    BY <1>6 DEF IInv, Echoes, TruthWins, Keeps
  <2> QED  BY <1>5, <1>6, <1>8, <2>1, <2>2 DEF IInv, Echoes, TruthWins
<1>10. ASSUME ~Choosing(c'), ~lost' PROVE node'.subscribed = c'.listed
  <2>1. CASE a.op \in Choice
    <3>1. a.n = c.n /\ a.then = <<>> /\ res = "yes"
      <4>1. a.op \in {"sub", "unsub"}
        BY <1>7, <2>1
      <4>2. lost' = IF Strays(a) \/ a.then = <<>> THEN Strays(a) \/ res # "yes" ELSE lost
        BY <4>1 DEF Finish
      <4>3. a.n = c.n
        BY <1>10, <4>2 DEF Strays
      <4> QED  BY <1>1, <1>5, <1>10, <4>2, <4>3 DEF Strays
    <3>2. node'.subscribed = (a.op = "sub")
      BY <1>8, <2>1, <3>1
    <3>3. a.op = Wanted(d)
      BY <1>1, <1>4, <2>1, <3>1 DEF Known, LastOp
    <3> QED  BY <1>1, <1>6, <3>2, <3>3 DEF Wanted, OK, Typed
  <2>2. CASE a.op \notin Choice
    <3>1. ~Choosing(c)
      <4>1. ~Choosing(d)
        BY <1>5, <1>10 DEF Fine, Goes
      <4> QED  BY <1>1, <2>2, <4>1 DEF Choosing
    <3>2. ~lost
      BY <1>10, <2>2 DEF Finish, Choice
    <3> QED  BY <1>6, <1>8, <1>10, <2>2, <3>1, <3>2 DEF IInv, Decided
  <2> QED  BY <2>1, <2>2
<1>11. Decided'
  BY <1>10 DEF Decided
<1> QED  BY <1>6, <1>8, <1>9, <1>11 DEF IInv

\* A post's turn comes, its echo is heard, its stamp is mined.
LEMMA PostStepKeeps ==
  ASSUME IInv, NEW p \in DOMAIN c.posts, Turn(p) \/ Echo(p) \/ Mined(p)
  PROVE  IInv'
<1>0. OK(c) /\ p \in 1..Len(c.posts) /\ c.posts[p] \in PostRecs
  BY DEF IInv, OK, Typed
<1>1. CASE Turn(p)
  <2>1. c.listed => Fine(c, Starts(c, p))
    BY <1>0, StartsFine
  <2>2. Fine(c, SetPost(c, p, Fails(c.posts[p])))
    BY <1>0, FailsKept, SetPostFine
  <2> QED  BY <1>1, <2>1, <2>2, ClientGoes DEF Turn
<1>2. CASE Echo(p)
  <2> DEFINE q == EchoHeard(c.posts[p])
  <2>1. p \in node.holds /\ c' = SetPost(c, p, q) /\ node' = [node EXCEPT !.told = @ \cup {p}] /\ lost' = lost
    BY <1>2 DEF Echo
  <2>2. Tracked(c.posts[p]) \/ ~c.posts[p].paged
    BY <2>1 DEF IInv, Echoes
  <2>3. q \in PostRecs /\ Keeps(c.posts[p], q) /\ q.status = "sent"
    BY <1>0, <2>2, SentKept
  <2> HIDE DEF q
  <2>4. Fine(c, c') /\ c'.posts[p] = q
    BY <1>0, <2>1, <2>3, SetPostFine
  <2>5. NodeTyped' /\ node'.holds = node.holds /\ node'.told = node.told \cup {p} /\ node'.subscribed = node.subscribed
    BY <2>1 DEF IInv, NodeTyped
  <2>6. Echoes'
    <3>1. ASSUME NEW k \in node.holds PROVE Tracked(c'.posts[k]) \/ ~c'.posts[k].paged
      BY <2>4 DEF IInv, Echoes, Fine, Goes, Keeps
    <3>2. ASSUME NEW k \in node.told PROVE c'.posts[k].status = "sent"
      BY <2>4 DEF IInv, Echoes, TruthWins, Fine, Goes, Keeps
    <3>3. Len(c'.posts) = Len(c.posts)
      BY <2>4 DEF Fine, Goes
    <3> QED  BY <2>1, <2>3, <2>4, <2>5, <3>1, <3>2, <3>3 DEF IInv, Echoes, TruthWins
  <2>7. Decided'
    BY <2>1, <2>4, <2>5 DEF IInv, Decided, Fine, Goes
  <2> QED  BY <2>4, <2>5, <2>6, <2>7 DEF IInv, Fine
<1>3. CASE Mined(p)
  <2> DEFINE q == [c.posts[p] EXCEPT !.pc = "out", !.key = TRUE]
  <2> DEFINE d == SetPost(c, p, q)
  <2>1. c' = Ask(d, "publish", p) /\ UNCHANGED <<node, lost>>
    BY <1>3 DEF Mined
  <2>2. q \in PostRecs /\ Keeps(c.posts[p], q) /\ Tracked(q)
    BY <1>0, PostKept
  <2> HIDE DEF q
  <2>3. Fine(c, d) /\ d.posts[p] = q /\ Len(d.posts) = Len(c.posts)
    BY <1>0, <2>2, SetPostFine
  <2> HIDE DEF d
  <2>4. Proper(d, "publish", p, d.n, <<>>)
    BY <1>0, <2>2, <2>3 DEF Proper, Fine, OK, Typed, Ops, Choice
  <2>5. Fine(d, c')
    BY <2>1, <2>3, <2>4, AskForFine DEF Ask, Fine
  <2> QED  BY <2>1, <2>3, <2>5, FineThen, ClientGoes
<1> QED  BY <1>1, <1>2, <1>3

\* A request ends, or its packet is lost, or the node takes its post.
LEMMA AskStepKeeps ==
  ASSUME IInv, NEW a \in c.asks,
         \/ Breaks(a) \/ Takes(a) \/ Answered(a) \/ TimesOut(a) \/ PacketLost(a)
         \/ \E res \in {"no", "more", "refused"} : AnsweredElse(a, res)
  PROVE  IInv'
<1>1. CASE Breaks(a) \/ TimesOut(a)
  <2>1. Finish(a, "fail") /\ (node' = node \/ node' = Taken(a))
    BY <1>1 DEF Breaks, TimesOut
  <2>2. a.op = "publish" => Taken(a) = node
    BY DEF Taken
  <2> QED  BY <2>1, <2>2, FinishKeeps
<1>2. CASE Takes(a)
  <2>1. a.op = "publish" /\ node' = [node EXCEPT !.holds = @ \cup {a.who}] /\ c' = c /\ lost' = lost
    BY <1>2 DEF Takes
  <2>2. a.who \in 1..Len(c.posts) /\ Tracked(c.posts[a.who])
    BY <2>1 DEF IInv, OK, Published
  <2>3. NodeTyped' /\ node'.holds = node.holds \cup {a.who} /\ node'.told = node.told /\ node'.subscribed = node.subscribed
    BY <2>1 DEF IInv, NodeTyped
  <2> QED  BY <2>1, <2>2, <2>3 DEF IInv, Echoes, TruthWins, Decided
<1>3. CASE Answered(a)
  <2>1. Finish(a, "yes")
    BY <1>3 DEF Answered
  <2>2. CASE a.op = "publish"
    BY <1>3, <2>1, <2>2, FinishKeeps DEF Answered
  <2>3. CASE a.op # "publish"
    BY <1>3, <2>1, <2>3, FinishKeeps DEF Answered
  <2> QED  BY <2>2, <2>3
<1>4. CASE PacketLost(a)
  <2>1. a.op = "publish" /\ c' = SetPost(c, a.who, Fails(c.posts[a.who])) /\ UNCHANGED <<node, lost>>
    BY <1>4 DEF PacketLost
  <2>2. a.who \in 1..Len(c.posts) /\ c.posts[a.who] \in PostRecs /\ OK(c)
    BY <2>1 DEF IInv, OK, Published, Typed
  <2>3. Fine(c, c')
    BY <2>1, <2>2, FailsKept, SetPostFine
  <2> QED  BY <2>1, <2>3, ClientGoes
<1>5. ASSUME NEW res \in {"no", "more", "refused"}, AnsweredElse(a, res) PROVE IInv'
  BY <1>5, FinishKeeps DEF AnsweredElse
<1> QED  BY <1>1, <1>2, <1>3, <1>4, <1>5

\* A link comes up, goes stale, recovers or closes.
LEMMA LinkStepKeeps ==
  ASSUME IInv, NEW l \in DOMAIN c.links,
         Establishes(l) \/ AttemptFails(l) \/ GoesStale(l) \/ Recovers(l) \/ TearsDown(l) \/ PeerCloses(l)
  PROVE  IInv'
<1>0. OK(c) /\ l \in 1..Len(c.links) /\ c.links[l] \in LinkRecs
  BY DEF IInv, OK, Typed
<1>1. CASE AttemptFails(l) \/ TearsDown(l) \/ PeerCloses(l)
  <2>1. c' = CloseLink(c, l, "peer") /\ UNCHANGED <<node, lost>>
    BY <1>1 DEF AttemptFails, TearsDown, PeerCloses, Becomes
  <2> QED  BY <1>0, <2>1, CloseLinkFine, ClientGoes
<1>2. CASE Establishes(l) \/ GoesStale(l) \/ Recovers(l)
  <2>1. PICK status \in {"active", "stale"} :
          /\ c' = [c EXCEPT !.links[l].status = status]
               \/ c' = [c EXCEPT !.links[l].status = status, !.events = Append(@, <<"established", l>>)]
          /\ c.links[l].status \in {"pending", "active", "stale"} /\ c.links[l].status # "closed"
          /\ UNCHANGED <<node, lost>>
    BY <1>2 DEF Establishes, GoesStale, Recovers, Becomes
  <2> DEFINE link == [c.links[l] EXCEPT !.status = status]
  <2>2. /\ DOMAIN c' = Fields /\ c'.n = c.n /\ c'.asks = c.asks /\ c'.posts = c.posts /\ c'.listed = c.listed /\ c'.chain = c.chain
        /\ c'.sub = c.sub /\ c'.current = c.current /\ c'.attempt = c.attempt
        /\ c'.links = [c.links EXCEPT ![l] = link]
        /\ c'.events = c.events \/ c'.events = Append(c.events, <<"established", l>>)
    <3>1. CASE c' = [c EXCEPT !.links[l].status = status]
      BY <1>0, <3>1 DEF OK, Typed, Fields
    <3>2. CASE c' = [c EXCEPT !.links[l].status = status, !.events = Append(@, <<"established", l>>)]
      BY <1>0, <3>2 DEF OK, Typed, Fields
    <3> QED  BY <2>1, <3>1, <3>2
  <2>3. link \in LinkRecs /\ link.n = c.links[l].n /\ link.status # "closed"
    BY <1>0 DEF LinkRecs
  <2> HIDE DEF link
  <2>4. /\ c'.links \in Seq(LinkRecs) /\ Len(c'.links) = Len(c.links) /\ c'.links[l] = link
        /\ \A k \in 1..Len(c.links) : k # l => c'.links[k] = c.links[k]
    BY <1>0, <2>2, <2>3 DEF OK, Typed
  <2>5. Len(c.links) \in Nat /\ c.events \in Seq({"established", "close"} \X (1..Len(c.links)))
        /\ <<"established", l>> \in {"established", "close"} \X (1..Len(c.links))
    BY <1>0 DEF OK, Typed
  <2>6. c'.events \in Seq({"established", "close"} \X (1..Len(c.links)))
    <3>1. Append(c.events, <<"established", l>>) \in Seq({"established", "close"} \X (1..Len(c.links)))
      BY <2>5
    <3> QED  BY <2>2, <2>5, <3>1
  <2>7. Attempts(c')
    BY <1>0, <2>1, <2>2, <2>3, <2>4 DEF OK, Typed, Attempts
  <2>8. Heards(c')
    <3> SUFFICES ASSUME NEW i \in 1..Len(c'.events), c'.events[i][1] = "close"
                 PROVE  c'.links[c'.events[i][2]].status = "closed"
      BY DEF Heards
    <3>1. i \in 1..Len(c.events) /\ c'.events[i] = c.events[i]
      <4>1. CASE c'.events = c.events
        BY <4>1
      <4>2. CASE c'.events = Append(c.events, <<"established", l>>)
        <5>1. /\ Len(c.events) \in Nat /\ Len(c'.events) = Len(c.events) + 1
              /\ \A k \in 1..Len(c.events) : c'.events[k] = c.events[k]
              /\ c'.events[Len(c.events) + 1] = <<"established", l>>
          BY <2>5, <4>2
        <5>2. i # Len(c.events) + 1
          BY <5>1
        <5> QED  BY <5>1, <5>2
      <4> QED  BY <2>2, <4>1, <4>2
    <3>2. c.links[c.events[i][2]].status = "closed" /\ c.events[i][2] \in 1..Len(c.links)
      BY <1>0, <2>5, <3>1, EventTyped DEF OK, Heards
    <3>3. c.events[i][2] # l
      BY <2>1, <3>2
    <3> QED  BY <2>4, <3>1, <3>2, <3>3
  <2>9. c'.current \in 0..Len(c.links) /\ c'.attempt \in 0..Len(c.links)
    BY <1>0, <2>2 DEF OK, Typed
  <2>10. Fine(c, c')
    BY <1>0, <2>2, <2>4, <2>6, <2>7, <2>8, <2>9, LinksFine
  <2> QED  BY <2>1, <2>10, ClientGoes
<1> QED  BY <1>1, <1>2

\* A post is appended, and the next one waits for it unless it failed at once.
LEMMA PostKeeps ==
  ASSUME IInv, Post
  PROVE  IInv'
<1> DEFINE q == NewPost(c.chain, c.n)
<1> DEFINE r == IF c.down THEN Fails(q) ELSE q
<1>0. OK(c) /\ c.chain \in Nat /\ c.n \in Nat /\ Len(c.posts) \in Nat /\ c.posts \in Seq(PostRecs)
  BY DEF IInv, OK, Typed
<1>1. q \in PostRecs /\ Fails(q) \in PostRecs
  <2>1. q \in PostRecs
    BY <1>0 DEF NewPost, PostRecs
  <2> HIDE DEF q
  <2> QED  BY <2>1, FailsKept
<1>2. r \in PostRecs
  <2> HIDE DEF q
  <2> QED  BY <1>1
<1>3. /\ DOMAIN c' = Fields /\ c'.n = c.n /\ c'.links = c.links /\ c'.events = c.events
      /\ c'.current = c.current /\ c'.attempt = c.attempt /\ c'.asks = c.asks /\ c'.listed = c.listed
      /\ c'.sub = c.sub /\ c'.posts = Append(c.posts, r) /\ c'.chain \in Nat
  <2>1. \/ c.down /\ c' = [c EXCEPT !.posts = Append(@, r)]
        \/ ~c.down /\ c' = [c EXCEPT !.posts = Append(@, r), !.chain = Len(c.posts) + 1]
    BY DEF Post
  <2>2. DOMAIN c = Fields
    BY <1>0 DEF OK, Typed
  <2> HIDE DEF r
  <2>3. CASE c' = [c EXCEPT !.posts = Append(@, r)]
    BY <1>0, <2>2, <2>3 DEF Fields
  <2>4. CASE c' = [c EXCEPT !.posts = Append(@, r), !.chain = Len(c.posts) + 1]
    BY <1>0, <2>2, <2>4 DEF Fields
  <2> QED  BY <2>1, <2>3, <2>4
<1>4. node' = node /\ lost' = lost
  BY DEF Post
<1> HIDE DEF q, r
<1>5. /\ c'.posts \in Seq(PostRecs) /\ Len(c'.posts) = Len(c.posts) + 1
      /\ \A p \in 1..Len(c.posts) : c'.posts[p] = c.posts[p]
  BY <1>0, <1>2, <1>3
<1>6. Typed(c')
  <2>1. /\ c.n \in Nat \ {0} /\ c.links \in Seq(LinkRecs)
        /\ c.current \in 0..Len(c.links) /\ c.attempt \in 0..Len(c.links)
        /\ c.events \in Seq({"established", "close"} \X (1..Len(c.links)))
        /\ c.asks \subseteq Asks /\ (\A a \in c.asks : a.link <= Len(c.links)) /\ c.listed \in BOOLEAN
    BY <1>0 DEF OK, Typed
  <2> QED  BY <1>3, <1>5, <2>1 DEF Typed
<1>7. Attempts(c') /\ Heards(c') /\ Chosen(c')
  BY <1>0, <1>3 DEF OK, Attempts, Heards, Chosen, Wanted
<1>8. Published(c')
  <2>1. ASSUME NEW a \in c.asks, a.op = "publish"
        PROVE  a.who \in 1..(Len(c.posts) + 1) /\ Tracked(c'.posts[a.who])
    <3>1. a.who \in 1..Len(c.posts) /\ Tracked(c.posts[a.who])
      BY <1>0, <2>1 DEF OK, Published
    <3> QED  BY <1>0, <1>5, <3>1
  <2> QED  BY <1>3, <1>5, <2>1 DEF Published
<1>9. Echoes'
  <2>1. node.holds \subseteq 1..Len(c.posts) /\ node.told \subseteq node.holds
    BY DEF IInv, Echoes
  <2>2. \A p \in node.holds : Tracked(c'.posts[p]) \/ ~c'.posts[p].paged
    BY <1>5, <2>1 DEF IInv, Echoes
  <2>3. \A p \in node.told : c'.posts[p].status = "sent"
    BY <1>5, <2>1 DEF IInv, Echoes, TruthWins
  <2>4. node.holds \subseteq 1..Len(c'.posts)
    BY <1>0, <1>5, <2>1
  <2> QED  BY <1>4, <2>1, <2>2, <2>3, <2>4 DEF Echoes, TruthWins
<1>10. Decided' /\ NodeTyped'
  BY <1>3, <1>4 DEF IInv, Decided, NodeTyped, Choosing
<1> QED  BY <1>6, <1>7, <1>8, <1>9, <1>10 DEF IInv, OK

\* A choice is made: it is lost until it is answered.
LEMMA ChoiceKeeps ==
  ASSUME IInv, OK(c'), Len(c'.posts) = Len(c.posts), lost' = TRUE, node' = node,
         \A p \in 1..Len(c.posts) : Keeps(c.posts[p], c'.posts[p])
  PROVE  IInv'
<1>1. NodeTyped'
  BY DEF IInv, NodeTyped
<1>2. Echoes'
  BY <1>1, NodeStands
<1> QED  BY <1>1, <1>2 DEF IInv, Decided

\* The user joins a channel, opens one that is listed, or leaves it.
LEMMA ChoiceStepKeeps ==
  ASSUME IInv, Join \/ Open \/ Leave
  PROVE  IInv'
<1>0. OK(c) /\ DOMAIN c = Fields
  BY DEF IInv, OK, Typed
<1>1. CASE Join
  <2> DEFINE d == [c EXCEPT !.listed = TRUE, !.opening = TRUE, !.screen = TRUE]
  <2>1. ~c.listed /\ lost' = TRUE /\ c' = Subscribe(d) /\ node' = node
    BY <1>1 DEF Join, Chooses
  <2>2. /\ DOMAIN d = Fields /\ d.n = c.n /\ d.links = c.links /\ d.events = c.events
        /\ d.current = c.current /\ d.attempt = c.attempt /\ d.posts = c.posts /\ d.asks = c.asks
        /\ d.listed = TRUE /\ d.chain = c.chain /\ d.sub = c.sub
    BY <1>0 DEF Fields
  <2> HIDE DEF d
  <2>3. Orderly(d) /\ d.sub = "none"
    <3>1. Typed(d)
      BY <1>0, <2>2 DEF OK, Typed
    <3>2. Attempts(d) /\ Heards(d) /\ Published(d)
      BY <1>0, <2>2 DEF OK, Attempts, Heards, Published
    <3> QED  BY <1>0, <2>1, <2>2, <3>1, <3>2 DEF OK, Chosen, Orderly
  <2>4. Fine(d, c')
    BY <2>1, <2>2, <2>3, SubscribeAnew
  <2> QED  BY <2>1, <2>2, <2>4, ChoiceKeeps DEF Fine, Goes
<1>2. CASE Open
  <2> DEFINE e == [c EXCEPT !.opened = TRUE, !.screen = TRUE]
  <2> DEFINE d == Subscribe(e)
  <2> DEFINE f == [d EXCEPT !.opening = TRUE]
  <2>1. c.listed /\ lost' = lost /\ node' = node /\ c' \in {Opens(d), d, f}
    BY <1>2 DEF Open, Chooses
  <2>2. Same(c, e)
    BY <1>0 DEF Same, Fields
  <2>3. Fine(c, e) /\ e.listed
    BY <1>0, <2>1, <2>2, SameFine DEF Same
  <2> HIDE DEF e
  <2>4. Fine(c, d)
    BY <2>3, SubscribeFine, FineThen DEF Fine
  <2> HIDE DEF d
  <2>5. Same(d, f)
    BY <2>4 DEF Same, Fine, OK, Typed, Fields
  <2>6. Fine(c, f) /\ Fine(c, Opens(d))
    BY <2>4, <2>5, SameFine, OpensFine, FineThen DEF Fine
  <2> QED  BY <2>1, <2>4, <2>6, ClientGoes
<1>3. CASE Leave
  <2> DEFINE d == [c EXCEPT !.listed = FALSE, !.sub = "none", !.stream = "none", !.opened = FALSE, !.screen = FALSE]
  <2>1. lost' = TRUE /\ node' = node /\ c' = IF Chain(c) # {} THEN Queue(d, "unsub") ELSE Ask(d, "unsub", 0)
    BY <1>3 DEF Leave, Chooses
  <2>2. /\ DOMAIN d = Fields /\ d.n = c.n /\ d.links = c.links /\ d.events = c.events
        /\ d.current = c.current /\ d.attempt = c.attempt /\ d.posts = c.posts /\ d.asks = c.asks
        /\ d.listed = FALSE /\ d.chain = c.chain /\ d.sub = "none"
    BY <1>0 DEF Fields
  <2> HIDE DEF d
  <2>3. Orderly(d)
    <3>1. Typed(d)
      BY <1>0, <2>2 DEF OK, Typed
    <3>2. Attempts(d) /\ Heards(d) /\ Published(d)
      BY <1>0, <2>2 DEF OK, Attempts, Heards, Published
    <3> QED  BY <1>0, <2>2, <3>1, <3>2 DEF OK, Chosen, Orderly
  <2>4. Chain(d) = Chain(c) /\ Wanted(d) = "unsub"
    BY <2>2 DEF Chain, Own, Wanted
  <2>5. Fine(d, c')
    <3>1. CASE Chain(d) # {}
      BY <2>1, <2>3, <2>4, <3>1, QueueFine DEF Choice
    <3>2. CASE Chain(d) = {}
      <4>1. OK(d)
        BY <2>3, <3>2, NoneBehind
      <4>2. Proper(d, "unsub", 0, d.n, <<>>)
        BY <2>3, <2>4 DEF Proper, Orderly, Typed, Ops, Choice
      <4> QED  BY <2>1, <2>4, <3>2, <4>1, <4>2, AskForFine DEF Ask
    <3> QED  BY <3>1, <3>2
  <2> QED  BY <2>1, <2>2, <2>5, ChoiceKeeps DEF Fine, Goes
<1> QED  BY <1>1, <1>2, <1>3

\* An event, an announce, the page or the exchange.
LEMMA EventStepKeeps ==
  ASSUME IInv,
         \/ Hears \/ AnnounceLink \/ AnnounceChannel \/ Registers \/ Resume \/ Wake
         \/ GoesDown \/ ComesBack \/ Connect
  PROVE  IInv'
<1>0. OK(c) /\ DOMAIN c = Fields
  BY DEF IInv, OK, Typed
<1> DEFINE down == [c EXCEPT !.down = TRUE]
<1> DEFINE up == [c EXCEPT !.down = FALSE]
<1> DEFINE first == [c EXCEPT !.initialized = TRUE]
<1> DEFINE live == [c EXCEPT !.live = TRUE]
<1>1. Same(c, down) /\ Same(c, up) /\ Same(c, first) /\ Same(c, live)
  BY <1>0 DEF Same, Fields
<1>2. Fine(c, down) /\ Fine(c, up) /\ Fine(c, first) /\ Fine(c, live)
  BY <1>0, <1>1, SameFine
<1>3. /\ node' = node /\ lost' = lost
      /\ \/ c.events # <<>> /\ c' = Hear(c)
         \/ c' \in {LinkAnnounced(c, FALSE), LinkAnnounced(c, TRUE), ChannelAnnounced(c), Register(first),
                    Resumed(c), Pull(c), down, up, Resumed(up), live}
  BY DEF Hears, AnnounceLink, AnnounceChannel, Registers, Resume, Wake, GoesDown, ComesBack, Connect, Becomes
<1> HIDE DEF down, up, first, live
<1>4. Fine(c, Register(first)) /\ Fine(c, Resumed(up))
  BY <1>2, RegisterFine, ResumedFine, FineThen DEF Fine
<1>5. /\ Fine(c, LinkAnnounced(c, FALSE)) /\ Fine(c, LinkAnnounced(c, TRUE)) /\ Fine(c, ChannelAnnounced(c))
      /\ Fine(c, Resumed(c)) /\ Fine(c, Pull(c)) /\ (c.events # <<>> => Fine(c, Hear(c)))
  BY <1>0, LinkAnnouncedFine, ChannelAnnouncedFine, ResumedFine, PullFine, HearFine
<1>6. Fine(c, c')
  BY <1>2, <1>3, <1>4, <1>5
<1> QED  BY <1>3, <1>6, ClientGoes

\* The connection ends, with its page or without.
LEMMA StopKeeps ==
  ASSUME IInv, Stop
  PROVE  IInv'
<1>1. /\ OK(c) /\ lost' = (lost \/ Choices # {}) /\ c' \in {Stopped(c), Reloaded(c)}
      /\ node' \in {node} \cup {Taken(a) : a \in Choices}
  BY DEF IInv, Stop
<1>2. /\ DOMAIN node' = {"subscribed", "stream", "holds", "told"} /\ node'.subscribed \in BOOLEAN
      /\ node'.holds = node.holds /\ node'.told = node.told
  <2>1. ASSUME NEW a \in Choices
        PROVE  Taken(a) = [node EXCEPT !.subscribed = TRUE] \/ Taken(a) = [node EXCEPT !.subscribed = FALSE]
    BY DEF Choices, Taken
  <2>2. CASE node' = node
    BY <2>2 DEF IInv, NodeTyped
  <2>3. CASE node' = [node EXCEPT !.subscribed = TRUE]
    BY <2>3 DEF IInv, NodeTyped
  <2>4. CASE node' = [node EXCEPT !.subscribed = FALSE]
    BY <2>4 DEF IInv, NodeTyped
  <2> QED  BY <1>1, <2>1, <2>2, <2>3, <2>4
<1>3. NodeTyped' /\ (~lost' => ~lost /\ ~Choosing(c) /\ node'.subscribed = node.subscribed)
  BY <1>1, <1>2 DEF IInv, NodeTyped, Choices, Choosing, Choice
<1>4. CASE c' = Stopped(c)
  BY <1>1, <1>2, <1>3, <1>4, StoppedOK, ConnectionGoes
<1>5. CASE c' = Reloaded(c)
  BY <1>1, <1>2, <1>3, <1>5, ReloadedOK, ConnectionGoes
<1> QED  BY <1>1, <1>4, <1>5

-----------------------------------------------------------------------------
\* The invariant: of a connection one attempt is not closed, what was put on
\* the wire is known by its echo, and what is asked of the channel's
\* subscription ends as the list says (RfedLink.tla, Channels.tla).
THEOREM Invariance == Spec => []IInv
<1>1. Init => IInv
  <2> SUFFICES ASSUME Init PROVE IInv
    OBVIOUS
  <2>1. world.listed \in BOOLEAN
    BY ChannelsAssumption DEF Init
  <2>2. /\ DOMAIN c = Fields /\ c.n = 1 /\ c.links = <<>> /\ c.events = <<>> /\ c.current = 0
        /\ c.attempt = 0 /\ c.asks = {} /\ c.posts = <<>> /\ c.chain = 0 /\ c.sub = "none" /\ c.listed = world.listed
    BY DEF Init, Client, Fields, None
  <2>3. <<>> \in Seq(LinkRecs) /\ <<>> \in Seq(PostRecs) /\ Len(<<>>) = 0
    BY EmptySeq
  <2>4. <<>> \in Seq({"established", "close"} \X (1..Len(c.links)))
    BY EmptySeq
  <2>5. Typed(c)
    BY <2>1, <2>2, <2>3, <2>4 DEF Typed
  <2>6. Attempts(c) /\ Heards(c) /\ Published(c) /\ Chosen(c)
    BY <2>2, <2>3 DEF Attempts, Heards, Published, Chosen
  <2>7. NodeTyped /\ Echoes /\ Decided
    BY <2>1 DEF Init, NodeTyped, Echoes, TruthWins, Decided
  <2> QED  BY <2>5, <2>6, <2>7 DEF IInv, OK
<1>2. IInv /\ [Next]_vars => IInv'
  <2> SUFFICES ASSUME IInv, [Next]_vars PROVE IInv'
    OBVIOUS
  <2>1. CASE \E p \in DOMAIN c.posts : Turn(p) \/ Echo(p) \/ Mined(p)
    BY <2>1, PostStepKeeps
  <2>2. CASE \E a \in c.asks : \/ Breaks(a) \/ Takes(a) \/ Answered(a) \/ TimesOut(a) \/ PacketLost(a)
                               \/ \E res \in {"no", "more", "refused"} : AnsweredElse(a, res)
    BY <2>2, AskStepKeeps
  <2>3. CASE \E l \in DOMAIN c.links : \/ Establishes(l) \/ AttemptFails(l) \/ GoesStale(l)
                                       \/ Recovers(l) \/ TearsDown(l) \/ PeerCloses(l)
    BY <2>3, LinkStepKeeps
  <2>4. CASE Post
    BY <2>4, PostKeeps
  <2>5. CASE Join \/ Open \/ Leave
    BY <2>5, ChoiceStepKeeps
  <2>6. CASE \/ Hears \/ AnnounceLink \/ AnnounceChannel \/ Registers \/ Resume \/ Wake
             \/ GoesDown \/ ComesBack \/ Connect
    BY <2>6, EventStepKeeps
  <2>7. CASE Stop
    BY <2>7, StopKeeps
  <2>8. CASE UNCHANGED vars
    BY <2>8 DEF vars, IInv, OK, NodeTyped, Echoes, TruthWins, Decided
  <2> QED  BY <2>1, <2>2, <2>3, <2>4, <2>5, <2>6, <2>7, <2>8 DEF Next
<1> QED  BY <1>1, <1>2, PTL DEF Spec

\* A connection has one rfed link, whatever fails, expires or comes too late.
THEOREM OneLinkAtATime == Spec => []OneLink
<1>1. ASSUME IInv PROVE OneLink
  <2>1. DOMAIN c.links = 1..Len(c.links)
    BY <1>1 DEF IInv, OK, Typed
  <2>2. \A l \in DOMAIN c.links : c.links[l].n = c.n /\ c.links[l].status # "closed" => c.attempt = l
    BY <1>1, <2>1 DEF IInv, OK, Attempts
  <2> QED  BY <2>2 DEF OneLink
<1> QED  BY <1>1, Invariance, PTL

\* What the page heard of a post outlives every failure that is shown of it.
THEOREM TruthPrevails == Spec => []TruthWins
<1>1. IInv => TruthWins
  BY DEF IInv, Echoes
<1> QED  BY <1>1, Invariance, PTL

\* The node's last word is the user's last choice, if nothing of it failed.
THEOREM LastChoiceStands == Spec => []LastChoiceWins
<1>1. Chain(c) = {} => ~Choosing(c)
  BY DEF Choosing, Chain, Own, Choice
<1>2. IInv => LastChoiceWins
  BY <1>1 DEF IInv, Decided, LastChoiceWins
<1> QED  BY <1>2, Invariance, PTL
=============================================================================
