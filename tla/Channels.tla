------------------------------ MODULE Channels ------------------------------
(***************************************************************************)
(* What the page does over its rfed link (RfedLink): it registers and      *)
(* pulls for its distro, joins and leaves a channel, and posts to it, from *)
(* connection to connection.  One distro, one channel.  The node is what   *)
(* its answers say of it; a request it took may still be answered by none. *)
(***************************************************************************)
EXTENDS RfedLink

CONSTANTS
  Worlds,   \* what may be explored: sets of [distro, listed, posts, choices, faults, conns]
  RaceStops \* disconnect() may come between a link's coming up and its event

ASSUME ChannelsAssumption ==
  /\ Worlds \subseteq [distro : BOOLEAN, listed : BOOLEAN, posts : Nat, choices : Nat, faults : Nat, conns : Nat]
  /\ RaceStops \in BOOLEAN

VARIABLES
  world,    \* what is left of it: the bounds count down
  c,        \* the client
  node,     \* rfed: whether it has the channel's subscription, the link it
            \* streams on, the posts it holds, and those whose echo came
  lost      \* history: of the user's last choice of join or leave rfed's yes is
            \* not in, or something ended after it that may have undone it

vars == <<world, c, node, lost>>

-----------------------------------------------------------------------------
(* lib/channel_publish.js.  `key`: the post is tracked, so that its echo is *)
(* known; `pc`: where its sendChannelMessage is.                            *)

NewPost(p, n) == [pc |-> "chain", n |-> n, prev |-> p, status |-> "sending", key |-> FALSE, paged |-> TRUE]

\* _sent: it may follow "failed".
Sent(q) == IF q.key /\ q.status # "sent" THEN [q EXCEPT !.status = "sent", !.key = FALSE] ELSE q

\* failed: a post still "sending", which stays tracked.  (Variant: it is
\* forgotten, as until 2026-10-01.)
FailedForgotten(q) == IF q.status # "sending" THEN q ELSE [q EXCEPT !.status = "failed", !.key = FALSE]
Failed(q) == IF q.status # "sending" THEN q ELSE [q EXCEPT !.status = "failed"]

\* sendChannelMessage is over: releaseSend().  (Variant: only of a post that
\* was sent.)
OverIfSent(q) == IF q.status # "sent" THEN q ELSE [q EXCEPT !.pc = "over"]
Over(q) == [q EXCEPT !.pc = "over"]
Fails(q) == Over(Failed(q))

SetPost(d, p, q) == [d EXCEPT !.posts[p] = q]

-----------------------------------------------------------------------------
(* Subscribing, the stream, and the pull of one channel *)

\* The subscribe or unsubscribe under way for this connection, and what is
\* chained to it: at most one.
Chain(d) == Own(d, {"sub", "unsub"})
Queue(d, op) ==
  [d EXCEPT !.asks = {IF a \in Chain(d) THEN [a EXCEPT !.then = Append(@, op)] ELSE a : a \in @}]

\* _ensureChannelSubscribed: after a leave still in flight.  (Variant:
\* beside it.)
SubscribeBeside(d) == IF d.sub # "none" THEN d ELSE Ask([d EXCEPT !.sub = "asked"], "sub", 0)
Subscribe(d) ==
  IF d.sub # "none" THEN d
  ELSE LET e == [d EXCEPT !.sub = "asked"] IN
       IF Chain(d) # {} THEN Queue(e, "sub") ELSE Ask(e, "sub", 0)

\* _ensureChannelStreamConfigured: the memo is set whether or not
\* _configureChannelStream sent anything.
Stream(d) ==
  LET e == [d EXCEPT !.opened = TRUE] IN
  IF e.stream # "none" THEN e
  ELSE IF ~e.inited \/ ~e.listed THEN [e EXCEPT !.stream = "ok"]
  ELSE Ask([e EXCEPT !.stream = "asked"], "stream", None)

\* pullChannel, and _pullChannelOnScreen on a new link.
PullChannel(d) == IF ~d.listed \/ d.pulling THEN d ELSE Ask([d EXCEPT !.pulling = TRUE], "chpull", 0)
PullOnScreen(d, generation) ==
  IF ~d.screen \/ ~d.opened \/ (generation # None /\ d.pulled = generation) THEN d ELSE PullChannel(d)

\* _rebindChannelStream on the new link l, then the pull.
Rebind(d, l) ==
  IF d.inited /\ d.listed /\ d.opened /\ d.stream = "none"
  THEN Ask([d EXCEPT !.stream = "asked"], "stream", l)
  ELSE IF Current(d, l) THEN PullOnScreen(d, l) ELSE d

\* The rest of openChannel, once the subscription is answered.
Opens(d) == IF ~d.listed THEN d ELSE PullChannel(Stream([d EXCEPT !.opened = TRUE]))

-----------------------------------------------------------------------------
(* sendChannelMessage, as far as the memos let it go *)

Waiting(d, pc, n) == {p \in DOMAIN d.posts : d.posts[p].pc = pc /\ d.posts[p].n = n}
FailThese(d, ps) == [d EXCEPT !.posts = [p \in DOMAIN @ |-> IF p \in ps THEN Fails(@[p]) ELSE @[p]]]
MoveThese(d, ps, pc) ==
  [d EXCEPT !.posts = [p \in DOMAIN @ |-> IF p \in ps THEN [@[p] EXCEPT !.pc = pc] ELSE @[p]]]
FailWaiting(d, pc, n) == FailThese(d, Waiting(d, pc, n))

\* These posts, that wait for the subscription: the first of them asks for the
\* stream, and the others find its memo.
Advance(d, ps) ==
  CASE ps # {} /\ d.sub = "bad" -> FailThese(d, ps)
    [] ps # {} /\ d.sub = "ok" ->
         LET e == Stream(d) IN
         CASE e.stream = "bad" -> FailThese(e, ps)
           [] e.stream = "ok" -> MoveThese(e, ps, "stamp")
           [] OTHER -> MoveThese(e, ps, "stream")
    [] OTHER -> d

\* A post whose turn in the chain has come.
Starts(d, p) == Advance(Subscribe(SetPost(d, p, [d.posts[p] EXCEPT !.pc = "sub", !.n = d.n])), {p})

\* Every post that waited on this memo goes on, or fails with it.
AdvanceAll(d) == Advance(d, Waiting(d, "sub", d.n))

\* The last of _initChannels, once the subscription is answered: the stream
\* of what is open.
InitTail(d) == IF d.listed /\ d.opened THEN Stream(d) ELSE d
Resubscribe(d) ==
  CASE ~d.listed -> d
    [] d.sub \in {"ok", "bad"} -> InitTail(d)
    [] OTHER -> Subscribe([d EXCEPT !.tail = @ \cup {d.n}])

SubEnds(d, a, ok) ==
  LET mine == a.n = d.n /\ a.then = <<>> /\ d.sub = "asked"
      e == IF ~mine THEN d ELSE [d EXCEPT !.sub = IF ok THEN "ok" ELSE "bad", !.opening = FALSE]
      f == IF mine /\ ok /\ d.opening THEN Opens(e) ELSE e
      g == IF ok /\ mine THEN AdvanceAll(f) ELSE FailWaiting(f, "sub", a.n)
  IN IF a.n \in d.tail THEN InitTail([g EXCEPT !.tail = @ \ {a.n}]) ELSE g

StreamEnds(d, a, ok) ==
  LET mine == a.n = d.n /\ d.stream = "asked"
      e == IF mine THEN [d EXCEPT !.stream = IF ok THEN "ok" ELSE "bad"] ELSE d
      f == IF ~ok THEN FailWaiting(e, "stream", a.n)
           ELSE MoveThese(e, Waiting(e, "stream", a.n), "stamp")
  IN IF a.who # None /\ Current(f, a.who) THEN PullOnScreen(f, a.who) ELSE f

\* How a publish's request ends: answered and unanswered.
PublishEnds(d, p, res) == SetPost(d, p, Over(IF res = "yes" THEN Sent(d.posts[p]) ELSE Failed(d.posts[p])))

\* The end of the distro's pull; _distroFirst, which waited for it whatever
\* its outcome.
PullEnds(d, a, res) ==
  LET e == CASE res = "refused" -> CloseRefused(d)
             [] res = "fail" -> IF a.n = d.n /\ d.live THEN Park(d) ELSE d
             [] OTHER -> d
  IN IF res = "more" /\ a.n = d.n /\ d.live THEN Ask(d, "pull", 0)
     ELSE IF a.n = d.n /\ d.live /\ d.first
     THEN Resubscribe([e EXCEPT !.first = FALSE])
     ELSE e

\* The end of request a, already taken out of d.asks.
Ends(d, a, res) ==
  LET e == CASE a.op = "register" -> Registered(d, a, res)
             [] a.op = "bind" -> IF res = "yes" THEN d ELSE [d EXCEPT !.claims = @ \ {a.who}]
             [] a.op = "pull" -> PullEnds(d, a, res)
             [] a.op = "redrive" -> IF res = "fail" THEN Park(d) ELSE d
             [] a.op = "sub" -> SubEnds(d, a, res = "yes")
             [] a.op = "stream" -> StreamEnds(d, a, res = "yes")
             [] a.op = "chpull" ->
                  LET f == IF res = "refused" THEN CloseRefused(d) ELSE d
                  IN [f EXCEPT !.pulling = FALSE,
                               !.pulled = IF res = "yes" THEN d.current ELSE @]
             [] a.op = "publish" -> PublishEnds(d, a.who, res)
             [] OTHER -> d
      next == IF a.then = <<>> THEN e ELSE AskFor(e, Head(a.then), 0, a.n, Tail(a.then))
  IN PullDue(next)

-----------------------------------------------------------------------------
(* The link's events *)

\* The "established" handler and _onRfedLinkEstablished: the bindings, and
\* the pulls they are followed by.
EstablishedHeard(d, l) ==
  LET up == [d EXCEPT !.links[l].heard = TRUE, !.current = l, !.failed = FALSE, !.armed = TRUE,
                      !.asks = {IF a.link = l THEN [a EXCEPT !.sent = TRUE] ELSE a : a \in
                                  {a \in @ : ~(a.link = l /\ a.op = "redrive")}}]
  IN PullDue(Rebind(BindPush(RegisterOwed([up EXCEPT !.due = l])), l))

Hear(d) ==
  LET e == [d EXCEPT !.events = Tail(@)]
      l == Head(d.events)[2]
  IN IF Head(d.events)[1] = "established" THEN EstablishedHeard(e, l) ELSE CloseHeard(e, l)

-----------------------------------------------------------------------------
(* The announces, the page and the connection *)

\* _markRfedServiceReady of rfed.link: its waiters go on, and what is parked
\* runs if it has not expired.
LinkAnnounced(d, expired) ==
  LET e == Ensure([d EXCEPT !.ready = TRUE, !.armed = TRUE, !.parked = FALSE])
      waited == {a \in d.asks : a.link = None}
      f == IF waited = {} THEN [d EXCEPT !.ready = TRUE, !.armed = TRUE, !.parked = FALSE]
           ELSE [e EXCEPT !.asks = (@ \ waited) \cup
                   {[a EXCEPT !.link = Route(e), !.sent = Heard(e, Route(e))] : a \in waited}]
  IN IF d.parked /\ ~expired THEN Redrive(f) ELSE f

\* _initChannels, on the announce of rfed.channel: the distro's queue first.
ChannelAnnounced(d) ==
  LET e == [d EXCEPT !.armed = TRUE, !.inited = TRUE, !.resub = TRUE]
  IN IF d.resub THEN InitTail(e)
     ELSE IF d.distro THEN Pull([e EXCEPT !.first = TRUE])
     ELSE Resubscribe(e)

\* _onPageResume
Resumed(d) ==
  LET e == [d EXCEPT !.armed = TRUE] IN
  IF d.down THEN e
  ELSE IF Up(d, d.current) THEN Pull(PullOnScreen(e, None)) ELSE Redrive(e)

\* disconnect(): what is kept of the client.
Stopped(d) ==
  LET e == IF d.current = None THEN d ELSE CloseLink(d, d.current, "ours") IN
  [Client(d.distro, d.listed) EXCEPT
     !.n = d.n + 1, !.links = e.links, !.events = e.events, !.posts = d.posts,
     !.failed = d.failed, !.parked = d.parked, !.tail = d.tail, !.screen = d.screen, !.claims = d.claims,
     !.asks = {IF a.link = None THEN [a EXCEPT !.link = Rejected] ELSE a : a \in d.asks}]

\* The page is loaded again: what is stored is left.
Reloaded(d) ==
  [Client(d.distro, d.listed) EXCEPT
     !.n = d.n + 1, !.links = [l \in DOMAIN d.links |-> [d.links[l] EXCEPT !.status = "closed"]],
     !.posts = [p \in DOMAIN d.posts |-> [d.posts[p] EXCEPT !.paged = FALSE, !.key = FALSE, !.pc = "over"]]]

-----------------------------------------------------------------------------
Init ==
  /\ world \in Worlds
  /\ c = Client(world.distro, world.listed)
  /\ node = [subscribed |-> FALSE, stream |-> None, holds |-> {}, told |-> {}]
  /\ lost = TRUE

\* A post whose turn has come; what is broken and this are microtasks, so
\* nothing else happens before them.
MayStart(p) == c.posts[p].pc = "chain" /\ (c.posts[p].prev # 0 => c.posts[c.posts[p].prev].pc = "over")
Quiet == Settled(c) /\ \A p \in DOMAIN c.posts : ~MayStart(p)
Spend(n) == world.faults >= n /\ world' = [world EXCEPT !.faults = @ - n]

\* What the node does of a request it takes.
Taken(a) ==
  CASE a.op = "sub" -> [node EXCEPT !.subscribed = TRUE]
    [] a.op = "unsub" -> [node EXCEPT !.subscribed = FALSE]
    [] a.op = "stream" -> [node EXCEPT !.stream = a.link]
    [] OTHER -> node

\* The end of a request, seen by the user's last choice.  One that was made
\* for a connection stopped since, or chained to one that was, is carried out
\* on the next: it follows no choice made there.
Strays(a) == a.n # c.n
Finish(a, res) ==
  /\ c' = Ends([c EXCEPT !.asks = @ \ {a}], a, res)
  /\ lost' = IF a.op \in {"sub", "unsub"} /\ (Strays(a) \/ a.then = <<>>)
             THEN Strays(a) \/ res # "yes" ELSE lost

Turn(p) ==
  /\ MayStart(p)
  /\ c' = IF c.listed THEN Starts(c, p) ELSE SetPost(c, p, Fails(c.posts[p]))
  /\ UNCHANGED <<world, node, lost>>

\* A request on a link that is gone fails; the node may have taken it.
Breaks(a) ==
  /\ Broken(c, a)
  /\ \E took \in {FALSE, a.sent} : node' = IF took THEN Taken(a) ELSE node
  /\ Finish(a, "fail")
  /\ UNCHANGED world

CanAnswer(a) == Quiet /\ a.sent /\ Up(c, a.link) /\ ~c.down

\* The node takes a post, before it answers.
Takes(a) ==
  /\ CanAnswer(a) /\ a.op = "publish" /\ a.who \notin node.holds
  /\ node' = [node EXCEPT !.holds = @ \cup {a.who}]
  /\ UNCHANGED <<world, c, lost>>

Answered(a) ==
  /\ CanAnswer(a) /\ (a.op = "publish" => a.who \in node.holds)
  /\ node' = IF a.op = "publish" THEN [node EXCEPT !.told = @ \cup {a.who}] ELSE Taken(a)
  /\ Finish(a, "yes")
  /\ UNCHANGED world

\* Refused; another page of the distro's queue; no identify seen.
AnsweredElse(a, res) ==
  /\ CanAnswer(a)
  /\ CASE res = "no" -> a.op # "publish" \/ a.who \notin node.holds
       [] res = "more" -> a.op = "pull"
       [] OTHER -> a.op \in {"pull", "chpull"}
  /\ Spend(1) /\ Finish(a, res)
  /\ UNCHANGED node

\* The request's own timeout; what it asked for may have been done.
TimesOut(a) ==
  /\ Quiet /\ a.sent /\ a.link > None /\ c.links[a.link].status # "closed"
  /\ Spend(1)
  /\ \E took \in BOOLEAN : node' = IF took THEN Taken(a) ELSE node
  /\ Finish(a, "fail")

\* _onPacketsLost of a publish: its request waits on.
PacketLost(a) ==
  /\ Quiet /\ a.op = "publish" /\ a.sent /\ c.posts[a.who].status = "sending"
  /\ Spend(1)
  /\ c' = SetPost(c, a.who, Fails(c.posts[a.who]))
  /\ UNCHANGED <<node, lost>>

\* rfed's echo of a post, pushed or pulled, on any connection: _chanSeenIds
\* has it, or ChannelMsgStore.held after a reload.
EchoHeard(q) ==
  IF q.key THEN Over(Sent(q))
  ELSE IF ~q.paged /\ q.status # "sent" THEN [q EXCEPT !.status = "sent"] ELSE q
Echo(p) ==
  /\ Quiet /\ c.live /\ ~c.down /\ p \in node.holds
  /\ c' = SetPost(c, p, EchoHeard(c.posts[p]))
  /\ node' = [node EXCEPT !.told = @ \cup {p}]
  /\ UNCHANGED <<world, lost>>

\* The user posts.  D3: with the exchange down it fails now.
Post ==
  /\ Quiet /\ world.posts > 0
  /\ world' = [world EXCEPT !.posts = @ - 1]
  /\ LET q == NewPost(c.chain, c.n)
         p == Len(c.posts) + 1
     IN c' = IF c.down THEN [c EXCEPT !.posts = Append(@, Fails(q))]
             ELSE [c EXCEPT !.posts = Append(@, q), !.chain = p]
  /\ UNCHANGED <<node, lost>>

\* Its stamp is mined: tracked, and published.
Mined(p) ==
  /\ Quiet /\ c.posts[p].pc = "stamp"
  /\ c' = Ask(SetPost(c, p, [c.posts[p] EXCEPT !.pc = "out", !.key = TRUE]), "publish", p)
  /\ UNCHANGED <<world, node, lost>>

Chooses(d) ==
  /\ Quiet /\ world.choices > 0
  /\ world' = [world EXCEPT !.choices = @ - 1]
  /\ c' = d /\ UNCHANGED node

\* joinChannel: of one not in the list, or of one that is.
Join == ~c.listed /\ lost' = TRUE
        /\ Chooses(Subscribe([c EXCEPT !.listed = TRUE, !.opening = TRUE, !.screen = TRUE]))
Open == /\ c.listed /\ ~c.screen /\ lost' = lost
        /\ LET d == Subscribe([c EXCEPT !.opened = TRUE, !.screen = TRUE]) IN
           Chooses(CASE d.sub = "ok" -> Opens(d) [] d.sub = "bad" -> d [] OTHER -> [d EXCEPT !.opening = TRUE])

\* leaveChannel, or a sibling's leave: after the subscription in flight.
Leave ==
  /\ c.listed /\ lost' = TRUE
  /\ LET d == [c EXCEPT !.listed = FALSE, !.sub = "none", !.stream = "none", !.opened = FALSE, !.screen = FALSE]
     IN Chooses(IF Chain(c) # {} THEN Queue(d, "unsub") ELSE Ask(d, "unsub", 0))

Becomes(d) == Quiet /\ c' = d /\ UNCHANGED <<node, lost>>

Establishes(l) ==
  /\ c.links[l].status = "pending" /\ c.links[l].n = c.n /\ c.live /\ ~c.down
  /\ Becomes([c EXCEPT !.links[l].status = "active", !.events = Append(@, <<"established", l>>)])
  /\ UNCHANGED world

\* Nothing of a stopped connection arrives.
AttemptFails(l) ==
  /\ c.links[l].status = "pending" /\ Becomes(CloseLink(c, l, "peer"))
  /\ IF c.links[l].n # c.n THEN UNCHANGED world ELSE Spend(1)

GoesStale(l) ==
  /\ c.links[l].status = "active" /\ c.links[l].n = c.n
  /\ Spend(1) /\ Becomes([c EXCEPT !.links[l].status = "stale"])
Recovers(l) ==
  /\ c.links[l].status = "stale" /\ ~c.down
  /\ Becomes([c EXCEPT !.links[l].status = "active"]) /\ UNCHANGED world
TearsDown(l) == c.links[l].status = "stale" /\ Becomes(CloseLink(c, l, "peer")) /\ UNCHANGED world
PeerCloses(l) ==
  /\ c.links[l].status = "active" /\ ~c.down
  /\ Spend(1) /\ Becomes(CloseLink(c, l, "peer"))

Hears == c.events # <<>> /\ Becomes(Hear(c)) /\ UNCHANGED world

AnnounceLink ==
  /\ c.live /\ ~c.down
  /\ \/ Becomes(LinkAnnounced(c, FALSE)) /\ UNCHANGED world
     \/ c.parked /\ Spend(1) /\ Becomes(LinkAnnounced(c, TRUE))
AnnounceChannel == c.live /\ ~c.down /\ Becomes(ChannelAnnounced(c)) /\ UNCHANGED world

\* _onExchangeRegistered, the first of a connection.
Registers ==
  /\ c.live /\ ~c.down /\ ~c.initialized
  /\ Becomes(Register([c EXCEPT !.initialized = TRUE])) /\ UNCHANGED world

Resume == c.live /\ Becomes(Resumed(c)) /\ UNCHANGED world
\* A /notify push on the link.
Wake == Up(c, c.current) /\ ~c.down /\ Becomes(Pull(c)) /\ UNCHANGED world

GoesDown == c.live /\ ~c.down /\ Spend(1) /\ Becomes([c EXCEPT !.down = TRUE])
\* _followExchange's "up": a resume, once it has been up before.
ComesBack ==
  /\ c.down /\ UNCHANGED world
  /\ LET d == [c EXCEPT !.down = FALSE] IN Becomes(IF c.initialized THEN Resumed(d) ELSE d)

Connect == ~c.live /\ Becomes([c EXCEPT !.live = TRUE]) /\ UNCHANGED world

\* disconnect(), or the page is loaded again; then the node may yet take what
\* was on the wire.  Of a choice still asked for the outcome is not known.
Choices == {a \in c.asks : a.op \in {"sub", "unsub"}}
Stop ==
  /\ world.conns > 0 /\ world' = [world EXCEPT !.conns = @ - 1]
  /\ RaceStops \/ \A i \in DOMAIN c.events : c.events[i][1] # "established"
  /\ Quiet /\ lost' = (lost \/ Choices # {})
  /\ \/ c.live /\ c' = Stopped(c) /\ UNCHANGED node
     \/ c' = Reloaded(c) /\ node' \in {node} \cup {Taken(a) : a \in {b \in Choices : b.sent}}

Next ==
  \/ \E p \in DOMAIN c.posts : Turn(p) \/ Echo(p) \/ Mined(p)
  \/ \E a \in c.asks :
        \/ Breaks(a) \/ Takes(a) \/ Answered(a) \/ TimesOut(a) \/ PacketLost(a)
        \/ \E res \in {"no", "more", "refused"} : AnsweredElse(a, res)
  \/ \E l \in DOMAIN c.links :
        Establishes(l) \/ AttemptFails(l) \/ GoesStale(l) \/ Recovers(l) \/ TearsDown(l) \/ PeerCloses(l)
  \/ Post \/ Join \/ Open \/ Leave \/ Hears \/ AnnounceLink \/ AnnounceChannel
  \/ Registers \/ Resume \/ Wake \/ GoesDown \/ ComesBack \/ Connect \/ Stop

Spec == Init /\ [][Next]_vars

\* No task of the page's own waits forever; a request or an attempt on a
\* sound network ends, and a link that went stale is decided; the node
\* announces, the exchange comes back, the user connects again, and comes
\* back to the page of which a link is down.
Pulls == {a \in c.asks : a.op \in {"pull", "chpull"}}
Unanswered(as) == \E a \in as : a.sent /\ Up(c, a.link) /\ ~c.down
Decides(l) == \/ Establishes(l) \/ Recovers(l) \/ TearsDown(l)
              \/ c.links[l].n # c.n /\ AttemptFails(l)
Idle == Quiet /\ c.events = <<>> /\ \A p \in DOMAIN c.posts : c.posts[p].pc # "stamp"
On == c.live /\ ~c.down
FairSpec ==
  /\ Spec /\ []<>Idle /\ []<>On
  /\ []<>(On => c.initialized /\ c.ready /\ c.inited)
  /\ []<>(On => Up(c, c.current) \/ c.attempt # None \/ ~Bound(c)) \/ []<><<Resume>>_vars
  /\ []<>~Unanswered(c.asks \ Pulls) /\ []<>~Unanswered(Pulls)
  /\ WF_vars(\E l \in DOMAIN c.links : Decides(l))

-----------------------------------------------------------------------------
\* A connection has one rfed link at a time, up or coming up: a second would
\* break rfed's one binding per subscriber (app.js _onPageResume).
OneLink ==
  \A l, m \in DOMAIN c.links :
    (\A x \in {l, m} : c.links[x].n = c.n /\ c.links[x].status # "closed") => l = m

\* Once the page has heard that rfed has a post, by its answer or its echo,
\* the post is shown sent and stays so, whatever failure was shown before or
\* comes after: a lost packet, a closed link, a new connection, a reload.
TruthWins == \A p \in node.told : c.posts[p].status = "sent"

\* The user's last choice is rfed's last word, on whatever connection: once
\* the joins and leaves made on it are answered, and the last answer was yes,
\* rfed has the subscription exactly when the channel is listed, and a new
\* connection or a reload leaves it so, until a request about it fails or is
\* cut off.  (A request app.js:8787 chained to one of a connection stopped
\* since runs on the next one, beside the choices made there: what it undoes
\* is set right only by the next request that is answered.)
LastChoiceWins == Chain(c) = {} /\ ~lost => node.subscribed = c.listed

\* A registration that is owed is answered yes in the end, or was asked for
\* on the link that is up and waits for the next one, or its connection
\* stops: no failure on the way, of an attempt, the link or the exchange,
\* leaves it lying.
RegistrationEnds == c.owed ~> (~c.owed \/ (c.refused # None /\ c.refused = c.current))

\* Every post gets its outcome while its page lives: whatever fails, on
\* whichever connection, the chain it waits in moves on.
PostEnds ==
  \A p \in 1..2 : (p \in DOMAIN c.posts /\ c.posts[p].status = "sending")
                    ~> (p \in DOMAIN c.posts /\ (c.posts[p].status # "sending" \/ ~c.posts[p].paged))

\* What waits for rfed's word gets it or stops waiting.
EachEnds == RegistrationEnds /\ PostEnds
=============================================================================
