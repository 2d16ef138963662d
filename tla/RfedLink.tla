------------------------------ MODULE RfedLink ------------------------------
(***************************************************************************)
(* The page's one link to its rfed node and the requests that travel on    *)
(* it: the persistent-link half of app.js's RnsClient.  A request waits    *)
(* for the node's announce of rfed.link, then for the one attempt under    *)
(* way, then for its answer; a link that closes fails what is on it, and   *)
(* is re-opened on events only.  The client is one record, c: an operator  *)
(* here is what one of its methods does to it.                             *)
(*                                                                         *)
(* A link is a record: the connection it was made on, its status, whether  *)
(* its "established" was heard, and whose its close was.  Links emit their *)
(* events on a later task (lib/rns/utils/events.js), in order.             *)
(***************************************************************************)
EXTENDS Integers, Sequences, FiniteSets

None == 0        \* no link
Rejected == -1   \* where a waiter for the announce is that disconnect() rejected

\* The client of a page just opened, which holds a distro or not, a channel
\* or not.
Client(distro, listed) ==
  [n |-> 1, live |-> FALSE,     \* connections so far; _rns is set
   down |-> FALSE,              \* _exchangeIsDown
   initialized |-> FALSE,       \* _onExchangeRegistered has run
   distro |-> distro,           \* DistroManager.has
   ready |-> FALSE,             \* rfed.link is in _rfedServiceReady
   links |-> <<>>, events |-> <<>>,
   current |-> None,            \* _rfedLinks.get("link")
   attempt |-> None,            \* _rfedLinkPromises.get("link")
   failed |-> FALSE,            \* _rfedLinkState is FAILED
   armed |-> FALSE,             \* _rfedReopenArmed
   parked |-> FALSE,            \* _rfedPending
   asks |-> {},                 \* the requests under way
   owed |-> FALSE,              \* _distroRegistrationOwed
   refused |-> None,            \* the link on which the registration last ended without a yes
   claims |-> {},               \* links with _retichatDistroBound
   due |-> None,                \* the new link whose bindings a distro pull waits for
   first |-> FALSE,             \* _distroFirst is waiting for its pull
   listed |-> listed,           \* the channel is in ChannelStore, subscribed
   inited |-> FALSE,            \* _channelsInitialized
   resub |-> FALSE,             \* _channelsResubscribed
   tail |-> {},                 \* the connections whose _initChannels awaits its subscription
   sub |-> "none", stream |-> "none",  \* the memos: none, asked, ok or bad
   opened |-> FALSE,            \* _rfedOpenedChannelHashes has it
   opening |-> FALSE,           \* joinChannel waits to open it
   screen |-> FALSE,            \* it is the channel on screen
   pulling |-> FALSE, pulled |-> None, \* _rfedPullState: in flight; the link it last completed on
   posts |-> <<>>, chain |-> 0]  \* the posts made; the last one of _rfedSendChain

Up(c, l) == l # None /\ c.links[l].status = "active"
Current(c, l) == c.current = l /\ Up(c, l)

\* The requests of the connection that is on now.
Own(c, ops) == {a \in c.asks : a.op \in ops /\ a.n = c.n}

\* What must happen before anything else does: a promise of a link that is
\* gone rejects, in the microtasks after its close.
Broken(c, a) ==
  \/ a.link = Rejected
  \/ /\ a.link > None /\ c.links[a.link].status = "closed"
     /\ a.sent \/ \A i \in 1..Len(c.events) : c.events[i][2] # a.link
Settled(c) == \A a \in c.asks : ~Broken(c, a)

-----------------------------------------------------------------------------
(* _ensureRfedLink, _rfedRequest *)

\* The link a request would travel on: the one that is up, the attempt under
\* way, which one that went STALE still is, or none yet.
Route(c) == IF Up(c, c.current) THEN c.current ELSE c.attempt

\* One attempt, whose promise is kept until its link closes.
Ensure(c) ==
  IF Route(c) # None \/ ~c.ready THEN c
  ELSE [c EXCEPT !.links = Append(@, [n |-> c.n, status |-> "pending", heard |-> FALSE, why |-> "open"]),
                 !.attempt = Len(c.links) + 1, !.failed = FALSE]

Heard(c, l) == l # None /\ c.links[l].heard

\* A request, made for connection n: it waits for the announce, or for the
\* link, or is sent.  `who` is what it is about, `then` what follows it.
AskFor(c, op, who, n, then) ==
  LET d == Ensure(c)
      l == IF d.ready THEN Route(d) ELSE None
  IN [d EXCEPT !.asks = @ \cup {[op |-> op, who |-> who, n |-> n, link |-> l,
                                 sent |-> Heard(d, l), then |-> then]}]
Ask(c, op, who) == AskFor(c, op, who, c.n, <<>>)

\* _redriveRfedLink.
Bound(c) == c.opened \/ c.distro
Redrive(c) ==
  IF ~c.live \/ ~Bound(c) \/ Up(c, c.current) \/ c.attempt # None \/ c.down THEN c
  ELSE Ask(c, "redrive", 0)

\* _rfedDeferUntilAnnounce, where an attempt's failure parks the re-open.
Park(c) == IF c.failed THEN [c EXCEPT !.parked = TRUE] ELSE c

-----------------------------------------------------------------------------
(* What a link does.  Its status changes at once; its event is heard later. *)

CloseLink(c, l, why) ==
  IF c.links[l].status = "closed" THEN c
  ELSE [c EXCEPT !.links[l].status = "closed", !.links[l].why = why,
                 !.events = Append(@, <<"close", l>>)]

\* _closeRefusedRfedLink: the node saw no identify on this link.
CloseRefused(c) ==
  LET d == [c EXCEPT !.armed = FALSE] IN
  IF c.current = None THEN d ELSE CloseLink(d, c.current, "ours")

\* _onRfedLinkClosed, of a link that was up and the current one.
Reopen(c, l) ==
  IF c.links[l].why = "ours" THEN [c EXCEPT !.armed = FALSE]
  ELSE IF ~c.live \/ ~Bound(c) \/ ~c.armed THEN c
  ELSE Redrive([c EXCEPT !.armed = FALSE])

\* The "close" handler of _ensureRfedLink.  (Variant: a late close of an
\* attempt disconnect() dropped forgets the newer one.)
CloseHeardOf(c, l, own) ==
  LET d == IF own THEN [c EXCEPT !.stream = "none", !.attempt = None, !.failed = ~c.links[l].heard] ELSE c
      e == IF c.current = l THEN [d EXCEPT !.current = None] ELSE d
  IN IF c.links[l].heard /\ c.current = l THEN Reopen(e, l) ELSE e
CloseHeardAlways(c, l) == CloseHeardOf(c, l, TRUE)
CloseHeard(c, l) == CloseHeardOf(c, l, c.attempt = l)

-----------------------------------------------------------------------------
(* The distro's requests *)

\* _bindRfedLinkForDistroPush: claimed before the round trip.
BindPush(c) ==
  IF ~c.distro \/ ~c.ready \/ c.current \in c.claims THEN c
  ELSE Ask([c EXCEPT !.claims = IF c.current = None THEN @ ELSE @ \cup {c.current}], "bind", c.current)

\* _registerDistro: one at a time, owed until it is answered yes.
Register(c) ==
  IF ~c.distro \/ Own(c, {"register", "announce"}) # {} THEN c
  ELSE Ask([c EXCEPT !.owed = TRUE], "register", 0)

\* _registerOwedDistro, on a new link.
RegisterOwed(c) == IF c.owed THEN Register(c) ELSE c

\* _pullDistroMessages: one at a time.
Pull(c) == IF ~c.distro \/ Own(c, {"pull"}) # {} THEN c ELSE Ask(c, "pull", 0)

\* The distro's own pull on a new link, once its bindings have answered.
PullDue(c) ==
  IF c.due = None \/ Own(c, {"register", "announce", "bind"}) # {} THEN c
  ELSE LET d == [c EXCEPT !.due = None] IN IF Current(c, c.due) THEN Pull(d) ELSE d

\* What a registration's end does: by the connection that sent it.
Registered(c, a, res) ==
  IF a.n # c.n \/ ~c.live THEN c
  ELSE CASE res = "yes" -> Ask(BindPush([c EXCEPT !.owed = FALSE]), "announce", 0)
         [] res = "no" -> [c EXCEPT !.refused = a.link]
         [] OTHER -> [Park(c) EXCEPT !.refused = a.link]
=============================================================================
