# Retichat Web: a TLA+ model of the client

Retichat Web is a messenger that runs in a browser page. It speaks Reticulum
and LXMF through one HTTP exchange, keeps everything it knows in
`localStorage`, and delivers through peers' links, a propagation node and a
service node (rfed). `src/app.js` holds the client (`RnsClient`), its stores and
its views; `src/lib/` holds the protocol.

Everything runs in one JavaScript thread per tab, but very little happens at
once: a run of JavaScript goes up to its next `await`, timers and events come
between, and other tabs, the node and the peers act by themselves. The models
take **one run of JavaScript up to its next `await` as one step**, with all the
calls that run makes.

## Inventory

| Component | State it keeps | Operations | Hard part |
|---|---|---|---|
| Identity lock (`lib/tab_lock.js`) | the grant held, requests queued in `navigator.locks`, the broadcast channel | tryAcquire, takeOver, release, message, grant, refusal, robbed | several tabs; outcomes of old requests arriving late; browsers without locks |
| Active tab gate (`app.js` ActiveTab) | active / elsewhere, which view is shown | start, useHere, takenOver; connect, disconnect, reconnect | a tab loses the lock while `connect()` awaits |
| HTTP exchange (`interfaces/post_interface.js`) | state, session, queue, batch in flight, owed acks, poll timer, backoff | connect, sendData, check, block, disconnect, the run of an exchange | a request may be answered, refused, aborted or lost with packets in it |
| Link (`lib/rns/link.js`) | status, four clocks, two timers, pending requests, Resources | establish, accept, validateProof, onPacket, watchdogs, close | two ends with different periods; five ways to close |
| Requests (`link.js` 1688-2015) | receipts SENT, DELIVERED, RECEIVING, READY, FAILED | send, response, progress, timeout, refusal, close | a response that overtakes the proof of its request |
| Resource (`lib/rns/resource.js`) | parts, window, hashmap, retries, segments | advertise, request, part, update, proof, watchdog | lost parts against two watchdogs |
| Sending a direct message (`app.js` 3949-5200) | the stored record, timers, pending proofs and tickets, the propagation link | sendMessage, dispatch, propagate, park, flush, ceiling, loss | a direct attempt races its propagated copy |
| Send progress (`lib/send_progress.js`) | legs, transfers, deferred ceiling per message | begin, end, openLeg, legFailed, settle | a ceiling put off to a transfer's end |
| Receiving (`lxmf_router.js`, `destination.js`, `app.js` 1100-1460, 3349-3526, 4200-4470) | seen ids, held propagated ids, conversations, contacts, ratchets | packet, link payload, push, /get, announce | four ways in, each with its own delays, into one bounded store |
| Distro outbox (`lib/distro_outbox.js`, `distro_upload.js`) | entries owed, per channel the newest; open uploads; records of failures by coming-up | owe, upload, settle, drop | storage that refuses; replacement while an upload is built |
| Distro mail (`lib/channel_sync.js`, `app.js` 8560-9602) | chat, tickets, seen keys, one membership record per channel | push, pull, sent-copy, reaction, ticket, join and leave messages | pushes and pulls of one blob; clocks of two devices |
| Groups (`lib/group_*.js`, `app.js` 1658-2010, 5885-7700) | group records, held changes, held arrivals, posts | invite, accept, leave, post, react, sync | what arrives before the key or the group it needs |
| Channels, rfed.link (`lib/channel_publish.js`, `app.js` 8010-9900) | the service link, registration, subscriptions, posts being published | open, refuse, re-open, register, pull, join, leave, post, echo | readiness, re-opening and requests wait on each other's events |
| Attachments (`lib/attachment_store.js`, `app.js` 451-460, 2945-2985) | bytes in memory, writes under way, IndexedDB | put, get, remove, a transaction's end | IndexedDB refuses or does not open; a reload between the write and its answer; a message dropped while its bytes are written |
| Encodings, cryptography, photos, views, deployment | none, or nothing that interacts | | byte formats with vectors of their own |

They interact by calls within a run, by `EventEmitter` events **delivered in a
later task** (`lib/rns/utils/events.js`: one `setTimeout(0)` per listener), by
promises, by timers and through `localStorage`. The lock gates `connect()`;
`connect()` makes the exchange interface; its `up`, `down`, `lost` and
`registered` events drive the send pipeline and the rfed link, which open links
over it; what comes back over them goes through the router or the distro's
handler into the stores.

`PROJECT.json` lists every component with its status, and every hazard with
the properties that cover it.

## Modules

| Module | Models | State and actions |
|---|---|---|
| `TabLock` | `lib/tab_lock.js`, with `navigator.locks` and `BroadcastChannel` | per tab its TabLock's fields; the browser's queue and holder; messages under way. One action per method and per callback |
| `ActiveTab` (extends `TabLock`) | the gate in `app.js`: `ActiveTab`, and the connects and disconnects it lets through | composes every TabLock action with what the page does in the same task |
| `PostInterface` | `lib/rns/interfaces/post_interface.js` | the interface's fields, the one request on the network, the fate of every packet and delivery batch; one action per method and per way a request ends |
| `Link` | `lib/rns/link.js` from establish to close, both ends | status and clocks of each end, the packets between; one action per packet type, timer and call |
| `LinkRequests` | the requests a client makes on a link: receipts of `link.js`, with what a Resource does to them | per request its receipt, its request Resource, the segment of its response arriving, the segments its reassembly holds; what the peer makes of it; the peer's packets in order. One action per send, timer, settled promise and packet type |
| `Transfer` | what a Resource promises its two ends | abstract: the sender's promise, what the receiver holds |
| `Resource` | `lib/rns/resource.js`, both ends of one transfer, one segment | each end's status, retries, parts, window and timer; the packets each way, in order; refines `Transfer` |
| `SendMessage` | the send pipeline of `app.js`, `lib/send_progress.js`, the propagation link's attempts and events | per message its record, timers, legs and transfers; the link, its promise and events; flushes under way |
| `DistroOutbox` | `lib/distro_outbox.js`, `lib/distro_upload.js`, and `app.js` from `_oweDistro` to `_uploadForDistro` | what storage keeps and the page holds, the coming-ups and failure records, attempts, passes under way, uploads not decided, the propagation link's events; one action per user's act, end of a build, turn of a pass, decision of an upload, link event, stop and reload |
| `RfedLink` | the persistent service link of `app.js` 8010-8560 | operators on the client's record: what each method does to it |
| `Channels` (extends `RfedLink`) | registration, pulls, stream, one channel's subscription, and posts with `lib/channel_publish.js` | the client, the node as its answers show it; one action per answer, refusal, loss, timeout, user's choice, link event, stop and reload |
| `HeldArrivals` | `HeldGroupArrivals` of `lib/group_distro.js` | operators on the list of rows: hold, evict, release |
| `Groups` (extends `HeldArrivals`) | one group on the devices of one distro: `app.js` 5960-7700, `lib/group_sync.js`, `lib/group_status.js` | per device all it keeps of the group, and what RFed has for it; one action per user's act, blob delivered, sibling's act, announce and reload |
| `SeenList` | the bounded id lists LxmfSeen, PropagatedHeld, DistroSeen | operators: record, forget, what is dropped |
| `Received` | `message_order.js`, `reactions.js`, `display_name.js` as a conversation uses them | operators on its records |
| `AttachmentStore` | `lib/attachment_store.js` | operators on a page's store over what IndexedDB holds |
| `Inbound` (extends `SeenList`, `Received`, `AttachmentStore`) | what reaches the device's own `lxmf.delivery`: destination, router, app | packets, pushes and node copies; the page's tasks, ratchet scans and /get; the stores; one action per arrival, task, scan, /get step, IndexedDB's answer, announce and reload |
| `DistroMail` (extends `SeenList`) | what RFed fans out to each device of a distro: `app.js` 9040-9602, `lib/channel_sync.js` | per device its chat, seen list and membership record, and its RFed queue; one action per push, pull step, blob, user's act and reload |
| `ActiveTabProofs`, `LinkProofs`, `ResourceProofs`, `SendMessageProofs`, `DistroProofs`, `ChannelsProofs`, `InboundProofs`, `GroupsProofs` | | theorems about the module each is named for (`ActiveTabProofs` also about `TabLock`, `LinkProofs` about `LinkRequests` and `PostInterface`, `ResourceProofs` about `Transfer`, `DistroProofs` about `DistroOutbox` and `DistroMail`, `ChannelsProofs` about `RfedLink`, `InboundProofs` about `SeenList`, `Received` and `AttachmentStore`, `GroupsProofs` about `HeldArrivals`) |
| `MC...` | | values for the constants |

`ActiveTab` composes the lock with the page; `Channels` the service link with
all that uses it; `Groups` and `Inbound` the stores with what fills them.
`LinkRequests` assumes of a Resource only that it moves and then is proved or
fails, which is `Transfer`, and `Resource` implements that.

Definitions keep the names of the functions they translate where that reads;
`PROJECT.json` "map" gives the lines. A comment "(Variant: ...)" names a
plausible mistake; the definition before the real one is that mistake, and the
property named for it in "mutants" fails with it. What may be explored at once
is bounded by *worlds* in `Channels`, `Groups`, `Inbound` and `DistroMail`: a
world says which messages, faults and user's acts there are, and `Init` chooses
one.

### What is abstracted

* **TabLock.** A request reaches the lock manager at once. While a tab's
  `onTakenOver` runs, its other tasks wait. Only a delivered grant is stolen.
  In a browser without locks, two take-overs whose broadcasts cross may stop
  both tabs; the model has that. Connects of one page overlap, as in the code;
  `MaxLoads` only bounds how many (`MayLoad`). `rns` is the interface a page's client
  holds: one that an overlapping connect replaced is not followed ("Observed").
* **PostInterface.** Packets and batches are numbers; a token, a signature and
  a body are only what they change. The node may answer anything. A network
  failure, `calm` or `live`, is chosen freely; a fetch has no deadline, as in
  the code. A fate is kept for every packet: waiting, in flight, answered, lost
  or lost unsent.
* **Link.** A clock is an age in watchdog ticks, capped where nothing compares
  it. `Keepalive[I] <= Keepalive[R]`, because a responder's RTT is the larger of
  its own and the initiator's. A network is lossy or not for a whole behaviour. A data packet is answered by
  its proof or by nothing: `proveAll`, the router and the packet's context decide,
  and the model leaves it open. A proof counts as heard and restarts its
  sender's quiet clock, but brings no stale link back. `MaxNet` bounds what is
  sent by choice, over both directions; answers, pings and closes are not bounded.
* **LinkRequests.** The link is up or CLOSED; a STALE link, on which a Resource
  cannot start a part request, is not modelled here. A Resource is moving,
  proved, failed or settled; a segment is one part and a last one. What cannot
  be taken (compressed, malformed, out of order) is refused; what cannot be read
  once it is whole is dropped. The client's own packets to the peer are not on
  a wire: the peer hears of them or not. `conclude()` settles its promise in a
  later task, so the peer's next packets may be handled before. The model keeps
  one thing the code's comment at `link.js:1937` does not say: if a request
  fails while its response's first segment moves, and the next part is the last,
  `onPart` cancels the Resource and then assembles it all the same
  (`resource.js:902`), and the reassembly stays until the link closes.
* **SendMessage.** A message has a kind: one packet both ways, a packet over the
  peer's link, a Resource both ways, or to the distro. A contact without a
  public key and the sent-copy to the distro are left out. Losses may be
  reported at any time while a proof is awaited. The ids of links are used
  again once nothing refers to them. A timer may fire any time after it is armed.
  `Connect` waits for the old connection's events: `loadConfig()` takes a fetch,
  they take `setTimeout(0)`.
* **DistroOutbox.** A message is named by the act that made it. One channel,
  whose joins and leaves share an id, and sent-copies, which do not. The group
  syncs' shelf is the same code under another key; entries kept without their
  distro's key, sealing and its proof are left out. A full storage may refuse
  any write that grows, and takes one that shrinks; the code logs the case where
  it does not. The outbox is a set and a pass takes it in any order: the code
  takes the oldest first, and no property needs it. A pass runs to its next
  build without interleaving (`Idle`). `SendMessage` says when an attempt at a
  link starts; here one may start whenever none is up or coming up. A build for
  a link that is gone for good ends with it: the code lets it end and sends
  nothing (`app.js:5886`), so that only a throw of such a build, which would record a
  failure, is not modelled. What never left is reported only while the exchange
  is down. A tab that takes the connection over loads its page first
  (`app.js:10292`), so a takeover is a `Reload`.
  `proved`, `lapsed` and `spent` are history: no guard reads them.
* **Resource.** The wires are in order and may lose, not duplicate or reorder:
  a link's packets take one path. Retransmissions come from the code's own
  timers. Whether the receiver is willing, the path prompt and the payload
  whole is chosen in `Init`. "Prompt" says that no timer fires while its packet
  is on its way (4 s against 5, 40 and 78 s). Watching a bulk send
  (`resource.js` 71-157) decides nothing and is left out. The
  "sequence error" cancel is not an action, because `InReach` shows
  that no request reaches it.
* **RfedLink, Channels.** One distro and one channel. An answer may be yes, a
  refusal, an error, or none. `RaceStops` (FALSE in the run) adds a
  `disconnect()` between a link's coming up and its event. A change of
  distro, `unregisterDistro`, the 401 that makes the interface register again,
  stream events under the old key and the order in which posts queued over a
  reconnect appear are left out.
* **Groups.** One group, one other member m, and c, who made it unless the
  distro did. A device writes one post at most, which the model names by the
  device. The elements of a status are taken in order; that no more are read than the
  list has members is left out, because a status has one at most here. A member's envelope to c or m is on `wire`, c's view is `peer`. `seen`
  is unbounded here (`DistroMail` and `Inbound` bound it). The relay, the
  user's own reactions, a pending invite replaced by a sync that differs from
  it, a group held as a device rather than as the distro, siblings of an older
  version, delete-from-device and the bounds of the held arrivals in bytes are left out.
  `pushed`, `untold` and `cut` are history.
* **Inbound.** A message is a text, a reaction, a control message, or one
  that does not parse or is refused. A signature is validated when the source's key is
  known. Which ratchets a scan tries is fixed when it starts; another page
  that stores newer ratchets is left out (one tab is active). A storage that
  refuses refuses a ratchet rotation or an attachment; that a full storage drops
  other writes silently is left out, as are groups, an identity transfer and tickets
  (`Groups` and `DistroMail` have the first and the last). A message has one
  attachment at most; IndexedDB opens or not for a whole page; the holds of a
  send (`warm`, `cool`) are bytes found or gone in `SendMessage`, and a
  conversation deleted by the user is left out.
* **DistroMail.** Two devices with clocks that may differ. RFed keeps one queue per device; a push
  whose answer is lost is pushed again, and a failed pull leaves what it would
  have taken. Sealing failures, attachments, names, placeholders and how
  siblings learn of each other are left out. A message is its kind, its sender,
  its time and `n`, which stands for what it says: two of one millisecond differ
  in `n` alone, and have one id in the seen list, as in the code.

## Runs

| Run | Instance and bounds | What it shows |
|---|---|---|
| `tabs` | 3 tabs, locks given, refused or absent, storage that works or throws, 2 requests per tab, 2 connects of a page at once while the others begin none, 1 message under way | `OneExchange`: no two tabs exchange but while one has yet to hear it was robbed, and no page connects while it exchanges; `LockSound`: the types, no two tabs active for good without locks, no orphan lock, no tab stopped without a word |
| `tabs_live` | 3 tabs, locks given, no stealing | `TakingOverEnds`: whoever presses "Use here" gets the lock |
| `exchange` | 3 packets, one of them oversized, 1 delivery batch, 1 packet a request, backoff up to 1, 1 check | `PacketsSound`: every packet accounted for, unsent means unsent, at most one extra registration round; `ToldTruth`, `AcksKept`, `Recovers` |
| `link` | keepalives of 2 and 5 ticks, grace 3, establishment 6, delay 1, 1 packet sent by choice at a time; the establishment timer may come due while the link is stale | `LinkSound`: closed once, and a live peer loses its link in two cases only; `GraceKept`: a stale link is given up after its grace or by that timer; `EndsInTime`: attempts end, a dead peer is found |
| `requests` | 1 request as a packet and 1 as a Resource, responses of 1 or 2 segments, 2 packets on their way | `RequestSound`: something always decides a pending request, no clock runs beside a transfer; `OutcomeSound`: it is decided once, and a close says so; `RequestEnds` |
| `resource` | 5 parts, 3 segments of the hashmap, windows of 1 to 3, 2 losses or silent ends | `ResourceSound`: a timer wherever something is under way, no request the sender cannot answer; `KeepsPromise`: it implements `Transfer`; `EndsWell`: it ends, and one loss does not end it badly |
| `send` | 1 message of every kind, 2 links, 1 stop or reload, 1 outage, 1 close or stale | `CopySound`: one upload though flushes overlap; `NoCopyAfterOutcome`, `OutcomeStands`; `GoesAndEnds`: sending ends, queued goes |
| `outbox` | 1 distro that may be given up and come back, 2 acts, 2 links, 2 events (links gone STALE, outages, throws, refused writes, changes of distro, stops, reloads) | `UploadsSound`: one upload of an entry at a time; `OwedExactly`: owed until proved, and nothing replaced, given up or proved goes; `NeverOnItsOwnFailure`, `NothingLeftLying` |
| `channels` | 7 worlds: a distro, a channel, up to 2 posts, 3 choices of join and leave, also over two connections, 2 faults | `OneLink`; `TruthWins`: a post the node said it has is shown sent, whatever came before; `LastChoiceWins`; `EachEnds`: registrations and posts end |
| `groups` | 2 devices, 7 worlds: made by c or the distro, up to 3 posts, a reaction, blobs twice, reloads, syncs that are not owed | `GroupSound`: bounds, nothing shown twice, copies true; `ClosedIsEmpty`, `LeaveSpreads`, `DevicesAgree` |
| `inbound` | 9 worlds of up to 3 messages, over packet, link, push and /get, 3 rotations, 1 refusal, reload, loss, failed request; lists of 2 | `KeptOnce`, `NothingLost`, `AnnouncedOpens`; `ReadsRight`: order, cap, name, reaction and attachment; `NodeEmptied` |
| `distromail` | 2 devices, 6 worlds: 3 joins and leaves with a clock ahead by up to 2, mail, copies, reactions, a ticket, two mails and a reaction of one millisecond, two sends of one device, repeats, a stop, a failed pull; a seen list and pages of 2 | `MailSound`: filed once, reacted once, recorded once, and none missed but one shadowed by another of its source and millisecond; `MembershipAgrees`; `PulledFirst` |

A property named `...Sound` is a conjunction of the module's type invariant and
the invariants named beside it in the module, each with its own comment.

The bounds are chosen so that each race happens: a proof and the advertisement
behind it handled before the proof's promise settles need two packets, a wait
between segments needs two; a take-over during a take-over needs three tabs; a
packet behind a failed one needs two; a flush that outlives its link needs two
links; a leave that replaces a join whose upload is on a replaced link needs
two acts and two links; a hashmap update lost while an earlier one is asked
again needs three segments of the hashmap; an older post pushed out and come
again needs one more message than the lists hold; a ratchet that is no longer kept needs
one rotation more than are kept; a join between a leave and its answer needs three
choices, and one chained to a request of a stopped connection a second connection;
memberships that cross need two devices and three acts. The keepalives of the
`link` run differ so that a pong gate by the responder's own period would lose
links, and its establishment timeout outlasts the initiator's stale time, so that
the old timer meets a stale link. A limit that
is large in the code (of lists, posts, retries) is small here, so that it is
reached. Every action and disjunct fires in the passing runs.
`CHECK_DEADLOCK FALSE` wherever a page may simply be left alone (all tabs
closed, the interface stopped, a link closed, a message delivered, a world
used up). `TabSymmetry` is used only where no liveness is checked.

### Fairness

Only what the browser or the other side does by itself is fair: started runs of
JavaScript end, timers fire, delivered events reach their listeners, granted
locks call back, an aborted fetch rejects, a request on a working network is
answered, a network that does not lose packets delivers them, mining a stamp
and reading attachments end, an attempt at a link ends in `close` (the
watchdog; `link` run, EndsInTime), and a Resource fails by its own watchdog. A
request's end needs only its timers: its response clock, both Resources'
watchdogs, and a settled promise heard. A Resource needs its two watchdogs and
that packets on the wire arrive or are lost. `Channels` assumes that a request
sent on a link that is up is answered or times out, that the node announces and the
user's page comes back; `Groups` and `DistroMail` that RFed keeps what it has
for a device until the device took it; `Inbound` that tasks run, scans end,
and a /get comes again while the node holds something (each wake-up of the
page is one). Where a module's step is a large update of one record the fairness is written `[]<>` of the
state that the step leads to. The user, the node's choices, losses, outages,
stops and proofs are not fair, and no fairness says that a peer's link comes
up. `DistroOutbox` has no fairness: that what is owed goes is stated as a
safety property, `NothingLeftLying`, of the moments at which nothing is under
way that would send it.

## Proofs

`LinkProofs` proves, for any number of packets, batches, sessions and
failures, that `InterfaceSpec` of `PostInterface` keeps

* `InterfaceSound`: `[]PacketsSound`, from `TypeCorrect` (`[]InterfaceTypeOK`),
  `PacketsAccounted` (`[]Accounted`), `UnsentIsUnsent` (`[]UnsentNeverSent`)
  and `OneExtraRound` (`[]StaleOnce`);
* `AppToldTheTruth`: `[]ToldTruth`;
* `AcknowledgementsKept`: `[]AcksKept`.

They rest on one inductive invariant, a conjunction of named parts: the type,
what is on the network in each phase (a request exists exactly while the
interface waits for one), the batch in flight and the queue being disjoint and
free of repetition, and the relation of session, state and what the app was
told. None of the properties is inductive alone: that a packet is not lost when
an answer lands needs that the answer belongs to the batch in flight, and that
needs that no second request is made while one is out. `InterfaceInvariance` proves the
step once, one case per action; the theorems follow from it. The assumptions
are those the constants are declared with (`PostInterface`, `ASSUME`).

`LinkProofs` proves also, for any set of requests, any number of segments and
any number of packets on their way, that `RequestsSpec` of `LinkRequests` keeps

* `RequestsSound`: `[]RequestSound`, from `RequestTypesHold` (`[]RequestTypeOK`),
  `SomethingAlwaysDecides` (`[]SomethingDecides`) and `NeverTimedMidTransfer`
  (`[]NotTimedMidTransfer`);
* `OutcomesSound`: `OutcomeSound`, the action properties `OutcomeStands`
  (`OutcomesStand`) and `CloseIsTheReason` (`CloseSaysSo`).

Their invariant is `RequestTypeOK` and, of each request, `RequestIsSound`: what its status says
of its Resources and its clock. `SomethingDecides` alone is not inductive: that
an advertisement leaves no clock running, and that a proof heard late starts
none, needs that nothing transfers for a request that is SENT or DELIVERED. A
step changes the rows of one request (`OneRow`), or is the close (`ClosedKeeps`).
`OverIsOver` and `ClosedAsClosed` are the two action properties of one step.

`ActiveTabProofs` proves, for any set of tabs and any closings, reloads and
takeovers,

* `NoTwoExchange`: `OneExchange`, however many connects of a page overlap.
  It speaks of the interface each page's client holds, and its second part says
  what that leaves out: a page never begins a connect while it exchanges, so only
  connects that overlap can leave one that no `disconnect()` reaches ("Observed");
* `NoneStranded`: `[]LockSound`, for `HasChannel` (without BroadcastChannel a
  tab cannot hear a takeover, and `tab_lock.js` does without). `LockModes` may be
  any: a browser that refuses or lacks locks is part of both theorems.

The invariant places every request a page made: in the browser's queue, granted,
refused, or its answer on its way, and in each place what the page that made it
is doing (`RequestOK`, `PageOK`). That two tabs do not exchange is not inductive:
a tab is active between the steal of its lock and the task that tells it so, so
`ManagedTab` says that it was robbed and that the news is on its way, and
`NewestHeard` that the newest takeover is one every waiting tab heard or will.

`LinkProofs` proves, for any keepalives, grace, timeout and delay,

* `ClosesOnce`: `[](TypeOK /\ ClosedOnce)`, whatever is lost;
* `StaleHadGrace`: `GraceKept`, whatever is lost and whatever the periods are;
* `LivePeerKept`: `LinkSound`, for `InTime`.

`InTime` compares the periods with the delay of the network: a packet and its
answer take less than the grace and than the establishment timeout
(`2 * Delay`), the grace is shorter than the initiator's stale time, and what an
initiator may keep quiet for (`Longest`: a keepalive or a grace, and a tick), and the
way there, shorter than the responder's. In the code the grace is 4 RTTs and 5 s
(`link.js:1343`), the keepalive rtt * 360 / 1.75 between 5 and 360 s, the stale
time two keepalives (`link.js:1235`) and the establishment timeout 6 s and 6 per
hop (`link.js:223`): RTTs of seconds satisfy it, and so does the instance of the run.
It does not say that the establishment timer is over before a link can go
stale, which the code does not promise: on a one-hop path below about 29 ms of
RTT the stale time is under 12 s, and the timer runs for 12.

So what is proved has the code's two exceptions in it. The initiator loses the
link to a live peer if its establishment timer comes due at a stale link, or if what it
heard in the grace were only proofs of its packets: the responder that sent
them has not been quiet, so it does not answer the ping, and a proof does not
bring the link back. The responder gives up only an initiator that has given up
itself: the establishment timer closes without a LINKCLOSE, and the responder
finds out by its own stale time.

The invariant has a part for any network (`Base`: the types, one close, and a
stale link left some of its grace) and one for a network that loses nothing,
as long as the initiator has not given up (`Path`). That one relates clocks to
packets: what each end has not heard for a time, the other has sent since, or it
is under way and no older than its age says (`AnswerDue`, `PingDue`).

`ResourceProofs` proves, for any number of parts, window sizes, retries and
losses,

* `NothingAnsweredShort`: `[]ResourceSound`;
* `PromiseKept`: `KeepsPromise`, that `Resource` implements `Transfer` under its
  refinement mapping; one lemma for the sender's steps and one for the receiver's.

A request is answered short if the sender looks for its parts from too far along.
Where it looks from moves with the requests it has answered, so the invariant
compares it with each request on its way and those after it (`Fits`), and with
the next one the receiver may make (`Ahead`). Where the code takes "the first
part not yet there", the proof takes the least number of a set by
`LeastNumber`: induction over the numbers is out of reach as a theorem with an
operator parameter, and is had here from a least counterexample and a bound.

`SendMessageProofs` proves, for any finite set of messages, any links and
flushes (`Messages` finite is in `SendAssumption`: the records of one
conversation),

* `OneCopy`: `[]CopySound`;
* `NoneAfterOutcome`: `NoCopyAfterOutcome`;
* `NothingTakenBack`: `OutcomeStands`.

The invariant is of each message alone (`Fine`): a message that has not gone has
no leg, timer or transfer, and one whose copy was uploaded will not be begun
again by a flush, the fallback or a direct failure (`Begun`). Each action is shown
to move every message as `Goes` allows, and the three theorems follow from that.

`DistroProofs` proves of `DistroOutbox`, for any messages, links, passes, stops and reloads,

* `OneUploadAtATime`: `[]UploadsSound`;
* `EachAttended`: `[]NothingLeftLying`;
* `NoneOnItsOwnFailure`: `NeverOnItsOwnFailure`;
* `OwedAsLongAsItShould`: `OwedExactly`.

That one upload is under way is not inductive: a pass, a build and an act each
start one. `OneAttempt` says which of them has an entry: it is idle, open on a
link that is over (`Away`), on this link by itself (`Loose`), or in a pass
(`Passing`). `NothingLeftLying` speaks of moments without a pass; `Covered`
generalises it to those with one: each entry is under way, failed at this
coming-up, or ahead of a pass. Most steps touch one entry, and `TaskFrame`
carries the rest over.

`ChannelsProofs` proves, for any worlds (`ChannelsAssumption` only types them:
any posts, choices, faults and connections), and for `RaceStops` TRUE as well as
the run's FALSE,

* `OneLinkAtATime`: `[]OneLink`;
* `TruthPrevails`: `[]TruthWins`;
* `LastChoiceStands`: `[]LastChoiceWins`.

Each method of the client is shown to lead from a client in order to one in
order that took nothing back (`Fine`), one lemma per operator of `RfedLink` and
`Channels`, and the steps compose them with `FineThen`. In order (`OK`) means:
of a connection the attempt is the only link not closed (`Attempts`), and a close
that is heard is of a link that closed (`Heards`), without which the close of an
old link would clear a newer attempt; a post on the wire is tracked or sent
(`Published`), so that its echo will be known; and each request about the
subscription, with what is chained to it, ends in what the list says (`Chosen`).
`LastChoiceWins` speaks of any connection, and of moments with nothing under way
on it. What a stop or a reload cuts off, and a request that
`app.js:8787` chained to one of a stopped connection, set `lost` until the next
request about the subscription is answered: a stray runs on the new connection
beside the choices made there, and may undo the last. It is `Decided` that is
carried from step to step; and at the moment of a choice,
while what is under way still ends in the old one, only `Orderly` holds: the same
step queues the new request behind it.

`DistroProofs` proves of `DistroMail`, for any devices, clocks and acts, any
length of the seen list and of a page, and whatever RFed fans out,

* `MailSoundHolds`: `[]MailSound`;
* `PulledFirstHolds`: `PulledFirst`.

Neither of its two parts is inductive: a page is a fold over blobs, each judged
against the seen list, so the seen list is tied to the chat (`DevKeys`). An id in it
is of something the device took (`SeenTook`), what came and is filed is or was
in it (`CameKnown`), what was sent here is filed at its place (`OwnPlaced`), and
an id filed twice is one it forgot, or of a message sent here (`OnceFiled`). A copy
under way is filed on the device it is of (`CopyOK`), and everything sent is, for each device,
taken there, shadowed, queued or still to be uploaded (`Reaches`). Each operation of
`_handleDistroBlob` is shown to keep that for
one device, the page by the fold's steps, and each action for all devices.

That no message is missed (`NoneMissed`) has an exception, because the code has it. A
blob is known by its source and its millisecond alone (`app.js:9386`), and
nothing keeps a source from sending twice in one. The first of the two to come is
filed, the second is answered "already held" and dropped. So a message is filed, on its
way, or shadowed by something else the device took (`TookAt`) of that source and time.
The assumption `WorldsSound` types the worlds and says nothing of times: that mail from
outside is by none of the devices, and that a copy that no device of the model sent is one
whose signature is refused.

`InboundProofs` proves, for any senders, messages, reactions, ways in, limits of the
lists and numbers of ratchets, in any order and with any losses and reloads,

* `KeptOnceHolds`: `[]KeptOnce`;
* `NothingLostHolds`: `[]NothingLost`;
* `AnnouncedOpensHolds`: `[]AnnouncedOpens`;
* `ReadsRightHolds`: `[]ReadsRight`.

The four rest on one invariant, of named parts. `RatchetsSound`: the stored ratchets are the
last announced, newest first, and none is used before it is made. `Accounts`: a
message proved, held or read from the node and that a key opens has arrived, is
dropped for a reason, cut short, or is still a task of the page (`NodeDone` says the same of
what left the node); `NothingLost` alone does not say where a message is between its
proof and its handler. `Boxes`: a conversation carries the numbers of the last
arrivals, is sorted by time, holds a message twice only if its id was forgotten, and its
name is the newest authenticated one (`Window`, `Sorted`, `Once`, `Named`).
`Arrives` is the converse of `Once`: an id in LxmfSeen is of something that
arrived, except while it is just being handled, which is why the invariant has
the parameter X. `Signed`: a source whose key is known stays known, so that no unchecked
name or reaction overtakes a checked one. `Chips`: a record's reaction is the
newest taken for it, unless the id was forgotten. `FilesSound`: the bytes in
IndexedDB, those in memory and the writes under way each have an owner, and a delete under way
is of no record, so a record that says "persisted" has its bytes whatever the next answer is.
Each operator of `SeenList`, `Received` and `AttachmentStore` has a lemma that
says what it returns, and each action one that composes them. `WorldsSound` only types the worlds.

`GroupsProofs` proves of `Groups`, for any devices, messages of c and m, syncs,
repeats, switches, acts of the user and reloads, `GroupSoundHolds` and
`ClosedIsEmptyHolds`. `Invariant` says of each device's record alone (`Core`, `Place`):

* `RowsOK`: what is held early is of this group, each blob once, and within the bounds
  of the list, the group, each source and what came without an invitation. A hold that evicts
  keeps them because what it evicts is of the source or the kind that is full
  (`HoldInBounds`, `ThinInBounds`).
* `CopyTrue`: the creator's copy of m's status is what the list shows. The two
  are written by different functions in one task (`Keep`, `UpdateMember`); a change held undecided
  is in neither.
* `ShownOK`: a post of c is shown only if its blob was seen. "Once" alone is not inductive.
* `Place`: a group closed has no entry, post or held blob, and stays so: only an
  accept or a create could join it, and both look at `closed` first.
* `Idle`: nothing is held where the group is joined. It does not hold inside a
  replay, which is why it is apart from `Good`.

`Posts` relates the devices: of a post of the user at most one sync is around, at
RFed or held; its device wrote it and shows it or closed the group; and another
device that shows it has seen that sync. Without it a sync could show a post a
second time on the device that wrote it. `Fresh` says that before the user
makes a group nothing of it is around.

A blob may be judged while others it releases are replayed: one step of a device folds over
what is held, over a status, over changes undecided. The folds are written as recursive
functions, which the prover can expand; each is proved by a counterexample of
least length (`LeastNumber`), because the induction theorems take an operator.
Each handler has a lemma that says what it makes of a device's record (`ReceiveIs`,
`JoinedIs`, `GroupSyncIs`, `BlobIs`), and `StepSound` and `OneSound` carry that to the devices together. `GroupWorldsSound`, the one assumption beyond positive bounds, says what
c and m send: no post twice, none the user wrote, invitations only from c
to a group c made. The world of the run satisfies it; TLC evaluates it.

Each invariant was an invariant of its module's TLC run before it was proved,
and each run satisfies its theorems' hypotheses. `Invariance` is in each module
the theorem that the invariant always holds, where more than one theorem is taken from it.

Every safety property of the runs is thereby a theorem. Only model-checked is

* every liveness property (`TakingOverEnds`, `Recovers`, `EndsInTime`, `RequestEnds`, `EndsWell`,
  `GoesAndEnds`, `EachEnds`, `DevicesAgree`, `LeaveSpreads`, `NodeEmptied`,
  `MembershipAgrees`): liveness under fairness and ENABLED are out of the
  prover's reach.

No module uses RECURSIVE operators.

## Observed in the code

Behaviour met while modelling that no run reports as a violation. Where a
property excepts it, the entry names the property.

* Two `connect()` calls that overlap (saving the settings twice, while
  `loadConfig()` is under way, `app.js:3270`-`3279`) leave an interface that no
  `disconnect()` stops. The model lets connects overlap, but follows only the interface
  the client holds; `OneExchange` says that nothing else can leave one.
* The initiator's establishment watchdog is not disarmed by activation, and on a
  fast path closes a STALE link within its grace (`link.js:1121`), without telling
  the responder. The `link` run has it; `GraceKept` and `NoFalseTeardown` except it.
* A responder that proves the initiator's packets in the grace does not answer the ping
  (`link.js:758`), and a proof does not bring a stale link back
  (`link.js:672`-`686`): the link of a live peer is torn down. The `link` run has it;
  `NoFalseTeardown` excepts it.
* `disconnect()` or a reload leaves records "sending" with nothing to decide
  them (`app.js:10037`); `SendingEnds` excepts them (`cut`).
* A copy mined for a closed link is parked behind the flush of the link that
  replaced it (`app.js:4859`) and waits for the next one.
* A message shown failed is sent directly when its peer's link comes up
  (`app.js:6536`); `OutcomeStands` says only that its outcome does not worsen.
* If a request fails while its response's first segment moves, and the next part
  is the last, `onPart` cancels the Resource and then assembles it all the same
  (`resource.js:902`), and the reassembly stays until the link closes.
* An old channel pull that fails late clears the new connection's in-flight
  guard (`app.js` `pullChannel`); a request chained to one of a stopped connection
  runs on the next one (`app.js:8787`), and may undo a choice made there, which
  `LastChoiceWins` excepts until the next answer; a rejected subscription stays memoised, and the stream's
  configuration is memoised though nothing was sent (`app.js:9663`).
* A dropped group reaction stays among the page's seen ids (`app.js:6795`),
  unlike a dropped distro blob (`app.js:1353`): a later copy is not judged again
  until a reload.
* A message is proved, and its handler runs a task later
  (`lxmf_router.js:136`, `utils/events.js:54`): a page closed in between has
  proved what it never stored. `NothingLost` excepts it (`cut`).
* A message dropped past the cap while IndexedDB does not open leaves the bytes
  it once wrote there for good (`attachment_store.js:227`), and so does a reload
  before the delete. A write cut short by a reload leaves its record "saving".
  `FilesTold` excepts the first two (`left`).
* Two messages of one source in one millisecond have one id (`app.js:9386`), and
  the second to come is dropped as already held (`app.js:9392`). Nothing keeps the
  user's devices, or one of them, from sending two (`app.js:5229`), nor a
  sender: a device's own copy that comes back shadows a sibling's of that
  millisecond, and a reaction or ticket taken shadows a message. `NoneMissed` excepts it.

## Not modelled

Encodings, cryptography, photo metadata, views and deployment: byte formats,
primitives and rendering, without state that interacts. Transport and paths are the node's: the page has
one interface. The interfaces over TCP and WebSocket are not used by the page.
Within modelled components, "What is abstracted" names what is left out: an
identity transfer between devices and its prompt, the group relay and member
editing, delete-from-device, a change of distro under the rfed link, and sealed
uploads' contents.

## Plan

Every safety property a run checks is proved. What could come next: the group relay and
the distro's bounds in bytes, an identity transfer between devices, a change of distro
under the rfed link; an abstract specification of a conversation that `Inbound` and
`DistroMail` implement; and more of `app.js`, whose views and settings are not modelled.
