---------------------------- MODULE DistroOutbox ----------------------------
(***************************************************************************)
(* What a device owes its distro: lib/distro_outbox.js,                    *)
(* lib/distro_upload.js and app.js from _oweDistro to _uploadForDistro.    *)
(* An entry is stored when the user acts and leaves when the propagation   *)
(* node proves it.  It is uploaded when the user acts on a link that is    *)
(* up, by a pass at each coming-up of the propagation link, by one when    *)
(* the exchange is back (what never left only), and once when its upload   *)
(* is lost on a link that has been replaced.  Building an upload yields.   *)
(* The outbox is a set, and a pass takes it in any order: no property      *)
(* depends on the order.                                                   *)
(***************************************************************************)
EXTENDS Integers, Sequences

CONSTANTS
  Distros, NoDistro,
  MaxActs,      \* bound: what the user does that the distro is owed
  MaxLinks,     \* bound: propagation links attempted
  MaxEvents     \* bound: links gone STALE, outages, builds that throw, writes
                \* refused, changes of distro and stops, all together

ASSUME OutboxAssumption ==
  /\ Distros # {} /\ NoDistro \notin Distros
  /\ MaxActs \in Nat /\ MaxLinks \in Nat \ {0} /\ MaxEvents \in Nat

Links == 1 .. MaxLinks
NoLink == 0
Messages == 1 .. MaxActs    \* a message is named by the act that made it
NoMessage == 0
Uploads == Messages \X Links

VARIABLES
  store,        \* localStorage: the entries kept
  holding,      \* this page owes what it holds in memory (held is not null)
  held,         \* what it then owes
  acts,         \* per message, in order: its kind, and the distro it was made for
  distro,       \* the distro this device holds
  ups,          \* _propComingUps
  unproved,     \* per message: the coming-up its last failure was decided at, or 0
  neverLeft,    \* the messages recorded as never left
  prop,         \* _propLink
  status,       \* per link
  news,         \* link events emitted and not yet heard, in order
  down,         \* the exchange is down
  flights,      \* _distroOutboxInFlight
  builds,       \* per message and link: the builds no pass waits for
  passes,       \* the passes under way
  open,         \* per message and link: the uploads not yet decided
  late,         \* messages of uploads decided, that a proof may still name
  did, refusals, \* how many of the bounded events; of them, writes refused
  proved,       \* history: the messages this device heard a proof of
  lapsed,       \* history: joins and leaves replaced by a later one, or whose
                \* distro was given up
  spent         \* history: the messages whose last upload failed, and that
                \* no event has let go since

outbox == <<store, holding, held, refusals>>
records == <<unproved, neverLeft>>
link == <<prop, status, news>>
attempts == <<flights, builds, passes>>
history == <<proved, lapsed, spent>>
vars == <<outbox, acts, distro, ups, records, link, down, attempts, open, late, did, history>>

Kinds == {"channel", "sent"}
Act == [kind : Kinds, distro : Distros]
Pass == [link : Links, at : Nat, back : Nat, todo : SUBSET Messages,
         building : Messages \cup {NoMessage}]
News == [link : Links, what : {"established", "recovered", "close"}]

Init ==
  /\ store = {} /\ holding = FALSE /\ held = {} /\ acts = <<>>
  /\ distro \in Distros
  /\ ups = 0 /\ unproved = [m \in Messages |-> 0] /\ neverLeft = {}
  /\ prop = NoLink /\ status = [l \in Links |-> "unused"] /\ news = <<>>
  /\ down = FALSE
  /\ flights = {} /\ passes = {} /\ late = {}
  /\ builds = [u \in Uploads |-> 0] /\ open = [u \in Uploads |-> 0]
  /\ did = 0 /\ refusals = 0
  /\ proved = {} /\ lapsed = {} /\ spent = {}

\* One more of the bounded events.
Counted == did + refusals < MaxEvents /\ did' = did + 1

-----------------------------------------------------------------------------
(* The outbox.                                                              *)

\* The joins and leaves of the channel have one id; a sent-copy has its own.
Membership == {m \in DOMAIN acts : acts[m].kind = "channel"}
SameId(m, n) == m = n \/ {m, n} \subseteq Membership

Listed == IF holding THEN held ELSE store

\* What a storage that refused rows still keeps.
Kept(rows) == store \cap rows

\* Storage keeps rows, or, being full, refuses to grow: this page holds them.
Write(rows) ==
  \/ /\ store' = rows /\ holding' = FALSE /\ held' = {}
     /\ refusals' = refusals
  \/ /\ ~ (rows \subseteq store)
     /\ did + refusals < MaxEvents /\ refusals' = refusals + 1
     /\ store' = Kept(rows) /\ holding' = TRUE /\ held' = rows

Drop(gone) == IF gone \cap Listed = {} THEN UNCHANGED outbox ELSE Write(Listed \ gone)

\* Membership messages owed to another distro than d.
OwedToOthers(d) == {m \in Listed \cap Membership : acts[m].distro # d}

ForgetUploads(gone) ==
  /\ unproved' = [m \in Messages |-> IF m \in gone THEN 0 ELSE unproved[m]]
  /\ neverLeft' = neverLeft \ gone

StillOwed(m) == m \in Listed /\ (m \in Membership => acts[m].distro = distro)

\* (Variant: a failure at the very coming-up that asks does not count.)
UnprovedSinceAfter(m, at) == unproved[m] > at

\* UnprovedUploads.since.
UnprovedSince(m, at) == unproved[m] >= at

\* A failure of these is recorded at the present coming-up, while owed.
Unproved(msgs) ==
  unproved' = [m \in Messages |-> IF m \in msgs \cap Listed THEN ups ELSE unproved[m]]

-----------------------------------------------------------------------------
(* Attempts: built for a link, then open until decided.                     *)

LinkReady(l) == prop = l /\ status[l] = "active"
Up == prop # NoLink /\ LinkReady(prop)

Flight(m, l) == [msg |-> m, link |-> l, left |-> FALSE]
Landed(fs, gone) == {f \in fs : <<f.msg, f.link>> \notin gone}
Begun(fs, m, l) == {f \in fs : ~ SameId(f.msg, m)} \cup {Flight(m, l)}

\* (Variant: on another link, m is not looked for.)
AttemptOpenHere(fs, m, l) == \E f \in fs : f.msg = m /\ f.link = l

\* Of m: being built for l, or on its way on any link.
AttemptOpen(fs, m, l) == \E f \in fs : f.msg = m /\ (f.link = l \/ f.left)

\* (Variant: what is owed is not read again after the build.)
NotSentUnread(m, l, at) == (at > 0 /\ UnprovedSince(m, at)) \/ ~ LinkReady(l)

\* A build of m for l is over; the pass at coming-up at asked for it, or 0.
NotSent(m, l, at) ==
  \/ ~ StillOwed(m)
  \/ at > 0 /\ UnprovedSince(m, at)
  \/ ~ LinkReady(l)

\* _uploadForDistro: a packet or a Resource, tracked before it goes.
UploadForDistro(m, l) ==
  /\ flights' = {[f EXCEPT !.left = @ \/ <<f.msg, f.link>> = <<m, l>>] : f \in flights}
  /\ open' = [open EXCEPT ![<<m, l>>] = @ + 1]
  /\ UNCHANGED <<records, did, spent>>

\* _buildPropagationPacked throws when it has no stamp for a sealed upload.
BuildThrew(m, l) ==
  /\ Counted
  /\ flights' = Landed(flights, {<<m, l>>})
  /\ Unproved({m})
  /\ spent' = spent \cup {f.msg : f \in {f \in flights : <<f.msg, f.link>> = <<m, l>>}}
  /\ UNCHANGED <<open, neverLeft>>

Built(m, l, at) ==
  \/ /\ NotSent(m, l, at)
     /\ flights' = Landed(flights, {<<m, l>>})
     /\ UNCHANGED <<open, records, did, spent>>
  \/ ~NotSent(m, l, at) /\ UploadForDistro(m, l)
  \/ BuildThrew(m, l)

\* The build of the user's act, or of an upload that goes on.
LooseBuilt(m, l) ==
  /\ builds[<<m, l>>] > 0
  /\ builds' = [builds EXCEPT ![<<m, l>>] = @ - 1]
  /\ Built(m, l, 0)
  /\ UNCHANGED <<outbox, acts, distro, ups, link, down, passes, late, proved, lapsed>>

\* Of the uploads lost, those on a link that has been replaced go once on the
\* newer link, if that is up.
GoesOn(fs, lost) ==
  {m \in Messages : \E l \in Links :
     /\ <<m, l>> \in lost /\ Up /\ prop # l
     /\ StillOwed(m) /\ ~ AttemptOpen(fs, m, prop)}

DecidedLost(lost) ==
  LET fs == Landed(flights, lost)
      msgs == {u[1] : u \in lost}
      on == GoesOn(fs, lost)
  IN  /\ flights' = {f \in fs : \A m \in on : ~ SameId(f.msg, m)} \cup {Flight(m, prop) : m \in on}
      /\ builds' = [u \in Uploads |-> builds[u] + (IF u[1] \in on /\ u[2] = prop THEN 1 ELSE 0)]
      /\ Unproved(msgs)
      /\ neverLeft' = neverLeft \ on
      /\ spent' = (spent \cup msgs) \ on

Decided(m, l) ==
  /\ open[<<m, l>>] > 0
  /\ open' = [open EXCEPT ![<<m, l>>] = @ - 1]

\* The exchange lost its packet after it left, or its Resource failed.
UploadLost(m, l) ==
  /\ Decided(m, l)
  /\ late' = late \cup {m}
  /\ DecidedLost({<<m, l>>})
  /\ UNCHANGED <<outbox, acts, distro, ups, link, down, passes, did, proved, lapsed>>

\* (Variant: its attempt is never landed.)
NeverLeftUnlanded(m, l) ==
  /\ down /\ Decided(m, l)
  /\ late' = late \cup {m}
  /\ neverLeft' = IF m \in Listed THEN neverLeft \cup {m} ELSE neverLeft
  /\ UNCHANGED <<outbox, acts, distro, ups, unproved, link, down, attempts, did, history>>

\* The exchange, down, put its packet into no request.
UploadNeverLeft(m, l) ==
  /\ down /\ Decided(m, l)
  /\ late' = late \cup {m}
  /\ flights' = Landed(flights, {<<m, l>>})
  /\ neverLeft' = IF m \in Listed THEN neverLeft \cup {m} ELSE neverLeft
  /\ UNCHANGED <<outbox, acts, distro, ups, unproved, link, down, builds, passes, did, history>>

Settled(m) ==
  /\ Drop({m})
  /\ ForgetUploads({m})
  /\ late' = late \ {m}    \* a further proof changes nothing
  /\ proved' = proved \cup {m}
  /\ UNCHANGED <<acts, distro, ups, link, down, builds, passes, did, lapsed, spent>>

UploadProved(m, l) ==
  /\ Decided(m, l)
  /\ flights' = Landed(flights, {<<m, l>>})
  /\ Settled(m)

\* A proof of an upload already decided lost, or never to have left.
LateProof(m) ==
  /\ m \in late
  /\ Settled(m)
  /\ UNCHANGED <<flights, open>>

-----------------------------------------------------------------------------
(* The user's acts.                                                         *)

Owe(kind) ==
  LET m == Len(acts) + 1
      replaced == IF kind = "channel" THEN Listed \cap Membership ELSE {}
      same == IF kind = "channel" THEN Membership ELSE {}
  IN  /\ distro # NoDistro /\ m \in Messages
      /\ acts' = Append(acts, [kind |-> kind, distro |-> distro])
      /\ Write((Listed \ replaced) \cup {m})
      /\ ForgetUploads(replaced)
      /\ lapsed' = lapsed \cup same
      /\ IF Up
           THEN /\ flights' = {f \in flights : f.msg \notin same} \cup {Flight(m, prop)}
                /\ builds' = [builds EXCEPT ![<<m, prop>>] = @ + 1]
           ELSE UNCHANGED <<flights, builds>>
      /\ UNCHANGED <<distro, ups, link, down, passes, open, late, did, proved, spent>>

\* The user forgets the distro, or generates or imports another.
ChangeDistro(d) ==
  /\ d # distro /\ Counted
  /\ distro' = d
  /\ Drop(OwedToOthers(d))
  /\ ForgetUploads(OwedToOthers(d))
  /\ lapsed' = lapsed \cup {m \in Membership : acts[m].distro # d}
  /\ UNCHANGED <<acts, ups, link, down, attempts, open, late, proved, spent>>

-----------------------------------------------------------------------------
(* Passes over what is owed.                                                *)

\* A pass ends after its last entry.
Going(p) == IF p.todo = {} /\ p.building = NoMessage THEN {} ELSE {p}

Skipped(p, m) ==
  \/ ~ StillOwed(m)
  \/ AttemptOpen(flights, m, p.link)
  \/ IF p.at > 0 THEN UnprovedSince(m, p.at) ELSE m \notin neverLeft

\* One entry's turn; a pass whose link is gone ends.
PassTurn(p) ==
  /\ p.building = NoMessage
  /\ \/ /\ ~ LinkReady(p.link)
        /\ passes' = passes \ {p}
        /\ UNCHANGED <<flights, neverLeft>>
     \/ /\ LinkReady(p.link)
        /\ \E m \in p.todo :
             LET rest == [p EXCEPT !.todo = @ \ {m}]
             IN  \/ /\ Skipped(p, m)
                    /\ passes' = (passes \ {p}) \cup Going(rest)
                    /\ UNCHANGED <<flights, neverLeft>>
                 \/ /\ ~ Skipped(p, m)
                    /\ passes' = (passes \ {p}) \cup {[rest EXCEPT !.building = m]}
                    /\ flights' = Begun(flights, m, p.link)
                    /\ neverLeft' = neverLeft \ {m}
  /\ UNCHANGED <<outbox, acts, distro, ups, unproved, link, down, builds, open, late, did, history>>

PassBuilt(p) ==
  /\ p.building # NoMessage
  /\ passes' = (passes \ {p}) \cup Going([p EXCEPT !.building = NoMessage])
  /\ Built(p.building, p.link, p.at)
  /\ UNCHANGED <<outbox, acts, distro, ups, link, down, builds, late, proved, lapsed>>

\* _sendDistroOutbox: a coming-up is counted, and a pass begins.
SendDistroOutbox(l) ==
  /\ ups' = ups + 1
  /\ Drop(OwedToOthers(distro))
  /\ ForgetUploads(OwedToOthers(distro))
  /\ passes' = passes \cup Going([link |-> l, at |-> ups + 1, back |-> 0,
                                  todo |-> Listed \ OwedToOthers(distro),
                                  building |-> NoMessage])
  /\ spent' = IF LinkReady(l) THEN {} ELSE spent

\* _sendDistroNeverLeft: no coming-up, and only what never left.
SendDistroNeverLeft ==
  passes' = IF Up THEN passes \cup Going([link |-> prop, at |-> 0, back |-> did,
                                          todo |-> Listed \cap neverLeft,
                                          building |-> NoMessage])
            ELSE passes

-----------------------------------------------------------------------------
(* The propagation link and the exchange, as far as the outbox sees them.   *)

Emit(l, what) == news' = Append(news, [link |-> l, what |-> what])

\* No event of l is still to be heard; of any link, no "established".
Quiet(l) == \A i \in DOMAIN news : news[i].link # l
NoneEstablished == \A i \in DOMAIN news : news[i].what # "established"

\* A link gone for good: what is built for it will not be sent, and a pass
\* waiting for that build ends after it.  Here both end with the link.
GoneFor(l) ==
  /\ flights' = {f \in flights : f.link # l \/ f.left}
  /\ builds' = [u \in Uploads |-> IF u[2] = l THEN 0 ELSE builds[u]]
  /\ passes' = {p \in passes : p.link # l}

\* An attempt, while none is up or coming up; a STALE link is replaced.
Establish(l) ==
  /\ status[l] = "unused" /\ \A k \in 1 .. l - 1 : status[k] # "unused"
  /\ NoneEstablished
  /\ prop # NoLink => status[prop] = "closed" \/ (status[prop] = "stale" /\ Quiet(prop))
  /\ prop' = l
  /\ status' = [status EXCEPT ![l] = "pending"]
  /\ GoneFor(prop)
  /\ UNCHANGED <<outbox, acts, distro, ups, records, news, down, open, late, did, history>>

LinkUp(l) ==
  /\ status[l] = "pending" /\ NoneEstablished
  /\ status' = [status EXCEPT ![l] = "active"]
  /\ Emit(l, "established")
  /\ UNCHANGED <<outbox, acts, distro, ups, records, prop, down, attempts, open, late, did, history>>

LinkStale(l) ==
  /\ status[l] = "active" /\ Quiet(l) /\ Counted
  /\ status' = [status EXCEPT ![l] = "stale"]
  /\ UNCHANGED <<outbox, acts, distro, ups, records, prop, news, down, attempts, open, late, history>>

LinkRecovers(l) ==
  /\ status[l] = "stale"
  /\ status' = [status EXCEPT ![l] = "active"]
  /\ Emit(l, "recovered")
  /\ UNCHANGED <<outbox, acts, distro, ups, records, prop, down, attempts, open, late, did, history>>

LinkCloses(l) ==
  /\ status[l] \in {"pending", "active", "stale"}
  /\ status' = [status EXCEPT ![l] = IF @ = "pending" THEN "failed" ELSE "closed"]
  /\ Emit(l, "close")
  /\ GoneFor(l)
  /\ UNCHANGED <<outbox, acts, distro, ups, records, prop, down, open, late, did, history>>

Hear(l, what) ==
  /\ news # <<>> /\ Head(news) = [link |-> l, what |-> what]
  /\ news' = Tail(news)

HearEstablished(l) ==
  /\ Hear(l, "established")
  /\ SendDistroOutbox(l)
  /\ UNCHANGED <<acts, distro, prop, status, down, flights, builds, open, late, did, proved, lapsed>>

HearRecovered(l) ==
  /\ Hear(l, "recovered")
  /\ IF LinkReady(l)
       THEN SendDistroOutbox(l)
       ELSE UNCHANGED <<outbox, records, ups, passes, spent>>
  /\ UNCHANGED <<acts, distro, prop, status, down, flights, builds, open, late, did, proved, lapsed>>

\* The uploads still open on the link are lost, whichever link is current now.
HearClose(l) ==
  LET lost == {u \in Uploads : u[2] = l /\ open[u] > 0}
  IN  /\ Hear(l, "close")
      /\ DecidedLost(lost)
      /\ open' = [u \in Uploads |-> IF u[2] = l THEN 0 ELSE open[u]]
      /\ late' = late \cup {u[1] : u \in lost}
      /\ prop' = IF prop = l THEN NoLink ELSE prop
      /\ status' = [status EXCEPT ![l] = "closed"]
      /\ UNCHANGED <<outbox, acts, distro, ups, down, passes, did, proved, lapsed>>

ExchangeFails ==
  /\ ~ down /\ Counted
  /\ down' = TRUE
  /\ UNCHANGED <<outbox, acts, distro, ups, records, link, attempts, open, late, history>>

ExchangeBack ==
  /\ down /\ down' = FALSE
  /\ SendDistroNeverLeft
  /\ UNCHANGED <<outbox, acts, distro, ups, records, link, flights, builds, open, late, did, history>>

-----------------------------------------------------------------------------
(* The connection stops, or the page is loaded again (as a tab is that      *)
(* takes the connection over from another).                                 *)

\* What is under way ends: every upload is decided, and with no link to go on.
Stopped ==
  /\ Counted
  /\ flights' = {} /\ passes' = {} /\ late' = {}
  /\ builds' = [u \in Uploads |-> 0] /\ open' = [u \in Uploads |-> 0]
  /\ prop' = NoLink /\ down' = FALSE

Cut == {m \in Messages : \E l \in Links : open[<<m, l>>] > 0}

Disconnect ==
  /\ Stopped
  /\ Unproved(Cut)
  /\ spent' = spent \cup Cut
  /\ IF prop # NoLink /\ status[prop] \in {"pending", "active", "stale"}
       THEN /\ status' = [status EXCEPT ![prop] = "closed"]
            /\ Emit(prop, "close")
       ELSE UNCHANGED <<status, news>>
  /\ UNCHANGED <<outbox, acts, distro, ups, neverLeft, proved, lapsed>>

Reload ==
  /\ Stopped
  /\ status' = [l \in Links |-> IF status[l] = "unused" THEN "unused" ELSE "closed"]
  /\ news' = <<>>
  /\ holding' = FALSE /\ held' = {}
  /\ store' = {m \in store : m \in Membership => acts[m].distro = distro}
  /\ ups' = 0
  /\ ForgetUploads(Messages)
  /\ spent' = {}
  /\ UNCHANGED <<refusals, acts, distro, proved, lapsed>>

-----------------------------------------------------------------------------
\* A pass runs until it awaits a build: no other task comes between.
Idle == \A p \in passes : p.building # NoMessage

Task ==
  \/ \E kind \in Kinds : Owe(kind)
  \/ \E d \in Distros \cup {NoDistro} : ChangeDistro(d)
  \/ \E m \in Messages : LateProof(m)
  \/ \E m \in Messages, l \in Links :
       \/ LooseBuilt(m, l)
       \/ UploadLost(m, l) \/ UploadNeverLeft(m, l) \/ UploadProved(m, l)
  \/ \E p \in passes : PassBuilt(p)
  \/ \E l \in Links :
       \/ Establish(l) \/ LinkUp(l) \/ LinkStale(l) \/ LinkRecovers(l) \/ LinkCloses(l)
       \/ HearEstablished(l) \/ HearRecovered(l) \/ HearClose(l)
  \/ ExchangeFails \/ ExchangeBack \/ Disconnect \/ Reload

Next == (\E p \in passes : PassTurn(p)) \/ (Idle /\ Task)

Spec == Init /\ [][Next]_vars

-----------------------------------------------------------------------------
\* The types of the state.
TypeOK ==
  /\ store \subseteq Messages /\ holding \in BOOLEAN /\ held \subseteq Messages
  /\ acts \in Seq(Act) /\ Len(acts) <= MaxActs
  /\ distro \in Distros \cup {NoDistro}
  /\ ups \in Nat
  /\ unproved \in [Messages -> Nat] /\ neverLeft \subseteq Messages
  /\ prop \in Links \cup {NoLink}
  /\ status \in [Links -> {"unused", "pending", "active", "stale", "closed", "failed"}]
  /\ news \in Seq(News) /\ down \in BOOLEAN
  /\ flights \subseteq [msg : Messages, link : Links, left : BOOLEAN]
  /\ passes \subseteq Pass
  /\ builds \in [Uploads -> Nat] /\ open \in [Uploads -> Nat]
  /\ late \subseteq Messages
  /\ did \in Nat /\ refusals \in Nat
  /\ proved \subseteq Messages /\ lapsed \subseteq Messages /\ spent \subseteq Messages

\* At most one upload of an entry is on its way, on whatever link: a link that
\* replaced a STALE one does not carry a second one beside it (app.js
\* _distroAttemptOpen).
OneInFlight ==
  \A m \in Messages, k, l \in Links :
    /\ open[<<m, l>>] <= 1
    /\ open[<<m, k>>] > 0 /\ open[<<m, l>>] > 0 => k = l

\* The invariants of the uploads: their types, and one of an entry at a time.
UploadsSound == TypeOK /\ OneInFlight

\* On a link that is up, with its events heard and no pass under way, each
\* entry owed is on its way or being built, or failed at this coming-up, or
\* waits for the exchange: none is left lying until some later coming-up
\* (app.js _sendDistroOutbox, _sendDistroNeverLeft, _uploadOwed).
NothingLeftLying ==
  Up /\ Quiet(prop) /\ passes = {} =>
    \A m \in Listed :
      \/ \E l \in Links : open[<<m, l>>] > 0 \/ builds[<<m, l>>] > 0
      \/ UnprovedSince(m, ups)
      \/ down /\ m \in neverLeft

\* A step in which an upload of m leaves.
Leaves(m) == \E l \in Links : open'[<<m, l>>] > open[<<m, l>>]

\* An upload that failed, or whose build did, is not made again before an event
\* that lets it go: a coming-up after the failure, or the failure itself on a
\* link that had been replaced (app.js _distroUnproved, _uploadOwed).
NeverOnItsOwnFailure == [][\A m \in Messages : Leaves(m) => m \notin spent]_vars

\* A join or leave that a later one replaced, or whose distro was given up,
\* does not leave any more: not from a build or a pass begun before, not from a
\* later page after storage refused the later one, not when the distro comes
\* back (app.js _stillOwed; distro_outbox.js _write).
LapsedNeverGoes == [][\A m \in Messages : Leaves(m) => m \notin lapsed]_vars

\* A message proved, late or not, does not leave again (app.js _uploadOwed).
ProvedIsDone == [][\A m \in Messages : Leaves(m) => m \notin proved]_vars

\* An entry stops being owed only by its own proof, by a later act on its
\* channel or a change of distro, or, when storage had refused it, with the
\* page (distro_outbox.js settle, put, dropMembershipNotFor).
OwedUntilProved ==
  [][\A m \in Listed \ Listed' :
       m \in proved' \/ m \in lapsed' \/ (m \notin store /\ Reload)]_vars

\* An entry is owed exactly as long as it should be: until its proof or a later
\* act, and nothing that was settled by either goes again.
OwedExactly == OwedUntilProved /\ LapsedNeverGoes /\ ProvedIsDone
=============================================================================
