------------------------------ MODULE ActiveTab ------------------------------
(***************************************************************************)
(* The app over TabLock: ActiveTab and RnsClient's connect(), disconnect() *)
(* and reconnect() (app.js).  Only the tab that holds the identity's lock  *)
(* may exchange: a second registration rotates the node's session token    *)
(* and knocks the other tab's session out.                                 *)
(***************************************************************************)
EXTENDS TabLock

CONSTANTS
  StorageModes,   \* what setting the takeover flag in sessionStorage may do
  MaxLoads        \* bound: connects under way as another begins, see MayLoad

ASSUME ActiveTabAssumption ==
  /\ StorageModes \subseteq {"works", "throws"}
  /\ MaxLoads \in Nat \ {0}

VARIABLES
  storage,     \* sessionStorage works, or throws
  flag,        \* the takeover flag kept across a reload
  loads,       \* connects that await loadConfig()
  configured,  \* _cfg is set
  rns,         \* _rns is set, and its interface exchanges
  overlay      \* the page says another tab is active, and offers "Use here"

app == <<storage, flag, loads, configured, rns, overlay>>
allVars == <<vars, app>>

AppInit ==
  /\ Init
  /\ storage \in StorageModes
  /\ flag = [t \in Tabs |-> FALSE]
  /\ loads = [t \in Tabs |-> 0]
  /\ configured = [t \in Tabs |-> FALSE]
  /\ rns = [t \in Tabs |-> FALSE]
  /\ overlay = [t \in Tabs |-> FALSE]

Show(t, shown) == overlay' = [overlay EXCEPT ![t] = shown]

\* A bound, not a guard of the code: connect() never asks whether another one
\* of its page is still loading.  A page and any other have fewer than so many
\* when the user's act begins one.
MayLoad(t) ==
  /\ loads[t] < MaxLoads
  /\ \A u \in Tabs \ {t} : loads[t] + loads[u] < MaxLoads

\* connect() asks for the config, whatever connects of the page still wait.
Connect(t) == loads' = [loads EXCEPT ![t] = @ + 1]

\* _activate: the overlay goes and the app connects.
Activate(t) == Show(t, FALSE) /\ Connect(t)

\* RnsClient.disconnect(): the interfaces of the current _rns stop.
Disconnect(t) == rns' = [rns EXCEPT ![t] = FALSE]

\* ActiveTab._takenOver, from a broadcast or from a lock taken away.
\* (Variant: without saying so.)
TakenOverSilently(t) == Disconnect(t) /\ UNCHANGED overlay
TakenOver(t) == Disconnect(t) /\ Show(t, TRUE)

AppStart(t) ==
  /\ Start(t, flag[t])
  /\ flag' = [flag EXCEPT ![t] = FALSE]
  /\ IF held'[t]
     THEN Activate(t)
     ELSE Show(t, flag[t]) /\ UNCHANGED loads
  /\ UNCHANGED <<storage, configured, rns>>

\* useHere() of a page that is waiting, or of one whose sessionStorage
\* throws: take over in place.
UseHereInPlace(t) ==
  /\ overlay[t]
  /\ waiting[t] # 0 \/ (storage = "throws" /\ MayLoad(t))
  /\ TakeOver(t)
  /\ IF held'[t] THEN Activate(t)
     ELSE Show(t, TRUE) /\ UNCHANGED loads
  /\ UNCHANGED <<storage, flag, configured, rns>>

\* A page that goes takes everything it kept in memory with it.
Unload(t) ==
  /\ Close(t)
  /\ loads' = [loads EXCEPT ![t] = 0]
  /\ configured' = [configured EXCEPT ![t] = FALSE]
  /\ rns' = [rns EXCEPT ![t] = FALSE]
  /\ Show(t, FALSE)
  /\ UNCHANGED storage

\* useHere(): the page reloads, and takes over as it starts again.
UseHere(t) ==
  /\ Idle(t) /\ overlay[t]
  /\ waiting[t] = 0 /\ storage = "works"
  /\ flag' = [flag EXCEPT ![t] = TRUE]
  /\ Unload(t)

\* The tab closes, with its sessionStorage, or crashes and is reloaded.
AppClose(t) == Unload(t) /\ UNCHANGED flag

AppGranted(t, n) ==
  /\ Granted(t, n)
  /\ Activate(t)
  /\ UNCHANGED <<storage, flag, configured, rns>>

AppNotAvailable(t, n) ==
  /\ NotAvailable(t, n)
  /\ Show(t, TRUE)
  /\ UNCHANGED <<storage, flag, loads, configured, rns>>

AppRefused(t, n) ==
  /\ Refused(t, n)
  /\ Activate(t)
  /\ UNCHANGED <<storage, flag, configured, rns>>

\* onTakenOver runs while the lock is still held.
AppOnMessage(t) ==
  /\ OnMessage(t)
  /\ IF held[t] THEN TakenOver(t) ELSE UNCHANGED <<rns, overlay>>
  /\ UNCHANGED <<storage, flag, loads, configured>>

AppEnded(t, n) ==
  /\ Ended(t, n)
  /\ IF grant[t] = n /\ held[t] THEN TakenOver(t) ELSE UNCHANGED <<rns, overlay>>
  /\ UNCHANGED <<storage, flag, loads, configured>>

AppRelease(t) == Release(t) /\ UNCHANGED app

\* connect() looks again at who is active once the config is there.
\* (Variant: it does not.)
ConnectsAnyway(t) == TRUE
MayConnect(t) == held[t]

\* loadConfig() answers: a tab taken over meanwhile must not connect.  A new
\* Reticulum replaces the one _rns held, whose interface nobody stops.
ConfigLoaded(t) ==
  /\ Idle(t) /\ loads[t] > 0
  /\ loads' = [loads EXCEPT ![t] = @ - 1]
  /\ configured' = [configured EXCEPT ![t] = TRUE]
  /\ IF MayConnect(t)
     THEN rns' = [rns EXCEPT ![t] = TRUE]
     ELSE UNCHANGED rns
  /\ UNCHANGED <<vars, storage, flag, overlay>>

\* _saveSettings ends in reconnect(): disconnect(), then connect(), which
\* throws in a tab that is not active.
SaveSettings(t) ==
  /\ Idle(t) /\ configured[t]
  /\ Disconnect(t)
  /\ IF held[t] THEN MayLoad(t) /\ Connect(t) ELSE UNCHANGED loads
  /\ UNCHANGED <<vars, storage, flag, configured, overlay>>

AppTabNext(t) ==
  \/ AppStart(t)
  \/ UseHere(t)
  \/ UseHereInPlace(t)
  \/ AppClose(t)
  \/ \E n \in 1..MaxRequests : \/ AppGranted(t, n) \/ AppNotAvailable(t, n)
                               \/ AppEnded(t, n) \/ AppRefused(t, n)
  \/ AppOnMessage(t)
  \/ AppRelease(t)
  \/ ConfigLoaded(t)
  \/ SaveSettings(t)

AppNext == (\E t \in Tabs : AppTabNext(t)) \/ (BrowserNext /\ UNCHANGED app)

AppSpec == AppInit /\ [][AppNext]_allVars

\* The browser delivers, a stop runs to its end, and the user of a tab that
\* says "Taking over" presses "Use here" again.
AppFairness ==
  /\ WF_allVars((\E req \in freeing : FreeLock(req)) /\ UNCHANGED app)
  /\ \A t \in Tabs :
       /\ WF_allVars(\E n \in 1..MaxRequests : AppGranted(t, n) \/ AppNotAvailable(t, n))
       /\ WF_allVars(\E n \in 1..MaxRequests : AppEnded(t, n) \/ AppRefused(t, n))
       /\ WF_allVars(AppOnMessage(t))
       /\ WF_allVars(AppRelease(t))
       /\ WF_allVars(waiting[t] # 0 /\ UseHereInPlace(t))

AppFairSpec == AppSpec /\ AppFairness

-----------------------------------------------------------------------------
TypeOK ==
  /\ mode \in LockModes /\ storage \in StorageModes
  /\ open \in [Tabs -> BOOLEAN] /\ locks \in [Tabs -> BOOLEAN]
  /\ held \in [Tabs -> BOOLEAN] /\ stopping \in [Tabs -> BOOLEAN]
  /\ grant \in [Tabs -> Nat] /\ waiting \in [Tabs -> Nat] /\ asked \in [Tabs -> 0..MaxRequests]
  /\ holder \in {Free} \cup Request /\ queue \in Seq(Request)
  /\ calls \subseteq [req : Request, lock : BOOLEAN]
  /\ freeing \subseteq Request
  /\ settled \subseteq [req : Request, how : {"ended", "refused"}]
  /\ mail \in [Tabs -> 0..MaxMail]
  /\ flag \in [Tabs -> BOOLEAN] /\ configured \in [Tabs -> BOOLEAN] /\ rns \in [Tabs -> BOOLEAN]
  /\ loads \in [Tabs -> 0..MaxLoads]
  /\ overlay \in [Tabs -> BOOLEAN]

\* With navigator.locks no two tabs exchange at once, but for the moment a
\* tab the browser robbed of its lock has yet to hear of it (tab_lock.js:
\* "the tab taking over must never register while this one still exchanges";
\* RnsClient.connect()'s guards).  And no connect() begins in a page that
\* exchanges already, for the Reticulum it builds would replace _rns, and
\* leave the old interface running where disconnect() no longer reaches it.
\* Only connects that overlap can do that, which app.js:3270 lets happen: the
\* interface the first one built is not one of those the claim speaks of.
OneExchange ==
  /\ [](mode = "given" =>
          \A t, u \in Tabs : t # u /\ rns[t] /\ rns[u] => Robbed(t) \/ Robbed(u))
  /\ [][\A t \in Tabs : loads'[t] > loads[t] => ~rns'[t]]_allVars

\* Without it, two tabs are active only while a takeover broadcast is on its
\* way to one of them: no two settle down side by side.
NewestHeard ==
  mode # "given" =>
    \A t, u \in Tabs : t # u /\ held[t] /\ held[u] => mail[t] > 0 \/ mail[u] > 0

\* The lock never stays with a tab that is neither active nor about to be,
\* nor letting go: every other tab would be blocked for good.
NoOrphanLock ==
  holder # Free =>
    \/ [req |-> holder, lock |-> TRUE] \in calls
    \/ grant[holder[1]] = holder[2] /\ Active(holder[1])
    \/ holder \in freeing

\* A page that is not active says so and offers "Use here", unless its first
\* request is still out: it is never stopped and silent.
NeverSilent ==
  \A t \in Tabs : open[t] /\ ~overlay[t] =>
    \/ held[t]
    \/ \E c \in calls : c.req[1] = t
    \/ \E s \in settled : s.req[1] = t /\ s.how = "refused"

\* What the tabs' lock promises: the types, and that no tab is stranded, by
\* another that is active beside it, by a lock nobody uses, or in silence.
LockSound == TypeOK /\ NewestHeard /\ NoOrphanLock /\ NeverSilent

\* "Taking over" ends: whoever keeps pressing "Use here" gets the lock, past
\* other tabs that press it too and broadcasts that went unheard.
TakingOverEnds == \A t \in Tabs : waiting[t] # 0 ~> held[t] \/ ~open[t]
=============================================================================
