------------------------------- MODULE TabLock -------------------------------
(***************************************************************************)
(* One active tab per identity: lib/tab_lock.js, with the browser's lock   *)
(* manager (navigator.locks) and BroadcastChannel it is built on.  A tab   *)
(* is a page that may close, crash and be opened again.  Each page runs    *)
(* its own tasks one at a time; the lock manager, the channel and the      *)
(* other pages interleave with them freely.                                *)
(***************************************************************************)
EXTENDS Integers, Sequences, FiniteSets

CONSTANTS
  Tabs,         \* the pages of one browser that share an identity
  LockModes,    \* what navigator.locks may be: see mode
  HasChannel,   \* BroadcastChannel exists
  CanSteal,     \* the browser may take a lock from the tab that holds it
  MaxRequests,  \* bound: lock requests of one page
  MaxMail       \* bound: takeover broadcasts waiting at one page

ASSUME TabLockAssumption ==
  /\ LockModes \subseteq {"given", "refused", "absent"}
  /\ HasChannel \in BOOLEAN
  /\ CanSteal \in BOOLEAN
  /\ MaxRequests \in Nat \ {0}
  /\ MaxMail \in Nat \ {0}

VARIABLES
  mode,      \* navigator.locks grants, refuses every request, or is absent
  open,      \* the page is loaded
  locks,     \* _locks: this page still has a lock manager to ask
  held,      \* _held
  grant,     \* _grant: the request whose lock it holds, 0 for null
  waiting,   \* _waiting: the request takeOver() queued, 0 for null
  stopping,  \* _onMessage awaits onTakenOver
  asked,     \* requests this page has made
  holder,    \* lock manager: the request that holds the lock, or Free
  queue,     \* lock manager: the requests that wait for it
  calls,     \* grant callbacks on their way to a page
  freeing,   \* released promises on their way to the lock manager
  settled,   \* settled requests on their way to a page
  mail       \* takeover broadcasts on their way to a page

page == <<open, locks, held, grant, waiting, stopping, asked>>
manager == <<holder, queue, calls, freeing, settled>>
vars == <<mode, page, manager, mail>>

Free == <<>>
Request == Tabs \X Nat

\* The tab has a connection to stop, or is in the middle of stopping it.
Active(t) == held[t] \/ stopping[t]

\* A page runs one task to its end: nothing else of it runs while it stops.
Idle(t) == open[t] /\ ~stopping[t]

\* The browser took the lock and the tab has yet to hear of it.
Robbed(t) == \E s \in settled : s.req = <<t, grant[t]>> /\ s.how = "ended"

Init ==
  /\ mode \in LockModes
  /\ open = [t \in Tabs |-> FALSE]
  /\ locks = [t \in Tabs |-> FALSE]
  /\ held = [t \in Tabs |-> FALSE]
  /\ grant = [t \in Tabs |-> 0]
  /\ waiting = [t \in Tabs |-> 0]
  /\ stopping = [t \in Tabs |-> FALSE]
  /\ asked = [t \in Tabs |-> 0]
  /\ holder = Free
  /\ queue = <<>>
  /\ calls = {}
  /\ freeing = {}
  /\ settled = {}
  /\ mail = [t \in Tabs |-> 0]

-----------------------------------------------------------------------------
(* The lock manager: exclusive, first come first served. *)

\* The head of `waiters` is given the lock, and its callback is called later.
HandOver(waiters, callbacks) ==
  IF waiters = <<>>
  THEN holder' = Free /\ queue' = <<>> /\ calls' = callbacks
  ELSE /\ holder' = Head(waiters)
       /\ queue' = Tail(waiters)
       /\ calls' = callbacks \cup {[req |-> Head(waiters), lock |-> TRUE]}

\* locks.request(name, options, granted) for request n of tab t.
Ask(t, n, ifAvailable) ==
  LET req == <<t, n>> IN
  CASE mode = "refused" ->
         /\ settled' = settled \cup {[req |-> req, how |-> "refused"]}
         /\ UNCHANGED <<holder, queue, calls, freeing>>
    [] mode = "given" /\ holder = Free /\ queue = <<>> ->
         HandOver(<<req>>, calls) /\ UNCHANGED <<freeing, settled>>
    [] mode = "given" /\ (holder # Free \/ queue # <<>>) /\ ifAvailable ->
         /\ calls' = calls \cup {[req |-> req, lock |-> FALSE]}
         /\ UNCHANGED <<holder, queue, freeing, settled>>
    [] OTHER ->
         queue' = Append(queue, req) /\ UNCHANGED <<holder, calls, freeing, settled>>

\* The granted callback's promise settled: the manager passes the lock on.
FreeLock(req) ==
  /\ req \in freeing
  /\ freeing' = freeing \ {req}
  /\ IF holder = req
     THEN HandOver(queue, calls)
     ELSE UNCHANGED <<holder, queue, calls>>
  /\ UNCHANGED <<mode, page, settled, mail>>

\* Another user of the origin takes the lock the tab was granted (bound:
\* not while a settled request is on its way to a page, nor a release to the
\* manager: the tab holds the lock, so that release has none left to free).
Steal(t) ==
  /\ CanSteal /\ settled = {} /\ freeing = {}
  /\ grant[t] # 0 /\ holder = <<t, grant[t]>>
  /\ settled' = settled \cup {[req |-> holder, how |-> "ended"]}
  /\ HandOver(queue, calls)
  /\ UNCHANGED <<mode, page, freeing, mail>>

-----------------------------------------------------------------------------
(* The tab. *)

\* _broadcast: every other page that is open hears it, later.  (Variant:
\* nobody is told.)
BroadcastToNobody(t, pages) == UNCHANGED mail
Broadcast(t, pages) ==
  IF HasChannel
  THEN /\ \A u \in Tabs \ {t} : pages[u] => mail[u] < MaxMail
       /\ mail' = [u \in Tabs |-> IF u # t /\ pages[u] THEN mail[u] + 1 ELSE mail[u]]
  ELSE UNCHANGED mail

\* _takeWithoutLocks: the newest tab wins.
TakeWithoutLocks(t) ==
  /\ held' = [held EXCEPT ![t] = TRUE]
  /\ Broadcast(t, open)

\* A page loads: constructor, then ActiveTab.start calls tryAcquire() or,
\* after "Use here", takeOver(), all in one task.
Start(t, takeover) ==
  /\ ~open[t]
  /\ open' = [open EXCEPT ![t] = TRUE]
  /\ locks' = [locks EXCEPT ![t] = mode # "absent"]
  /\ IF mode = "absent"
     THEN TakeWithoutLocks(t) /\ UNCHANGED <<waiting, asked, manager>>
     ELSE /\ asked' = [asked EXCEPT ![t] = 1]
          /\ Ask(t, 1, ~takeover)
          /\ IF takeover
             THEN waiting' = [waiting EXCEPT ![t] = 1] /\ Broadcast(t, open)
             ELSE UNCHANGED <<waiting, mail>>
          /\ UNCHANGED held
  /\ UNCHANGED <<mode, grant, stopping>>

\* takeOver() of a page that is loaded: in place, or asking again from the
\* same place in the queue.
TakeOver(t) ==
  /\ Idle(t) /\ ~held[t]
  /\ \/ /\ ~locks[t]
        /\ TakeWithoutLocks(t)
        /\ UNCHANGED <<waiting, asked, manager>>
     \/ /\ locks[t] /\ waiting[t] = 0
        /\ asked[t] < MaxRequests
        /\ asked' = [asked EXCEPT ![t] = @ + 1]
        /\ waiting' = [waiting EXCEPT ![t] = asked[t] + 1]
        /\ Ask(t, asked[t] + 1, FALSE)
        /\ Broadcast(t, open)
        /\ UNCHANGED held
     \/ /\ locks[t] /\ waiting[t] # 0
        /\ Broadcast(t, open)
        /\ UNCHANGED <<held, waiting, asked, manager>>
  /\ UNCHANGED <<mode, open, locks, grant, stopping>>

\* _request's granted(lock), and the .finally that clears _waiting.
Granted(t, n) ==
  /\ Idle(t)
  /\ [req |-> <<t, n>>, lock |-> TRUE] \in calls
  /\ calls' = calls \ {[req |-> <<t, n>>, lock |-> TRUE]}
  /\ held' = [held EXCEPT ![t] = TRUE]
  /\ grant' = [grant EXCEPT ![t] = n]
  /\ waiting' = [waiting EXCEPT ![t] = IF @ = n THEN 0 ELSE @]
  /\ UNCHANGED <<mode, open, locks, stopping, asked, holder, queue, freeing, settled, mail>>

\* _request's granted(null): another tab is active.
NotAvailable(t, n) ==
  /\ Idle(t)
  /\ [req |-> <<t, n>>, lock |-> FALSE] \in calls
  /\ calls' = calls \ {[req |-> <<t, n>>, lock |-> FALSE]}
  /\ UNCHANGED <<mode, page, holder, queue, freeing, settled, mail>>

\* _onMessage: a takeover broadcast reaches the tab; one that is not active
\* ignores it.  The tab stops first and releases after.
OnMessage(t) ==
  /\ Idle(t) /\ mail[t] > 0
  /\ mail' = [mail EXCEPT ![t] = @ - 1]
  /\ IF held[t]
     THEN /\ held' = [held EXCEPT ![t] = FALSE]
          /\ stopping' = [stopping EXCEPT ![t] = TRUE]
     ELSE UNCHANGED <<held, stopping>>
  /\ UNCHANGED <<mode, open, locks, grant, waiting, asked, manager>>

\* The request whose lock release() gives back.
Released(t) == IF grant[t] = 0 THEN {} ELSE {<<t, grant[t]>>}

\* onTakenOver returned: release().
Release(t) ==
  /\ stopping[t]
  /\ stopping' = [stopping EXCEPT ![t] = FALSE]
  /\ held' = [held EXCEPT ![t] = FALSE]
  /\ grant' = [grant EXCEPT ![t] = 0]
  /\ freeing' = freeing \cup Released(t)
  /\ settled' = settled \cup {[req |-> r, how |-> "ended"] : r \in Released(t)}
  /\ UNCHANGED <<mode, open, locks, waiting, asked, holder, queue, calls, mail>>

\* _ended: a granted request settled.  Released on purpose it says nothing
\* new; otherwise the tab stops as if taken over.
Ended(t, n) ==
  LET s == [req |-> <<t, n>>, how |-> "ended"] IN
  /\ Idle(t) /\ s \in settled
  /\ settled' = settled \ {s}
  /\ IF grant[t] = n
     THEN /\ grant' = [grant EXCEPT ![t] = 0]
          /\ held' = [held EXCEPT ![t] = FALSE]
     ELSE UNCHANGED <<grant, held>>
  /\ UNCHANGED <<mode, open, locks, waiting, stopping, asked, holder, queue, calls, freeing, mail>>

\* _refused: from here on as without navigator.locks.
Refused(t, n) ==
  LET s == [req |-> <<t, n>>, how |-> "refused"] IN
  /\ Idle(t) /\ s \in settled
  /\ settled' = settled \ {s}
  /\ locks' = [locks EXCEPT ![t] = FALSE]
  /\ waiting' = [waiting EXCEPT ![t] = IF @ = n THEN 0 ELSE @]
  /\ TakeWithoutLocks(t)
  /\ UNCHANGED <<mode, open, grant, stopping, asked, holder, queue, calls, freeing>>

\* The requests of `waiters` that are not tab t's, in their order.
WithoutTab(waiters, t) ==
  LET kept[k \in 0..Len(waiters)] ==
        IF k = 0 THEN <<>>
        ELSE IF waiters[k][1] # t THEN Append(kept[k - 1], waiters[k]) ELSE kept[k - 1]
  IN kept[Len(waiters)]

\* The page closes, reloads or crashes: the browser drops its requests,
\* gives its lock to the next tab and its broadcasts to nobody.
Close(t) ==
  LET others == WithoutTab(queue, t)
      callsLeft == {c \in calls : c.req[1] # t}
  IN
  /\ open[t]
  /\ open' = [open EXCEPT ![t] = FALSE]
  /\ locks' = [locks EXCEPT ![t] = FALSE]
  /\ held' = [held EXCEPT ![t] = FALSE]
  /\ grant' = [grant EXCEPT ![t] = 0]
  /\ waiting' = [waiting EXCEPT ![t] = 0]
  /\ stopping' = [stopping EXCEPT ![t] = FALSE]
  /\ asked' = [asked EXCEPT ![t] = 0]
  /\ mail' = [mail EXCEPT ![t] = 0]
  /\ freeing' = {r \in freeing : r[1] # t}
  /\ settled' = {s \in settled : s.req[1] # t}
  /\ IF holder # Free /\ holder[1] = t
     THEN HandOver(others, callsLeft)
     ELSE holder' = holder /\ queue' = others /\ calls' = callsLeft
  /\ UNCHANGED mode

TabNext(t) ==
  \/ \E takeover \in BOOLEAN : Start(t, takeover)
  \/ TakeOver(t)
  \/ \E n \in 1..MaxRequests : Granted(t, n) \/ NotAvailable(t, n)
                               \/ Ended(t, n) \/ Refused(t, n)
  \/ OnMessage(t)
  \/ Release(t)
  \/ Close(t)

BrowserNext == (\E req \in freeing : FreeLock(req)) \/ (\E t \in Tabs : Steal(t))

Next == (\E t \in Tabs : TabNext(t)) \/ BrowserNext

Spec == Init /\ [][Next]_vars

\* What the browser and the pages do without being asked: every callback,
\* settlement and broadcast is delivered, and a stop runs to its end.
BrowserFairness ==
  /\ WF_vars(\E req \in freeing : FreeLock(req))
  /\ \A t \in Tabs :
       /\ WF_vars(\E n \in 1..MaxRequests : Granted(t, n) \/ NotAvailable(t, n))
       /\ WF_vars(\E n \in 1..MaxRequests : Ended(t, n) \/ Refused(t, n))
       /\ WF_vars(OnMessage(t))
       /\ WF_vars(Release(t))

\* The user of a tab that waits presses "Use here" again.
AskAgain(t) == waiting[t] # 0 /\ TakeOver(t)

FairSpec == Spec /\ BrowserFairness /\ \A t \in Tabs : WF_vars(AskAgain(t))
=============================================================================
