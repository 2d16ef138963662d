-------------------------- MODULE AttachmentStore ---------------------------
(***************************************************************************)
(* Where the bytes of attachments are: in the tab's memory while their     *)
(* write is under way, and for the session when nothing persists them;     *)
(* else in IndexedDB, which does what it is asked in order, a task later,  *)
(* and may refuse, or not open at all.                                     *)
(***************************************************************************)
EXTENDS Naturals, SequencesExt

\* A page's store over what IndexedDB holds: `work` is what it has yet to do.
OpenStore(opens, disk) == [opens |-> opens, disk |-> disk, mem |-> {}, work |-> <<>>]

\* put: readable at once.
Put(a, key) == [a EXCEPT !.mem = @ \cup {key}, !.work = Append(@, [op |-> "put", key |-> key])]

\* remove: from memory, and from IndexedDB if it opened.
Discard(a, keys) ==
  [a EXCEPT !.mem = @ \ keys,
            !.work = IF a.opens THEN @ \o SetToSeq({[op |-> "delete", key |-> k] : k \in keys}) ELSE @]

\* A write's answer: where the bytes are.
Answered(a, ok) == IF ~a.opens THEN "session" ELSE IF ok THEN "persisted" ELSE "failed"

\* What a request does to what IndexedDB holds, and what the first n of what
\* it was asked do: the last about a key stands.
Applied(disk, w) == IF w.op = "put" THEN disk \cup {w.key} ELSE disk \ {w.key}
AppliedFirst(a, n) ==
  LET untouched == a.disk \ {a.work[i].key : i \in 1..n}
      last == {i \in 1..n : \A j \in i + 1..n : a.work[j].key # a.work[i].key}
  IN untouched \cup {a.work[i].key : i \in {j \in last : a.work[j].op = "put"}}

\* The first request is answered; bytes leave memory once they are written.
Lands(a, ok) ==
  LET w == Head(a.work)
      kept == a.opens /\ ok
  IN [a EXCEPT !.work = Tail(@),
               !.disk = IF kept THEN Applied(@, w) ELSE @,
               !.mem = IF kept /\ w.op = "put" THEN @ \ {w.key} ELSE @]

\* get: whether the page can read the bytes.
Reads(a, key) == key \in a.mem \/ (a.opens /\ key \in a.disk)

\* A page that goes leaves what IndexedDB holds by then: all or some of what
\* it was asked, in order.
LeftBy(a) == {AppliedFirst(a, n) : n \in IF a.opens THEN 0..Len(a.work) ELSE {0}}
=============================================================================
