---------------------------- MODULE HeldArrivals ----------------------------
(***************************************************************************)
(* lib/group_distro.js HeldGroupArrivals: what reached the distro for a    *)
(* group not joined here, kept until it is, oldest first, within bounds of *)
(* which the sizes in bytes are left out.                                  *)
(***************************************************************************)
EXTENDS Naturals, Sequences, SequencesExt, FiniteSetsExt

CONSTANTS
  MaxBlobs,  \* in all
  PerGroup,  \* of one group
  PerSource, \* of one source other than the distro
  NotHeld    \* of groups not held here at all

ASSUME BoundsPositive == {MaxBlobs, PerGroup, PerSource, NotHeld} \subseteq Nat \ {0}

-----------------------------------------------------------------------------
(* A row: [blob, group, src, pending].                                      *)

Within(bound, r, row) ==
  CASE bound = "group"   -> r.group = row.group
    [] bound = "source"  -> r.src = row.src
    [] bound = "notheld" -> ~r.pending
    [] bound = "all"     -> TRUE

Limit(bound) ==
  CASE bound = "group" -> PerGroup [] bound = "source" -> PerSource
    [] bound = "notheld" -> NotHeld [] bound = "all" -> MaxBlobs

\* Whether a new row must meet a bound.
Asks(row, bound, distro) ==
  /\ bound = "source" => row.src # distro
  /\ bound = "notheld" => ~row.pending

\* The row the new one pushes out of a bound: the oldest of the source that
\* has most there, never one of a pending group for one of a group not held;
\* 0 when there is none.
Victim(rows, row, bound) ==
  LET may == {i \in DOMAIN rows : Within(bound, rows[i], row) /\ (row.pending \/ ~rows[i].pending)}
      has(i) == Cardinality({j \in may : rows[j].src = rows[i].src})
      most == {i \in may : \A j \in may : has(j) <= has(i)}
  IN IF may = {} THEN 0 ELSE Min(most)

\* One bound met, unless it cannot be: a bound that is full has one row too
\* many at most, so that one goes.
MakeRoom(st, row, bound, distro) ==
  LET full == Cardinality({i \in DOMAIN st.rows : Within(bound, st.rows[i], row)}) >= Limit(bound)
      i == Victim(st.rows, row, bound)
  IN IF ~st.held \/ ~full \/ ~Asks(row, bound, distro) THEN st
     ELSE IF i = 0 THEN [st EXCEPT !.held = FALSE]
     ELSE [st EXCEPT !.rows = RemoveAt(st.rows, i), !.out = @ \cup {st.rows[i].blob}]

\* hold(): the bounds in turn; the rows after, what was pushed out, and
\* whether it is held.
Hold(rows, row, distro) ==
  LET Room(st, bound) == MakeRoom(st, row, bound, distro)
      room == Room(Room(Room(Room([rows |-> rows, out |-> {}, held |-> TRUE],
                                  "group"), "source"), "notheld"), "all")
  IN IF \E i \in DOMAIN rows : rows[i].blob = row.blob THEN [rows |-> rows, out |-> {}, held |-> TRUE]
     ELSE IF ~room.held THEN room
     ELSE [room EXCEPT !.rows = Append(@, row)]

\* forgetGroup() and forGroup(): the rows of other groups, those of one.
\* (As functions: what SelectSeq makes cannot be reasoned about by TLAPS.)
ForgetGroup(rows, group) ==
  LET others[n \in 0 .. Len(rows)] ==
        IF n = 0 THEN <<>>
        ELSE IF rows[n].group = group THEN others[n - 1] ELSE Append(others[n - 1], rows[n])
  IN others[Len(rows)]
ForGroup(rows, group) ==
  LET those[n \in 0 .. Len(rows)] ==
        IF n = 0 THEN <<>>
        ELSE IF rows[n].group = group THEN Append(those[n - 1], rows[n]) ELSE those[n - 1]
  IN those[Len(rows)]

\* release(): the first row with that blob.
Release(rows, row) ==
  LET those == {i \in DOMAIN rows : rows[i].blob = row.blob}
  IN IF those = {} THEN rows ELSE RemoveAt(rows, Min(those))
=============================================================================
