---------------------------- MODULE MCDistroMail ----------------------------
EXTENDS DistroMail
CONSTANTS d1, d2
World(out, acts, sends, ticks, dups, stops, fails, ahead) ==
  [out |-> out, acts |-> acts, sends |-> sends, ticks |-> ticks, dups |-> dups,
   stops |-> stops, fails |-> fails, ahead |-> [d \in Device |-> IF d = d1 THEN ahead ELSE 0]]
Mail(ts, n) == [kind |-> "mail", ts |-> ts, by |-> "x", n |-> n]
ReactionTo(of, ts) == [kind |-> "reaction", ts |-> ts, of |-> of]
TicketOf(of) == [kind |-> "ticket", ts |-> 8, of |-> of]
Control == [kind |-> "control", ts |-> 9]
Refused(ts) == [kind |-> "copy", ts |-> ts, by |-> "other", refused |-> TRUE]
First1 == [kind |-> "copy", ts |-> 0, by |-> d1, n |-> 1, refused |-> FALSE]
MCWorlds == {
  World({}, 3, 0, 0, 0, 1, 1, 1),
  World({}, 3, 0, 1, 1, 0, 0, 0),
  World({}, 3, 0, 1, 0, 0, 0, 2),
  World({Mail(5, 1), ReactionTo(Mail(5, 1), 7), Refused(0)}, 0, 1, 0, 1, 1, 0, 0),
  World({Mail(5, 1), Mail(5, 2), ReactionTo(Mail(5, 1), 5), Control}, 0, 0, 0, 1, 0, 0, 0),
  World({TicketOf(First1), Refused(1)}, 0, 2, 1, 0, 0, 0, 0)}
=============================================================================
