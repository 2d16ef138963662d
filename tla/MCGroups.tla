----------------------------- MODULE MCGroups -------------------------------
EXTENDS Groups
CONSTANTS d1, d2
World(creator, out, allows, knows, switched, acts, dups, reloads, mutes) ==
  [creator |-> creator, out |-> out, allows |-> allows, knows |-> [d \in Device |-> knows],
   switched |-> switched, acts |-> acts, dups |-> dups, reloads |-> reloads, mutes |-> mutes]
InviteOf(key) == [kind |-> "invite", key |-> key]
PostOf(n) == [kind |-> "post", post |-> n]
ReactTo(n) == [kind |-> "react", post |-> n]
M(kind, keyed) == [kind |-> kind, keyed |-> keyed]
MCWorlds == {
  World("c", {InviteOf("c"), PostOf("p1")}, {d1, d2}, {"c", "m"}, FALSE, 2, 1, 0, 0),
  World("c", {InviteOf("c"), PostOf("p1")}, {d1}, {"c", "m"}, FALSE, 2, 0, 1, 0),
  World("c", {InviteOf("c")}, {d1, d2}, {"c", "m"}, FALSE, 3, 0, 0, 1),
  World("c", {InviteOf("m"), M("accept", FALSE), M("leave", TRUE)}, {d1, d2}, {"c"}, TRUE, 1, 0, 0, 0),
  World("distro", {M("accept", TRUE), M("leave", TRUE), PostOf("p1")}, {d1, d2}, {"c", "m"}, FALSE, 2, 0, 0, 0),
  World("distro", {PostOf("p1"), PostOf("p2"), PostOf("p3")}, {d1, d2}, {"c", "m"}, FALSE, 2, 0, 0, 0),
  World("distro", {PostOf("p1"), ReactTo("p1")}, {d1, d2}, {"c", "m"}, FALSE, 1, 1, 1, 0)}
=============================================================================
