----------------------------- MODULE MCInbound ------------------------------
EXTENDS Inbound
Text(src, at, name) == [src |-> src, kind |-> "text", at |-> at, name |-> name, to |-> "none", emoji |-> "none", file |-> FALSE]
React(to, at, emoji) == [src |-> "a", kind |-> "react", at |-> at, name |-> "absent", to |-> to, emoji |-> emoji, file |-> FALSE]
File(src, at) == [Text(src, at, "absent") EXCEPT !.file = TRUE]
Odd(kind) == [src |-> "a", kind |-> kind, at |-> 1, name |-> "absent", to |-> "none", emoji |-> "none", file |-> FALSE]
Base(mail, direct, stored) ==
  [mail |-> mail, direct |-> direct, linked |-> {}, stored |-> stored, live |-> {FALSE},
   rows |-> {"a"}, knows |-> {"a"}, allows |-> {"a"}, adds |-> {}, tells |-> {},
   rotate |-> 0, refuse |-> 0, fail |-> 0, lose |-> 0, reload |-> 0, opens |-> {TRUE}]
MCWorlds == {
  \* every path at once
  [Base([m1 |-> Text("a", 1, "n1"), m2 |-> Text("a", 2, "none")], {"m1", "m2"}, {"m1", "m2"})
     EXCEPT !.live = BOOLEAN, !.fail = 1],
  \* the caps
  [Base([m1 |-> Text("a", 1, "n1"), m2 |-> Text("a", 2, "n2"), m3 |-> Text("a", 3, "absent")],
        {"m1", "m2", "m3"}, {"m1"}) EXCEPT !.linked = {"m2"}, !.fail = 1],
  \* reactions
  [Base([m1 |-> Text("a", 1, "n1"), r2 |-> React("m1", 2, "x"), r3 |-> React("m1", 3, "none")],
        {"m1", "r2"}, {"m1", "r2", "r3"}) EXCEPT !.lose = 1],
  \* a stranger the user may add
  [Base([m1 |-> Text("z", 1, "n1"), m2 |-> Text("z", 2, "n2")], {"m1", "m2"}, {"m1"})
     EXCEPT !.linked = {"m2"}, !.live = BOOLEAN, !.adds = {"z"}, !.tells = {"z"}],
  \* ratchets, rotated and refused, with reloads
  [Base([m1 |-> Text("a", 1, "n1")], {"m1"}, {"m1"})
     EXCEPT !.rotate = 3, !.refuse = 1, !.reload = 1, !.fail = 1, !.lose = 1],
  \* pushed live as well, with older ratchets to try
  [Base([m1 |-> Text("a", 1, "n1"), m2 |-> Text("a", 2, "n2")], {}, {"m1", "m2"})
     EXCEPT !.live = {TRUE}, !.rotate = 2, !.reload = 1],
  \* a control message that came as direct mail
  [Base([m1 |-> Odd("control"), m2 |-> Text("a", 2, "n2")], {"m1", "m2"}, {"m1"})
     EXCEPT !.linked = {"m1"}, !.live = BOOLEAN, !.fail = 1],
  \* attachments, with a reload and a storage that refuses
  [Base([m1 |-> File("a", 1), m2 |-> File("a", 2), m3 |-> Text("a", 3, "n3")], {}, {})
     EXCEPT !.linked = {"m1", "m2", "m3"}, !.refuse = 1, !.reload = 1, !.opens = BOOLEAN],
  \* what is no message, or is refused whole
  [Base([m1 |-> Odd("bad"), m2 |-> Odd("refused")], {"m1", "m2"}, {"m1", "m2"})
     EXCEPT !.linked = {"m1"}, !.live = BOOLEAN, !.fail = 1]}
=============================================================================
