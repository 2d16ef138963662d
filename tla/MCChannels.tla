----------------------------- MODULE MCChannels -----------------------------
EXTENDS Channels
World(distro, listed, posts, choices, faults, conns) ==
  [distro |-> distro, listed |-> listed, posts |-> posts, choices |-> choices,
   faults |-> faults, conns |-> conns]
MCWorlds == {World(TRUE, FALSE, 0, 0, 1, 1), World(TRUE, FALSE, 0, 0, 2, 0),
             World(FALSE, TRUE, 2, 0, 1, 1), World(FALSE, FALSE, 0, 3, 2, 0), World(FALSE, FALSE, 0, 3, 1, 1),
             World(TRUE, TRUE, 1, 0, 1, 0),
             World(FALSE, TRUE, 1, 2, 1, 0)}
=============================================================================
