---------------------------- MODULE MCDiskFeeder ----------------------------
(***************************************************************************)
(* Instances of DiskFeeder.  Nothing here hides any of its state.          *)
(***************************************************************************)
EXTENDS DiskFeeder

World(blocks, list, writes, bay, ev) ==
  [blocks |-> blocks, list |-> list, writes |-> writes, changes |-> bay, events |-> ev]

\* Single blocks on a pack that stays; lists of two and a channel that is
\* stopped; and single blocks while the pack goes and comes back or is
\* protected, while the card fails and the pack goes, and while it fails and
\* the channel is stopped.
MCWorlds ==
  {World(3, 1, 2, 0, {}), World(2, 2, 1, 0, {"stop"}),
   World(2, 1, 1, 2, {"rename", "protect"}),
   World(2, 1, 1, 1, {"rename", "protect", "fail"}), World(2, 1, 1, 0, {"fail", "stop"})}

\* Lists of two blocks on a pack that stays.
MCChained == {World(3, 2, 2, 0, {})}
=============================================================================
