---------------------------- MODULE MCQuuxRings ----------------------------
(***************************************************************************)
(* Instances of QuuxRings for TLC: rings of one and two entries, the       *)
(* indexes of the first modulo 2, so that they wrap.                       *)
(***************************************************************************)
EXTENDS QuuxRings

World(k, cs, rs, m, ev) ==
    [kind |-> k, mod |-> IF cs = 1 THEN 2 ELSE 4, csize |-> cs, rsize |-> rs,
     most |-> m, events |-> ev]

MCWorlds ==
    {World("file", 2, 1, 1, {}), World("file", 1, 1, 1, {"reset", "stop"}),
     World("file", 1, 1, 1, {"kill"}),
     World("transmit", 2, 1, 2, {"reset"}), World("transmit", 1, 1, 1, {"kill", "stop"}),
     World("receive", 2, 2, 1, {}), World("receive", 1, 1, 1, {"reset", "kill"})}
=============================================================================
