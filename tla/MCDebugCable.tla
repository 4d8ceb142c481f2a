---------------------------- MODULE MCDebugCable ----------------------------
(***************************************************************************)
(* The debug cable with a frame of two beats and a gap, every interval of  *)
(* the connector in its own proportion to the frame, and both ribbons under *)
(* boards that look for the wiring and boards that are set.                 *)
(***************************************************************************)
EXTENDS DebugCable

pair(a, b) == [x \in Boards |-> IF x = 0 THEN a ELSE b]

World(r, w, c) == [ribbon |-> r, wiring |-> w, connect |-> c]

MCWorlds ==
    {World(r, pair("auto", "auto"), pair(1, 0)) : r \in Ways}
        \cup {World(r, pair("crossover", "auto"), pair(1, 0)) : r \in Ways}
        \cup {World("straight", pair("auto", "auto"), pair(1, 1)),
              World("crossover", pair("crossover", "auto"), pair(0, 1))}
=============================================================================
