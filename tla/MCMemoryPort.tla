---------------------------- MODULE MCMemoryPort ----------------------------
(***************************************************************************)
(* Instances of MemoryPort, one behind the other in a run.                 *)
(***************************************************************************)
EXTENDS MemoryPort, TLC

World(board, reads, writers, prompt, events) ==
    [board |-> board, masters |-> Cardinality(DOMAIN reads),
     M_WRITES |-> IF board = "cadr" THEN 1 ELSE 2,
     HOLD_WRITES |-> IF board = "cadr" THEN 1 ELSE 0,
     HOLD_BOUND |-> IF board = "cadr" THEN 0 ELSE 3,
     reads |-> reads, writers |-> writers, prompt |-> prompt, events |-> events]

Three(pack, display) == 0 :> {1} @@ 1 :> pack @@ 2 :> display

\* The two builds' traffic; the CADR's through the button and software's
\* bit, and through everything with a bridge that waits as it likes; QUUX's
\* through the warm reset's handshake and the processor's reset.
MCWorlds ==
    {World("cadr", Three({CAP}, {1, CAP}), {0, 1}, 1, {}),
     World("quux", Three({CAP}, {1}), {}, 1, {}),
     World("quux", Three({CAP}, {}), {0, 1}, 1, {}),
     World("cadr", Three({CAP}, {1}), {0}, 1, {"rst", "shut"}),
     World("cadr", Three({}, {1}), {0}, 0, {"rst", "shut", "warm", "hps"}),
     World("quux", Three({}, {1}), {0}, 1, {"warm", "hps"})}
=============================================================================
