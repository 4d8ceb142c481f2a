----------------------------- MODULE MemoryPort -----------------------------
(***************************************************************************)
(* The DE25-Nano's one port into the processor's memory.  Several masters  *)
(* share it by burst (cadr_f2sdram_share.sv): port 0 the machine, which is *)
(* first, port 1 the disk pack side, port 2 the display.  A gate in front  *)
(* of it (cadr_f2sdram_gate.sv) shuts it, drains it and resets it.  Both   *)
(* machines' builds of the share are instances of this module: the CADR's, *)
(* with one write of the machine's in flight and an unbounded hold, and    *)
(* QUUX's, with posted writes and a bound on the hold.                     *)
(*                                                                         *)
(* One step is one tick of the clock.  Bits are 0 and 1, `none' is no      *)
(* port.  A master is what the share sees of it: the beats of the read it  *)
(* asks for (0: none), its write address and its write data, each up until *)
(* taken.  A write's data is one beat, its last.  The bridge is external:  *)
(* it takes what is presented, and owes beats and responses, when it will. *)
(* The synchronizers of the gate's three inputs are one stage.             *)
(***************************************************************************)
EXTENDS Integers, FiniteSets

CONSTANTS
    CAP,     \* the beats of reads one master may have in flight
    Worlds   \* the instances: [board, masters, M_WRITES, HOLD_WRITES,
             \*   HOLD_BOUND, reads: the lengths each port asks for,
             \*   writers: the ports that write (no display does), prompt: the bridge takes and
             \*   answers whenever it can, events: what may happen]

VARIABLES
    world,      \* the instance, chosen at the start
    rst, opened, pending, hps_rst,      \* the gate's inputs, synchronized
    drain, port_rst, ack_n, may_start,  \* the gate's registers
    ar_who, rd_beats,                   \* the share's reads (none: !ar_on)
    w_who, aw_done, w_done, wr_n,       \* its writes (none: !w_on)
    wait_n,                             \* its bound
    asks, aw_ask, w_ask, disp_rst,      \* the masters
    bridge_rst, owes_r, owes_w, late,   \* the bridge
    old         \* the adapter's transaction began before the fabric's reset

inputs  == <<world, rst, opened, pending, hps_rst>>
gate    == <<drain, port_rst, ack_n, may_start>>
share   == <<ar_who, rd_beats, w_who, aw_done, w_done, wr_n, wait_n>>
masters == <<asks, aw_ask, w_ask, disp_rst, old>>
bridge  == <<bridge_rst, owes_r, owes_w, late>>
vars    == <<inputs, gate, share, masters, bridge>>

none  == -1
Ports == 0..(world.masters - 1)
Bit   == {0, 1}
Zero  == [i \in Ports |-> 0]

ASSUME MemoryPortAssumption ==
    /\ CAP \in Nat \ {0}
    /\ \A w \in Worlds :
         /\ w.board = "cadr" \/ (w.board = "quux" /\ "rst" \notin w.events)
         /\ w.masters \in Nat \ {0}
         /\ w.M_WRITES \in Nat \ {0}
         /\ w.HOLD_WRITES \in Bit
         /\ w.HOLD_BOUND \in Nat
         /\ w.writers \subseteq {0, 1}
         /\ \A i \in 0..(w.masters - 1) : w.reads[i] \subseteq 1..CAP

-----------------------------------------------------------------------------
(* What the share works out of its registers, within the tick.             *)

hold == hps_rst = 1 \/ opened = 0 \/ pending = 1 \/ drain = 1

idle == ar_who = none /\ w_who = none /\ rd_beats = Zero /\ wr_n = Zero

\* The first port asking, lowest first.
first(asking) == CHOOSE i \in asking : \A j \in asking : i <= j

\* Mutant: the write between its address and its data forgotten.
machine_busy_forgets == \/ asks[0] > 0 \/ aw_ask[0] = 1
                        \/ rd_beats[0] > 0 \/ wr_n[0] > 0

machine_busy == \/ asks[0] > 0 \/ aw_ask[0] = 1
                \/ w_who = 0 \/ rd_beats[0] > 0 \/ wr_n[0] > 0

holding == IF world.HOLD_WRITES = 1 THEN machine_busy
           ELSE asks[0] > 0 \/ rd_beats[0] > 0

\* At the bound the machine yields; a bound of 0 is none.
yield == world.HOLD_BOUND > 0 /\ wait_n = world.HOLD_BOUND

\* Mutant: the machine does not yield.
eligible_unyielding == IF holding THEN {0} ELSE Ports

eligible == IF yield THEN Ports \ {0} ELSE IF holding THEN {0} ELSE Ports

\* Mutant: ARLEN taken for the number of beats.
ar_fits_arlen(i) == rd_beats[i] + asks[i] - 1 <= CAP

ar_fits(i) == rd_beats[i] + asks[i] <= CAP

wr_full(i) == wr_n[i] = IF i = 0 THEN world.M_WRITES ELSE 1

ar_can == {i \in eligible : asks[i] > 0 /\ ar_fits(i)}

aw_can == {i \in eligible : aw_ask[i] = 1 /\ ~wr_full(i)}

other_waits == \E i \in Ports \ {0} : \/ asks[i] > 0 /\ ar_fits(i)
                                      \/ aw_ask[i] = 1 /\ ~wr_full(i)

other_granted == ~hold /\ \/ ar_who = none /\ ar_can # {} /\ first(ar_can) # 0
                          \/ w_who = none /\ aw_can # {} /\ first(aw_can) # 0

-----------------------------------------------------------------------------
(* A tick.  take is what the bridge takes of what is presented, r the port *)
(* it sends a beat to and b the port it sends a response to.               *)

\* m_arvalid, m_awvalid and m_wvalid.
presented ==
    {c \in {"ar", "aw", "w"} :
        \/ c = "ar" /\ ar_who # none
        \/ c = "aw" /\ w_who # none /\ aw_done = 0
        \/ c = "w" /\ w_who # none /\ w_done = 0 /\ w_ask[w_who] = 1}

w_let_go(take) == /\ w_who # none
                  /\ aw_done = 1 \/ "aw" \in take
                  /\ w_done = 1 \/ "w" \in take

\* s_arready, s_awready, s_wready: what is taken is the granted master's.
s_arready(take, i) == ar_who = i /\ "ar" \in take
s_awready(take, i) == w_who = i /\ "aw" \in take
s_wready(take, i)  == w_who = i /\ "w" \in take

\* Mutants of the gate: the fabric's reset not held until the port's; the port
\* reset without a drain, and not reset by one; the request acknowledged as it
\* comes; the machine let go during the drain.
DrainUnheld    == drain' = rst
PortRstAtOnce  == port_rst' = IF hold THEN 1 ELSE 0
PortRstUndrained == port_rst' = IF hps_rst = 1 \/ ((opened = 0 \/ pending = 1) /\ idle)
                                THEN 1 ELSE 0
AckAtOnce      == ack_n' = IF rst = 0 /\ pending = 1 THEN 0 ELSE 1
MayStartEarly  == may_start' = IF rst = 1 THEN 0
                               ELSE IF port_rst = 0 THEN 1 ELSE may_start

\* The gate's registers.
Drain    == drain' = IF rst = 1 THEN 1 ELSE IF port_rst = 1 THEN 0 ELSE drain
PortRst  == port_rst' = IF hps_rst = 1 \/ (hold /\ idle) THEN 1 ELSE 0
Ack      == ack_n' = IF rst = 0 /\ pending = 1 /\ port_rst = 1 THEN 0 ELSE 1
MayStart == may_start' = IF rst = 1 \/ drain = 1 THEN 0
                         ELSE IF port_rst = 0 THEN 1 ELSE may_start
Gate     == Drain /\ PortRst /\ Ack /\ MayStart

\* The share's read address: granted, presented, taken; and its beats.
Reads(take, r) ==
    /\ ar_who' = IF port_rst = 1 \/ "ar" \in take THEN none
                 ELSE IF ar_who = none /\ ~hold /\ ar_can # {} THEN first(ar_can)
                 ELSE ar_who
    /\ rd_beats' = IF port_rst = 1 THEN Zero
                   ELSE [i \in Ports |-> rd_beats[i]
                            + (IF s_arready(take, i) THEN asks[i] ELSE 0)
                            - (IF r = i THEN 1 ELSE 0)]

\* Its write: granted, both halves presented together, let go; and the
\* responses it waits for.
Writes(take, b) ==
    LET grant == w_who = none /\ ~hold /\ aw_can # {} IN
    /\ w_who' = IF port_rst = 1 \/ w_let_go(take) THEN none
                ELSE IF grant THEN first(aw_can) ELSE w_who
    /\ aw_done' = IF port_rst = 1 \/ grant \/ w_let_go(take) THEN 0
                  ELSE IF "aw" \in take THEN 1 ELSE aw_done
    /\ w_done' = IF port_rst = 1 \/ grant \/ w_let_go(take) THEN 0
                 ELSE IF "w" \in take THEN 1 ELSE w_done
    /\ wr_n' = IF port_rst = 1 THEN Zero
               ELSE [i \in Ports |-> wr_n[i]
                        + (IF w_let_go(take) /\ w_who = i THEN 1 ELSE 0)
                        - (IF b = i THEN 1 ELSE 0)]

Bound ==
    wait_n' = IF world.HOLD_BOUND = 0 \/ port_rst = 1 \/ ~other_waits \/ other_granted THEN 0
              ELSE IF ~hold /\ ~yield THEN wait_n + 1 ELSE wait_n

\* The bridge takes and answers; the processor's reset drops what it owes.  A
\* prompt one lets nothing stand for more than a tick.
Bridge(take, r, b) ==
    /\ owes_r' = IF bridge_rst' = 1 THEN Zero
                 ELSE [i \in Ports |-> owes_r[i]
                          + (IF s_arready(take, i) THEN asks[i] ELSE 0)
                          - (IF r = i THEN 1 ELSE 0)]
    /\ owes_w' = IF bridge_rst' = 1 THEN Zero
                 ELSE [i \in Ports |-> owes_w[i]
                          + (IF w_let_go(take) /\ w_who = i THEN 1 ELSE 0)
                          - (IF b = i THEN 1 ELSE 0)]
    /\ late' = IF world.prompt = 0 \/ bridge_rst' = 1 THEN {}
               ELSE (presented \ take)
                    \union (IF r = none /\ owes_r # Zero THEN {"r"} ELSE {})
                    \union (IF b = none /\ owes_w # Zero THEN {"b"} ELSE {})

-----------------------------------------------------------------------------
(* The masters.                                                            *)

\* What resets each: the adapter is the port's and QUUX's machine the
\* processor's; the pack side is the processor's; the display's reset is the
\* port's, a tick later.
reset(i) == CASE i = 0 -> IF world.board = "cadr" THEN port_rst = 1 ELSE hps_rst = 1
              [] i = 1 -> hps_rst = 1
              [] OTHER -> disp_rst = 1

out(i) == rd_beats[i] + wr_n[i]

still(i) == asks[i] + aw_ask[i] + w_ask[i]

\* The CADR's adapter has one transaction at a time, the machine released.
\* QUUX's master has one fill, in one burst or in two behind one another, asks
\* for the next in the clock after the last beat, and posts writes beside it.
\* The pack side has one burst; the display one, or single beats together.
MayRead(take, r, i) ==
    CASE i = 0 /\ world.board = "cadr" -> may_start = 1 /\ still(0) = 0 /\ out(0) = 0
      [] i = 0 /\ world.board = "quux" ->
            \/ s_arready(take, 0) /\ rd_beats[0] = 0
            \/ asks[0] = 0 /\ rd_beats[0] = IF r = 0 THEN 1 ELSE 0
      [] i = 1 -> still(1) = 0 /\ out(1) = 0
      [] OTHER -> asks[i] = 0 \/ s_arready(take, i)

MayWrite(take, r, i) ==
    /\ i \in world.writers
    /\ IF i = 0 /\ world.board = "quux"
       THEN /\ aw_ask[0] = 0 \/ s_awready(take, 0)
            /\ w_ask[0] = 0 \/ s_wready(take, 0)
       ELSE MayRead(take, r, i)

\* A master's ask stands until it is taken or the master is reset.
Masters(take, r) ==
    LET read == [i \in Ports |-> IF reset(i) \/ s_arready(take, i) THEN 0 ELSE asks[i]] IN
    /\ asks' \in {f \in [Ports -> 0..CAP] : \A i \in Ports :
                     \/ f[i] = read[i]
                     \/ f[i] \in world.reads[i] /\ ~reset(i) /\ MayRead(take, r, i)}
    /\ \E new \in SUBSET {i \in Ports : ~reset(i) /\ MayWrite(take, r, i)} :
          /\ \A i \in new : asks'[i] = read[i] \/ (i = 0 /\ world.board = "quux")
          /\ aw_ask' = [i \in Ports |-> IF i \in new THEN 1
                          ELSE IF reset(i) \/ s_awready(take, i) THEN 0 ELSE aw_ask[i]]
          /\ w_ask' = [i \in Ports |-> IF i \in new THEN 1
                          ELSE IF reset(i) \/ s_wready(take, i) THEN 0 ELSE w_ask[i]]
    /\ disp_rst' = port_rst
    /\ old' = IF reset(0) \/ still(0) + out(0) = 0 THEN 0
              ELSE IF rst = 1 THEN 1 ELSE old

\* What the outside may do: the button, software's bit, the warm reset's
\* request, the processor's reset.  The processor's reset lasts until the port
\* is in reset, and so do a shut bit and a request, but for the event "quick".
Outside ==
    LET lasts == port_rst = 0 /\ "quick" \notin world.events IN
    /\ UNCHANGED world
    /\ rst' \in IF "rst" \in world.events THEN Bit ELSE {0}
    /\ opened' \in IF opened = 0 /\ lasts THEN {0}
                   ELSE IF "shut" \in world.events THEN Bit ELSE {1}
    /\ pending' \in IF pending = 1 /\ lasts THEN {1}
                    ELSE IF "warm" \in world.events THEN Bit ELSE {0}
    /\ bridge_rst' \in IF bridge_rst = 1
                       THEN IF hps_rst = 1 /\ port_rst = 1 THEN Bit ELSE {1}
                       ELSE IF hps_rst = 0 /\ "hps" \in world.events THEN Bit ELSE {0}
    /\ hps_rst' = bridge_rst

Clock(take, r, b) ==
    /\ Outside
    /\ Gate
    /\ Reads(take, r) /\ Writes(take, b) /\ Bound
    /\ Bridge(take, r, b)
    /\ Masters(take, r)

Sends(c, owes) == (IF c \in late THEN {} ELSE {none})
                  \union {i \in Ports : bridge_rst = 0 /\ owes[i] > 0}

Takes == IF bridge_rst = 1 THEN {{}}
         ELSE {take \in SUBSET presented : late \intersect presented \subseteq take}

Tick == \E take \in Takes, r \in Sends("r", owes_r), b \in Sends("b", owes_w) :
            Clock(take, r, b)

Init ==
    /\ world \in Worlds
    /\ rst = 1 /\ opened = 0 /\ pending = 0 /\ hps_rst = 0
    /\ drain = 0 /\ port_rst = 0 /\ ack_n = 1 /\ may_start = 0
    /\ ar_who = none /\ rd_beats = Zero
    /\ w_who = none /\ aw_done = 0 /\ w_done = 0 /\ wr_n = Zero /\ wait_n = 0
    /\ asks = Zero /\ aw_ask = Zero /\ w_ask = Zero /\ disp_rst = 0 /\ old = 0
    /\ bridge_rst = 0 /\ owes_r = Zero /\ owes_w = Zero /\ late = {}

Next == Tick

\* The clock runs.
Spec == Init /\ [][Next]_vars /\ WF_vars(Tick)

-----------------------------------------------------------------------------
(* The properties.                                                         *)

\* The share waits for exactly what the bridge owes: the drain and the resets
\* never leave an answer in the bridge that nobody waits for, nor a master
\* waiting for one that will not come (cadr_f2sdram_gate.sv: "SHUTTING THE
\* PORT DOES NOT CUT A TRANSACTION IN HALF").  In the processor's reset the
\* bridge is reset with it.
EveryAnswerAwaited == bridge_rst = 0 => rd_beats = owes_r /\ wr_n = owes_w

\* What is being put to the bridge is still asked by the master it was granted
\* to: no reset of a master withdraws a valid address or valid data.
GrantStands ==
    bridge_rst = 0 /\ hps_rst = 0 =>
        /\ ar_who # none => asks[ar_who] > 0
        /\ w_who # none => /\ aw_done = 1 - aw_ask[w_who]
                           /\ w_done = 1 - w_ask[w_who]

\* The warm reset is acknowledged only with nothing presented to the bridge,
\* nothing owed by it, and nothing that could be granted (TRM 8.7.4: "all
\* traffic ... is quiescent").
QuietWhenAcknowledged ==
    ack_n = 0 => presented = {} /\ owes_r = Zero /\ owes_w = Zero /\ port_rst = 1

\* The machine is not let go after the fabric's reset while its adapter still
\* has the transaction of before ("keeps a drained answer from reaching the
\* restarted machine").
NoOldAnswer == old = 1 => may_start = 0

\* No master ever has more than one burst's worth of beats in the bridge, and
\* no more writes than its counter is made for.
WithinCap == \A i \in Ports : /\ owes_r[i] <= CAP
                              /\ owes_w[i] <= IF i = 0 THEN world.M_WRITES ELSE 1

\* On the CADR no other master is granted anything from the tick the machine
\* asks to the tick its answer is back.
MachineFirst ==
    [][world.HOLD_WRITES = 1 /\ still(0) + owes_r[0] + owes_w[0] > 0 =>
           /\ ar_who' # ar_who => ar_who' \in {none, 0}
           /\ w_who' # w_who => w_who' \in {none, 0}]_vars

\* With a bridge that takes and answers, whatever holds the port (the drain
\* the fabric's reset starts, a shut bit, the warm reset's request) has it in
\* reset in the end: the gate does not wait for an idle that never comes.
Drains == world.prompt = 1 /\ hold ~> port_rst = 1

\* A master other than the machine that waits for what it may have is granted,
\* whatever the machine asks: on the CADR in the gap after each of the machine's
\* cycles, on QUUX, whose reads leave none, by the bound.
OthersServed ==
    world.prompt = 1 /\ other_waits ~> ar_who > 0 \/ w_who > 0 \/ hold \/ port_rst = 1
=============================================================================
