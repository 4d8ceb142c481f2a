-------------------------- MODULE MemoryPortProofs --------------------------
(***************************************************************************)
(* What the DE25-Nano's memory port promises for every number of masters,  *)
(* every cap, every build of the share and every order of the button,      *)
(* software's bit, the warm reset and the processor's reset, with a bridge *)
(* that waits as long as it likes.  The first three theorems hold of quick *)
(* shut bits and requests too; the last three ask that they last until the *)
(* port is in reset, without which the first of them is false.             *)
(***************************************************************************)
EXTENDS MemoryPort, WellFoundedInduction, TLAPS

USE DEF Bit, none

LedgerType ==
    /\ world \in Worlds
    /\ bridge_rst \in Bit /\ hps_rst \in Bit /\ port_rst \in Bit
    /\ rd_beats \in [Ports -> Int] /\ wr_n \in [Ports -> Int]
    /\ owes_r \in [Ports -> Int] /\ owes_w \in [Ports -> Int]
    /\ asks \in [Ports -> 0..CAP]
    /\ aw_done \in Bit /\ w_done \in Bit

\* A write still held has a half to put to the bridge.
HalfLeft == w_who # none => aw_done = 0 \/ w_done = 0

\* The bridge in reset owes nothing; it leaves its reset only into a port in
\* reset; and a port in reset is idle but for the first tick of the
\* processor's.
QuietInReset ==
    /\ bridge_rst = 1 => owes_r = Zero /\ owes_w = Zero
    /\ hps_rst = 1 /\ bridge_rst = 0 => port_rst = 1
    /\ port_rst = 1 /\ (hps_rst = 0 \/ bridge_rst = 0) => idle

LedgerInv == LedgerType /\ HalfLeft /\ EveryAnswerAwaited /\ QuietInReset

\* What every board has: masters, the machine first among them, and room.
LEMMA WorldFacts ==
  ASSUME world \in Worlds
  PROVE  /\ CAP \in Nat /\ CAP > 0
         /\ Ports \subseteq Nat /\ 0 \in Ports /\ none \notin Ports
         /\ world.M_WRITES \in Nat /\ world.M_WRITES > 0
         /\ world.writers \subseteq {0, 1}
         /\ world.board = "cadr" \/ (world.board = "quux" /\ "rst" \notin world.events)
<1>1. CAP \in Nat \ {0} /\ world.masters \in Nat \ {0} /\ world.M_WRITES \in Nat \ {0}
  BY MemoryPortAssumption, Zenon DEF MemoryPortAssumption
<1>2. /\ world.writers \subseteq {0, 1}
      /\ world.board = "cadr" \/ (world.board = "quux" /\ "rst" \notin world.events)
  BY MemoryPortAssumption, Zenon DEF MemoryPortAssumption
<1> QED
  BY <1>1, <1>2 DEF Ports

LEMMA LedgerInit == Init => LedgerInv
<1> SUFFICES ASSUME Init PROVE LedgerInv
  OBVIOUS
<1>1. CAP \in Nat
  BY WorldFacts DEF Init
<1>2. LedgerType
  BY <1>1 DEF Init, LedgerType, Zero
<1> QED
  BY <1>2 DEF Init, LedgerInv, HalfLeft, EveryAnswerAwaited, QuietInReset, idle

\* A tick keeps the types of the two ledgers.
LEMMA LedgerTypeStep ==
  ASSUME LedgerInv, Tick
  PROVE  LedgerType' /\ Ports' = Ports /\ Zero' = Zero
<1> PICK take \in Takes, r \in Sends("r", owes_r), b \in Sends("b", owes_w) : Clock(take, r, b)
  BY DEF Tick
<1>1. world' = world /\ Ports' = Ports /\ Zero' = Zero
  BY DEF Clock, Outside, Ports, Zero
<1>2. bridge_rst' \in Bit /\ hps_rst' \in Bit /\ port_rst' \in Bit
  BY DEF Clock, Outside, Gate, PortRst, LedgerInv, LedgerType
<1>3. asks' \in [Ports -> 0..CAP]
  BY DEF Clock, Masters
<1>4. rd_beats' \in [Ports -> Int] /\ wr_n' \in [Ports -> Int]
  BY DEF Clock, Reads, Writes, LedgerInv, LedgerType, Zero
<1>5. owes_r' \in [Ports -> Int] /\ owes_w' \in [Ports -> Int]
  BY <1>1 DEF Clock, Bridge, LedgerInv, LedgerType, Zero
<1>6. aw_done' \in Bit /\ w_done' \in Bit
  BY DEF Clock, Writes, LedgerInv, LedgerType
<1> QED
  BY <1>1, <1>2, <1>3, <1>4, <1>5, <1>6 DEF LedgerInv, LedgerType

\* Nothing is taken and nothing answered of a bridge in reset, nor of an idle
\* port; and an idle port under the gate's hold stays idle.
LEMMA NothingMoves ==
  ASSUME LedgerInv,
         NEW take \in Takes, NEW r \in Sends("r", owes_r), NEW b \in Sends("b", owes_w),
         bridge_rst = 1 \/ idle
  PROVE  take = {} /\ r = none /\ b = none
<1>1. take = {}
  BY DEF Takes, presented, idle
<1>2. bridge_rst = 0 => owes_r = Zero /\ owes_w = Zero
  BY DEF LedgerInv, EveryAnswerAwaited, LedgerType, idle
<1>3. \A i \in Ports : ~(bridge_rst = 0 /\ owes_r[i] > 0) /\ ~(bridge_rst = 0 /\ owes_w[i] > 0)
  BY <1>2 DEF Zero
<1> QED
  BY <1>1, <1>3 DEF Sends

LEMMA LedgerStep ==
  ASSUME LedgerInv, Tick
  PROVE  LedgerInv'
<1> PICK take \in Takes, r \in Sends("r", owes_r), b \in Sends("b", owes_w) : Clock(take, r, b)
  BY DEF Tick
<1>1. LedgerType' /\ Ports' = Ports /\ Zero' = Zero
  BY LedgerTypeStep
<1> USE DEF LedgerInv, LedgerType
<1>2. bridge_rst' = 1 => owes_r' = Zero /\ owes_w' = Zero
  BY DEF Clock, Bridge
<1>3. hps_rst' = 1 /\ bridge_rst' = 0 => port_rst' = 1
  BY DEF Clock, Outside, Gate, PortRst
<1>4. ASSUME port_rst = 1
      PROVE  ar_who' = none /\ w_who' = none /\ rd_beats' = Zero /\ wr_n' = Zero
  BY <1>4 DEF Clock, Reads, Writes
<1>5. ASSUME hold, idle, port_rst # 1
      PROVE  ar_who' = none /\ w_who' = none /\ rd_beats' = Zero /\ wr_n' = Zero
  <2>1. take = {} /\ r = none /\ b = none
    BY <1>5, NothingMoves
  <2>2. ~w_let_go(take) /\ \A i \in Ports : r # i /\ b # i /\ ~s_arready(take, i)
    BY <1>5, <2>1 DEF w_let_go, s_arready, idle, Ports
  <2>3. ar_who' = none /\ w_who' = none
    BY <1>5, <2>1, <2>2 DEF Clock, Reads, Writes, idle
  <2>4. rd_beats' = Zero /\ wr_n' = Zero
    BY <1>5, <2>2 DEF Clock, Reads, Writes, idle, Zero
  <2> QED
    BY <2>3, <2>4
<1>6. port_rst' = 1 /\ (hps_rst' = 0 \/ bridge_rst' = 0) => idle'
  <2> SUFFICES ASSUME port_rst' = 1, hps_rst' = 0 \/ bridge_rst' = 0 PROVE idle'
    OBVIOUS
  <2>1. port_rst = 1 \/ (hold /\ idle)
    <3>1. hps_rst = 1 \/ (hold /\ idle)
      BY DEF Clock, Gate, PortRst
    <3>2. hps_rst = 1 => port_rst = 1
      BY DEF Clock, Outside, QuietInReset
    <3> QED
      BY <3>1, <3>2
  <2> QED
    BY <1>1, <1>4, <1>5, <2>1 DEF idle
<1>7. bridge_rst' = 0 => rd_beats' = owes_r' /\ wr_n' = owes_w'
  <2> SUFFICES ASSUME bridge_rst' = 0 PROVE rd_beats' = owes_r' /\ wr_n' = owes_w'
    OBVIOUS
  <2>1. CASE port_rst = 1
    <3>1. bridge_rst = 1 \/ idle
      BY <2>1 DEF QuietInReset
    <3>2. take = {} /\ r = none /\ b = none
      BY <3>1, NothingMoves
    <3>3. owes_r = Zero /\ owes_w = Zero
      BY <3>1 DEF QuietInReset, EveryAnswerAwaited, idle
    <3>4. ~w_let_go(take)
      BY <3>2 DEF HalfLeft, w_let_go
    <3>5. \A i \in Ports : r # i /\ b # i /\ ~s_arready(take, i)
      BY <3>2 DEF s_arready, Ports
    <3>6. owes_r' = Zero
      BY <1>1, <3>3, <3>5 DEF Clock, Bridge, Zero
    <3>7. owes_w' = Zero
      BY <1>1, <3>3, <3>4, <3>5 DEF Clock, Bridge, Zero
    <3> QED
      BY <1>4, <2>1, <3>6, <3>7
  <2>2. CASE port_rst # 1
    <3>1. bridge_rst = 0
      BY <2>2 DEF Clock, Outside
    <3> QED
      BY <1>1, <2>2, <3>1 DEF EveryAnswerAwaited, Clock, Reads, Writes, Bridge
  <2> QED
    BY <2>1, <2>2
<1>8. HalfLeft'
  BY DEF HalfLeft, Clock, Writes, w_let_go, aw_can, eligible, first
<1> QED
  BY <1>1, <1>2, <1>3, <1>6, <1>7, <1>8 DEF EveryAnswerAwaited, QuietInReset

LEMMA LedgerAlways == Spec => []LedgerInv
<1>1. LedgerInv /\ UNCHANGED vars => LedgerInv'
  BY DEF LedgerInv, LedgerType, HalfLeft, EveryAnswerAwaited, QuietInReset, vars, inputs, gate,
         share, masters, bridge, Ports, Zero, idle
<1> QED
  BY LedgerInit, LedgerStep, <1>1, PTL DEF Spec, Next

\* The share waits for exactly what the bridge owes (cadr_f2sdram_share.sv's
\* counters against the bridge's own), whatever resets the port and when.
THEOREM AlwaysAwaited == Spec => []EveryAnswerAwaited
<1>1. LedgerInv => EveryAnswerAwaited
  BY DEF LedgerInv
<1> QED
  BY LedgerAlways, <1>1, PTL

\* An acknowledged port is in its reset and holds nothing to put to the bridge.
AckInv ==
    /\ ack_n \in Bit
    /\ ack_n = 0 => /\ port_rst = 1 /\ ar_who = none /\ w_who = none
                    /\ owes_r = Zero /\ owes_w = Zero

\* The warm reset is acknowledged only of a quiet port (cadr_f2sdram_gate.sv's
\* ack_n), with the reset's request, software's bit, the button and the
\* processor's reset in any order.
THEOREM AcknowledgedQuiet == Spec => []QuietWhenAcknowledged
<1>1. Init => AckInv
  BY DEF Init, AckInv
<1>2. LedgerInv /\ LedgerInv' /\ AckInv /\ Tick => AckInv'
  <2> SUFFICES ASSUME LedgerInv, LedgerInv', AckInv, Tick PROVE AckInv'
    OBVIOUS
  <2> PICK take \in Takes, r \in Sends("r", owes_r), b \in Sends("b", owes_w) : Clock(take, r, b)
    BY DEF Tick
  <2>1. ack_n' \in Bit
    BY DEF Clock, Gate, Ack
  <2>2. Zero' = Zero
    BY DEF Clock, Outside, Zero, Ports
  <2> SUFFICES ASSUME ack_n' = 0
               PROVE  /\ port_rst' = 1 /\ ar_who' = none /\ w_who' = none
                      /\ owes_r' = Zero /\ owes_w' = Zero
    BY <2>1, <2>2 DEF AckInv
  <2>3. pending = 1 /\ port_rst = 1
    BY DEF Clock, Gate, Ack
  <2>4. ar_who' = none /\ w_who' = none /\ rd_beats' = Zero /\ wr_n' = Zero
    BY <2>3 DEF Clock, Reads, Writes
  <2>5. port_rst' = 1
    BY <2>3 DEF Clock, Gate, PortRst, hold, LedgerInv, LedgerType, QuietInReset
  <2>6. owes_r' = Zero /\ owes_w' = Zero
    BY <2>2, <2>4 DEF LedgerInv, LedgerType, QuietInReset, EveryAnswerAwaited
  <2> QED
    BY <2>4, <2>5, <2>6
<1>3. AckInv /\ UNCHANGED vars => AckInv'
  BY DEF AckInv, vars, inputs, gate, share, bridge, Zero, Ports
<1>4. AckInv => QuietWhenAcknowledged
  BY DEF AckInv, QuietWhenAcknowledged, presented
<1> QED
  BY <1>1, <1>2, <1>3, <1>4, LedgerAlways, PTL DEF Spec, Next

\* A transaction older than the fabric's reset is the CADR's adapter's, and
\* the drain the reset started is not over.
OldInv ==
    /\ world \in Worlds
    /\ old = 1 => drain = 1 /\ may_start = 0 /\ world.board = "cadr"
    /\ world.board = "quux" /\ rst = 1 => still(0) + out(0) = 0

\* The machine is not let go with a transaction of before the fabric's reset
\* in its adapter (cadr_f2sdram_gate.sv's may_start and drain).
THEOREM NeverOldAnswer == Spec => []NoOldAnswer
<1>1. Init => OldInv
  <2> SUFFICES ASSUME Init PROVE OldInv
    OBVIOUS
  <2>1. 0 \in Ports
    BY WorldFacts DEF Init
  <2> QED
    BY <2>1 DEF Init, OldInv, still, out, Zero
<1>2. OldInv /\ Tick => OldInv'
  <2> SUFFICES ASSUME OldInv, Tick PROVE OldInv'
    OBVIOUS
  <2> PICK take \in Takes, r \in Sends("r", owes_r), b \in Sends("b", owes_w) : Clock(take, r, b)
    BY DEF Tick
  <2>1. world' = world
    BY DEF Clock, Outside
  <2>0. world \in Worlds /\ (world.board = "cadr" \/ (world.board = "quux" /\ "rst" \notin world.events))
    BY WorldFacts DEF OldInv
  <2>2. ASSUME world.board = "quux" PROVE rst' = 0 /\ old' # 1
    <3>1. rst' = 0
      BY <2>0, <2>2 DEF Clock, Outside
    <3>2. old # 1 /\ (rst = 1 => still(0) + out(0) = 0)
      BY <2>2 DEF OldInv
    <3> QED
      BY <3>1, <3>2 DEF Clock, Masters
  <2>3. old' = 1 => drain' = 1 /\ may_start' = 0
    BY <2>2 DEF OldInv, Clock, Masters, reset, Gate, Drain, MayStart
  <2> QED
    BY <2>0, <2>1, <2>2, <2>3 DEF OldInv
<1>3. OldInv /\ UNCHANGED vars => OldInv'
  BY DEF OldInv, vars, inputs, gate, share, masters, still, out
<1>4. OldInv => NoOldAnswer
  BY DEF OldInv, NoOldAnswer
<1> QED
  BY <1>1, <1>2, <1>3, <1>4, PTL DEF Spec, Next

-----------------------------------------------------------------------------
(* What is granted.  A shut bit and a warm reset's request last until the   *)
(* port is in reset: no instance has the event "quick".                    *)

Lasting == \A w \in Worlds : "quick" \notin w.events

\* The priority encoder grants a port that asks.
LEMMA FirstAsks ==
  ASSUME NEW S \in SUBSET Nat, S # {}
  PROVE  first(S) \in S
<1>1. ASSUME NEW x \in Nat, NEW y \in Nat, y < x  PROVE <<y, x>> \in OpToRel(<, Nat)
  BY <1>1 DEF OpToRel
<1>2. \E x \in S : \A y \in S : ~(<<y, x>> \in OpToRel(<, Nat))
  BY NatLessThanWellFounded, WFMin
<1>3. \E x \in S : \A y \in S : ~(y < x)
  BY <1>1, <1>2, Zenon
<1>4. \E x \in S : \A y \in S : x <= y
  BY <1>3
<1> QED
  BY <1>4 DEF first

GrantType ==
    /\ disp_rst \in Bit /\ drain \in Bit /\ opened \in Bit /\ pending \in Bit
    /\ ar_who \in Ports \union {none} /\ w_who \in Ports \union {none}
    /\ aw_ask \in [Ports -> Bit] /\ w_ask \in [Ports -> Bit]

\* The port's reset lasts two ticks at the least, so the display, reset a tick
\* behind it, asks for nothing as the port comes out.
LastsInv ==
    /\ port_rst = 1 /\ disp_rst = 0 => hps_rst = 1 \/ (hold /\ idle)
    /\ disp_rst = 1 /\ port_rst = 0 => \A i \in Ports \ {0, 1} : asks[i] = 0

\* A write's address and its data are asked for together until it is granted.
PairInv ==
    \A i \in Ports : /\ w_who # i => aw_ask[i] = w_ask[i]
                     /\ i \notin {0, 1} => aw_ask[i] = 0 /\ w_ask[i] = 0

\* A grant is within the cap with the beats and responses already waited for.
CapInv ==
    bridge_rst = 0 => \A i \in Ports :
        /\ rd_beats[i] <= CAP
        /\ ar_who = i => rd_beats[i] + asks[i] <= CAP
        /\ wr_n[i] + (IF w_who = i THEN 1 ELSE 0) <= IF i = 0 THEN world.M_WRITES ELSE 1

GrantInv == GrantType /\ LastsInv /\ PairInv /\ GrantStands /\ CapInv

LEMMA GrantInit == Init => GrantInv
<1> SUFFICES ASSUME Init PROVE GrantInv
  OBVIOUS
<1> USE DEF Init, Zero
<1>1. /\ world \in Worlds /\ Ports \subseteq Nat /\ CAP \in Nat /\ none \notin Ports
      /\ world.M_WRITES \in Nat
  BY WorldFacts
<1>2. GrantType /\ LastsInv /\ PairInv /\ GrantStands
  BY <1>1 DEF GrantType, LastsInv, PairInv, GrantStands
<1>3. CapInv
  BY <1>1 DEF CapInv
<1> QED
  BY <1>2, <1>3 DEF GrantInv

\* Only a port that asks and has room is granted.
LEMMA GrantedAsks ==
  ASSUME LedgerInv, GrantInv
  PROVE  /\ Ports \subseteq Nat
         /\ ar_can # {} => /\ first(ar_can) \in Ports /\ asks[first(ar_can)] > 0
                           /\ rd_beats[first(ar_can)] + asks[first(ar_can)] <= CAP
         /\ aw_can # {} => /\ first(aw_can) \in Ports /\ aw_ask[first(aw_can)] = 1
                           /\ ~wr_full(first(aw_can))
<1>1. Ports \subseteq Nat
  BY WorldFacts DEF LedgerInv, LedgerType
<1>2. 0 \in Ports
  BY WorldFacts DEF LedgerInv, LedgerType
<1>3. eligible \subseteq Ports
  BY <1>2 DEF eligible
<1>4. ar_can \in SUBSET Nat /\ aw_can \in SUBSET Nat
  BY <1>1, <1>3 DEF ar_can, aw_can
<1>5. ar_can # {} => first(ar_can) \in ar_can
  BY <1>4, FirstAsks
<1>6. aw_can # {} => first(aw_can) \in aw_can
  BY <1>4, FirstAsks
<1> QED
  BY <1>1, <1>3, <1>5, <1>6 DEF ar_can, aw_can, ar_fits

\* A tick keeps the types of the grants and the asks.
LEMMA GrantTypeStep ==
  ASSUME LedgerInv, GrantInv, Tick
  PROVE  GrantType'
<1> PICK take \in Takes, r \in Sends("r", owes_r), b \in Sends("b", owes_w) : Clock(take, r, b)
  BY DEF Tick
<1>1. Ports' = Ports
  BY LedgerTypeStep
<1>2. disp_rst' \in Bit /\ drain' \in Bit /\ opened' \in Bit /\ pending' \in Bit
  BY DEF Clock, Masters, Gate, Drain, Outside, GrantInv, GrantType, LedgerInv, LedgerType
<1>3. ar_who' \in Ports \union {none} /\ w_who' \in Ports \union {none}
  BY GrantedAsks DEF Clock, Reads, Writes, GrantInv, GrantType
<1>4. aw_ask' \in [Ports -> Bit] /\ w_ask' \in [Ports -> Bit]
  BY DEF Clock, Masters, GrantInv, GrantType
<1> QED
  BY <1>1, <1>2, <1>3, <1>4 DEF GrantType

\* What put the port in reset is still there a tick later, so the display is
\* reset before the port works again.
LEMMA LastsStep ==
  ASSUME Lasting, LedgerInv, LedgerInv', GrantInv, Tick
  PROVE  LastsInv'
<1> PICK take \in Takes, r \in Sends("r", owes_r), b \in Sends("b", owes_w) : Clock(take, r, b)
  BY DEF Tick
<1>1. Ports' = Ports /\ world \in Worlds
  BY LedgerTypeStep DEF LedgerInv, LedgerType
<1>2. ASSUME port_rst' = 1, disp_rst' = 0  PROVE hps_rst' = 1 \/ (hold' /\ idle')
  <2>1. port_rst = 0 /\ (hps_rst = 1 \/ (hold /\ idle))
    BY <1>2 DEF Clock, Masters, Gate, PortRst, LedgerInv, LedgerType
  <2>2. CASE hps_rst = 1
    BY <2>1, <2>2 DEF Clock, Outside, LedgerInv, LedgerType, QuietInReset
  <2>3. CASE hps_rst = 0
    <3>1. opened = 0 \/ pending = 1 \/ drain = 1
      BY <2>1, <2>3 DEF hold
    <3>2. opened' = 0 \/ pending' = 1 \/ drain' = 1
      BY <1>1, <2>1, <3>1 DEF Lasting, Clock, Outside, Gate, Drain, GrantInv, GrantType
    <3>3. hps_rst' = 0 => idle'
      BY <1>2 DEF LedgerInv, QuietInReset
    <3>4. hps_rst' \in Bit
      BY DEF LedgerInv, LedgerType
    <3> QED
      BY <3>2, <3>3, <3>4 DEF hold
  <2> QED
    BY <2>2, <2>3 DEF LedgerInv, LedgerType
<1>3. ASSUME disp_rst' = 1, port_rst' = 0, NEW i \in Ports \ {0, 1}  PROVE asks'[i] = 0
  <2>1. port_rst = 1 /\ ~(hps_rst = 1 \/ (hold /\ idle))
    <3>1. port_rst = 1
      BY <1>3 DEF Clock, Masters
    <3> QED
      BY <1>3, <3>1 DEF Clock, Gate, PortRst
  <2>2. disp_rst = 1
    BY <2>1 DEF GrantInv, GrantType, LastsInv
  <2>3. reset(i)
    BY <2>2 DEF reset
  <2> QED
    BY <2>3 DEF Clock, Masters
<1> QED
  BY <1>1, <1>2, <1>3 DEF LastsInv

\* Neither the bridge, nor the processor, nor the port is in reset.
Working == bridge_rst = 0 /\ hps_rst = 0 /\ port_rst = 0

\* No master with something asked is reset while the port works.
LEMMA AskerRuns ==
  ASSUME LedgerInv, GrantInv, Working, NEW i \in Ports,
         asks[i] > 0 \/ aw_ask[i] = 1 \/ w_ask[i] = 1
  PROVE  ~reset(i)
<1>1. CASE i \in {0, 1}
  BY <1>1 DEF reset, Working
<1>2. CASE i \notin {0, 1}
  <2>1. disp_rst # 1
    BY <1>2 DEF GrantInv, LastsInv, PairInv, Working
  <2> QED
    BY <1>2, <2>1 DEF reset
<1> QED
  BY <1>1, <1>2

\* A read asked for stands until it is taken.
LEMMA AskStands ==
  ASSUME LedgerInv, GrantInv, Working, NEW i \in Ports, asks[i] > 0,
         NEW take, NEW r, Masters(take, r), ~s_arready(take, i)
  PROVE  asks'[i] = asks[i]
<1>1. ~reset(i)
  BY AskerRuns
<1>2. still(i) > 0
  BY DEF still, LedgerInv, LedgerType, GrantInv, GrantType
<1>3. ~MayRead(take, r, i)
  BY <1>2 DEF MayRead
<1> QED
  BY <1>1, <1>3 DEF Masters

\* A write granted and not let go is not asked again.
LEMMA WriteStands ==
  ASSUME LedgerInv, GrantInv, Working, NEW i \in Ports, w_who = i,
         NEW take, NEW r, Masters(take, r), ~w_let_go(take)
  PROVE  /\ aw_ask'[i] = IF "aw" \in take THEN 0 ELSE aw_ask[i]
         /\ w_ask'[i] = IF "w" \in take THEN 0 ELSE w_ask[i]
<1>0. i # none /\ world.writers \subseteq {0, 1} /\ world.board \in {"cadr", "quux"}
  BY WorldFacts DEF LedgerInv, LedgerType
<1>1. /\ aw_done = 1 - aw_ask[i] /\ w_done = 1 - w_ask[i]
      /\ aw_ask[i] \in Bit /\ w_ask[i] \in Bit
  BY <1>0 DEF GrantInv, GrantStands, GrantType, Working
<1>2. aw_ask[i] = 1 \/ w_ask[i] = 1
  BY <1>0, <1>1 DEF LedgerInv, LedgerType, HalfLeft
<1>3. ~reset(i)
  BY <1>2, AskerRuns
<1>4. still(i) > 0
  BY <1>1, <1>2 DEF still, LedgerInv, LedgerType
<1>5. ~MayWrite(take, r, i)
  <2>1. i \in world.writers => i \in {0, 1}
    BY <1>0
  <2>2. CASE i = 0 /\ world.board = "quux"
    <3>1. ~((aw_ask[0] = 0 \/ "aw" \in take) /\ (w_ask[0] = 0 \/ "w" \in take))
      BY <1>0, <1>1, <2>2 DEF w_let_go
    <3> QED
      BY <2>2, <3>1 DEF MayWrite, s_awready, s_wready
  <2>3. CASE i = 0 /\ world.board = "cadr"
    BY <1>4, <2>3 DEF MayWrite, MayRead
  <2>4. CASE i = 1
    BY <1>4, <2>4 DEF MayWrite, MayRead
  <2>5. CASE i \notin {0, 1}
    BY <2>1, <2>5 DEF MayWrite
  <2> QED
    BY <1>0, <2>2, <2>3, <2>4, <2>5
<1> QED
  BY <1>3, <1>5 DEF Masters, s_awready, s_wready

\* A write let go has neither half left, and a reset master asks for neither.
LEMMA PairStep ==
  ASSUME LedgerInv, GrantInv, Tick
  PROVE  PairInv'
<1> PICK take \in Takes, r \in Sends("r", owes_r), b \in Sends("b", owes_w) : Clock(take, r, b)
  BY DEF Tick
<1>1. Ports' = Ports /\ world.writers \subseteq {0, 1} /\ none \notin Ports
  BY LedgerTypeStep, WorldFacts DEF LedgerInv, LedgerType
<1> SUFFICES ASSUME NEW i \in Ports
             PROVE  /\ w_who' # i => aw_ask'[i] = w_ask'[i]
                    /\ i \notin {0, 1} => aw_ask'[i] = 0 /\ w_ask'[i] = 0
  BY <1>1 DEF PairInv
<1>2. PICK new \in SUBSET {k \in Ports : ~reset(k) /\ MayWrite(take, r, k)} :
          /\ aw_ask'[i] = IF i \in new THEN 1
                          ELSE IF reset(i) \/ s_awready(take, i) THEN 0 ELSE aw_ask[i]
          /\ w_ask'[i] = IF i \in new THEN 1
                         ELSE IF reset(i) \/ s_wready(take, i) THEN 0 ELSE w_ask[i]
  BY DEF Clock, Masters
<1>3. ASSUME i \notin {0, 1}  PROVE aw_ask'[i] = 0 /\ w_ask'[i] = 0
  <2>1. i \notin new
    BY <1>1, <1>3 DEF MayWrite
  <2> QED
    BY <1>2, <1>3, <2>1 DEF GrantInv, PairInv
<1>4. CASE i \in new \/ reset(i) \/ i \notin {0, 1}
  BY <1>2, <1>3, <1>4
<1>5. CASE w_who # i
  BY <1>2, <1>3, <1>5 DEF GrantInv, PairInv, s_awready, s_wready
<1>6. CASE i \notin new /\ ~reset(i) /\ i \in {0, 1} /\ w_who = i
  <2>1. port_rst = 0
    <3> SUFFICES ASSUME port_rst = 1 PROVE FALSE
      BY DEF LedgerInv, LedgerType
    <3>1. hps_rst = 1
      BY <1>1, <1>6 DEF LedgerInv, LedgerType, QuietInReset, idle
    <3> QED
      BY <1>1, <1>6, <3>1 DEF reset
  <2>2. CASE ~w_let_go(take)
    <3>0. w_who # none /\ Writes(take, b)
      BY <1>1, <1>6 DEF Clock
    <3>1. w_who' = w_who
      BY <2>1, <2>2, <3>0 DEF Writes
    <3> QED
      BY <1>3, <1>6, <3>1
  <2>3. CASE w_let_go(take)
    <3>1. bridge_rst = 0
      BY <2>3, NothingMoves DEF LedgerInv, LedgerType, HalfLeft, w_let_go
    <3>2. hps_rst = 0
      BY <2>1, <3>1 DEF LedgerInv, LedgerType, QuietInReset
    <3>3. ("aw" \in take \/ aw_ask[i] = 0) /\ ("w" \in take \/ w_ask[i] = 0)
      BY <1>1, <1>6, <2>3, <3>1, <3>2 DEF w_let_go, GrantInv, GrantStands, GrantType
    <3> QED
      BY <1>2, <1>6, <3>3 DEF s_awready, s_wready
  <2> QED
    BY <2>2, <2>3
<1> QED
  BY <1>3, <1>4, <1>5, <1>6

\* A new grant is of a master that asks, and a standing one's ask stands.
LEMMA StandsStep ==
  ASSUME LedgerInv, GrantInv, Tick
  PROVE  GrantStands'
<1> PICK take \in Takes, r \in Sends("r", owes_r), b \in Sends("b", owes_w) : Clock(take, r, b)
  BY DEF Tick
<1> SUFFICES ASSUME bridge_rst' = 0
             PROVE  /\ ar_who' # none => asks'[ar_who'] > 0
                    /\ w_who' # none => /\ aw_done' = 1 - aw_ask'[w_who']
                                        /\ w_done' = 1 - w_ask'[w_who']
  BY DEF GrantStands
<1>1. CASE port_rst = 1
  BY <1>1 DEF Clock, Reads, Writes
<1>2. CASE port_rst = 0
  <2>1. Working
    BY <1>2 DEF Working, Clock, Outside, LedgerInv, LedgerType, QuietInReset
  <2>2. none \notin Ports
    BY WorldFacts DEF LedgerInv, LedgerType
  <2>3. ASSUME ar_who' # none PROVE asks'[ar_who'] > 0
    <3>1. CASE ar_who = none
      <4>1. ar_who' = first(ar_can) /\ ar_can # {}
        BY <2>3, <3>1, <1>2 DEF Clock, Reads
      <4>2. PICK i \in Ports : i = ar_who' /\ asks[i] > 0
        BY <4>1, GrantedAsks
      <4>3. asks'[i] = asks[i]
        BY <2>1, <2>2, <3>1, <4>2, AskStands DEF Clock, s_arready
      <4> QED
        BY <4>2, <4>3
    <3>2. CASE ar_who # none
      <4>1. ar_who' = ar_who /\ "ar" \notin take
        BY <2>3, <3>2, <1>2 DEF Clock, Reads
      <4>2. PICK i \in Ports : i = ar_who /\ asks[i] > 0
        BY <2>1, <3>2 DEF GrantInv, GrantType, GrantStands, Working
      <4>3. asks'[i] = asks[i]
        BY <2>1, <4>1, <4>2, AskStands DEF Clock, s_arready
      <4> QED
        BY <4>1, <4>2, <4>3
    <3> QED
      BY <3>1, <3>2
  <2>4. ASSUME w_who' # none
        PROVE  aw_done' = 1 - aw_ask'[w_who'] /\ w_done' = 1 - w_ask'[w_who']
    <3>1. CASE w_who = none
      <4>1. /\ w_who' = first(aw_can) /\ aw_can # {}
            /\ aw_done' = 0 /\ w_done' = 0
        BY <2>4, <3>1, <1>2 DEF Clock, Writes
      <4>2. PICK i \in Ports : i = w_who' /\ aw_ask[i] = 1
        BY <4>1, GrantedAsks
      <4>3. w_ask[i] = 1
        BY <2>2, <3>1, <4>2 DEF GrantInv, PairInv
      <4>4. ~reset(i)
        BY <2>1, <4>2, AskerRuns
      <4>5. aw_ask'[i] = 1 /\ w_ask'[i] = 1
        BY <2>2, <3>1, <4>2, <4>3, <4>4 DEF Clock, Masters, s_awready, s_wready
      <4> QED
        BY <4>1, <4>2, <4>5
    <3>2. CASE w_who # none
      <4>1. PICK i \in Ports : i = w_who /\ aw_done = 1 - aw_ask[i] /\ w_done = 1 - w_ask[i]
        BY <2>1, <3>2 DEF GrantInv, GrantType, GrantStands, Working
      <4>2. /\ w_who' = i /\ ~w_let_go(take)
            /\ aw_done' = IF "aw" \in take THEN 1 ELSE aw_done
            /\ w_done' = IF "w" \in take THEN 1 ELSE w_done
        BY <2>4, <3>2, <1>2, <4>1 DEF Clock, Writes
      <4>3. /\ aw_ask'[i] = IF "aw" \in take THEN 0 ELSE aw_ask[i]
            /\ w_ask'[i] = IF "w" \in take THEN 0 ELSE w_ask[i]
        BY <2>1, <4>1, <4>2, WriteStands DEF Clock
      <4>4. aw_done' = 1 - aw_ask'[i]
        BY <4>1, <4>2, <4>3
      <4>5. w_done' = 1 - w_ask'[i]
        BY <4>1, <4>2, <4>3
      <4> QED
        BY <4>2, <4>4, <4>5
    <3> QED
      BY <3>1, <3>2
  <2> QED
    BY <2>3, <2>4
<1> QED
  BY <1>1, <1>2 DEF LedgerInv, LedgerType

\* A grant has room, and what is granted is what is taken: the beats of an ask
\* do not change between the two.
LEMMA CapStep ==
  ASSUME LedgerInv, GrantInv, Tick
  PROVE  CapInv'
<1> PICK take \in Takes, r \in Sends("r", owes_r), b \in Sends("b", owes_w) : Clock(take, r, b)
  BY DEF Tick
<1>0. /\ Ports' = Ports /\ world' = world /\ none \notin Ports
      /\ CAP \in Nat /\ world.M_WRITES \in Nat /\ world.M_WRITES > 0
  BY LedgerTypeStep, WorldFacts DEF Clock, Outside, LedgerInv, LedgerType
<1> DEFINE Limit(i) == IF i = 0 THEN world.M_WRITES ELSE 1
<1> SUFFICES ASSUME bridge_rst' = 0, NEW i \in Ports
             PROVE  /\ rd_beats'[i] <= CAP
                    /\ ar_who' = i => rd_beats'[i] + asks'[i] <= CAP
                    /\ wr_n'[i] + (IF w_who' = i THEN 1 ELSE 0) <= Limit(i)
  BY <1>0 DEF CapInv
<1>1. CASE port_rst = 1
  <2>1. /\ ar_who' = none /\ rd_beats'[i] = 0
        /\ w_who' = none /\ wr_n'[i] = 0
    BY <1>1, Zenon DEF Clock, Reads, Writes, Zero
  <2> QED
    BY <1>0, <2>1
<1>2. CASE port_rst = 0
  <2>1. Working
    BY <1>2 DEF Working, Clock, Outside, LedgerInv, LedgerType, QuietInReset
  <2>2. /\ rd_beats[i] \in Int /\ wr_n[i] \in Int /\ asks[i] \in 0..CAP /\ Limit(i) \in Int
        /\ rd_beats[i] <= CAP
        /\ ar_who = i => rd_beats[i] + asks[i] <= CAP
        /\ wr_n[i] + (IF w_who = i THEN 1 ELSE 0) <= Limit(i)
    BY <1>0, <2>1 DEF LedgerInv, LedgerType, GrantInv, CapInv, Working
  <2>3. rd_beats'[i] = rd_beats[i] + (IF s_arready(take, i) THEN asks[i] ELSE 0)
                                   - (IF r = i THEN 1 ELSE 0)
    <3>0. Reads(take, r) /\ port_rst # 1
      BY <1>2 DEF Clock
    <3>1. rd_beats' = [k \in Ports |-> rd_beats[k] + (IF s_arready(take, k) THEN asks[k] ELSE 0)
                                                  - (IF r = k THEN 1 ELSE 0)]
      BY <3>0, Zenon DEF Reads
    <3> QED
      BY <3>1, Zenon
  <2>4. rd_beats'[i] <= CAP
    BY <1>0, <2>2, <2>3 DEF s_arready
  <2>5. ASSUME ar_who' = i PROVE rd_beats'[i] + asks'[i] <= CAP
    <3>1. "ar" \notin take
      BY <1>0, <2>5 DEF Clock, Reads
    <3>2. asks[i] > 0 /\ rd_beats[i] + asks[i] <= CAP
      <4>1. CASE ar_who = i
        BY <1>0, <2>1, <2>2, <4>1 DEF GrantInv, GrantStands, Working
      <4>2. CASE ar_who # i
        BY <1>0, <1>2, <2>5, <4>2, GrantedAsks DEF Clock, Reads
      <4> QED
        BY <4>1, <4>2
    <3>3. asks'[i] = asks[i]
      BY <2>1, <3>1, <3>2, AskStands DEF Clock, s_arready
    <3> QED
      BY <1>0, <2>2, <2>3, <3>1, <3>2, <3>3 DEF s_arready
  <2>6. wr_n'[i] = wr_n[i] + (IF w_let_go(take) /\ w_who = i THEN 1 ELSE 0)
                           - (IF b = i THEN 1 ELSE 0)
    BY <1>2 DEF Clock, Writes
  <2>7. wr_n'[i] + (IF w_who' = i THEN 1 ELSE 0) <= Limit(i)
    <3>1. CASE w_who' = i /\ w_who # i
      <4>1. wr_n[i] # Limit(i) /\ ~w_let_go(take)
        BY <1>0, <1>2, <3>1, GrantedAsks DEF Clock, Writes, wr_full
      <4> QED
        BY <2>2, <2>6, <3>1, <4>1
    <3>2. CASE w_who' = i /\ w_who = i
      <4>1. ~w_let_go(take)
        BY <1>0, <3>2 DEF Clock, Writes
      <4> QED
        BY <2>2, <2>6, <3>2, <4>1
    <3>3. CASE w_who' # i
      BY <2>2, <2>6, <3>3
    <3> QED
      BY <3>1, <3>2, <3>3
  <2> QED
    BY <2>4, <2>5, <2>7
<1> QED
  BY <1>1, <1>2 DEF LedgerInv, LedgerType

LEMMA GrantAlways ==
  ASSUME Lasting
  PROVE  Spec => []GrantInv
<1>1. LedgerInv /\ LedgerInv' /\ GrantInv /\ Tick => GrantInv'
  BY GrantTypeStep, LastsStep, PairStep, StandsStep, CapStep, Zenon DEF GrantInv
<1>2. GrantInv /\ UNCHANGED vars => GrantInv'
  <2> SUFFICES ASSUME GrantInv, UNCHANGED vars PROVE GrantInv'
    OBVIOUS
  <2> USE DEF GrantInv, vars
  <2>1. GrantType' /\ PairInv' /\ GrantStands'
    BY DEF GrantType, PairInv, GrantStands, inputs, gate, share, masters, bridge, Ports
  <2>2. LastsInv'
    BY DEF LastsInv, inputs, gate, share, masters, bridge, Ports, Zero, hold, idle
  <2>3. CapInv'
    BY Zenon DEF CapInv, inputs, share, masters, bridge, Ports
  <2> QED
    BY <2>1, <2>2, <2>3
<1> QED
  BY GrantInit, LedgerAlways, <1>1, <1>2, PTL DEF Spec, Next

\* What the share puts to the bridge is still asked by the master it was
\* granted to (cadr_f2sdram_share.sv's muxes pass the granted master's own
\* valid through), whatever resets the masters, when every shut bit and every
\* request lasts until the port is in reset.
THEOREM GrantsStand ==
  ASSUME Lasting
  PROVE  Spec => []GrantStands
<1>1. GrantInv => GrantStands
  BY DEF GrantInv
<1> QED
  BY GrantAlways, <1>1, PTL

\* The bridge never owes a master more beats than one burst's worth nor more
\* write responses than its counter holds (cadr_f2sdram_share.sv's ar_fits and
\* wr_full, checked at the grant and not when the bridge takes the address).
THEOREM CapKept ==
  ASSUME Lasting
  PROVE  Spec => []WithinCap
<1>1. LedgerInv /\ GrantInv => WithinCap
  <2> SUFFICES ASSUME LedgerInv, GrantInv, NEW i \in Ports
               PROVE  /\ owes_r[i] <= CAP
                      /\ owes_w[i] <= IF i = 0 THEN world.M_WRITES ELSE 1
    BY DEF WithinCap
  <2>1. CAP \in Nat /\ world.M_WRITES \in Nat /\ world.M_WRITES > 0
    BY WorldFacts DEF LedgerInv, LedgerType
  <2>2. CASE bridge_rst = 1
    BY <2>1, <2>2 DEF LedgerInv, QuietInReset, Zero
  <2>3. CASE bridge_rst = 0
    <3>1. owes_r[i] = rd_beats[i] /\ owes_w[i] = wr_n[i] /\ wr_n[i] \in Int
      BY <2>3 DEF LedgerInv, LedgerType, EveryAnswerAwaited
    <3> QED
      BY <2>1, <2>3, <3>1 DEF GrantInv, CapInv
  <2> QED
    BY <2>2, <2>3 DEF LedgerInv, LedgerType
<1> QED
  BY LedgerAlways, GrantAlways, <1>1, PTL

\* The share that holds for the machine's writes has no bound on the hold.
HoldsUnbounded == \A w \in Worlds : w.HOLD_WRITES = 1 => w.HOLD_BOUND = 0

\* On the CADR, whose share holds for the machine's writes and without bound,
\* no other master is granted anything while the machine asks or is owed an
\* answer: cadr_f2sdram_share.sv's machine_busy has no gap between a write's
\* address and its data, nor between an ask and its answer.
THEOREM MachineAlwaysFirst ==
  ASSUME Lasting, HoldsUnbounded
  PROVE  Spec => MachineFirst
<1>1. ASSUME LedgerInv, GrantInv, Tick,
             world.HOLD_WRITES = 1, still(0) + owes_r[0] + owes_w[0] > 0
      PROVE  /\ ar_who' # ar_who => ar_who' \in {none, 0}
             /\ w_who' # w_who => w_who' \in {none, 0}
  <2> PICK take \in Takes, r \in Sends("r", owes_r), b \in Sends("b", owes_w) : Clock(take, r, b)
    BY <1>1 DEF Tick
  <2>1. world \in Worlds /\ 0 \in Ports
    BY <1>1, WorldFacts DEF LedgerInv, LedgerType
  <2>2. machine_busy
    <3>1. asks[0] > 0 \/ aw_ask[0] > 0 \/ w_ask[0] > 0 \/ owes_r[0] > 0 \/ owes_w[0] > 0
      BY <1>1, <2>1 DEF still, LedgerInv, LedgerType, GrantInv, GrantType
    <3>2. CASE asks[0] > 0 \/ aw_ask[0] > 0 \/ w_ask[0] > 0
      BY <1>1, <2>1, <3>2 DEF machine_busy, GrantInv, GrantType, PairInv
    <3>3. CASE owes_r[0] > 0 \/ owes_w[0] > 0
      <4>1. bridge_rst = 0
        BY <1>1, <2>1, <3>3 DEF LedgerInv, LedgerType, QuietInReset, Zero
      <4> QED
        BY <1>1, <3>3, <4>1 DEF machine_busy, LedgerInv, EveryAnswerAwaited
    <3> QED
      BY <3>1, <3>2, <3>3
  <2>3. eligible = {0}
    BY <1>1, <2>1, <2>2 DEF eligible, yield, holding, HoldsUnbounded
  <2>4. /\ ar_can # {} => first(ar_can) = 0
        /\ aw_can # {} => first(aw_can) = 0
    <3>1. ar_can \in SUBSET Nat /\ aw_can \in SUBSET Nat
      BY <2>3 DEF ar_can, aw_can
    <3> QED
      BY <2>3, <3>1, FirstAsks DEF ar_can, aw_can
  <2> QED
    BY <2>4 DEF Clock, Reads, Writes
<1>2. LedgerInv /\ GrantInv /\ [Next]_vars =>
        [world.HOLD_WRITES = 1 /\ still(0) + owes_r[0] + owes_w[0] > 0 =>
           /\ ar_who' # ar_who => ar_who' \in {none, 0}
           /\ w_who' # w_who => w_who' \in {none, 0}]_vars
  BY <1>1 DEF Next
<1> QED
  BY LedgerAlways, GrantAlways, <1>2, PTL DEF Spec, MachineFirst
=============================================================================
