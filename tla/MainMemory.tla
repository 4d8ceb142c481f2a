----------------------------- MODULE MainMemory -----------------------------
(***************************************************************************)
(* Main memory, from the three masters of the Xbus to the AXI port: the    *)
(* processor through its bus interface (cadr_busint_xbus.sv), the disk's   *)
(* channel and the Unibus map's window, the arbiter between them           *)
(* (cadr_memory_path.sv), the bridge (cadr_xbus_ddr.sv) and the adapter    *)
(* (cadr_axi_master.sv).  All of it moves at one clock: Tick is an edge.   *)
(*                                                                         *)
(* A word is known by the cycle it was read for: the master whose cycle    *)
(* stands, or "gone" once that cycle is over.  The bridge's register holds *)
(* "zero" when it was cleared.  A register of the adapter's that nobody    *)
(* reads until the next request sets it is given one value in between.     *)
(***************************************************************************)
EXTENDS Integers, Sequences, FiniteSets

CONSTANTS
  MemAnswers,   \* MEMORY_ANSWERS: the timer does not end a memory cycle
  ResetBound,   \* how often the port is reset
  Events        \* what else happens: "reset" of the machine, "port" (the
                \* port's reset), "drop" (the debugger gives a mapped cycle
                \* up), "init" (-XBUS INIT), "slow" (a word takes the timer's
                \* whole period)

ASSUME MemoryAssumption ==
  /\ MemAnswers \in BOOLEAN /\ ResetBound \in Nat
  /\ Events \subseteq {"reset", "port", "drop", "init", "slow"}

Others == {"ch", "map"}
Masters == Others \cup {"cpu"}
Words == Masters \cup {"zero", "gone"}

VARIABLES
  cpu,          \* the bus interface's state
  ch_req, map_req,
  cpu_c, ch_c, map_c,   \* their cycles: what the address is, the direction
  own, own_d,   \* ch_own and mp_own, and owner_d
  ack,          \* ch_ack_q, mp_ack_q
  done, rdata,  \* the bridge
  ax, sent, abandoned, for, mem_rdata,  \* the adapter; for stands for its payload
  port, owed,   \* the AXI slave: its reset, and the answers it owes
  made,         \* history: how often each master's cycle has reached the memory
  resets

masters == <<cpu, ch_req, map_req, cpu_c, ch_c, map_c>>
arbiter == <<own, own_d, ack>>
bridge == <<done, rdata>>
adapter == <<ax, sent, abandoned, for, mem_rdata>>
slave == <<port, owed>>
vars == <<masters, arbiter, bridge, adapter, slave, made, resets>>

-----------------------------------------------------------------------------
(* The wires.                                                              *)

\* -XBUS.RQ of the processor's, which stands from the setup's end until the
\* processor lifts -MEMRQ.
cpu_rq == cpu \in {"GRANTED", "ANSWERED", "ACKED", "NXM"}

rq(m) == IF m = "cpu" THEN cpu_rq ELSE IF m = "ch" THEN ch_req = 1 ELSE map_req = 1

\* Mutant: the request goes from one master to the next in one tick.
Mutbus_rq == rq(own)

\* The bus is left idle for a tick at every change of owner.
bus_rq == own = own_d /\ rq(own)

cyc(m) == IF m = "cpu" THEN cpu_c ELSE IF m = "ch" THEN ch_c ELSE map_c

asked == bus_rq /\ cyc(own).to = "memory"
mem_done == ax = "DONE"
mem_req == asked /\ done = 0
memory_ack == asked /\ (done = 1 \/ mem_done)

\* Nothing answers the processor while another master has the bus.
dev_ack == own = "cpu" /\ (memory_ack \/ (cpu_rq /\ cpu_c.to = "device"))

\* Mutant: the response goes to whoever asks by then.
Mutstill_asked == mem_req

\* The request that asked is still up.
still_asked == mem_req /\ abandoned = 0

\* The channel and the map have their answer a tick after the bridge gives
\* it, when its word is in the register.
ch_done == own = "ch" /\ "ch" \in ack
map_done == own = "map" /\ "map" \in ack

-----------------------------------------------------------------------------
(* The masters.                                                            *)

\* Which way a cycle goes that is not memory's is of no account.
Cycles(to) == [to : {"memory"}, write : {0, 1}] \cup [to : to, write : {0}]
\* What the address lines say between cycles is nobody's business.
NoCycle == [to |-> "none", write |-> 0]

\* nxm_due ends a cycle unless a slave that always answers has it.  The
\* other masters' words are shorter than the timer unless one is slow.
Expirable ==
  /\ cpu \in {"GRANTED", "ANSWERED"} /\ ~(MemAnswers /\ cpu_c.to = "memory")
  /\ own = "cpu" \/ ~rq(own) \/ "slow" \in Events

\* The bus interface: the grant at the master clock, the setup, the request,
\* the deskew of a read, the acknowledgment, and -MEMRQ's lift.
BusInterface(in) ==
  \/ cpu = "IDLE" /\ UNCHANGED <<cpu, cpu_c>>
  \/ cpu = "IDLE" /\ cpu' = "SETUP" /\ UNCHANGED cpu_c
  \/ cpu = "SETUP" /\ cpu' = "GRANTED" /\ cpu_c' \in Cycles({"device", "empty"})
  \/ /\ cpu = "GRANTED" /\ UNCHANGED cpu_c
     /\ cpu' = IF "nxm" \in in THEN "NXM"
               ELSE IF ~dev_ack THEN "GRANTED"
               ELSE IF cpu_c.write = 1 THEN "ACKED" ELSE "ANSWERED"
  \/ cpu = "ANSWERED" /\ cpu' = (IF "nxm" \in in THEN "NXM" ELSE "ACKED") /\ UNCHANGED cpu_c
  \/ cpu \in {"ACKED", "NXM"} /\ cpu' = "IDLE" /\ cpu_c' = NoCycle

\* The channel asks for a word and holds the request until it has it;
\* -XBUS INIT stops the channel, and only a store starts it again, which
\* does not reach the controller while the channel has the bus.
Channel ==
  \/ ch_req = 0 /\ UNCHANGED <<ch_req, ch_c>>
  \/ ch_req = 0 /\ own # "ch" /\ ch_req' = 1 /\ ch_c' \in Cycles({"empty"})
  \/ ch_req = 1 /\ ~ch_done /\ UNCHANGED <<ch_req, ch_c>>
  \/ ch_req = 1 /\ ch_done /\ ch_req' = 0 /\ ch_c' = NoCycle
  \/ ch_req = 1 /\ "init" \in Events /\ ch_req' = 0 /\ UNCHANGED ch_c

\* The map's window: so does it, unless its master drops the Unibus cycle.
MapWindow ==
  \/ map_req = 0 /\ UNCHANGED <<map_req, map_c>>
  \/ map_req = 0 /\ map_req' = 1 /\ map_c' \in Cycles({"empty"})
  \/ map_req = 1 /\ ~map_done /\ UNCHANGED <<map_req, map_c>>
  \/ map_req = 1 /\ (map_done \/ "drop" \in Events) /\ map_req' = 0 /\ map_c' = NoCycle

-----------------------------------------------------------------------------
(* The arbiter.                                                            *)

\* A word begins only while the processor is not asking.
TakesCh == ch_req = 1 /\ ~cpu_rq

\* Only a page of main memory's takes the bus for the map, behind both.
TakesMap == map_req = 1 /\ map_c.to = "memory" /\ ~cpu_rq /\ ch_req = 0

\* Mutant: the map's window lets go only when it has its word.
MutLetsGo == ch_done \/ map_done

\* The bus comes back at the end of the word, and from the map's window when
\* its master has dropped the request.
LetsGo == ch_done \/ map_done \/ (own = "map" /\ map_req = 0)

Arbiter ==
  /\ own_d' = own
  /\ own' = IF own # "cpu" THEN (IF LetsGo THEN "cpu" ELSE own)
            ELSE IF TakesCh THEN "ch" ELSE IF TakesMap THEN "map" ELSE "cpu"
  /\ ack' = {m \in Others : /\ own = m /\ own_d = m
                            /\ memory_ack \/ (m = "ch" /\ ch_c.to # "memory")}

-----------------------------------------------------------------------------
(* The bridge and the adapter.                                             *)

\* The cycle is over with this tick: a word read for it is then nobody's.
Over(w) ==
  \/ w = "cpu" /\ cpu' = "IDLE"
  \/ w = "ch" /\ ch_req' = 0
  \/ w = "map" /\ map_req' = 0
Now(w) == IF Over(w) THEN "gone" ELSE w

\* Mutant: the word stays in the register.
MutBridge ==
  IF ~asked THEN done' = 0 /\ rdata' = Now(rdata)
  ELSE IF mem_done /\ done = 0
       THEN done' = 1 /\ rdata' = Now(IF cyc(own).write = 0 THEN mem_rdata ELSE rdata)
       ELSE done' = done /\ rdata' = Now(rdata)

\* Mutant: the answer stands for a tick.
MutBridgeTick ==
  IF ~asked THEN done' = 0 /\ rdata' = "zero"
  ELSE IF mem_done /\ done = 0
       THEN done' = 1 /\ rdata' = Now(IF cyc(own).write = 0 THEN mem_rdata ELSE rdata)
       ELSE done' = 0 /\ rdata' = Now(rdata)

\* The answer and its word stand until the request falls.
Bridge ==
  IF ~asked THEN done' = 0 /\ rdata' = "zero"
  ELSE IF mem_done /\ done = 0
       THEN done' = 1 /\ rdata' = Now(IF cyc(own).write = 0 THEN mem_rdata ELSE rdata)
       ELSE done' = done /\ rdata' = Now(rdata)

\* The request fell while the transaction was out: latched, because a new one
\* may rise before the response comes.
abandons == IF mem_req THEN abandoned ELSE 1

\* IDLE: a request's payload is latched and held for the transaction.
Issue ==
  /\ ax = "IDLE"
  /\ IF mem_req
     THEN /\ ax' = (IF cyc(own).write = 1 THEN "WRITE" ELSE "READ")
          /\ for' = Now(own) /\ sent' = {} /\ abandoned' = 0
     ELSE for' = Now(for) /\ UNCHANGED <<ax, sent, abandoned>>
  /\ mem_rdata' = Now(mem_rdata) /\ UNCHANGED owed

\* WRITE: address and data are taken in either order, or together.
Write(in) ==
  /\ ax = "WRITE"
  /\ LET taken == sent \cup (in \cap {"aw", "w"})
     IN  IF taken = {"aw", "w"}
         THEN ax' = "WRESP" /\ sent' = {} /\ owed' = Append(owed, Now(for))
         ELSE sent' = taken /\ UNCHANGED <<ax, owed>>
  /\ for' = Now(for) /\ abandoned' = abandons /\ mem_rdata' = Now(mem_rdata)

\* READ: the address is taken.
Read(in) ==
  /\ ax = "READ"
  /\ IF "ar" \in in
     THEN ax' = "RDATA" /\ owed' = Append(owed, Now(for))
     ELSE UNCHANGED <<ax, owed>>
  /\ for' = Now(for) /\ abandoned' = abandons /\ mem_rdata' = Now(mem_rdata)
  /\ UNCHANGED sent

\* Mutant: an abandoned transaction is not waited for.
MutRespond(in) ==
  /\ ax \in {"WRESP", "RDATA"}
  /\ IF ("answer" \in in /\ owed # <<>>) \/ ~still_asked
     THEN /\ ax' = (IF still_asked THEN "DONE" ELSE "IDLE")
          /\ mem_rdata' = Now(IF ax = "RDATA" /\ still_asked THEN Head(owed) ELSE mem_rdata)
          /\ owed' = (IF "answer" \in in THEN Tail(owed) ELSE owed)
          /\ abandoned' = 0
     ELSE /\ mem_rdata' = Now(mem_rdata) /\ UNCHANGED ax
          /\ owed' = [i \in DOMAIN owed |-> Now(owed[i])]
          /\ abandoned' = abandons
  /\ for' = Now(for) /\ UNCHANGED sent

\* WRESP and RDATA: the response is taken whoever it is for, and given to the
\* request that asked or dropped.
Respond(in) ==
  /\ ax \in {"WRESP", "RDATA"}
  /\ IF "answer" \in in /\ owed # <<>>
     THEN /\ ax' = (IF still_asked THEN "DONE" ELSE "IDLE")
          /\ mem_rdata' = Now(IF ax = "RDATA" /\ still_asked THEN Head(owed) ELSE mem_rdata)
          /\ owed' = Tail(owed)
          /\ abandoned' = 0
     ELSE /\ mem_rdata' = Now(mem_rdata) /\ UNCHANGED ax
          /\ owed' = [i \in DOMAIN owed |-> Now(owed[i])]
          /\ abandoned' = abandons
  /\ for' = Now(for) /\ UNCHANGED sent

\* DONE: the answer stands until the bridge lets go.
Stand ==
  /\ ax = "DONE"
  /\ IF mem_req
     THEN mem_rdata' = Now(mem_rdata) /\ for' = Now(for) /\ UNCHANGED ax
     ELSE mem_rdata' = "gone" /\ for' = "gone" /\ ax' = "IDLE"
  /\ UNCHANGED <<sent, abandoned, owed>>

\* The adapter takes the port's reset alone, and the slave is reset with it.
PortReset ==
  /\ ax' = "IDLE" /\ sent' = {} /\ abandoned' = 0 /\ for' = "gone" /\ mem_rdata' = "gone"
  /\ owed' = <<>>

Adapter(in) ==
  IF port = "down" THEN PortReset
  ELSE Issue \/ Write(in) \/ Read(in) \/ Respond(in) \/ Stand

\* The slave is in reset ticks before the adapter is, and out of it no later.
Port(in) ==
  \/ /\ port = "up" /\ "port" \in Events /\ resets < ResetBound
     /\ port' = "cut" /\ resets' = resets + 1
  \/ port = "up" /\ UNCHANGED <<port, resets>>
  \/ port = "cut" /\ port' = "down" /\ UNCHANGED resets
  \/ port = "down" /\ port' = (IF "open" \in in THEN "up" ELSE "down") /\ UNCHANGED resets

-----------------------------------------------------------------------------
\* A cycle reaches the memory as the slave takes it, and has not if the slave
\* is reset with it.
Made ==
  made' = [m \in Masters |->
             IF Over(m) THEN 0
             ELSE IF for # m THEN made[m]
             ELSE IF ax \in {"WRITE", "READ"} /\ ax' \in {"WRESP", "RDATA"} THEN made[m] + 1
             ELSE IF ax \in {"WRESP", "RDATA"} /\ port = "down" THEN made[m] - 1
             ELSE made[m]]

Clock(in) ==
  /\ BusInterface(in) /\ Channel /\ MapWindow
  /\ Arbiter /\ Bridge /\ Adapter(in) /\ Port(in) /\ Made

\* What a tick can bring: the last rise of the timer, a handshake on the
\* channel the adapter is on (a slave in reset makes none), the port out of
\* its reset.
Outside ==
  (IF Expirable THEN {"nxm"} ELSE {}) \cup
  (CASE port = "down" -> {"open"}
     [] port = "up" /\ ax = "WRITE" -> {"aw", "w"}
     [] port = "up" /\ ax = "READ" -> {"ar"}
     [] port = "up" /\ ax \in {"WRESP", "RDATA"} -> {"answer"}
     [] OTHER -> {})

Tick == \E in \in SUBSET Outside : Clock(in)

\* mach_rst: the machine and all of its path, but not the adapter, which has
\* a transaction to finish.
MachineReset ==
  /\ "reset" \in Events
  /\ cpu' = "IDLE" /\ ch_req' = 0 /\ map_req' = 0
  /\ cpu_c' = NoCycle /\ ch_c' = NoCycle /\ map_c' = NoCycle
  /\ own' = "cpu" /\ own_d' = "cpu" /\ ack' = {}
  /\ done' = 0 /\ rdata' = "zero"
  /\ \E in \in SUBSET Outside : Adapter(in)
  /\ Made /\ UNCHANGED <<port, resets>>

Init ==
  /\ cpu = "IDLE" /\ ch_req = 0 /\ map_req = 0
  /\ cpu_c = NoCycle /\ ch_c = NoCycle /\ map_c = NoCycle
  /\ own = "cpu" /\ own_d = "cpu" /\ ack = {}
  /\ done = 0 /\ rdata = "zero"
  /\ ax = "IDLE" /\ sent = {} /\ abandoned = 0 /\ for = "gone" /\ mem_rdata = "gone"
  /\ port = "up" /\ owed = <<>> /\ made = [m \in Masters |-> 0] /\ resets = 0

Next == Tick \/ MachineReset

\* The clock runs, and the memory, the timer and the port do their part of a
\* tick again and again.
Spec == Init /\ [][Next]_vars /\ WF_vars(Clock(Outside))

-----------------------------------------------------------------------------
acked(m) == IF m = "cpu" THEN cpu = "ACKED" ELSE IF m = "ch" THEN ch_done ELSE map_done

standing(m) == cyc(m).to = "memory" /\ rq(m)

Answered(m) == cyc(m).to = "memory" => IF cyc(m).write = 1 THEN made[m] = 1 ELSE rdata = m

\* A master that is acknowledged has the word of its own cycle, or its own
\* write is done: never the word or the acknowledgment of a cycle that was
\* timed out, dropped or reset, nor of another master's.
OwnAnswer ==
  /\ cpu = "ACKED" => Answered("cpu")
  /\ ch_req = 1 /\ ch_done => Answered("ch")
  /\ map_req = 1 /\ map_done => Answered("map")

\* A response is never left standing at the port: as long as the slave owes
\* one the adapter waits for it, whatever became of the cycle.
EveryAnswerAwaited ==
  owed # <<>> => ax \in {"WRESP", "RDATA"} /\ owed = <<for>>

Service == INSTANCE MemoryService WITH
  up <- port = "up",
  phase <- [m \in Masters |-> IF ~standing(m) THEN "idle" ELSE IF acked(m) THEN "answered" ELSE "asking"],
  made <- [m \in Masters |-> IF standing(m) THEN made[m] ELSE 0],
  word <- [m \in Masters |-> IF ~(standing(m) /\ acked(m)) THEN "none"
                             ELSE IF cyc(m).write = 1 THEN m ELSE rdata],
  stray <- ax \in {"WRITE", "READ"} /\ for = "gone"

\* The three masters, the arbiter, the bridge and the adapter together are the
\* memory that MemoryService describes: a cycle reaches the memory once and
\* before its answer, and a cycle given up is not overtaken.
ServesMemory == Service!Spec

\* "An unanswered read gives MD zero."
UnansweredIsZero == cpu = "NXM" /\ cpu_c.to = "empty" => rdata = "zero"

\* A cycle of the processor's ends, answered or by the timer: only a channel
\* that -XBUS INIT stopped in the middle of its word, and that still has the
\* bus, can keep it.
CycleEndsUnlessStranded ==
  cpu = "GRANTED" ~> cpu # "GRANTED" \/ (own = "ch" /\ ch_req = 0)

\* "Nothing answers the processor while the channel has the bus: its cycle
\* simply waits, which is what the per-word arbitration bounds."
CycleEnds == cpu = "GRANTED" ~> cpu # "GRANTED"
=============================================================================
