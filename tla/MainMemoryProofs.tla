-------------------------- MODULE MainMemoryProofs --------------------------
(***************************************************************************)
(* That every answer of main memory goes to the cycle that asked, and that *)
(* none is left standing at the port, for every set of events and any      *)
(* number of the port's resets.                                            *)
(***************************************************************************)
EXTENDS MainMemory, TLAPS

Flying == ax \in {"WRITE", "READ", "WRESP", "RDATA"}

PathType ==
    /\ cpu \in {"IDLE", "SETUP", "GRANTED", "ANSWERED", "ACKED", "NXM"}
    /\ ch_req \in {0, 1} /\ map_req \in {0, 1}
    /\ cpu_c.write \in {0, 1} /\ ch_c.write \in {0, 1} /\ map_c.write \in {0, 1}
    /\ own \in Masters /\ own_d \in Masters
    /\ done \in {0, 1} /\ abandoned \in {0, 1}
    /\ ax \in {"IDLE", "WRITE", "READ", "WRESP", "RDATA", "DONE"}
    /\ for \in Masters \cup {"gone"}
    /\ made \in [Masters -> Int]

\* A transaction whose cycle stands has its request up, and a request that is
\* up with a transaction not abandoned is the one that began it.
FlightInv ==
    /\ Flying /\ abandoned = 0 /\ mem_req => for = own
    /\ Flying /\ for # "gone" =>
         /\ mem_req /\ for = own /\ abandoned = 0
         /\ cyc(own).write = 1 <=> ax \in {"WRITE", "WRESP"}
    /\ ax = "IDLE" => for = "gone"

\* The adapter's answer is the standing request's own.
DoneInv ==
    /\ ax = "DONE" /\ mem_req => for = own
    /\ ax = "DONE" /\ for # "gone" =>
         for = own /\ asked /\ (cyc(own).write # 1 => mem_rdata = own)

\* How often each cycle has been to memory: once if its transaction is past
\* the handshake or its answer is in the bridge, else not at all.
MadeInv ==
    \A m \in Masters :
        made[m] = IF for = m THEN (IF ax \in {"WRITE", "READ"} THEN 0 ELSE 1)
                  ELSE IF own = m /\ asked /\ done = 1 THEN 1 ELSE 0

BridgeInv == asked /\ done = 1 /\ cyc(own).write # 1 => rdata = own

\* A master that is acknowledged has its answer standing in the bridge.
AckInv ==
    /\ cpu \in {"ANSWERED", "ACKED"} /\ cpu_c.to = "memory"
         => own = "cpu" /\ own_d = "cpu" /\ done = 1
    /\ \A m \in Others : own = m /\ m \in ack /\ rq(m) /\ cyc(m).to = "memory"
         => own_d = m /\ done = 1

OwedInv == owed = <<>> \/ (ax \in {"WRESP", "RDATA"} /\ owed = <<for>>)

\* A write whose two halves are taken waits for its response.
SentInv == ax = "WRITE" => sent # {"aw", "w"}

AnswerInv ==
    /\ PathType /\ FlightInv /\ DoneInv /\ MadeInv
    /\ BridgeInv /\ AckInv /\ OwedInv /\ SentInv

-----------------------------------------------------------------------------
(* What a tick does to the cycle the bus is asking for.                    *)

\* The owner's cycle stands, unchanged and still asking, until it is over.
AskedStands == asked /\ ~Over(own) => asked' /\ own' = own /\ cyc(own)' = cyc(own)

\* A request that is up after a tick is that of the owner before it.
AskedIsOwners == asked' => own' = own /\ own_d' = own /\ ~Over(own)

\* The bridge's part of a tick, or the machine's reset in its place.
BridgeMoves == Bridge \/ (done' = 0 /\ ~asked')

\* A cycle's state moves within its type.
LEMMA MastersType ==
  ASSUME PathType, Next
  PROVE  /\ cpu' \in {"IDLE", "SETUP", "GRANTED", "ANSWERED", "ACKED", "NXM"}
         /\ ch_req' \in {0, 1} /\ map_req' \in {0, 1}
         /\ cpu_c'.write \in {0, 1} /\ ch_c'.write \in {0, 1} /\ map_c'.write \in {0, 1}
         /\ own' \in Masters /\ own_d' \in Masters /\ done' \in {0, 1}
<1>1. CASE Tick
  <2>1. PICK in \in SUBSET Outside : Clock(in)
    BY <1>1 DEF Tick
  <2>2. cpu' \in {"IDLE", "SETUP", "GRANTED", "ANSWERED", "ACKED", "NXM"}
    BY <2>1 DEF Clock, BusInterface, PathType
  <2>3. ch_req' \in {0, 1} /\ map_req' \in {0, 1}
    BY <2>1 DEF Clock, Channel, MapWindow, PathType
  <2>4. own' \in Masters /\ own_d' \in Masters
    BY <2>1 DEF Clock, Arbiter, PathType, Masters, Others
  <2>5. done' \in {0, 1}
    BY <2>1 DEF Clock, Bridge, PathType
  <2>6. cpu_c'.write \in {0, 1}
    BY <2>1 DEF Clock, BusInterface, Cycles, NoCycle, PathType
  <2>7. ch_c'.write \in {0, 1} /\ map_c'.write \in {0, 1}
    BY <2>1 DEF Clock, Channel, MapWindow, Cycles, NoCycle, PathType
  <2> QED BY <2>2, <2>3, <2>4, <2>5, <2>6, <2>7
<1>2. CASE MachineReset
  BY <1>2 DEF MachineReset, NoCycle, Masters, Others
<1> QED BY <1>1, <1>2 DEF Next

\* The owner of the bus keeps it for as long as its cycle stands: the arbiter
\* does not take it from the processor in a cycle, and the channel's and the
\* window's requests fall with the answer that gives the bus back.
LEMMA OwnerKeeps ==
  ASSUME PathType, Next
  PROVE  AskedStands /\ AskedIsOwners
<1>1. CASE MachineReset
  BY <1>1 DEF MachineReset, AskedStands, AskedIsOwners, asked, bus_rq, rq, cpu_rq,
              Over, PathType, Masters, Others
<1>2. CASE Tick
  <2>1. PICK in \in SUBSET Outside : Clock(in)
    BY <1>2 DEF Tick
  <2>2. AskedIsOwners
    BY <2>1 DEF AskedIsOwners, Clock, Arbiter, asked, bus_rq, rq, cpu_rq, Over,
                PathType, Masters, Others
  <2>3. ASSUME asked, ~Over(own)  PROVE  asked' /\ own' = own /\ cyc(own)' = cyc(own)
    <3>1. CASE own = "cpu"
      <4>1. own' = "cpu" /\ own_d' = "cpu"
        BY <2>1, <2>3, <3>1 DEF Clock, Arbiter, asked, bus_rq, rq, TakesCh, TakesMap
      <4>2. cpu_rq' /\ cpu_c' = cpu_c
        BY <2>1, <2>3, <3>1 DEF Clock, BusInterface, asked, bus_rq, rq, cpu_rq, Over
      <4> QED BY <2>3, <3>1, <4>1, <4>2 DEF asked, bus_rq, rq, cyc
    <3>2. CASE own = "ch"
      <4>1. ch_req = 1 /\ ~ch_done /\ ch_req' = 1 /\ ch_c' = ch_c
        BY <2>1, <2>3, <3>2, MastersType DEF Clock, Channel, asked, bus_rq, rq, Over
      <4>2. own' = "ch" /\ own_d' = "ch"
        BY <2>1, <3>2, <4>1 DEF Clock, Arbiter, LetsGo, map_done
      <4> QED BY <2>3, <3>2, <4>1, <4>2 DEF asked, bus_rq, rq, cyc
    <3>3. CASE own = "map"
      <4>1. map_req = 1 /\ ~map_done /\ map_req' = 1 /\ map_c' = map_c
        BY <2>1, <2>3, <3>3, MastersType DEF Clock, MapWindow, asked, bus_rq, rq, Over
      <4>2. own' = "map" /\ own_d' = "map"
        BY <2>1, <3>3, <4>1 DEF Clock, Arbiter, LetsGo, ch_done
      <4> QED BY <2>3, <3>3, <4>1, <4>2 DEF asked, bus_rq, rq, cyc
    <3> QED BY <3>1, <3>2, <3>3 DEF PathType, Masters, Others
  <2> QED BY <2>2, <2>3 DEF AskedStands
<1> QED BY <1>1, <1>2 DEF Next

\* Every step is one of the bridge, of the adapter and of the history.
LEMMA StepParts ==
  ASSUME PathType, Next
  PROVE  BridgeMoves /\ Made /\ \E in \in SUBSET Outside : Adapter(in)
<1>1. CASE Tick
  BY <1>1 DEF Tick, Clock, BridgeMoves
<1>2. CASE MachineReset
  <2>1. ~asked' /\ done' = 0
    BY <1>2 DEF MachineReset, asked, bus_rq, rq, cpu_rq
  <2> QED BY <1>2, <2>1 DEF MachineReset, BridgeMoves
<1> QED BY <1>1, <1>2 DEF Next

\* What the adapter's invariant needs of a tick's other parts.
Around == AskedStands /\ AskedIsOwners /\ BridgeMoves /\ Made

\* A request stays up until it is answered or its cycle is over.
LEMMA RequestStands ==
  ASSUME PathType, Around, mem_req, ax # "DONE", ~Over(own)
  PROVE  mem_req' /\ own' = own /\ cyc(own)' = cyc(own)
BY DEF Around, AskedStands, BridgeMoves, Bridge, mem_req, mem_done

\* What a word or a transaction is known by stays, or is "gone" with its cycle.
LEMMA AdapterType ==
  ASSUME PathType, Made, NEW in, Adapter(in)
  PROVE  /\ ax' \in {"IDLE", "WRITE", "READ", "WRESP", "RDATA", "DONE"}
         /\ abandoned' \in {0, 1}
         /\ for' \in Masters \cup {"gone"}
         /\ made' \in [Masters -> Int]
<1>1. for' \in Masters \cup {"gone"}
  BY DEF Adapter, PortReset, Issue, Write, Read, Respond, Stand, Now, PathType
<1>2. ax' \in {"IDLE", "WRITE", "READ", "WRESP", "RDATA", "DONE"}
  BY DEF Adapter, PortReset, Issue, Write, Read, Respond, Stand, PathType
<1>3. abandoned' \in {0, 1}
  BY DEF Adapter, PortReset, Issue, Write, Read, Respond, Stand, abandons, PathType
<1>4. made' \in [Masters -> Int]
  BY DEF Made, PathType
<1> QED BY <1>1, <1>2, <1>3, <1>4

\* The transaction in flight and the request that began it stay together.
LEMMA FlightStep ==
  ASSUME PathType, FlightInv, DoneInv, Around, NEW in, Adapter(in)
  PROVE  FlightInv'
<1> USE DEF Around, AskedStands, AskedIsOwners
<1>0. mem_req' => asked'
  BY DEF mem_req
<1>a. own # "gone"
  BY DEF PathType, Masters, Others
<1>1. CASE port = "down"
  BY <1>1 DEF Adapter, PortReset, FlightInv, Flying
<1>2. CASE port # "down" /\ Issue
  <2>1. CASE ~mem_req
    <3>1. for' = "gone" /\ ax' = "IDLE"
      BY <1>2, <2>1 DEF Issue, FlightInv, Now, Over
    <3> QED BY <3>1 DEF FlightInv, Flying
  <2>2. CASE mem_req
    <3>1. /\ ax' = (IF cyc(own).write = 1 THEN "WRITE" ELSE "READ")
          /\ for' = Now(own) /\ abandoned' = 0
      BY <1>2, <2>2 DEF Issue
    <3>2. CASE Over(own)
      BY <3>1, <3>2, <1>0 DEF FlightInv, Flying, Now
    <3>3. CASE ~Over(own)
      <4>1. mem_req' /\ own' = own /\ cyc(own)' = cyc(own)
        BY <1>2, <2>2, <3>3, RequestStands DEF Issue
      <4> QED BY <3>1, <3>3, <4>1 DEF FlightInv, Flying, Now
    <3> QED BY <3>2, <3>3
  <2> QED BY <2>1, <2>2
<1>3. CASE port # "down" /\ (Write(in) \/ Read(in) \/ Respond(in))
  <2>1. Flying /\ ax # "DONE" /\ for' = Now(for)
    BY <1>3 DEF Write, Read, Respond, Flying
  <2>2. CASE ax' = "IDLE"
    <3>1. ~still_asked
      BY <1>3, <2>2 DEF Write, Read, Respond
    <3>2. for = "gone"
      BY <2>1, <3>1 DEF FlightInv, still_asked
    <3>3. for' = "gone"
      BY <2>1, <3>2 DEF Now, Over
    <3> QED BY <2>2, <3>3 DEF FlightInv, Flying
  <2>3. CASE ax' = "DONE"
    BY <2>3 DEF FlightInv, Flying
  <2>4. CASE ax' # "IDLE" /\ ax' # "DONE"
    <3>1. abandoned' = abandons /\ (ax' \in {"WRITE", "WRESP"} <=> ax \in {"WRITE", "WRESP"})
      BY <1>3, <2>4 DEF Write, Read, Respond
    <3>2. CASE for = "gone"
      <4>1. for' = "gone"
        BY <2>1, <3>2 DEF Now, Over
      <4>2. ~(abandoned' = 0 /\ mem_req')
        BY <2>1, <3>1, <3>2, <1>a DEF FlightInv, abandons
      <4> QED BY <2>4, <4>1, <4>2 DEF FlightInv
    <3>3. CASE for # "gone"
      <4>1. /\ mem_req /\ for = own /\ abandoned = 0
            /\ cyc(own).write = 1 <=> ax \in {"WRITE", "WRESP"}
        BY <2>1, <3>3 DEF FlightInv
      <4>2. CASE Over(own)
        BY <2>1, <2>4, <4>1, <4>2, <1>0 DEF FlightInv, Now
      <4>3. CASE ~Over(own)
        <5>1. mem_req' /\ own' = own /\ cyc(own)' = cyc(own)
          BY <2>1, <4>1, <4>3, RequestStands
        <5> QED BY <2>1, <2>4, <3>1, <4>1, <4>3, <5>1 DEF FlightInv, Now, abandons
      <4> QED BY <4>2, <4>3
    <3> QED BY <3>2, <3>3
  <2> QED BY <2>2, <2>3, <2>4
<1>4. CASE port # "down" /\ Stand
  BY <1>4 DEF Stand, FlightInv, Flying
<1> QED BY <1>1, <1>2, <1>3, <1>4 DEF Adapter

\* What the slave owes is the transaction the adapter waits on.
LEMMA OwedStep ==
  ASSUME OwedInv, NEW in, Adapter(in)
  PROVE  OwedInv'
<1>1. CASE port = "down"
  BY <1>1 DEF Adapter, PortReset, OwedInv
<1>2. CASE port # "down" /\ (Issue \/ Stand)
  BY <1>2 DEF Issue, Stand, OwedInv
<1>3. CASE port # "down" /\ (Write(in) \/ Read(in))
  <2>1. owed = <<>> /\ for' = Now(for)
    BY <1>3 DEF Write, Read, OwedInv
  <2>2. \/ owed' = <<>>
        \/ ax' \in {"WRESP", "RDATA"} /\ owed' = Append(<<>>, Now(for))
    BY <1>3, <2>1 DEF Write, Read
  <2> QED BY <2>1, <2>2 DEF OwedInv
<1>4. CASE port # "down" /\ Respond(in)
  <2>1. for' = Now(for)
    BY <1>4 DEF Respond
  <2>2. CASE owed = <<>>
    <3>1. owed' = [i \in DOMAIN owed |-> Now(owed[i])]
      BY <1>4, <2>2 DEF Respond
    <3>2. owed' = <<>>
      BY <2>2, <3>1
    <3> QED BY <3>2 DEF OwedInv
  <2>3. CASE owed = <<for>> /\ "answer" \in in
    BY <1>4, <2>3 DEF Respond, OwedInv
  <2>4. CASE owed = <<for>> /\ "answer" \notin in
    <3>1. owed' = [i \in DOMAIN owed |-> Now(owed[i])] /\ ax' = ax
      BY <1>4, <2>4 DEF Respond
    <3>2. owed' = <<Now(for)>>
      BY <2>4, <3>1
    <3> QED BY <1>4, <2>1, <3>1, <3>2 DEF Respond, OwedInv
  <2> QED BY <2>2, <2>3, <2>4 DEF OwedInv
<1> QED BY <1>1, <1>2, <1>3, <1>4 DEF Adapter

\* The answer is given only to the request that began the transaction, and
\* the word with it is the one the slave owed for it.
LEMMA DoneStep ==
  ASSUME PathType, FlightInv, DoneInv, OwedInv, Around, NEW in, Adapter(in)
  PROVE  DoneInv'
<1> USE DEF Around, AskedStands, AskedIsOwners
<1>a. own # "gone"
  BY DEF PathType, Masters, Others
<1>0. mem_req' => asked'
  BY DEF mem_req
<1>1. CASE ax' # "DONE"
  BY <1>1 DEF DoneInv
<1>2. CASE ax' = "DONE" /\ ax # "DONE"
  <2>1. /\ Respond(in) /\ "answer" \in in /\ owed # <<>> /\ still_asked
        /\ for' = Now(for)
    BY <1>2 DEF Adapter, PortReset, Issue, Write, Read, Respond, Stand
  <2>2. Flying /\ mem_req /\ for = own /\ owed = <<for>>
    BY <2>1 DEF Respond, Flying, FlightInv, still_asked, OwedInv
  <2>3. CASE Over(own)
    BY <2>1, <2>2, <2>3, <1>0 DEF DoneInv, Now
  <2>4. CASE ~Over(own)
    <3>1. mem_req' /\ own' = own /\ cyc(own)' = cyc(own)
      BY <1>2, <2>2, <2>4, RequestStands
    <3>2. for' = own
      BY <2>1, <2>2, <2>4 DEF Now
    <3>3. cyc(own).write # 1 => ax = "RDATA"
      BY <2>1, <2>2, <1>a DEF FlightInv, Respond
    <3>4. ax = "RDATA" => mem_rdata' = own
      BY <2>1, <2>2, <2>4 DEF Respond, Now
    <3> QED BY <3>1, <3>2, <3>3, <3>4, <1>0 DEF DoneInv
  <2> QED BY <2>3, <2>4
<1>3. CASE ax' = "DONE" /\ ax = "DONE"
  <2>1. mem_req /\ mem_rdata' = Now(mem_rdata) /\ for' = Now(for)
    BY <1>3 DEF Adapter, PortReset, Issue, Write, Read, Respond, Stand
  <2>2. for = own /\ asked /\ (cyc(own).write # 1 => mem_rdata = own)
    BY <1>3, <2>1, <1>a DEF DoneInv
  <2>3. CASE Over(own)
    BY <2>1, <2>2, <2>3, <1>0 DEF DoneInv, Now
  <2>4. CASE ~Over(own)
    <3>1. asked' /\ own' = own /\ cyc(own)' = cyc(own)
      BY <2>2, <2>4
    <3> QED BY <2>1, <2>2, <2>4, <3>1 DEF DoneInv, Now
  <2> QED BY <2>3, <2>4
<1> QED BY <1>1, <1>2, <1>3

\* A read's word goes from the adapter into the bridge and stands there.
LEMMA BridgeStep ==
  ASSUME PathType, DoneInv, BridgeInv, Around
  PROVE  BridgeInv'
<1> USE DEF Around, AskedStands, AskedIsOwners
<1> SUFFICES ASSUME asked', done' = 1, cyc(own)'.write # 1  PROVE rdata' = own'
  BY DEF BridgeInv
<1>1. own' = own /\ ~Over(own) /\ Bridge
  BY DEF BridgeMoves
<1>2. asked /\ cyc(own)' = cyc(own)
  BY <1>1 DEF Bridge
<1>3. CASE done = 1
  BY <1>1, <1>2, <1>3 DEF Bridge, BridgeInv, Now
<1>4. CASE done = 0
  <2>1. mem_done /\ mem_req
    BY <1>1, <1>2, <1>4 DEF Bridge, mem_req
  <2>2. for = own /\ own # "gone"
    BY <2>1 DEF DoneInv, mem_done, PathType, Masters, Others
  <2>3. mem_rdata = own
    BY <1>2, <2>1, <2>2 DEF DoneInv, mem_done
  <2>4. cyc(own).write = 0
    BY <1>2 DEF cyc, PathType
  <2>5. rdata' = Now(mem_rdata)
    BY <1>1, <1>2, <1>4, <2>1, <2>4 DEF Bridge
  <2> QED BY <1>1, <2>3, <2>5 DEF Now
<1> QED BY <1>3, <1>4 DEF PathType

\* Each cycle reaches the memory once at most, and its answer stands for that.
LEMMA MadeStep ==
  ASSUME PathType, FlightInv, DoneInv, MadeInv, Around, NEW in, Adapter(in)
  PROVE  MadeInv'
<1> USE DEF Around, AskedStands, AskedIsOwners
<1>a. own # "gone"
  BY DEF PathType, Masters, Others
<1>b. for' # "gone" => for' = Now(for) \/ (Issue /\ mem_req /\ for' = Now(own))
  BY DEF Adapter, PortReset, Issue, Write, Read, Respond, Stand
<1> SUFFICES ASSUME NEW m \in Masters
    PROVE  made'[m] = IF for' = m THEN (IF ax' \in {"WRITE", "READ"} THEN 0 ELSE 1)
                      ELSE IF own' = m /\ asked' /\ done' = 1 THEN 1 ELSE 0
  BY DEF MadeInv
<1>c. m # "gone"
  BY DEF Masters, Others
<1>1. CASE Over(m)
  <2>1. made'[m] = 0
    BY <1>1 DEF Made
  <2>2. for' # m
    BY <1>1, <1>b, <1>c DEF Now
  <2>3. ~(own' = m /\ asked')
    BY <1>1
  <2> QED BY <2>1, <2>2, <2>3
<1>2. CASE ~Over(m) /\ for = m
  <2>1. ax # "IDLE" /\ own = m /\ asked
    BY <1>2, <1>c DEF FlightInv, DoneInv, Flying, PathType, mem_req
  <2>2. asked' /\ own' = m
    BY <1>2, <2>1
  <2>3. CASE port = "down"
    <3>1. for' = "gone"
      BY <2>3 DEF Adapter, PortReset
    <3>2. CASE ax = "DONE"
      <4>1. done' = 1
        BY <2>1, <2>2, <3>2 DEF BridgeMoves, Bridge, mem_done, PathType
      <4>2. made'[m] = made[m] /\ made[m] = 1
        BY <1>2, <3>2 DEF Made, MadeInv
      <4> QED BY <1>c, <2>2, <3>1, <4>1, <4>2
    <3>3. CASE Flying
      <4>1. done' = 0
        BY <1>2, <1>c, <2>2, <3>3 DEF FlightInv, Flying, BridgeMoves, Bridge, mem_done, mem_req
      <4>2. made'[m] = 0
        <5>1. ax' = "IDLE"
          BY <2>3 DEF Adapter, PortReset
        <5>2. CASE ax \in {"WRITE", "READ"}
          BY <1>2, <5>1, <5>2 DEF Made, MadeInv
        <5>3. CASE ax \in {"WRESP", "RDATA"}
          <6>1. made[m] = 1
            BY <1>2, <5>3 DEF MadeInv
          <6>2. made'[m] = made[m] - 1
            BY <1>2, <2>3, <5>3 DEF Made
          <6> QED BY <6>1, <6>2
        <5> QED BY <3>3, <5>2, <5>3 DEF Flying
      <4> QED BY <1>c, <3>1, <4>1, <4>2
    <3> QED BY <2>1, <3>2, <3>3 DEF Flying, PathType
  <2>4. CASE port # "down" /\ Flying
    <3>1. for' = m /\ still_asked
      BY <1>2, <1>c, <2>4 DEF Adapter, Issue, Write, Read, Respond, Stand, Flying,
                              Now, FlightInv, still_asked
    <3>2. CASE ax \in {"WRITE", "READ"}
      <4>1. made[m] = 0
        BY <1>2, <3>2 DEF MadeInv
      <4>2. ax' \in {"WRITE", "READ"} \/ ax' \in {"WRESP", "RDATA"}
        BY <2>4, <3>2 DEF Adapter, Issue, Write, Read, Respond, Stand
      <4>3. made'[m] = IF ax' \in {"WRESP", "RDATA"} THEN made[m] + 1 ELSE made[m]
        BY <1>2, <2>4, <3>2 DEF Made
      <4> QED BY <3>1, <4>1, <4>2, <4>3
    <3>3. CASE ax \in {"WRESP", "RDATA"}
      <4>1. made'[m] = made[m] /\ made[m] = 1
        BY <1>2, <2>4, <3>3 DEF Made, MadeInv
      <4>2. ax' \notin {"WRITE", "READ"}
        BY <2>4, <3>3 DEF Adapter, Issue, Write, Read, Respond, Stand
      <4> QED BY <3>1, <4>1, <4>2
    <3> QED BY <2>4, <3>2, <3>3 DEF Flying
  <2>5. CASE port # "down" /\ ax = "DONE"
    <3>1. made'[m] = made[m] /\ made[m] = 1
      BY <1>2, <2>5 DEF Made, MadeInv
    <3>2. Stand
      BY <2>5 DEF Adapter, Issue, Write, Read, Respond
    <3>3. CASE mem_req
      BY <1>2, <2>5, <3>1, <3>2, <3>3 DEF Stand, Now
    <3>4. CASE ~mem_req
      <4>1. done' = 1
        BY <2>1, <2>2, <3>4 DEF BridgeMoves, Bridge, mem_req, PathType
      <4>2. for' = "gone"
        BY <3>2, <3>4 DEF Stand
      <4> QED BY <1>c, <2>2, <3>1, <4>1, <4>2
    <3> QED BY <3>3, <3>4
  <2> QED BY <2>1, <2>3, <2>4, <2>5 DEF Flying, PathType
<1>3. CASE ~Over(m) /\ for # m
  <2>1. made'[m] = made[m]
    BY <1>3 DEF Made
  <2>2. made[m] = IF own = m /\ asked /\ done = 1 THEN 1 ELSE 0
    BY <1>3 DEF MadeInv
  <2>3. CASE for' = m
    <3>1. Issue /\ mem_req /\ own = m
      BY <1>3, <1>b, <1>c, <2>3 DEF Now
    <3>2. ax' \in {"WRITE", "READ"} \/ port = "down"
      BY <3>1 DEF Adapter, Issue
    <3>3. port # "down"
      BY <1>c, <2>3 DEF Adapter, PortReset
    <3> QED BY <2>1, <2>2, <2>3, <3>1, <3>2, <3>3 DEF mem_req
  <2>4. CASE for' # m
    <3>1. CASE own = m /\ asked /\ done = 1
      <4>1. asked' /\ own' = m
        BY <1>3, <3>1
      <4>2. done' = 1
        BY <3>1, <4>1 DEF BridgeMoves, Bridge
      <4> QED BY <2>1, <2>2, <2>4, <3>1, <4>1, <4>2
    <3>2. CASE ~(own = m /\ asked /\ done = 1)
      <4>1. ~(own' = m /\ asked' /\ done' = 1)
        <5> SUFFICES ASSUME own' = m, asked', done' = 1  PROVE FALSE
          OBVIOUS
        <5>1. own = m /\ Bridge
          BY DEF BridgeMoves
        <5>2. asked /\ done = 0 /\ mem_done
          BY <3>2, <5>1 DEF Bridge, PathType
        <5>3. for = own
          BY <5>2 DEF DoneInv, mem_req, mem_done
        <5> QED BY <1>3, <5>1, <5>3
      <4> QED BY <2>1, <2>2, <2>4, <3>2, <4>1
    <3> QED BY <3>1, <3>2
  <2> QED BY <2>3, <2>4
<1> QED BY <1>1, <1>2, <1>3

\* An acknowledgment is given while the bridge has the answer, and the bridge
\* keeps it for as long as the request is up.
LEMMA AckStep ==
  ASSUME PathType, AckInv, Next
  PROVE  AckInv'
<1>1. CASE MachineReset
  BY <1>1 DEF MachineReset, AckInv
<1>2. CASE Tick
  <2>1. PICK in \in SUBSET Outside : Clock(in)
    BY <1>2 DEF Tick
  <2>2. memory_ack => asked /\ done' = 1
    BY <2>1 DEF memory_ack, Clock, Bridge, PathType
  <2>3. ASSUME cpu' \in {"ANSWERED", "ACKED"}, cpu_c'.to = "memory"
        PROVE  own' = "cpu" /\ own_d' = "cpu" /\ done' = 1
    <3>1. cpu_c' = cpu_c /\ ((cpu = "GRANTED" /\ dev_ack) \/ cpu = "ANSWERED")
      BY <2>1, <2>3 DEF Clock, BusInterface
    <3>2. own = "cpu" /\ asked
      BY <2>3, <3>1, <2>2 DEF dev_ack, AckInv, asked, bus_rq, rq, cpu_rq, cyc
    <3>3. done' = 1
      <4>1. CASE cpu = "GRANTED"
        BY <2>2, <2>3, <3>1, <4>1 DEF dev_ack
      <4>2. CASE cpu = "ANSWERED"
        BY <2>1, <2>3, <3>1, <3>2, <4>2 DEF AckInv, Clock, Bridge
      <4> QED BY <3>1, <4>1, <4>2
    <3>4. own' = "cpu" /\ own_d' = "cpu"
      BY <2>1, <3>1, <3>2 DEF Clock, Arbiter, TakesCh, TakesMap, cpu_rq
    <3> QED BY <3>3, <3>4
  <2>4. ASSUME NEW m \in Others, own' = m, m \in ack', rq(m)', cyc(m)'.to = "memory"
        PROVE  own_d' = m /\ done' = 1
    <3>1. own = m /\ own_d' = m
      BY <2>1, <2>4 DEF Clock, Arbiter
    <3>2. memory_ack
      <4>1. CASE m = "map"
        BY <2>1, <2>4, <4>1 DEF Clock, Arbiter
      <4>2. CASE m = "ch"
        <5>1. ch_c' = ch_c
          BY <2>1, <2>4, <3>1, <4>2 DEF Clock, Channel, rq
        <5> QED BY <2>1, <2>4, <4>2, <5>1 DEF Clock, Arbiter, cyc
      <4> QED BY <4>1, <4>2 DEF Others
    <3> QED BY <2>2, <3>1, <3>2
  <2> QED BY <2>3, <2>4 DEF AckInv
<1> QED BY <1>1, <1>2 DEF Next

-----------------------------------------------------------------------------
LEMMA AnswerInit ==
  ASSUME Init
  PROVE  AnswerInv
<1>1. PathType /\ FlightInv /\ DoneInv
  BY DEF Init, PathType, FlightInv, DoneInv, Flying, NoCycle, Masters, Others
<1>2. MadeInv
  BY DEF Init, MadeInv, Masters, Others
<1>3. BridgeInv /\ AckInv /\ OwedInv /\ SentInv
  BY DEF Init, BridgeInv, AckInv, OwedInv, SentInv
<1> QED BY <1>1, <1>2, <1>3 DEF AnswerInv

LEMMA AnswerNext ==
  ASSUME AnswerInv, [Next]_vars
  PROVE  AnswerInv'
<1> USE DEF AnswerInv
<1>1. CASE Next
  <2>1. Around
    BY <1>1, OwnerKeeps, StepParts DEF Around
  <2>2. PICK in \in SUBSET Outside : Adapter(in)
    BY <1>1, StepParts
  <2>3. PathType'
    BY <1>1, <2>1, <2>2, MastersType, AdapterType DEF PathType, Around, Masters, Others
  <2>4. FlightInv' /\ DoneInv'
    BY <2>1, <2>2, FlightStep, DoneStep
  <2>5. MadeInv' /\ BridgeInv'
    BY <2>1, <2>2, MadeStep, BridgeStep
  <2>6. AckInv' /\ OwedInv'
    BY <1>1, <2>2, AckStep, OwedStep
  <2>7. SentInv'
    BY <2>2 DEF SentInv, Adapter, PortReset, Issue, Write, Read, Respond, Stand
  <2> QED BY <2>3, <2>4, <2>5, <2>6, <2>7
<1>2. CASE UNCHANGED vars
  <2> USE <1>2 DEF vars, masters, arbiter, bridge, adapter, slave
  <2>1. PathType' /\ OwedInv' /\ SentInv'
    BY DEF PathType, OwedInv, SentInv, Masters, Others
  <2>2. asked' = asked /\ mem_req' = mem_req /\ cyc(own)' = cyc(own)
    BY DEF mem_req, asked, bus_rq, rq, cpu_rq, cyc
  <2>3. FlightInv' /\ DoneInv' /\ BridgeInv'
    BY <2>2 DEF FlightInv, DoneInv, BridgeInv, Flying
  <2>4. MadeInv'
    BY <2>2 DEF MadeInv
  <2>5. AckInv'
    BY DEF AckInv, rq, cpu_rq, cyc
  <2> QED BY <2>1, <2>3, <2>4, <2>5
<1> QED BY <1>1, <1>2

\* An acknowledged master's answer is in the bridge, which has it for that
\* master's own cycle.
LEMMA AnswerIsOwn ==
  ASSUME AnswerInv
  PROVE  OwnAnswer
<1> USE DEF AnswerInv
<1>1. ASSUME NEW m \in Masters, own = m, asked, done = 1  PROVE Answered(m)
  <2>1. made[m] = 1
    BY <1>1 DEF MadeInv, FlightInv, Flying, mem_req, PathType, Masters, Others
  <2>2. cyc(m).write # 1 => rdata = m
    BY <1>1 DEF BridgeInv
  <2> QED BY <2>1, <2>2 DEF Answered
<1>2. ASSUME cpu = "ACKED", cpu_c.to = "memory"  PROVE own = "cpu" /\ asked /\ done = 1
  BY <1>2 DEF AckInv, asked, bus_rq, rq, cpu_rq, cyc
<1>3. ASSUME NEW m \in Others, own = m, m \in ack, rq(m), cyc(m).to = "memory"
      PROVE  asked /\ done = 1
  BY <1>3 DEF AckInv, asked, bus_rq
<1>4. cpu = "ACKED" => Answered("cpu")
  BY <1>1, <1>2 DEF Answered, cyc, Masters
<1>5. ch_req = 1 /\ ch_done => Answered("ch")
  BY <1>1, <1>3 DEF Answered, ch_done, rq, Masters, Others
<1>6. map_req = 1 /\ map_done => Answered("map")
  BY <1>1, <1>3 DEF Answered, map_done, rq, Masters, Others
<1> QED BY <1>4, <1>5, <1>6 DEF OwnAnswer

\* A master that is acknowledged has the word of its own cycle or its own write
\* is done, in every run: whatever the timer ends, the window drops, -XBUS INIT
\* stops and the two resets cut, and however often the port is reset.
THEOREM AnswersAreOwn == Spec => []OwnAnswer
<1>1. Init => AnswerInv
  BY AnswerInit
<1>2. AnswerInv /\ [Next]_vars => AnswerInv'
  BY AnswerNext
<1>3. AnswerInv => OwnAnswer
  BY AnswerIsOwn
<1> QED BY <1>1, <1>2, <1>3, PTL DEF Spec

\* The adapter waits for every response the slave owes, one at a time: none is
\* left at the port for a later cycle to take.
THEOREM AnswersAreAwaited == Spec => []EveryAnswerAwaited
<1>1. Init => AnswerInv
  BY AnswerInit
<1>2. AnswerInv /\ [Next]_vars => AnswerInv'
  BY AnswerNext
<1>3. AnswerInv => EveryAnswerAwaited
  BY DEF AnswerInv, OwedInv, EveryAnswerAwaited
<1> QED BY <1>1, <1>2, <1>3, PTL DEF Spec

\* A cycle the timer ends of an address where nothing answers reads zero
\* (cadr_xbus_ddr.sv clears its register whenever memory is not asked): no
\* word of the channel's or of the window's is left in it, as long as each of
\* theirs is shorter than the timer.
THEOREM UnansweredReadsZero ==
  ASSUME "slow" \notin Events
  PROVE  Spec => []UnansweredIsZero
<1>1. Init => UnansweredIsZero
  BY DEF Init, UnansweredIsZero
<1>2. UnansweredIsZero /\ Next => UnansweredIsZero'
  <2> SUFFICES ASSUME Next, cpu' = "NXM", cpu_c'.to = "empty" PROVE rdata' = "zero"
    BY DEF UnansweredIsZero
  <2>1. PICK in \in SUBSET Outside : Clock(in)
    BY DEF Next, Tick, MachineReset
  <2>2. cpu_c' = cpu_c /\ "nxm" \in in
    BY <2>1 DEF Clock, BusInterface
  <2>3. own = "cpu" \/ ~rq(own)
    BY <2>2 DEF Outside, Expirable
  <2>4. ~asked
    BY <2>2, <2>3 DEF asked, bus_rq, cyc
  <2> QED
    BY <2>1, <2>4 DEF Clock, Bridge
<1>3. UnansweredIsZero /\ UNCHANGED vars => UnansweredIsZero'
  BY DEF UnansweredIsZero, vars, masters, bridge
<1> QED
  BY <1>1, <1>2, <1>3, PTL DEF Spec

-----------------------------------------------------------------------------
(* The refinement: what each master sees of a tick is a step of the        *)
(* MemoryService's.                                                        *)

Phase(m) == IF ~standing(m) THEN "idle" ELSE IF acked(m) THEN "answered" ELSE "asking"
Reached(m) == IF standing(m) THEN made[m] ELSE 0
Word(m) == IF ~(standing(m) /\ acked(m)) THEN "none"
           ELSE IF cyc(m).write = 1 THEN m ELSE rdata
Stray == ax \in {"WRITE", "READ"} /\ for = "gone"

\* A standing memory cycle that is acknowledged has its answer in the bridge.
LEMMA AckedIsDone ==
  ASSUME AnswerInv, NEW m \in Masters, standing(m), acked(m)
  PROVE  own = m /\ asked /\ done = 1
<1> USE DEF AnswerInv, standing, acked
<1>1. CASE m = "cpu"
  BY <1>1 DEF AckInv, asked, bus_rq, rq, cpu_rq, cyc
<1>2. CASE m # "cpu"
  <2>1. m \in Others /\ own = m /\ m \in ack
    BY <1>2 DEF ch_done, map_done, Masters, Others
  <2> QED BY <2>1 DEF AckInv, asked, bus_rq
<1> QED BY <1>1, <1>2

\* The cycle a transaction is for stands.
LEMMA ForStands ==
  ASSUME AnswerInv, for # "gone"
  PROVE  for = own /\ asked /\ standing(for)
<1>1. for = own /\ asked
  BY SMTT(30) DEF AnswerInv, FlightInv, DoneInv, Flying, PathType, mem_req
<1> QED BY <1>1 DEF standing, asked, bus_rq

\* An acknowledged cycle ends with the tick; one that stands through it is
\* the same cycle.
LEMMA CycleMoves ==
  ASSUME PathType, Next, NEW m \in Masters, standing(m)
  PROVE  /\ acked(m) => ~standing(m)'
         /\ Over(m) => ~standing(m)'
         /\ standing(m)' => cyc(m)' = cyc(m) /\ ~Over(m)
<1> USE DEF standing, rq, cyc, Over
<1>1. CASE MachineReset
  BY <1>1, SMTT(30) DEF MachineReset, cpu_rq, Masters, Others
<1>2. CASE Tick
  <2>1. PICK in \in SUBSET Outside : Clock(in)
    BY <1>2 DEF Tick
  <2>2. CASE m = "cpu"
    BY <2>1, <2>2 DEF Clock, BusInterface, acked, cpu_rq
  <2>3. CASE m = "ch"
    <3>1. ch_req = 1
      BY <2>3
    <3>2. Channel
      BY <2>1 DEF Clock
    <3>3. ch_req' = 0 \/ (~ch_done /\ ch_req' = 1 /\ ch_c' = ch_c)
      BY <3>1, <3>2 DEF Channel
    <3> QED
      BY <2>3, <3>3 DEF acked
  <2>4. CASE m = "map"
    BY <2>1, <2>4, SMTT(30) DEF Clock, MapWindow, acked
  <2> QED BY <2>2, <2>3, <2>4 DEF Masters, Others
<1> QED BY <1>1, <1>2 DEF Next

\* A cycle reaches the memory only through a port that is up, and is lost
\* only from one that is down.
LEMMA MadeMoves ==
  ASSUME AnswerInv, NEW in \in SUBSET Outside, Adapter(in), Made,
         NEW m \in Masters, ~Over(m)
  PROVE  \/ made'[m] = made[m]
         \/ for = m /\ port = "up" /\ made[m] = 0 /\ made'[m] = 1 /\ ax \in {"WRITE", "READ"}
         \/ for = m /\ port = "down" /\ made[m] = 1 /\ made'[m] = 0
<1>1. CASE for = m /\ ax \in {"WRITE", "READ"} /\ ax' \in {"WRESP", "RDATA"}
  <2>1. made[m] = 0
    BY <1>1 DEF AnswerInv, MadeInv
  <2>2. made'[m] = 1
    BY <1>1, <2>1 DEF Made
  <2>3. in \cap {"aw", "w", "ar"} # {}
    <3>1. port # "down" /\ (Write(in) \/ Read(in))
      BY <1>1 DEF Adapter, PortReset, Issue, Respond, Stand
    <3>2. CASE Read(in)
      BY <1>1, <3>2 DEF Read
    <3>3. CASE Write(in)
      <4>1. ax = "WRITE" /\ sent \cup (in \cap {"aw", "w"}) = {"aw", "w"}
        BY <1>1, <3>3 DEF Write
      <4>2. sent # {"aw", "w"}
        BY <4>1 DEF AnswerInv, SentInv
      <4> QED BY <4>1, <4>2
    <3> QED BY <3>1, <3>2, <3>3
  <2>4. port = "up"
    BY <2>3 DEF Outside
  <2> QED BY <1>1, <2>1, <2>2, <2>4
<1>2. CASE for = m /\ ax \in {"WRESP", "RDATA"} /\ port = "down"
  <2>1. made[m] = 1
    BY <1>2 DEF AnswerInv, MadeInv
  <2>2. made'[m] = made[m] - 1
    BY <1>2 DEF Made
  <2> QED BY <1>2, <2>1, <2>2
<1>3. CASE /\ ~(for = m /\ ax \in {"WRITE", "READ"} /\ ax' \in {"WRESP", "RDATA"})
           /\ ~(for = m /\ ax \in {"WRESP", "RDATA"} /\ port = "down")
  BY <1>3, SMTT(30) DEF Made
<1> QED BY <1>1, <1>2, <1>3, Zenon

\* What one master sees of a tick: it asks, its cycle reaches the memory or is
\* lost from it, it is answered, its cycle ends, or nothing.
Sees(m, p, n, w) == Phase(m)' = p /\ Reached(m)' = n /\ Word(m)' = w

LEMMA MasterStep ==
  ASSUME AnswerInv, AnswerInv', Next, NEW m \in Masters
  PROVE  \/ Phase(m) = "idle" /\ Sees(m, "asking", 0, "none")
         \/ /\ Phase(m) = "asking" /\ Reached(m) = 0 /\ port = "up" /\ ~Stray
            /\ for = m /\ Sees(m, "asking", 1, "none")
         \/ Phase(m) = "asking" /\ Reached(m) = 1 /\ port # "up" /\ Sees(m, "asking", 0, "none")
         \/ Phase(m) = "asking" /\ Reached(m) = 1 /\ Sees(m, "answered", 1, m)
         \/ Phase(m) # "idle" /\ Sees(m, "idle", 0, "none")
         \/ Sees(m, Phase(m), Reached(m), Word(m))
<1>0. PathType /\ PathType'
  BY DEF AnswerInv
<1>a. m # "gone"
  BY DEF Masters, Others
<1>b. Made /\ BridgeMoves /\ AskedIsOwners
  BY <1>0, StepParts, OwnerKeeps
<1>c. PICK in \in SUBSET Outside : Adapter(in)
  BY <1>0, StepParts
<1>d. ASSUME standing(m)', acked(m)'  PROVE own' = m /\ asked' /\ done' = 1
  <2> USE <1>d DEF AnswerInv, standing, acked
  <2>1. CASE m = "cpu"
    BY <2>1 DEF AckInv, asked, bus_rq, rq, cpu_rq, cyc
  <2>2. CASE m # "cpu"
    <3>1. m \in Others /\ own' = m /\ m \in ack'
      BY <2>2, SMTT(30) DEF ch_done, map_done, Masters, Others
    <3> QED BY <3>1 DEF AckInv, asked, bus_rq
  <2> QED BY <2>1, <2>2
<1>1. CASE ~standing(m)'
  <2>1. Sees(m, "idle", 0, "none")
    BY <1>1, Zenon DEF Phase, Reached, Word, Sees
  <2>2. CASE standing(m)
    <3>1. Phase(m) # "idle"
      BY <2>2 DEF Phase
    <3> QED
      BY <2>1, <3>1
  <2>3. CASE ~standing(m)
    <3>1. Phase(m) = "idle" /\ Reached(m) = 0 /\ Word(m) = "none"
      BY <2>3, Zenon DEF Phase, Reached, Word
    <3> QED
      BY <2>1, <3>1
  <2> QED
    BY <2>2, <2>3
<1>2. CASE ~standing(m) /\ standing(m)'
  <2>1. ~(own = m /\ asked)
    BY <1>2 DEF standing, asked, bus_rq
  <2>2. ~(own' = m /\ asked' /\ done' = 1)
    BY <1>b, <2>1 DEF BridgeMoves, Bridge, AskedIsOwners
  <2>3. for # m
    BY <1>a, <1>2, ForStands, SMTT(30)
  <2>4. for' # m
    BY <1>a, <1>c, <2>1, <2>3 DEF Adapter, PortReset, Issue, Write, Read, Respond,
                                  Stand, Now, mem_req
  <2>5. made'[m] = 0
    BY <2>2, <2>4 DEF AnswerInv, MadeInv
  <2>6. ~acked(m)'
    BY <1>2, <1>d, <2>2, SMTT(30)
  <2> QED BY <1>2, <2>5, <2>6 DEF Phase, Reached, Word, Sees
<1>3. CASE standing(m) /\ standing(m)'
  <2>1. ~acked(m) /\ cyc(m)' = cyc(m) /\ ~Over(m)
    BY <1>0, <1>3, CycleMoves
  <2>2. Phase(m) = "asking" /\ Reached(m) = made[m] /\ Word(m) = "none" /\ Reached(m)' = made'[m]
    BY <1>3, <2>1 DEF Phase, Reached, Word
  <2>3. CASE acked(m)'
    <3>1. own' = m /\ asked' /\ done' = 1
      BY <1>3, <1>d, <2>3
    <3>2. own = m /\ asked /\ (done = 1 \/ (done = 0 /\ ax = "DONE"))
      BY <1>0, <1>b, <3>1 DEF BridgeMoves, Bridge, AskedIsOwners, mem_done, PathType
    <3>3. for = m => ax \notin {"WRITE", "READ"}
      BY <1>a, <3>2 DEF AnswerInv, FlightInv, Flying, mem_req
    <3>4. done = 0 => for = m
      BY <3>2 DEF AnswerInv, DoneInv, mem_req
    <3>5. made[m] = 1
      BY <3>2, <3>3, <3>4 DEF AnswerInv, MadeInv
    <3>6. for' = m => ax' \notin {"WRITE", "READ"}
      BY <1>a, <3>1, SMTT(30) DEF AnswerInv, FlightInv, Flying, mem_req
    <3>7. made'[m] = 1
      BY <3>1, <3>6 DEF AnswerInv, MadeInv
    <3>8. Word(m)' = m
      BY <1>3, <2>3, <3>1 DEF Word, AnswerInv, BridgeInv
    <3> QED BY <1>3, <2>2, <2>3, <3>5, <3>7, <3>8 DEF Phase, Sees
  <2>4. CASE ~acked(m)'
    <3>1. Phase(m)' = "asking" /\ Word(m)' = "none"
      BY <1>3, <2>4, SMTT(30) DEF Phase, Word
    <3>2. \/ made'[m] = made[m]
          \/ for = m /\ port = "up" /\ made[m] = 0 /\ made'[m] = 1 /\ ax \in {"WRITE", "READ"}
          \/ for = m /\ port = "down" /\ made[m] = 1 /\ made'[m] = 0
      BY <1>b, <1>c, <2>1, MadeMoves
    <3> QED BY <1>a, <2>2, <3>1, <3>2 DEF Sees, Stray
  <2> QED BY <2>3, <2>4
<1> QED BY <1>1, <1>2, <1>3

\* What strays was given up by the tick or before it.
LEMMA StrayStep ==
  ASSUME AnswerInv, Next, Stray', ~Stray
  PROVE  \E m \in Masters : Phase(m) = "asking" /\ Reached(m) = 0 /\ Phase(m)' = "idle"
<1>0. PathType
  BY DEF AnswerInv
<1>a. own \in Masters /\ own # "gone"
  BY <1>0 DEF PathType, Masters, Others
<1>1. PICK in \in SUBSET Outside : Adapter(in)
  BY <1>0, StepParts
<1>2. /\ mem_req /\ Over(own)
      /\ (for = own /\ ax \in {"WRITE", "READ"}) \/ (for = "gone" /\ ax = "IDLE")
  <2>1. port # "down" /\ ax' \in {"WRITE", "READ"} /\ for' = "gone"
    BY <1>1 DEF Stray, Adapter, PortReset
  <2>2. CASE Issue
    BY <1>a, <2>1, <2>2 DEF Issue, Now, AnswerInv, FlightInv
  <2>3. CASE Write(in) \/ Read(in)
    <3>1. for # "gone" /\ ax \in {"WRITE", "READ"} /\ for' = Now(for)
      BY <2>3 DEF Stray, Write, Read
    <3> QED BY <2>1, <3>1 DEF Now, AnswerInv, FlightInv, Flying
  <2>4. CASE Respond(in) \/ Stand
    BY <2>1, <2>4 DEF Respond, Stand
  <2> QED BY <1>1, <2>1, <2>2, <2>3, <2>4 DEF Adapter
<1>3. PICK m \in Masters : m = own
  BY <1>a
<1>4. standing(m) /\ done = 0
  BY <1>2, <1>3 DEF mem_req, asked, bus_rq, standing
<1>5. ~acked(m)
  BY <1>4, AckedIsDone
<1>6. made[m] = 0
  BY <1>a, <1>2, <1>3, <1>4 DEF AnswerInv, MadeInv
<1>7. ~standing(m)'
  BY <1>0, <1>2, <1>3, <1>4, CycleMoves
<1> QED BY <1>4, <1>5, <1>6, <1>7 DEF Phase, Reached

\* A tick of the path is a tick of the service.
LEMMA ServiceStep ==
  ASSUME AnswerInv, AnswerInv', Next
  PROVE  Service!Next
<1>1. \A m \in Masters : \/ Service!Ask(m) \/ Service!Access(m) \/ Service!Lose(m)
                         \/ Service!Answer(m) \/ Service!Leave(m) \/ Service!Keep(m)
  <2> TAKE m \in Masters
  <2> USE DEF Phase, Reached, Word, Stray, Sees, Service!Becomes
  <2>1. CASE Phase(m) = "idle" /\ Sees(m, "asking", 0, "none")
    BY <2>1, SMTT(30) DEF Service!Ask
  <2>2. CASE /\ Phase(m) = "asking" /\ Reached(m) = 0 /\ port = "up" /\ ~Stray
             /\ for = m /\ Sees(m, "asking", 1, "none")
    BY <2>2, SMTT(30) DEF Service!Access
  <2>3. CASE Phase(m) = "asking" /\ Reached(m) = 1 /\ port # "up" /\ Sees(m, "asking", 0, "none")
    BY <2>3 DEF Service!Lose
  <2>4. CASE Phase(m) = "asking" /\ Reached(m) = 1 /\ Sees(m, "answered", 1, m)
    BY <2>4 DEF Service!Answer
  <2>5. CASE Phase(m) # "idle" /\ Sees(m, "idle", 0, "none")
    BY <2>5 DEF Service!Leave
  <2>6. CASE Sees(m, Phase(m), Reached(m), Word(m))
    BY <2>6 DEF Service!Keep
  <2>7. \/ Phase(m) = "idle" /\ Sees(m, "asking", 0, "none")
        \/ /\ Phase(m) = "asking" /\ Reached(m) = 0 /\ port = "up" /\ ~Stray
           /\ for = m /\ Sees(m, "asking", 1, "none")
        \/ Phase(m) = "asking" /\ Reached(m) = 1 /\ port # "up" /\ Sees(m, "asking", 0, "none")
        \/ Phase(m) = "asking" /\ Reached(m) = 1 /\ Sees(m, "answered", 1, m)
        \/ Phase(m) # "idle" /\ Sees(m, "idle", 0, "none")
        \/ Sees(m, Phase(m), Reached(m), Word(m))
    BY MasterStep, ZenonT(30)
  <2> QED BY ONLY <2>1, <2>2, <2>3, <2>4, <2>5, <2>6, <2>7, ZenonT(30)
<1>2. ASSUME NEW m \in Masters, Reached(m)' > Reached(m)  PROVE m = for
  <2>1. Reached(m) \in {0, 1}
    BY ZenonT(30) DEF Reached, AnswerInv, MadeInv
  <2>2. Phase(m) = "idle" => Reached(m) = 0
    BY DEF Phase, Reached
  <2> QED BY <1>2, <2>1, <2>2, MasterStep DEF Sees
<1>3. Stray' /\ ~Stray =>
        \E m \in Masters : Phase(m) = "asking" /\ Reached(m) = 0 /\ Phase(m)' = "idle"
  BY StrayStep, SMTT(30)
<1> DEFINE made_s == [m \in Masters |-> IF standing(m) THEN made[m] ELSE 0]
           phase_s == [m \in Masters |-> IF ~standing(m) THEN "idle"
                                         ELSE IF acked(m) THEN "answered" ELSE "asking"]
<1>4. ASSUME NEW m \in Masters, NEW n \in Masters,
             made_s'[m] > made_s[m], made_s'[n] > made_s[n]
      PROVE  m = n
  BY <1>2, <1>4 DEF Reached
<1>5. (ax \in {"WRITE", "READ"} /\ for = "gone")' /\ ~(ax \in {"WRITE", "READ"} /\ for = "gone")
        => \E m \in Masters : phase_s[m] = "asking" /\ made_s[m] = 0 /\ phase_s'[m] = "idle"
  BY <1>3 DEF Phase, Reached, Stray
<1> QED BY <1>1, <1>4, <1>5, ZenonT(30) DEF Service!Next

\* The masters, the arbiter, the bridge and the adapter implement the service:
\* each cycle is in memory once and before its answer, and none overtakes what
\* a cycle given up has left at the port.
THEOREM PathServes == Spec => ServesMemory
<1>1. Init => Service!Init
  BY DEF Init, Service!Init, standing, rq, cpu_rq, cyc, Masters, Others, NoCycle
<1>2. AnswerInv /\ AnswerInv' /\ [Next]_vars => [Service!Next]_(Service!vars)
  <2>1. CASE UNCHANGED vars
    BY <2>1, ZenonT(30) DEF vars, masters, arbiter, bridge, adapter, slave, Service!vars,
                standing, acked, rq, cpu_rq, cyc, ch_done, map_done
  <2> QED BY <2>1, ServiceStep
<1>3. Init => AnswerInv
  BY AnswerInit
<1>4. AnswerInv /\ [Next]_vars => AnswerInv'
  BY AnswerNext
<1> QED BY <1>1, <1>2, <1>3, <1>4, PTL DEF Spec, ServesMemory, Service!Spec
=============================================================================
