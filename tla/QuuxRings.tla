----------------------------- MODULE QuuxRings -----------------------------
(***************************************************************************)
(* QUUX's file device and Ethernet device: rings in the machine's main     *)
(* memory, the devices' registers in the fabric, and on Linux one program  *)
(* each that serves them (quux15_devices.sv, quux16_ethernet.sv,           *)
(* qfd_ring.c, qed_ring.c and the two faces).  The machine may disable a   *)
(* device at any moment and takes its memory back once quiet reads 1; the  *)
(* program learns of it only by reading the page, one register at a time.  *)
(*                                                                         *)
(* A world is one ring: the file device's commands and responses, or the   *)
(* Ethernet device's transmit or receive ring.  The two Ethernet rings     *)
(* share the claim and the epoch, but one program serves both in turn and  *)
(* holds one claim at a time.  Every step is an access of one actor, with  *)
(* the landing of a completion the clock after it was written.             *)
(***************************************************************************)
EXTENDS Integers, Sequences, FiniteSets

CONSTANTS
    Worlds,       \* records [kind, mod, csize, rsize, most, events]: the ring,
                  \* the indexes' modulus (2^16 in the code), the entries of
                  \* the machine's ring and of the program's (2^log2 each),
                  \* the entries sent under one claim, what may happen
    CmdBound,     \* entries the machine posts in one epoch, at most
    EpochBound,   \* disables, at most (the epoch's modulus is never reached)
    KillBound,    \* deaths of the program, at most
    MaxHandles    \* handles a command may leave open

Kinds == {"file", "transmit", "receive"}

ASSUME RingsAssumption ==
    /\ {CmdBound, EpochBound, KillBound, MaxHandles} \subseteq Nat
    /\ \A w \in Worlds :
           /\ w.kind \in Kinds /\ w.events \subseteq {"reset", "kill", "stop"}
           /\ w.mod \in Nat \ {0}
           /\ \A z \in {w.csize, w.rsize} : z \in 1 .. w.mod - 1 /\ w.mod % z = 0
           /\ w.kind = "receive" => w.csize = w.rsize
           /\ w.most \in Nat \ {0}

Parts == {"buffer", "entry"}     \* what the program writes for one entry
None  == -1                      \* no completion is landing
Other == <<-1, 0>>               \* memory that is no entry of any enable
Out   == <<-1, 1>>               \* a line the machine's cache does not hold

Tags   == (0 .. EpochBound) \X (0 .. CmdBound)
Words  == Tags \cup {Other}

VARIABLES
    world,     \* which ring this behaviour is about; never changes
    d,         \* the device's registers
    cmd,       \* the entries the machine writes: the command ring's, in memory
    resp,      \* what the program writes: buffer and entry, in memory
    cache,     \* the machine's cached copy of resp
    given,     \* the rings' memory is the device's, not the machine's to reuse
    posted,    \* entries posted since the enable
    did,       \* entries carried out since the enable, in order
    opens,     \* the handles open after each of them
    pc, g, s, i, n, b, command, left,   \* the program: see Program below
    kills

local   == <<g, s, i, n, b, command, left>>
program == <<pc, local>>
memory  == <<cmd, resp, cache, given>>
history == <<posted, did, opens>>
vars    == <<world, d, memory, history, program, kills>>

kind  == world.kind
Index == 0 .. world.mod - 1
Slots == 0 .. world.mod - 1

Minus(x, y) == (x - y) % world.mod

-----------------------------------------------------------------------------
(* The device's registers.  d.pub is a completion accepted and landing at  *)
(* the next clock; d.target is RX_CONS as the host gave it, which 251      *)
(* (d.cons) follows; d.based says that the bases name this enable's rings. *)

land == d.pub # None /\ d.on

(* The landing.  The file device's and the transmit ring's consumer moves; *)
(* the receive ring's target does, and the engine brings 251 after it.     *)
Landed ==
    [d EXCEPT !.pub    = None,
              !.cons   = IF land /\ kind # "receive" THEN d.pub ELSE @,
              !.target = IF land /\ kind = "receive" THEN d.pub ELSE @,
              !.hopen  = IF land THEN d.hnext ELSE @]

(* The consumer as the host reads it: its own move at once. *)
chost == IF land THEN d.pub ELSE IF kind = "receive" THEN d.target ELSE d.cons

in_epoch(e) == d.on /\ e = d.epoch

(* fd_ok, tx_ok, rx_ok: the completion is accepted. *)
ok(e, x) ==
    /\ in_epoch(e)
    /\ Minus(x, chost) <= Minus(d.prod, chost)
    /\ kind # "transmit" => x # chost
    /\ kind = "file" => Minus(x, d.taken) <= world.rsize

(* A response ring held to be full one entry early. *)
MutWork ==
    IF kind = "file"
    THEN d.on /\ d.prod # chost /\ Minus(chost, d.taken) + 1 < world.rsize
    ELSE d.on

(* STATE <4>, the file device's; the Ethernet device's program looks at <0>. *)
work ==
    IF kind = "file"
    THEN d.on /\ d.prod # chost /\ Minus(chost, d.taken) < world.rsize
    ELSE d.on

Off(r) ==
    [r EXCEPT !.on = FALSE, !.prod = 0, !.cons = 0, !.taken = 0, !.target = 0,
              !.hopen = 0, !.hnext = 0, !.es = "idle", !.epoch = @ + 1]

(* The file device's completion sweeps the machine's whole cache. *)
Swept == [p \in Parts |-> [k \in Slots |-> Out]]
cache_w == IF land /\ kind = "file" THEN Swept ELSE cache

-----------------------------------------------------------------------------
(* The machine: its writes of the registers, and its use of the memory.    *)

(* 160 or 240 with <0> set.  The machine gives memory it owns, and writes  *)
(* the bases before it; a file device's enable zeroes the indexes, an      *)
(* Ethernet device's leaves them.                                          *)
Enable ==
    /\ ~d.on /\ ~given
    /\ d' = LET r == [Landed EXCEPT !.on = TRUE, !.based = TRUE] IN
            IF kind = "file"
            THEN [r EXCEPT !.prod = 0, !.cons = 0, !.taken = 0] ELSE r
    /\ given' = TRUE
    /\ posted' = 0 /\ did' = <<>> /\ opens' = [j \in 0 .. CmdBound |-> 0]
    /\ UNCHANGED <<world, cmd, resp, cache, program, kills>>

(* 160 or 240 with <0> clear, or RESET-DEVICES: in the clock a completion  *)
(* was written, which then never lands, or later.                          *)
Disable ==
    /\ d.on /\ d.epoch < EpochBound
    /\ \/ d' = Off(Landed) /\ cache' = cache_w
       \/ d.pub # None /\ d' = Off(d) /\ UNCHANGED cache
    /\ UNCHANGED <<world, cmd, resp, given, history, program, kills>>

(* The machine's reset: the bases and all but busy and the epoch.          *)
Reset ==
    /\ "reset" \in world.events
    /\ d.on => d.epoch < EpochBound
    /\ d' = [Off(d) EXCEPT !.based = FALSE, !.pub = None,
                           !.epoch = IF d.on THEN @ ELSE d.epoch]
    /\ d' # d
    /\ UNCHANGED <<world, memory, history, program, kills>>

(* The producer moved while the entry is still in the write buffer. *)
MutPost ==
    LET r == Landed IN
    /\ d.on /\ posted < CmdBound /\ Minus(r.prod, r.cons) < world.csize
    /\ d' = [r EXCEPT !.prod = (@ + 1) % world.mod]
    /\ posted' = posted + 1
    /\ cache' = cache_w
    /\ UNCHANGED <<world, cmd, resp, given, did, opens, program, kills>>

(* 164, 244 or 250: the next entry written into its slot, and once it is   *)
(* in memory the producer moved.  The register takes no more than the ring *)
(* holds beyond what was consumed, or for the receive ring taken.          *)
Post ==
    LET r == Landed
        from == IF kind = "receive" THEN r.taken ELSE r.cons IN
    /\ d.on /\ posted < CmdBound
    /\ Minus(r.prod + 1, from) <= world.csize
    /\ Minus(r.prod + 1, from) >= Minus(r.prod, from)
    /\ d' = [r EXCEPT !.prod = (@ + 1) % world.mod]
    /\ cmd' = [cmd EXCEPT ![d.prod % world.csize] = <<d.epoch, posted>>]
    /\ posted' = posted + 1
    /\ cache' = cache_w
    /\ UNCHANGED <<world, resp, given, did, opens, program, kills>>

(* 171 or 251's answer: the machine has read the next response or frame.   *)
Take ==
    LET r == Landed IN
    /\ d.on /\ kind # "transmit" /\ r.taken # r.cons
    /\ d' = [r EXCEPT !.taken = (@ + 1) % world.mod]
    /\ cache' = cache_w
    /\ UNCHANGED <<world, cmd, resp, given, history, program, kills>>

(* The machine reads a word of the rings or buffers: a line comes in.      *)
Load ==
    /\ given /\ kind # "transmit" /\ d.pub = None
    /\ \E p \in Parts, k \in 0 .. world.rsize - 1 :
           cache' = [cache EXCEPT ![p][k] = resp[p][k]]
    /\ UNCHANGED <<world, d, cmd, resp, given, history, program, kills>>

(* Quiet reads 1: the machine uses the memory for something else.          *)
Reuse ==
    /\ given /\ ~d.on /\ ~d.busy
    /\ given' = FALSE
    /\ cmd' = [k \in Slots |-> Other]
    /\ resp' = [p \in Parts |-> [k \in Slots |-> Other]]
    /\ cache' = [p \in Parts |-> [k \in Slots |->
                    IF k < world.rsize /\ kind # "transmit" THEN Other ELSE Out]]
    /\ d' = Landed
    /\ UNCHANGED <<world, history, program, kills>>

(* A clock in which nobody else does anything. *)
Land ==
    /\ d.pub # None
    /\ d' = Landed /\ cache' = cache_w
    /\ UNCHANGED <<world, cmd, resp, given, history, program, kills>>

(* 251 moved at the first of the entry's clears and not at its last. *)
MutEngine ==
    LET r == Landed
        k == r.cons % world.rsize IN
    /\ kind = "receive" /\ d.on
    /\ \/ r.es = "idle" /\ r.cons # r.target
          /\ d' = [r EXCEPT !.es = "read"] /\ UNCHANGED cache
       \/ r.es = "read" /\ d' = [r EXCEPT !.es = "clear"] /\ UNCHANGED cache
       \/ r.es = "clear" /\ d' = [r EXCEPT !.es = "idle", !.cons = (@ + 1) % world.mod]
          /\ cache' = [cache EXCEPT !["buffer"][k] = Out]
    /\ UNCHANGED <<world, cmd, resp, given, history, program, kills>>

(* The receive ring's line clearing: the entry read for where its buffer   *)
(* is, the buffer's lines cleared, the entry's line cleared and 251 moved. *)
(* A disable stops it.                                                     *)
Engine ==
    LET r == Landed
        k == r.cons % world.rsize IN
    /\ kind = "receive" /\ d.on
    /\ \/ r.es = "idle" /\ r.cons # r.target
          /\ d' = [r EXCEPT !.es = "read"] /\ UNCHANGED cache
       \/ r.es = "read" /\ d' = [r EXCEPT !.es = "clear"] /\ UNCHANGED cache
       \/ r.es = "clear" /\ d' = [r EXCEPT !.es = "entry"]
          /\ cache' = [cache EXCEPT !["buffer"][k] = Out]
       \/ r.es = "entry"
          /\ d' = [r EXCEPT !.es = "idle", !.cons = (@ + 1) % world.mod]
          /\ cache' = [cache EXCEPT !["entry"][k] = Out]
    /\ UNCHANGED <<world, cmd, resp, given, history, program, kills>>

-----------------------------------------------------------------------------
(* The program.  pc is the access it makes next; g the epoch it last saw   *)
(* and the handles it has open; s what its first read of STATE gave; b, n  *)
(* and i the bases, the producer and the consumer of its second read; left *)
(* the entries it may still send under this claim; command the entry it    *)
(* is carrying out.                                                        *)

(* One access of the page, at l: the registers become r, and the program   *)
(* goes on to l2.  Read is an access that writes nothing.                  *)
Access(l, r, l2) ==
    /\ pc = l /\ pc' = l2
    /\ d' = r /\ cache' = cache_w
    /\ UNCHANGED <<world, kills, cmd, given, posted>>

Write(l, r, l2) == Access(l, r, l2) /\ UNCHANGED <<resp, did, opens, local>>
Read(l, l2)     == Write(l, Landed, l2)

Release    == [Landed EXCEPT !.busy = FALSE]
Stage(e, h) == IF in_epoch(e) THEN [Landed EXCEPT !.hnext = h] ELSE Landed

(* The start lets go of a claim that a program before it left. *)
MutAttach == Read("attach", "look")
Attach    == Write("attach", Release, "look")

(* The first read of STATE.  The file device's program closes its handles  *)
(* under an epoch it has not seen, whether or not work waits.              *)
Look ==
    LET fresh == kind = "file" /\ g.epoch # d.epoch IN
    /\ Access("look", Landed, IF fresh THEN "tell"
                              ELSE IF ~work THEN "look"
                              ELSE IF kind = "file" THEN "claim" ELSE "prod")
    /\ s' = [epoch |-> d.epoch, work |-> work]
    /\ g' = IF fresh THEN [epoch |-> d.epoch, open |-> 0] ELSE g
    /\ UNCHANGED <<resp, did, opens, i, n, b, command, left>>

(* HANDLES, 0 under the new epoch. *)
Tell == Write("tell", Stage(s.epoch, 0), IF s.work THEN "claim" ELSE "look")

(* The Ethernet device's producer, of the first read and of the second,    *)
(* and its consumer: nothing to send, or no buffer for the frame.          *)
ReadProd ==
    /\ \/ Access("prod", Landed, "cons")
       \/ Access("prod again", Landed, "index")
    /\ n' = d.prod
    /\ UNCHANGED <<resp, did, opens, g, s, i, b, command, left>>

ReadCons == Read("cons", IF chost = n THEN "look" ELSE "claim")

(* A program that looks neither whether its claim was taken nor again at   *)
(* STATE under it.                                                         *)
MutClaimed == Read("claimed", "bases")

(* The claim, and the claim read back. *)
Claim ==
    Write("claim", IF in_epoch(s.epoch) THEN [Landed EXCEPT !.busy = TRUE] ELSE Landed,
          "claimed")
Claimed == Read("claimed", IF d.busy THEN "again" ELSE "look")

(* The second read of the page, under the claim: STATE, the bases, and the *)
(* indexes, one register at a time.                                        *)
Again == Read("again", IF d.epoch = s.epoch /\ work THEN "bases" ELSE "release")

Bases ==
    /\ Access("bases", Landed, IF kind = "transmit" THEN "prod again" ELSE "index")
    /\ b' = d.based
    /\ UNCHANGED <<resp, did, opens, g, s, i, n, command, left>>

ReadIndex ==
    /\ Access("index", Landed,
              IF kind = "transmit" /\ chost = n THEN "release" ELSE "entry")
    /\ i' = chost
    /\ left' = world.most
    /\ UNCHANGED <<resp, did, opens, g, s, n, b, command>>

(* The entry read out of the ring, or out of whatever lies at address 0.   *)
(* A frame that does not fit the buffer given for it is dropped.           *)
Entry ==
    /\ \/ Access("entry", Landed, "do")
       \/ kind = "receive" /\ Access("entry", Landed, "release")
    /\ command' = IF b THEN cmd[i % world.csize] ELSE Other
    /\ UNCHANGED <<resp, did, opens, g, s, i, n, b, left>>

(* The host's effect, and the buffer it fills.  A command leaves any       *)
(* number of handles open.                                                 *)
Do ==
    /\ Access("do", Landed, IF kind = "transmit" THEN "complete" ELSE "put")
    /\ did' = IF d.on THEN Append(did, command) ELSE did
    /\ \E h \in IF kind = "file" THEN 0 .. MaxHandles ELSE {0} :
           /\ g' = [g EXCEPT !.open = h]
           /\ opens' = IF command \in Tags /\ d.on
                       THEN [opens EXCEPT ![command[2]] = h] ELSE opens
    /\ resp' = IF kind = "transmit" \/ ~b THEN resp
               ELSE [resp EXCEPT !["buffer"][i % world.rsize] = command]
    /\ UNCHANGED <<s, i, n, b, command, left>>

(* The response, or the frame's length, into the ring. *)
Put ==
    /\ Access("put", Landed, IF kind = "file" THEN "check" ELSE "complete")
    /\ resp' = IF b THEN [resp EXCEPT !["entry"][i % world.rsize] = command] ELSE resp
    /\ UNCHANGED <<did, opens, local>>

(* The file device's third read: a command overtaken by a disable is not   *)
(* published, and its handles are closed.                                  *)
Check ==
    /\ Access("check", Landed, IF d.epoch = s.epoch THEN "handles" ELSE "release")
    /\ g' = IF d.epoch = s.epoch THEN g ELSE [epoch |-> d.epoch, open |-> 0]
    /\ UNCHANGED <<resp, did, opens, s, i, n, b, command, left>>

(* HANDLES, staged until the completion lands; the mutant's are seen by    *)
(* the machine as soon as they are written.                                *)
MutHandles ==
    Write("handles", [Stage(s.epoch, g.open) EXCEPT
                      !.hopen = IF in_epoch(s.epoch) THEN g.open ELSE @], "complete")
Handles == Write("handles", Stage(s.epoch, g.open), "complete")

(* The completion: RESP_PROD, TX_CONS or RX_CONS.  The transmit ring goes  *)
(* on to its next entry under the same claim.                              *)
Complete ==
    LET x == (i + 1) % world.mod IN
    /\ Access("complete",
              IF ok(s.epoch, x) THEN [Landed EXCEPT !.pub = x] ELSE Landed,
              IF kind = "file" THEN "verify"
              ELSE IF kind = "transmit" /\ x # n /\ left > 1 THEN "entry"
              ELSE "release")
    /\ IF kind = "transmit" THEN i' = x /\ left' = left - 1 ELSE UNCHANGED <<i, left>>
    /\ UNCHANGED <<resp, did, opens, g, s, n, b, command>>

(* The file device's fourth read: STATE, and then RESP_PROD.  An index     *)
(* that has not moved under the same epoch stops the program.              *)
Verify == Read("verify", IF d.epoch = s.epoch THEN "verify index" ELSE "release")
VerifyIndex ==
    Read("verify index",
         IF chost = (i + 1) % world.mod THEN "release" ELSE "release and stop")

LetGo == \/ Write("release", Release, "look")
         \/ Write("release and stop", Release, "fail")

(* The program dies wherever it is, and is started again: its handles go   *)
(* with it, the claim it held does not.  Asked to stop, it ends between    *)
(* two steps; the file device's tells the page that no handle is open.     *)
Kill ==
    /\ "kill" \in world.events /\ kills < KillBound
    /\ kills' = kills + 1
    /\ pc' = "attach" /\ g' = [epoch |-> -1, open |-> 0]
    /\ UNCHANGED <<world, d, memory, history, s, i, n, b, command, left>>

Stop ==
    /\ "stop" \in world.events /\ kills < KillBound
    /\ pc = "look"
    /\ kills' = kills + 1
    /\ d' = IF kind = "file" THEN Landed ELSE Release
    /\ cache' = cache_w
    /\ s' = [s EXCEPT !.epoch = d.epoch]
    /\ g' = [epoch |-> -1, open |-> 0]
    /\ pc' = IF kind = "file" THEN "farewell" ELSE "attach"
    /\ UNCHANGED <<world, cmd, resp, given, history, i, n, b, command, left>>

(* The end of the program that stopped by itself, which is the same. *)
Fail ==
    /\ Access("fail", Landed, "last farewell")
    /\ s' = [s EXCEPT !.epoch = d.epoch]
    /\ g' = [epoch |-> -1, open |-> 0]
    /\ UNCHANGED <<resp, did, opens, i, n, b, command, left>>

Farewell == \/ Write("farewell", Stage(s.epoch, 0), "attach")
            \/ Write("last farewell", Stage(s.epoch, 0), "stopped")

-----------------------------------------------------------------------------
Machine == Enable \/ Disable \/ Reset \/ Post \/ Take \/ Load \/ Reuse
Fabric  == Land \/ Engine
Program == \/ Attach \/ Look \/ Tell \/ ReadProd \/ ReadCons \/ Claim \/ Claimed
           \/ Again \/ Bases \/ ReadIndex \/ Entry \/ Do \/ Put \/ Check
           \/ Handles \/ Complete \/ Verify \/ VerifyIndex \/ LetGo \/ Fail
           \/ Farewell

Init ==
    /\ world \in Worlds
    /\ d = [on |-> FALSE, epoch |-> 0, busy |-> FALSE, based |-> FALSE,
            prod |-> 0, cons |-> 0, taken |-> 0, target |-> 0, pub |-> None,
            hopen |-> 0, hnext |-> 0, es |-> "idle"]
    /\ cmd = [k \in Slots |-> Other]
    /\ resp = [p \in Parts |-> [k \in Slots |-> Other]]
    /\ cache = [p \in Parts |-> [k \in Slots |-> Out]]
    /\ given = FALSE
    /\ posted = 0 /\ did = <<>> /\ opens = [j \in 0 .. CmdBound |-> 0]
    /\ pc = "attach" /\ g = [epoch |-> -1, open |-> 0]
    /\ s = [epoch |-> 0, work |-> FALSE]
    /\ i = 0 /\ n = 0 /\ b = FALSE /\ command = Other /\ left = 0
    /\ kills = 0

Next == Machine \/ Fabric \/ Program \/ Kill \/ Stop

(* The clock runs, the memory's channel answers the engine, and the        *)
(* program is scheduled.  Nothing is asked of the machine, nor that the    *)
(* program die or stop.                                                    *)
Spec == Init /\ [][Next]_vars /\ WF_vars(Fabric) /\ WF_vars(Program)

-----------------------------------------------------------------------------
(* The entry of this enable that an index of the ring stands for. *)
Entries(x) == posted - Minus(d.prod, x)

(* "the machine does not reuse the memory this command reads and writes"   *)
(* (qfd_ring.c, of the claim; qed_ring.c says the same): whenever the      *)
(* program reads or writes the rings and their buffers the memory is still *)
(* the device's, however the machine disables it meanwhile.  After a reset *)
(* of the machine inside the second read the bases may read 0.             *)
MemoryHeld ==
    pc \in {"entry", "do", "put"} =>
        given /\ (b \/ "reset" \in world.events)

(* Every response or frame the machine may read, from what it has taken up *)
(* to 170 or 251, is in memory, whole, and of its own entry under this     *)
(* enable; and no line of it in the machine's cache is older.              *)
ReadsItsAnswer ==
    d.on /\ kind # "transmit" =>
        \A j \in Entries(d.cons) - Minus(d.cons, d.taken) .. Entries(d.cons) - 1, p \in Parts :
            LET k == j % world.rsize
                own == <<d.epoch, j>> IN
            resp[p][k] = own /\ cache[p][k] \in {own, Out}

(* Under one enable the entries are carried out in order, each once, none  *)
(* left out, and none is shown done before it was.  (A program that dies   *)
(* between a command and its completion does it again when restarted.)     *)
OnceInOrder ==
    d.on /\ "kill" \notin world.events =>
        /\ \A j \in 1 .. Len(did) : did[j] = <<d.epoch, j - 1>>
        /\ Entries(chost) <= Len(did) /\ Len(did) <= Entries(chost) + 1

(* 161 <23:16>, the handles open, and 170 move in the same tick: the count *)
(* the machine reads is that of the last command it sees done.             *)
HandlesTogether ==
    d.on => d.hopen = IF Entries(d.cons) = 0 THEN 0 ELSE opens[Entries(d.cons) - 1]

(* A disabled device becomes quiet, or is enabled again: a machine that    *)
(* waits for quiet does not wait on nobody, even when the program died     *)
(* holding the claim.                                                      *)
QuietComes == ~d.on ~> d.on \/ ~d.busy

(* What waits is served: the consumer the machine reads catches up with    *)
(* its producer, the receive ring's with the delivery, unless the device   *)
(* is disabled or the machine leaves the response ring full.  A program    *)
(* that stopped serves nothing.                                            *)
Waits ==
    /\ d.on
    /\ IF kind = "receive" THEN d.target # d.cons
       ELSE d.prod # d.cons /\ (kind = "file" => Minus(d.cons, d.taken) < world.rsize)

Served == Waits ~> ~Waits \/ pc = "stopped"

(* qfd_ring.c: "Under the same epoch the index must have moved; if it has  *)
(* not, the command would be taken again": the program stops only where    *)
(* the command could be, the device enabled still under that epoch.        *)
StopsOnlyUnderItsEpoch ==
    [][pc' = "release and stop" /\ pc # pc' => in_epoch(s.epoch)]_vars
=============================================================================
