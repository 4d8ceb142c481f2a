-------------------------- MODULE QuuxRingsProofs --------------------------
(***************************************************************************)
(* The rings, for any sizes of them and of their indexes, any number of    *)
(* entries, disables, resets and deaths of the program.                    *)
(*                                                                         *)
(* The claim keeps the machine's memory (MemoryHeld).  MemoryHeld alone is *)
(* not inductive, for it says nothing of the claim.  HeldInv adds that the *)
(* memory is given while the device is enabled or the claim held, that the *)
(* bases stand with it where no reset takes them, and that the program     *)
(* holds the claim from its second read of the page until it lets go.      *)
(*                                                                         *)
(* What passes through a ring is its own (ReadsItsAnswer, OnceInOrder,     *)
(* HandlesTogether).  The registers hold indexes that wrap; RingInv says   *)
(* what they stand for: while the device is enabled there are counts of    *)
(* the entries taken (t), shown done (c) and done (h), of which the        *)
(* registers are the remainders, and the rings, the cache, the program's   *)
(* registers and the history agree with the counts.  That a ring is        *)
(* smaller than the indexes' modulus, and divides it, makes the distances  *)
(* of indexes those of the counts, and keeps two waiting entries from      *)
(* sharing a slot.                                                         *)
(***************************************************************************)
EXTENDS QuuxRings, TLAPS

(* The registers the argument is about are fields of r. *)
Registers(r) == "on" \in DOMAIN r /\ "busy" \in DOMAIN r /\ "based" \in DOMAIN r

(* Where the program holds the claim, and where it has read the bases. *)
Based == {"prod again", "index", "entry", "do", "put", "check", "handles", "complete"}
Under == Based \cup {"again", "bases", "verify", "verify index", "release",
                     "release and stop"}

HeldInv ==
    /\ Registers(d) /\ {d.on, d.busy, d.based, given, b} \subseteq BOOLEAN
    /\ d.on \/ d.busy => given
    /\ given => d.based \/ "reset" \in world.events
    /\ pc \in Under => d.busy
    /\ pc \in Based => b \/ "reset" \in world.events

(* A landing moves neither the enable nor the claim nor the bases. *)
LEMMA LandedKeeps ==
    ASSUME Registers(d)
    PROVE  /\ Registers(Landed)
           /\ Landed.on = d.on /\ Landed.busy = d.busy /\ Landed.based = d.based
<1>1. Landed.on = d.on /\ Landed.busy = d.busy /\ Landed.based = d.based
  BY DEF Registers, Landed
<1>2. Registers(Landed)
  BY DEF Landed, Registers
<1> QED BY <1>1, <1>2

LEMMA HeldInit == Init => HeldInv
<1> SUFFICES ASSUME Init PROVE HeldInv
  OBVIOUS
<1>1. Registers(d) /\ ~d.on /\ ~d.busy /\ ~d.based
  BY DEF Init, Registers
<1>2. d.on \in BOOLEAN /\ d.busy \in BOOLEAN /\ d.based \in BOOLEAN
  BY DEF Init
<1>3. given = FALSE /\ b = FALSE /\ pc = "attach"
  BY DEF Init
<1> QED BY <1>1, <1>2, <1>3 DEF HeldInv, Based, Under

(* No operation of the machine or of the fabric takes memory that is held. *)
LEMMA HeldMachine == HeldInv /\ (Machine \/ Fabric) => HeldInv'
<1> SUFFICES ASSUME HeldInv, Machine \/ Fabric PROVE HeldInv'
  OBVIOUS
<1> USE DEF HeldInv
<1>0. /\ Registers(Landed)
      /\ Landed.on = d.on /\ Landed.busy = d.busy /\ Landed.based = d.based
  BY LandedKeeps
<1>1. CASE Enable
  <2>1. UNCHANGED <<world, pc, b>> /\ given' = TRUE
    BY <1>1 DEF Enable, program, local
  <2>2. Registers(d') /\ d'.on = TRUE /\ d'.busy = d.busy /\ d'.based = TRUE
    BY <1>0, <1>1 DEF Enable, Registers
  <2> QED BY <2>1, <2>2 DEF Registers
<1>2. CASE Disable
  <2>1. UNCHANGED <<world, pc, b, given>>
    BY <1>2 DEF Disable, program, local
  <2>2. Registers(d') /\ d'.on = FALSE /\ d'.busy = d.busy /\ d'.based = d.based
    BY <1>0, <1>2 DEF Disable, Registers, Off
  <2> QED BY <2>1, <2>2 DEF Registers
<1>3. CASE Reset
  <2>1. UNCHANGED <<world, pc, b, given>> /\ "reset" \in world.events
    BY <1>3 DEF Reset, program, local, memory
  <2>2. Registers(d') /\ d'.on = FALSE /\ d'.busy = d.busy /\ d'.based = FALSE
    BY <1>3 DEF Reset, Registers, Off
  <2> QED BY <2>1, <2>2 DEF Registers
<1>4. CASE Reuse
  <2>1. UNCHANGED <<world, pc, b>> /\ given' = FALSE /\ ~d.on /\ ~d.busy /\ d' = Landed
    BY <1>4 DEF Reuse, program, local
  <2> QED BY <1>0, <2>1 DEF Registers
<1>5. CASE Post \/ Take \/ Load \/ Land \/ Engine
  <2>1. UNCHANGED <<world, pc, b, given>>
    BY <1>5 DEF Post, Take, Load, Land, Engine, program, local
  <2>2. Registers(d') /\ d'.on = d.on /\ d'.busy = d.busy /\ d'.based = d.based
    <3>1. CASE Post BY <1>0, <3>1 DEF Post, Registers
    <3>2. CASE Take BY <1>0, <3>2 DEF Take, Registers
    <3>3. CASE Load BY <3>3 DEF Load
    <3>4. CASE Land BY <1>0, <3>4 DEF Land
    <3>5. CASE Engine BY <1>0, <3>5 DEF Engine, Registers
    <3> QED BY <1>5, <3>1, <3>2, <3>3, <3>4, <3>5
  <2> QED BY <2>1, <2>2 DEF Registers
<1> QED BY <1>1, <1>2, <1>3, <1>4, <1>5 DEF Machine, Fabric

(* The program goes on to the rings only with its claim taken, and drops   *)
(* the claim only where it is done with them.                              *)
LEMMA HeldProgram == HeldInv /\ (Program \/ Kill \/ Stop) => HeldInv'
<1> SUFFICES ASSUME HeldInv, Program \/ Kill \/ Stop PROVE HeldInv'
  OBVIOUS
<1> USE DEF HeldInv
<1>0. /\ Registers(Landed)
      /\ Landed.on = d.on /\ Landed.busy = d.busy /\ Landed.based = d.based
  BY LandedKeeps
<1>1. /\ Registers(Release) /\ Release.busy = FALSE
      /\ Release.on = d.on /\ Release.based = d.based
  <2>1. Release.busy = FALSE /\ Release.on = d.on /\ Release.based = d.based
    BY <1>0 DEF Release, Registers
  <2>2. Registers(Release)
    BY <1>0 DEF Release, Registers
  <2> QED BY <2>1, <2>2
<1>2. ASSUME NEW e, NEW h
      PROVE  /\ Registers(Stage(e, h))
             /\ Stage(e, h).on = d.on /\ Stage(e, h).busy = d.busy
             /\ Stage(e, h).based = d.based
  BY <1>0 DEF Stage, Registers
<1>3. ASSUME NEW l, NEW r, NEW l2, Access(l, r, l2), Registers(r),
             r.on = d.on, r.busy = d.busy, r.based = d.based, b' = b,
             l2 \in Under => l \in Under \/ d.busy, l2 \in Based => l \in Based
      PROVE  HeldInv'
  BY <1>3 DEF Access, Registers
<1>4. ASSUME NEW l, NEW l2, Access(l, Release, l2), b' = b, l2 \notin Under, l2 \notin Based
      PROVE  HeldInv'
  BY <1>1, <1>4 DEF Access, Registers
<1>5. CASE Attach
  BY <1>4, <1>5 DEF Attach, Write, local, Under, Based
<1>6. CASE Look
  BY <1>0, <1>3, <1>6 DEF Look, Under, Based
<1>7. CASE Tell
  BY <1>2, <1>3, <1>7 DEF Tell, Write, local, Under, Based
<1>8. CASE ReadProd
  BY <1>0, <1>3, <1>8 DEF ReadProd, Under, Based
<1>9. CASE ReadCons
  BY <1>0, <1>3, <1>9 DEF ReadCons, Read, Write, local, Under, Based
<1>10. CASE Claim
  <2>1. pc = "claim" /\ pc' = "claimed" /\ UNCHANGED <<world, given, b>>
    BY <1>10 DEF Claim, Write, Access, local
  <2>2. /\ Registers(d') /\ d'.on = d.on /\ d'.based = d.based
        /\ d'.busy = d.busy \/ (d'.busy = TRUE /\ d.on)
    BY <1>0, <1>10 DEF Claim, Write, Access, Registers, in_epoch
  <2> QED BY <2>1, <2>2 DEF Registers, Under, Based
<1>11. CASE Claimed
  BY <1>0, <1>3, <1>11 DEF Claimed, Read, Write, local, Under, Based
<1>12. CASE Again
  BY <1>0, <1>3, <1>12 DEF Again, Read, Write, local, Under, Based
<1>13. CASE Bases
  <2>1. pc = "bases" /\ pc' \in {"prod again", "index"} /\ d' = Landed
        /\ b' = d.based /\ UNCHANGED <<world, given>>
    BY <1>13 DEF Bases, Access
  <2> QED BY <1>0, <2>1 DEF Registers, Under, Based
<1>14. CASE ReadIndex
  BY <1>0, <1>3, <1>14 DEF ReadIndex, Under, Based
<1>15. CASE Entry
  BY <1>0, <1>3, <1>15 DEF Entry, Under, Based
<1>16. CASE Do
  BY <1>0, <1>3, <1>16 DEF Do, Under, Based
<1>17. CASE Put
  BY <1>0, <1>3, <1>17 DEF Put, local, Under, Based
<1>18. CASE Check
  BY <1>0, <1>3, <1>18 DEF Check, Under, Based
<1>19. CASE Handles
  BY <1>2, <1>3, <1>19 DEF Handles, Write, local, Under, Based
<1>20. CASE Complete
  <2>1. UNCHANGED <<world, given, b>> /\ pc = "complete"
    BY <1>20 DEF Complete, Access
  <2>2. Registers(d') /\ d'.on = d.on /\ d'.busy = d.busy /\ d'.based = d.based
    BY <1>0, <1>20 DEF Complete, Access, Registers
  <2> QED BY <2>1, <2>2 DEF Registers, Under, Based
<1>21. CASE Verify \/ VerifyIndex
  BY <1>0, <1>3, <1>21 DEF Verify, VerifyIndex, Read, Write, local, Under, Based
<1>22. CASE LetGo
  BY <1>4, <1>22 DEF LetGo, Write, local, Under, Based
<1>23. CASE Farewell
  BY <1>2, <1>3, <1>23 DEF Farewell, Write, local, Under, Based
<1>24. CASE Fail
  BY <1>0, <1>3, <1>24 DEF Fail, Under, Based
<1>25. CASE Kill
  BY <1>25 DEF Kill, memory, Registers, Under, Based
<1>26. CASE Stop
  BY ZenonT(40), <1>0, <1>1, <1>26 DEF Stop, Registers, Under, Based
<1> QED
  BY <1>5, <1>6, <1>7, <1>8, <1>9, <1>10, <1>11, <1>12, <1>13, <1>14, <1>15, <1>16,
     <1>17, <1>18, <1>19, <1>20, <1>21, <1>22, <1>23, <1>24, <1>25, <1>26 DEF Program

(* The program touches the rings' memory only while it is the device's,    *)
(* whatever the machine does to the device meanwhile (qfd_ring_step,       *)
(* qed_ring_transmit, qed_ring_receive under their claim).                 *)
THEOREM MemoryAlwaysHeld == Spec => []MemoryHeld
<1>1. HeldInv /\ [Next]_vars => HeldInv'
  <2> SUFFICES ASSUME HeldInv, [Next]_vars PROVE HeldInv'
    OBVIOUS
  <2>1. CASE Next
    BY <2>1, HeldMachine, HeldProgram DEF Next
  <2>2. CASE UNCHANGED vars
    BY <2>2 DEF vars, memory, program, local, HeldInv, Registers
  <2> QED BY <2>1, <2>2
<1>2. HeldInv => MemoryHeld
  BY DEF HeldInv, MemoryHeld, Under, Based
<1> QED BY HeldInit, <1>1, <1>2, PTL DEF Spec

-----------------------------------------------------------------------------
(* Arithmetic modulo m, of which the provers know only the division.       *)

LEMMA Bounds ==
  CmdBound \in Nat /\ EpochBound \in Nat /\ KillBound \in Nat /\ MaxHandles \in Nat
BY RingsAssumption DEF RingsAssumption

LEMMA WorldSizes ==
  ASSUME NEW w \in Worlds
  PROVE  /\ w.mod \in Nat \ {0} /\ w.kind \in Kinds
         /\ w.csize \in Nat \ {0} /\ w.csize < w.mod /\ w.mod % w.csize = 0
         /\ w.rsize \in Nat \ {0} /\ w.rsize < w.mod /\ w.mod % w.rsize = 0
         /\ w.kind = "receive" => w.csize = w.rsize
<1>1. /\ w.kind \in Kinds /\ w.mod \in Nat \ {0}
      /\ \A z \in {w.csize, w.rsize} : z \in 1 .. w.mod - 1 /\ w.mod % z = 0
      /\ w.kind = "receive" => w.csize = w.rsize
  BY RingsAssumption, Zenon DEF RingsAssumption
<1>2. /\ w.csize \in 1 .. w.mod - 1 /\ w.mod % w.csize = 0
      /\ w.rsize \in 1 .. w.mod - 1 /\ w.mod % w.rsize = 0
  BY <1>1, Zenon
<1> QED BY <1>1, <1>2

LEMMA Quotient ==
  ASSUME NEW m \in Nat \ {0}, NEW a \in Int
  PROVE  a \div m \in Int /\ a % m \in 0 .. m - 1 /\ a = (a \div m) * m + (a % m)
OBVIOUS

LEMMA Remainder ==
  ASSUME NEW m \in Nat \ {0}, NEW q \in Int, NEW r \in 0 .. m - 1
  PROVE  (q * m + r) % m = r
OBVIOUS

LEMMA Distributes ==
  ASSUME NEW m \in Int, NEW p \in Int, NEW q \in Int, NEW k \in Int
  PROVE  (p - q) * m = p * m - q * m /\ (q * k + p) * m = q * (k * m) + p * m
OBVIOUS

(* Two numbers less than m apart: the distance of their indexes is theirs. *)
LEMMA Distance ==
  ASSUME NEW m \in Nat \ {0}, NEW a \in Int, NEW c \in Int, a - c \in 0 .. m - 1
  PROVE  ((a % m) - (c % m)) % m = a - c
<1> DEFINE q == a \div m
           p == c \div m
           x == a % m
           y == c % m
<1>1. /\ q \in Int /\ p \in Int /\ x \in Int /\ y \in Int
      /\ a = q * m + x /\ c = p * m + y
  BY Quotient
<1>2. (p - q) * m = p * m - q * m
  BY <1>1, Distributes
<1> HIDE DEF p, q, x, y
<1>3. x - y = (p - q) * m + (a - c)
  BY <1>1, <1>2
<1>4. p - q \in Int
  BY <1>1
<1>5. ((p - q) * m + (a - c)) % m = a - c
  BY <1>4, Remainder
<1> QED BY <1>3, <1>5 DEF x, y

(* The index after a's is that of a + 1. *)
LEMMA Successor ==
  ASSUME NEW m \in Nat \ {0}, NEW a \in Int
  PROVE  ((a % m) + 1) % m = (a + 1) % m
<1> DEFINE q == a \div m
           p == (a + 1) \div m
           x == a % m
           y == (a + 1) % m
<1>1. /\ q \in Int /\ p \in Int /\ x \in Int /\ y \in 0 .. m - 1
      /\ a = q * m + x /\ a + 1 = p * m + y
  BY Quotient
<1>2. (p - q) * m = p * m - q * m
  BY <1>1, Distributes
<1> HIDE DEF p, q, x, y
<1>3. x + 1 = (p - q) * m + y
  BY <1>1, <1>2
<1>4. p - q \in Int
  BY <1>1
<1>5. ((p - q) * m + y) % m = y
  BY <1>1, <1>4, Remainder
<1> QED BY <1>3, <1>5 DEF x, y

(* The slot of an index is that of what it stands for. *)
LEMMA SlotOf ==
  ASSUME NEW m \in Nat \ {0}, NEW z \in Nat \ {0}, m % z = 0, NEW a \in Int
  PROVE  (a % m) % z = a % z
<1> DEFINE q == a \div m
           k == m \div z
           x == a % m
           p == x \div z
           y == x % z
<1>1. q \in Int /\ x \in Int /\ k \in Int /\ a = q * m + x /\ m = k * z
  BY Quotient
<1> HIDE DEF x
<1>2. p \in Int /\ y \in 0 .. z - 1 /\ x = p * z + y
  BY <1>1, Quotient
<1> HIDE DEF q, k, p, y
<1>3. (q * k + p) * z = q * m + p * z
  BY <1>1, <1>2, Distributes
<1>4. a = (q * k + p) * z + y
  BY <1>1, <1>2, <1>3
<1>5. q * k + p \in Int
  BY <1>1, <1>2
<1>6. ((q * k + p) * z + y) % z = y
  BY <1>2, <1>5, Remainder
<1> QED BY <1>4, <1>6 DEF x, y

(* Two entries less than a ring apart do not share a slot. *)
LEMMA OwnSlot ==
  ASSUME NEW z \in Nat \ {0}, NEW a \in Int, NEW c \in Int, a - c \in 0 .. z - 1,
         a % z = c % z
  PROVE  a = c
<1>1. ((a % z) - (c % z)) % z = a - c
  BY Distance
<1>2. (a % z) - (c % z) = 0 * z + 0
  BY Quotient
<1>3. (0 * z + 0) % z = 0
  BY Remainder
<1> QED BY <1>1, <1>2, <1>3

-----------------------------------------------------------------------------
(* What an index stands for.                                               *)

RegType(r) ==
    /\ DOMAIN r = {"on", "epoch", "busy", "based", "prod", "cons", "taken", "target", "pub",
                   "hopen", "hnext", "es"}
    /\ r.on \in BOOLEAN /\ r.busy \in BOOLEAN /\ r.based \in BOOLEAN
    /\ r.epoch \in Nat
    /\ r.prod \in Index /\ r.cons \in Index /\ r.taken \in Index /\ r.target \in Index
    /\ r.pub \in Index \cup {None}
    /\ r.es \in {"idle", "read", "clear", "entry"}

HostType ==
    /\ world \in Worlds
    /\ posted \in 0 .. CmdBound /\ d.epoch <= EpochBound
    /\ did \in Seq(Words) /\ opens \in [0 .. CmdBound -> Nat]
    /\ cmd \in [Slots -> Words] /\ resp \in [Parts -> [Slots -> Words]]
    /\ cache \in [Parts -> [Slots -> Words \cup {Out}]]
    /\ DOMAIN s = {"epoch", "work"} /\ s.epoch \in Nat
    /\ DOMAIN g = {"epoch", "open"} /\ g.open \in Nat /\ (kind # "file" => g.open = 0)
    /\ i \in Index /\ n \in Index /\ b \in BOOLEAN /\ command \in Words

(* A disabled device's indexes and counts of handles are 0. *)
OffInv ==
    ~d.on => /\ d.prod = 0 /\ d.cons = 0 /\ d.taken = 0 /\ d.target = 0
             /\ d.hopen = 0 /\ d.hnext = 0 /\ d.es = "idle"

(* The program's epoch.  It holds a claim only where its code says, and a  *)
(* claim it holds while the device is enabled is of this enable: no enable *)
(* comes before the claim is let go.                                       *)
EpochInv ==
    /\ s.epoch <= d.epoch
    /\ d.on \/ d.busy => given
    /\ d.on => d.based
    /\ pc \in Under => d.busy
    /\ d.busy => pc \in Under \cup {"claimed", "attach"}
    /\ d.on /\ d.busy /\ pc # "attach" => s.epoch = d.epoch
    /\ pc \in {"prod", "cons", "claim", "claimed"} /\ s.epoch = d.epoch => d.on
    /\ pc = "tell" /\ s.work /\ s.epoch = d.epoch => d.on
    /\ pc \in Based /\ d.on => b
    /\ pc = "tell" => kind = "file"
    /\ pc = "prod again" => kind = "transmit"

(* Of the entries posted, t were taken, c are shown done and h are done as *)
(* the program reads it; the index of each is that number wrapped.         *)
CountInv(c, t, h) ==
    /\ t <= c /\ c <= h /\ h <= posted
    /\ d.prod = posted % world.mod /\ d.cons = c % world.mod
    /\ d.taken = t % world.mod /\ chost = h % world.mod
    /\ kind # "receive" => posted - c <= world.csize /\ c = IF d.pub = None THEN h ELSE h - 1
    /\ kind = "receive" => posted - t <= world.csize
    /\ kind = "file" => h - t <= world.rsize

Carrying == {"entry", "do", "put", "check", "handles", "complete"}
Carried  == {"put", "check", "handles", "complete"}

(* What the program read of the indexes still holds, though the machine    *)
(* has posted and taken since: the entry it is at was posted and is the    *)
(* next, and its response has room.                                        *)
ServeInv(t, h) ==
    /\ pc \in Carrying => i = h % world.mod /\ h < posted /\ (kind = "file" => h - t < world.rsize)
    /\ kind = "file" /\ pc \in {"bases", "index"} => h < posted /\ h - t < world.rsize
    /\ kind = "receive" /\ pc = "cons" /\ s.epoch = d.epoch =>
           \E m \in h .. posted : n = m % world.mod
    /\ kind = "receive" /\ pc \in {"claim", "claimed", "again", "bases", "index"} /\ s.epoch = d.epoch =>
           h < posted
    /\ kind = "transmit" /\ pc = "index" => \E m \in h .. posted : n = m % world.mod
    /\ kind = "transmit" /\ pc \in Carrying => \E m \in h + 1 .. posted : n = m % world.mod

(* The entries not yet consumed are in the ring, and the program's is its. *)
CmdInv(c, t, h) ==
    /\ \A j \in (IF kind = "receive" THEN t ELSE c) .. posted - 1 :
           cmd[j % world.csize] = <<d.epoch, j>>
    /\ pc \in Carrying \ {"entry"} => command = <<d.epoch, h>>

DidInv(h) ==
    "kill" \notin world.events =>
        /\ Len(did) = IF pc \in Carried THEN h + 1 ELSE h
        /\ \A j \in 1 .. Len(did) : did[j] = <<d.epoch, j - 1>>

(* The count of handles staged is that of the completion that is landing.  *)
HandleInv(c, h) ==
    /\ d.hopen = IF c = 0 THEN 0 ELSE opens[c - 1]
    /\ kind = "file" /\ d.pub # None => d.hnext = opens[h - 1]
    /\ kind = "file" /\ pc \in Carried => g.open = opens[h]
    /\ kind = "file" /\ pc = "complete" => d.hnext = opens[h]
    /\ kind # "file" => /\ g.open = 0 /\ d.hnext = 0
                       /\ \A j \in 0 .. CmdBound : opens[j] = 0

RespInv(t, h) ==
    kind # "transmit" =>
        /\ \A j \in t .. h - 1, p \in Parts : resp[p][j % world.rsize] = <<d.epoch, j>>
        /\ pc \in Carried => resp["buffer"][h % world.rsize] = <<d.epoch, h>>
        /\ pc \in Carried \ {"put"} => resp["entry"][h % world.rsize] = <<d.epoch, h>>

CacheInv(c, t, h) ==
    kind # "transmit" =>
        /\ \A j \in t .. c - 1, p \in Parts : cache[p][j % world.rsize] \in {<<d.epoch, j>>, Out}
        /\ d.es # "idle" => kind = "receive" /\ c < h
        /\ d.es = "entry" => cache["buffer"][c % world.rsize] \in {<<d.epoch, c>>, Out}

Enabled(c, t, h) ==
    /\ CountInv(c, t, h) /\ ServeInv(t, h) /\ CmdInv(c, t, h) /\ DidInv(h)
    /\ HandleInv(c, h) /\ RespInv(t, h) /\ CacheInv(c, t, h)

RingInv ==
    /\ RegType(d) /\ HostType /\ OffInv /\ EpochInv
    /\ d.on => \E c, t, h \in 0 .. posted : Enabled(c, t, h)

-----------------------------------------------------------------------------
(* What a step does to the registers.                                      *)

(* r is d after a clock in which the machine wrote nothing: what was       *)
(* landing has landed.  Only the claim and the staged count are free.      *)
Quiet(r) ==
    /\ RegType(r)
    /\ r.on = d.on /\ r.epoch = d.epoch /\ r.based = d.based /\ r.es = d.es
    /\ r.prod = d.prod /\ r.taken = d.taken /\ r.pub = None
    /\ r.cons = IF land /\ kind # "receive" THEN d.pub ELSE d.cons
    /\ r.target = IF land /\ kind = "receive" THEN d.pub ELSE d.target
    /\ r.hopen = IF land THEN d.hnext ELSE d.hopen

LEMMA LandedQuiet ==
  ASSUME RegType(d)
  PROVE  Quiet(Landed) /\ Landed.busy = d.busy /\ Landed.hnext = d.hnext
<1>1. DOMAIN Landed = DOMAIN d
  BY DEF Landed
<1>2. /\ Landed.on = d.on /\ Landed.epoch = d.epoch /\ Landed.based = d.based
      /\ Landed.es = d.es /\ Landed.prod = d.prod /\ Landed.taken = d.taken
      /\ Landed.busy = d.busy /\ Landed.hnext = d.hnext
  BY DEF Landed, RegType
<1>3. /\ Landed.pub = None
      /\ Landed.cons = IF land /\ kind # "receive" THEN d.pub ELSE d.cons
      /\ Landed.target = IF land /\ kind = "receive" THEN d.pub ELSE d.target
      /\ Landed.hopen = IF land THEN d.hnext ELSE d.hopen
  BY DEF Landed, RegType
<1>4. Landed.cons \in Index /\ Landed.target \in Index
  BY <1>3 DEF RegType, land
<1> QED BY <1>1, <1>2, <1>3, <1>4 DEF Quiet, RegType

LEMMA ReleaseQuiet ==
  ASSUME RegType(d)
  PROVE  Quiet(Release) /\ Release.busy = FALSE /\ Release.hnext = d.hnext
BY LandedQuiet DEF Quiet, Release, RegType

LEMMA ClaimQuiet ==
  ASSUME RegType(d)
  PROVE  /\ Quiet([Landed EXCEPT !.busy = TRUE])
         /\ [Landed EXCEPT !.busy = TRUE].busy = TRUE
         /\ [Landed EXCEPT !.busy = TRUE].hnext = d.hnext
BY LandedQuiet DEF Quiet, RegType

LEMMA StageQuiet ==
  ASSUME RegType(d), NEW e, NEW o
  PROVE  /\ Quiet(Stage(e, o)) /\ Stage(e, o).busy = d.busy
         /\ Stage(e, o).hnext = IF in_epoch(e) THEN o ELSE d.hnext
<1>1. CASE in_epoch(e)
  <2> DEFINE r == [Landed EXCEPT !.hnext = o]
  <2>1. Quiet(r) /\ r.busy = d.busy /\ r.hnext = o
    BY LandedQuiet DEF Quiet, RegType
  <2> QED BY <1>1, <2>1 DEF Stage
<1>2. CASE ~in_epoch(e)
  BY <1>2, LandedQuiet DEF Stage
<1> QED BY <1>1, <1>2

(* The program's accesses, but for its completion, are such clocks, and    *)
(* none of them writes what is the machine's.                              *)
LEMMA ProgramQuiet ==
  ASSUME RegType(d), Program
  PROVE  /\ UNCHANGED <<world, kills, cmd, given, posted>>
         /\ cache' = cache_w
         /\ Complete \/ Quiet(d')
<1>1. UNCHANGED <<world, kills, cmd, given, posted>> /\ cache' = cache_w
  BY DEF Program, Attach, Look, Tell, ReadProd, ReadCons, Claim, Claimed, Again, Bases,
         ReadIndex, Entry, Do, Put, Check, Handles, Complete, Verify, VerifyIndex, LetGo,
         Fail, Farewell, Read, Write, Access
<1>2. CASE Attach \/ LetGo
  BY <1>2, ReleaseQuiet DEF Attach, LetGo, Write, Access
<1>3. CASE Tell \/ Handles \/ Farewell
  BY ZenonT(40), <1>3, StageQuiet DEF Tell, Handles, Farewell, Write, Access
<1>4. CASE Claim
  BY <1>4, LandedQuiet, ClaimQuiet DEF Claim, Write, Access
<1>5. CASE \/ Look \/ ReadProd \/ ReadCons \/ Claimed \/ Again \/ Bases \/ ReadIndex
           \/ Entry \/ Do \/ Put \/ Check \/ Verify \/ VerifyIndex \/ Fail
  <2>1. d' = Landed
    BY <1>5 DEF Look, ReadProd, ReadCons, Claimed, Again, Bases, ReadIndex, Entry, Do, Put,
                Check, Verify, VerifyIndex, Fail, Read, Write, Access
  <2> QED BY <1>1, <2>1, LandedQuiet
<1> QED BY <1>1, <1>2, <1>3, <1>4, <1>5 DEF Program

(* The completion: accepted it lands at the next clock. *)
LEMMA CompleteRegs ==
  ASSUME RegType(d), HostType, Complete
  PROVE  /\ RegType(d') /\ d'.busy = d.busy /\ d'.hnext = d.hnext
         /\ ~ok(s.epoch, (i + 1) % world.mod) => Quiet(d')
         /\ ok(s.epoch, (i + 1) % world.mod) =>
              /\ d'.pub = (i + 1) % world.mod
              /\ d'.on = d.on /\ d'.epoch = d.epoch /\ d'.based = d.based /\ d'.es = d.es
              /\ d'.prod = d.prod /\ d'.taken = d.taken
              /\ d'.cons = Landed.cons /\ d'.target = Landed.target /\ d'.hopen = Landed.hopen
<1>1. (i + 1) % world.mod \in Index
  <2>1. world.mod \in Nat \ {0} /\ i + 1 \in Int
    BY WorldSizes DEF HostType, Index
  <2> QED BY <2>1, Quotient DEF Index
<1>2. CASE ok(s.epoch, (i + 1) % world.mod)
  <2>1. d' = [Landed EXCEPT !.pub = (i + 1) % world.mod]
    BY <1>2 DEF Complete, Access
  <2> HIDE DEF Index
  <2> QED BY <1>1, <1>2, <2>1, LandedQuiet DEF Quiet, RegType
<1>3. CASE ~ok(s.epoch, (i + 1) % world.mod)
  <2>1. d' = Landed
    BY <1>3 DEF Complete, Access
  <2> QED BY <1>3, <2>1, LandedQuiet DEF Quiet
<1> QED BY <1>2, <1>3

LEMMA IndexFacts ==
  ASSUME HostType
  PROVE  /\ world.mod \in Nat \ {0} /\ 0 \in Index
         /\ \A a \in Index : (a + 1) % world.mod \in Index
<1>1. world.mod \in Nat \ {0}
  BY WorldSizes DEF HostType
<1>2. ASSUME NEW a \in Index PROVE (a + 1) % world.mod \in Index
  <2>1. a + 1 \in Int
    BY <1>1 DEF Index
  <2> QED BY <1>1, <2>1, Quotient DEF Index
<1> QED BY <1>1, <1>2 DEF Index

(* The machine's writes of the registers, and the engine's. *)
LEMMA EnableRegs ==
  ASSUME RegType(d), HostType, OffInv, Enable
  PROVE  /\ RegType(d') /\ d'.busy = d.busy
         /\ d'.on /\ d'.based /\ d'.epoch = d.epoch /\ d'.pub = None
         /\ d'.prod = 0 /\ d'.cons = 0 /\ d'.taken = 0 /\ d'.target = 0
         /\ d'.hopen = 0 /\ d'.hnext = 0 /\ d'.es = "idle"
BY IndexFacts, LandedQuiet DEF Enable, Quiet, RegType, OffInv, land

LEMMA OffRegs ==
  ASSUME RegType(d), HostType, NEW r, RegType(r), r.epoch = d.epoch, r.busy = d.busy
  PROVE  /\ RegType(Off(r)) /\ Off(r).busy = d.busy /\ ~Off(r).on /\ Off(r).epoch = d.epoch + 1
         /\ Off(r).prod = 0 /\ Off(r).cons = 0 /\ Off(r).taken = 0 /\ Off(r).target = 0
         /\ Off(r).hopen = 0 /\ Off(r).hnext = 0 /\ Off(r).es = "idle"
<1>1. /\ Off(r).prod = 0 /\ Off(r).cons = 0 /\ Off(r).taken = 0 /\ Off(r).target = 0
      /\ Off(r).hopen = 0 /\ Off(r).hnext = 0 /\ Off(r).es = "idle" /\ Off(r).on = FALSE
      /\ Off(r).epoch = d.epoch + 1
  BY DEF Off, RegType
<1>2. Off(r).busy = r.busy /\ Off(r).based = r.based /\ Off(r).pub = r.pub
  BY DEF Off, RegType
<1>3. DOMAIN Off(r) = DOMAIN r
  BY DEF Off
<1>4. RegType(Off(r))
  <2>1. 0 \in Index /\ d.epoch + 1 \in Nat
    BY IndexFacts DEF RegType
  <2>2. Off(r).on \in BOOLEAN /\ Off(r).busy \in BOOLEAN /\ Off(r).based \in BOOLEAN
    BY <1>1, <1>2 DEF RegType
  <2> QED BY <1>1, <1>2, <1>3, <2>1, <2>2 DEF RegType
<1> QED BY <1>1, <1>2, <1>4

LEMMA DisableRegs ==
  ASSUME RegType(d), HostType, Disable
  PROVE  /\ RegType(d') /\ d'.busy = d.busy /\ ~d'.on /\ d'.epoch = d.epoch + 1
         /\ OffInv'
BY LandedQuiet, OffRegs DEF Disable, Quiet, OffInv

LEMMA ResetRegs ==
  ASSUME RegType(d), HostType, Reset
  PROVE  /\ RegType(d') /\ d'.busy = d.busy /\ ~d'.on
         /\ d'.epoch = IF d.on THEN d.epoch + 1 ELSE d.epoch
         /\ OffInv'
BY OffRegs DEF Reset, RegType, OffInv

LEMMA PostRegs ==
  ASSUME RegType(d), HostType, Post
  PROVE  /\ RegType(d') /\ d'.busy = d.busy
         /\ d'.on = d.on /\ d'.epoch = d.epoch /\ d'.based = d.based
         /\ d'.es = d.es /\ d'.taken = d.taken /\ d'.pub = None
         /\ d'.cons = Landed.cons /\ d'.target = Landed.target
         /\ d'.hopen = Landed.hopen /\ d'.hnext = d.hnext
         /\ d'.prod = (d.prod + 1) % world.mod
BY IndexFacts, LandedQuiet DEF Post, Quiet, RegType

LEMMA TakeRegs ==
  ASSUME RegType(d), HostType, Take
  PROVE  /\ RegType(d') /\ d'.busy = d.busy
         /\ d'.on = d.on /\ d'.epoch = d.epoch /\ d'.based = d.based
         /\ d'.es = d.es /\ d'.prod = d.prod /\ d'.pub = None
         /\ d'.cons = Landed.cons /\ d'.target = Landed.target
         /\ d'.hopen = Landed.hopen /\ d'.hnext = d.hnext
         /\ d'.taken = (d.taken + 1) % world.mod
BY IndexFacts, LandedQuiet DEF Take, Quiet, RegType

LEMMA EngineRegs ==
  ASSUME RegType(d), HostType, Engine
  PROVE  /\ RegType(d') /\ d'.busy = d.busy
         /\ d'.on = d.on /\ d'.epoch = d.epoch /\ d'.based = d.based
         /\ d'.prod = d.prod /\ d'.taken = d.taken /\ d'.pub = None
         /\ d'.target = Landed.target
         /\ d'.hopen = Landed.hopen /\ d'.hnext = d.hnext
         /\ \/ d.es = "idle" /\ d'.es = "read" /\ d'.cons = Landed.cons
               /\ Landed.cons # Landed.target
            \/ d.es = "read" /\ d'.es = "clear" /\ d'.cons = Landed.cons
            \/ d.es = "clear" /\ d'.es = "entry" /\ d'.cons = Landed.cons
            \/ d.es = "entry" /\ d'.es = "idle"
               /\ d'.cons = (Landed.cons + 1) % world.mod
<1> DEFINE r == Landed
<1>1. /\ Quiet(r) /\ RegType(r) /\ r.busy = d.busy /\ r.hnext = d.hnext
      /\ (r.cons + 1) % world.mod \in Index
  BY IndexFacts, LandedQuiet DEF Quiet, RegType
<1> HIDE DEF r
<1>2. CASE r.es = "idle" /\ r.cons # r.target /\ d' = [r EXCEPT !.es = "read"]
  BY <1>1, <1>2 DEF Quiet, RegType, r
<1>3. CASE r.es = "read" /\ d' = [r EXCEPT !.es = "clear"]
  BY <1>1, <1>3 DEF Quiet, RegType, r
<1>4. CASE r.es = "clear" /\ d' = [r EXCEPT !.es = "entry"]
  BY <1>1, <1>4 DEF Quiet, RegType, r
<1>5. CASE r.es = "entry" /\ d' = [r EXCEPT !.es = "idle", !.cons = (@ + 1) % world.mod]
  <2>1. d'.es = "idle" /\ d'.cons = (r.cons + 1) % world.mod /\ DOMAIN d' = DOMAIN r
    BY <1>1, <1>5 DEF RegType
  <2>2. /\ d'.on = r.on /\ d'.epoch = r.epoch /\ d'.based = r.based /\ d'.busy = r.busy
        /\ d'.prod = r.prod /\ d'.taken = r.taken /\ d'.pub = r.pub /\ d'.target = r.target
        /\ d'.hopen = r.hopen /\ d'.hnext = r.hnext
    BY <1>1, <1>5 DEF RegType
  <2>3. RegType(d')
    BY <1>1, <2>1, <2>2 DEF RegType
  <2> QED BY <1>1, <1>5, <2>1, <2>2, <2>3 DEF Quiet, r
<1> QED BY <1>2, <1>3, <1>4, <1>5 DEF Engine, r

-----------------------------------------------------------------------------
(* The types, and the claim's epoch.                                       *)

(* Each step of the machine's and of the fabric's, but for the landing's,  *)
(* by its lemma above; Kill and Load leave the registers alone.            *)
LEMMA RegStep ==
  ASSUME RegType(d), HostType, OffInv, Next
  PROVE  RegType(d)' /\ OffInv' /\ world' = world /\ (d.epoch <= EpochBound)'
<1>0. d.epoch \in Nat /\ EpochBound \in Nat
  BY Bounds DEF RegType
<1>1. world' = world
  BY ProgramQuiet DEF Next, Machine, Fabric, Enable, Disable, Reset, Post, Take, Load, Reuse,
                      Land, Engine, Kill, Stop
<1>2. ASSUME Quiet(d'), d.on \/ d'.hnext = d.hnext
      PROVE  RegType(d') /\ OffInv' /\ d'.epoch = d.epoch
  BY <1>2 DEF Quiet, OffInv, land
<1>3. RegType(d') /\ OffInv' /\ d'.epoch <= EpochBound
  <2>1. CASE Enable
    BY <2>1, EnableRegs DEF OffInv, HostType
  <2>2. CASE Disable
    BY <1>0, <2>2, DisableRegs DEF Disable
  <2>3. CASE Reset
    BY <1>0, <2>3, ResetRegs DEF Reset, HostType
  <2>4. CASE Post
    BY <2>4, PostRegs DEF Post, OffInv, HostType
  <2>5. CASE Take
    BY <2>5, TakeRegs DEF Take, OffInv, HostType
  <2>6. CASE Engine
    BY <2>6, EngineRegs DEF Engine, OffInv, HostType
  <2>7. CASE Land \/ Reuse
    BY <1>2, <2>7, LandedQuiet DEF Land, Reuse, HostType
  <2>8. CASE Load \/ Kill
    BY <2>8 DEF Load, Kill, OffInv, HostType
  <2>9. CASE Stop
    BY <1>2, <2>9, LandedQuiet, ReleaseQuiet DEF Stop, HostType
  <2>10. CASE Complete
    <3>1. d'.on = d.on /\ d'.epoch = d.epoch
      BY <2>10, CompleteRegs DEF Quiet
    <3>2. RegType(d') /\ d'.hnext = d.hnext
      BY <2>10, CompleteRegs
    <3>3. ok(s.epoch, (i + 1) % world.mod) => d.on
      BY DEF ok, in_epoch
    <3>4. OffInv'
      <4>1. CASE d.on
        BY <3>1, <4>1 DEF OffInv
      <4>2. CASE ~d.on
        BY <1>2, <2>10, <3>2, <3>3, <4>2, CompleteRegs
      <4> QED BY <4>1, <4>2
    <3> QED BY <3>1, <3>2, <3>4 DEF HostType
  <2>11. CASE Program /\ ~Complete
    <3>1. Quiet(d')
      BY <2>11, ProgramQuiet
    <3>2. d.on \/ d'.hnext = d.hnext
      <4> SUFFICES ASSUME ~d.on PROVE d'.hnext = d.hnext
        OBVIOUS
      <4>1. Landed.hnext = d.hnext /\ Release.hnext = d.hnext
        BY LandedQuiet, ReleaseQuiet
      <4>2. \A e, o : Stage(e, o) = Landed
        BY DEF Stage, in_epoch
      <4>3. d' = Landed \/ d' = Release
        BY <2>11, <4>2 DEF Program, Attach, Look, Tell, ReadProd, ReadCons, Claim, Claimed,
           Again, Bases, ReadIndex, Entry, Do, Put, Check, Handles, Verify, VerifyIndex,
           LetGo, Fail, Farewell, Read, Write, Access, in_epoch
      <4> QED BY <4>1, <4>3
    <3> QED BY <1>2, <3>1, <3>2 DEF HostType
  <2> QED
    BY <2>1, <2>2, <2>3, <2>4, <2>5, <2>6, <2>7, <2>8, <2>9, <2>10, <2>11
       DEF Next, Machine, Fabric
<1>4. RegType(d)'
  BY <1>1, <1>3 DEF RegType, Index
<1> QED BY <1>1, <1>3, <1>4

LEMMA MemoryTypeStep ==
  ASSUME RegType(d), HostType, Next
  PROVE  /\ cmd' \in [Slots -> Words]
         /\ resp' \in [Parts -> [Slots -> Words]]
         /\ cache' \in [Parts -> [Slots -> Words \cup {Out}]]
<1>1. Other \in Words /\ Slots \subseteq Nat
  BY WorldSizes DEF Words, Slots, HostType
<1>2. cache_w \in [Parts -> [Slots -> Words \cup {Out}]]
  BY DEF cache_w, Swept, HostType
<1>3. cmd' \in [Slots -> Words]
  <2>1. CASE Post
    <3>1. <<d.epoch, posted>> \in Words
      BY <2>1, Bounds DEF HostType, RegType, Words, Tags
    <3>2. cmd' = [cmd EXCEPT ![d.prod % world.csize] = <<d.epoch, posted>>]
      BY <2>1 DEF Post
    <3> QED BY <3>1, <3>2 DEF HostType
  <2>2. CASE Reuse
    BY <1>1, <2>2 DEF Reuse
  <2>3. CASE Program
    BY <2>3, ProgramQuiet DEF HostType
  <2>4. CASE Enable \/ Disable \/ Reset \/ Take \/ Load \/ Fabric \/ Kill \/ Stop
    <3>1. cmd' = cmd
      BY <2>4 DEF Enable, Disable, Reset, Take, Load, Fabric, Land, Engine, Kill, Stop, memory
    <3> QED BY <3>1 DEF HostType
  <2> QED BY <2>1, <2>2, <2>3, <2>4 DEF Next, Machine
<1>4. resp' \in [Parts -> [Slots -> Words]]
  <2>1. CASE Reuse
    BY <1>1, <2>1 DEF Reuse
  <2>2. CASE Do
    BY <2>2 DEF Do, HostType
  <2>3. CASE Put
    BY <2>3 DEF Put, HostType
  <2>4. CASE Program /\ ~Do /\ ~Put
    <3>1. resp' = resp
      BY <2>4 DEF Program, Attach, Look, Tell, ReadProd, ReadCons, Claim, Claimed,
         Again, Bases, ReadIndex, Entry, Check, Handles, Complete, Verify, VerifyIndex,
         LetGo, Fail, Farewell, Read, Write
    <3> QED BY <3>1 DEF HostType
  <2>5. CASE Enable \/ Disable \/ Reset \/ Post \/ Take \/ Load \/ Fabric \/ Kill \/ Stop
    <3>1. resp' = resp
      BY <2>5 DEF Enable, Disable, Reset, Post, Take, Load, Fabric, Land, Engine, Kill, Stop,
                  memory
    <3> QED BY <3>1 DEF HostType
  <2> QED BY <2>1, <2>2, <2>3, <2>4, <2>5 DEF Next, Machine
<1>5. cache' \in [Parts -> [Slots -> Words \cup {Out}]]
  <2>1. CASE Program
    BY <1>2, <2>1, ProgramQuiet
  <2>2. CASE Disable \/ Post \/ Take \/ Land \/ Stop
    BY <1>2, <2>2 DEF Disable, Post, Take, Land, Stop, HostType
  <2>3. CASE Enable \/ Reset \/ Kill
    <3>1. cache' = cache
      BY <2>3 DEF Enable, Reset, Kill, memory
    <3> QED BY <3>1 DEF HostType
  <2>4. CASE Load
    <3>1. PICK p \in Parts, k \in 0 .. world.rsize - 1 :
             cache' = [cache EXCEPT ![p][k] = resp[p][k]]
      BY <2>4 DEF Load
    <3>2. k \in Slots
      BY WorldSizes DEF HostType, Slots
    <3> QED BY <3>1, <3>2 DEF HostType
  <2>5. CASE Reuse
    BY <1>1, <2>5 DEF Reuse
  <2>6. CASE Engine
    <3> DEFINE k == Landed.cons % world.rsize
    <3>1. \/ cache' = cache
          \/ \E p \in Parts : cache' = [cache EXCEPT ![p][k] = Out]
      BY <2>6 DEF Engine, Parts
    <3>2. CASE cache' = cache
      BY <3>2 DEF HostType
    <3>3. CASE \E p \in Parts : cache' = [cache EXCEPT ![p][k] = Out]
      <4>1. PICK p \in Parts : cache' = [cache EXCEPT ![p][k] = Out]
        BY <3>3
      <4> QED BY <4>1 DEF HostType
    <3> QED BY <3>1, <3>2, <3>3
  <2> QED BY <2>1, <2>2, <2>3, <2>4, <2>5, <2>6 DEF Next, Machine, Fabric
<1> QED BY <1>3, <1>4, <1>5

LEMMA HostTypeStep ==
  ASSUME RegType(d), HostType, OffInv, Next
  PROVE  HostType'
<1>1. world' = world /\ (d.epoch <= EpochBound)'
  BY RegStep
<1>2. posted' \in 0 .. CmdBound
  <2>1. CASE Program
    BY <2>1, ProgramQuiet DEF HostType
  <2>2. CASE Enable \/ Post
    BY <2>2, Bounds DEF Enable, Post, HostType
  <2>3. CASE Disable \/ Reset \/ Take \/ Load \/ Reuse \/ Land \/ Engine \/ Kill \/ Stop
    <3>1. posted' = posted
      BY <2>3, Zenon DEF Disable, Reset, Take, Load, Reuse, Land, Engine, Kill, Stop, history
    <3> QED
      BY <3>1 DEF HostType
  <2> QED BY <2>1, <2>2, <2>3 DEF Next, Machine, Fabric
<1>3. did' \in Seq(Words) /\ opens' \in [0 .. CmdBound -> Nat]
  <2>1. CASE Do
    <3>1. did' \in Seq(Words)
      BY <2>1 DEF Do, HostType
    <3>2. PICK o \in IF kind = "file" THEN 0 .. MaxHandles ELSE {0} :
             opens' = IF command \in Tags /\ d.on
                      THEN [opens EXCEPT ![command[2]] = o] ELSE opens
      BY <2>1 DEF Do
    <3>3. o \in Nat
      BY Bounds
    <3> QED BY <3>1, <3>2, <3>3 DEF HostType
  <2>2. CASE Program /\ ~Do
    <3>1. UNCHANGED <<did, opens>>
      BY <2>2 DEF Program, Attach, Look, Tell, ReadProd, ReadCons, Claim, Claimed,
         Again, Bases, ReadIndex, Entry, Put, Check, Handles, Complete, Verify, VerifyIndex,
         LetGo, Fail, Farewell, Read, Write
    <3> QED BY <3>1 DEF HostType
  <2>3. CASE Enable
    BY <2>3 DEF Enable
  <2>4. CASE Disable \/ Reset \/ Post \/ Take \/ Load \/ Reuse \/ Fabric \/ Kill \/ Stop
    <3>1. UNCHANGED <<did, opens>>
      BY <2>4 DEF Disable, Reset, Post, Take, Load, Reuse, Fabric, Land, Engine, Kill, Stop,
                  history
    <3> QED BY <3>1 DEF HostType
  <2> QED BY <2>1, <2>2, <2>3, <2>4 DEF Next, Machine
<1>4. /\ DOMAIN s' = {"epoch", "work"} /\ s'.epoch \in Nat
      /\ DOMAIN g' = {"epoch", "open"} /\ g'.open \in Nat /\ (kind # "file" => g'.open = 0)
  <2>1. CASE Look
    BY <2>1 DEF Look, HostType, RegType
  <2>2. CASE Do
    <3>1. PICK o \in IF kind = "file" THEN 0 .. MaxHandles ELSE {0} : g' = [g EXCEPT !.open = o]
      BY <2>2 DEF Do
    <3>2. o \in Nat /\ (kind # "file" => o = 0)
      BY Bounds
    <3> QED BY <2>2, <3>1, <3>2 DEF Do, HostType
  <2>3. CASE Check
    BY <2>3 DEF Check, HostType
  <2>4. CASE Fail
    BY <2>4 DEF Fail, HostType, RegType
  <2>5. CASE Stop
    BY <2>5 DEF Stop, HostType, RegType
  <2>6. CASE Kill
    BY <2>6 DEF Kill, HostType
  <2>7. CASE Program /\ ~Look /\ ~Do /\ ~Check /\ ~Fail
    <3>1. UNCHANGED <<s, g>>
      BY <2>7 DEF Program, Attach, Tell, ReadProd, ReadCons, Claim, Claimed,
         Again, Bases, ReadIndex, Entry, Put, Handles, Complete, Verify, VerifyIndex,
         LetGo, Farewell, Read, Write, local
    <3> QED BY <3>1 DEF HostType
  <2>8. CASE Machine \/ Fabric
    <3>1. UNCHANGED <<s, g>>
      BY <2>8 DEF Machine, Fabric, Enable, Disable, Reset, Post, Take, Load, Reuse, Land, Engine,
                  program, local
    <3> QED BY <3>1 DEF HostType
  <2> QED BY <2>1, <2>2, <2>3, <2>4, <2>5, <2>6, <2>7, <2>8 DEF Next
<1>5. i' \in Index /\ n' \in Index /\ b' \in BOOLEAN /\ command' \in Words
  <2>0. chost \in Index /\ (i + 1) % world.mod \in Index
    BY IndexFacts DEF chost, land, RegType, HostType
  <2>1. CASE ReadProd
    BY <2>1 DEF ReadProd, HostType, RegType
  <2>2. CASE ReadIndex
    BY <2>0, <2>2 DEF ReadIndex, HostType
  <2>3. CASE Bases
    BY <2>3 DEF Bases, HostType, RegType
  <2>4. CASE Entry
    <3>1. i % world.csize \in Slots
      <4>1. world.csize \in Nat \ {0} /\ world.csize < world.mod /\ i \in Int
        BY WorldSizes DEF HostType, Index
      <4>2. i % world.csize \in 0 .. world.csize - 1
        BY <4>1, Quotient
      <4> QED BY <4>1, <4>2, IndexFacts DEF Slots
    <3> QED BY <2>4, <3>1 DEF Entry, HostType, Words
  <2>5. CASE Complete
    BY <2>0, <2>5 DEF Complete, HostType
  <2>6. CASE Program /\ ~ReadProd /\ ~ReadIndex /\ ~Bases /\ ~Entry /\ ~Complete
    <3>1. UNCHANGED <<i, n, b, command>>
      BY <2>6 DEF Program, Attach, Look, Tell, ReadCons, Claim, Claimed, Again, Do, Put,
         Check, Handles, Verify, VerifyIndex, LetGo, Fail, Farewell, Read, Write, local
    <3> QED BY <3>1 DEF HostType
  <2>7. CASE Machine \/ Fabric \/ Kill \/ Stop
    <3>1. UNCHANGED <<i, n, b, command>>
      BY <2>7 DEF Machine, Fabric, Enable, Disable, Reset, Post, Take, Load, Reuse, Land, Engine,
                  Kill, Stop, program, local
    <3> QED BY <3>1 DEF HostType
  <2> QED BY <2>1, <2>2, <2>3, <2>4, <2>5, <2>6, <2>7 DEF Next
<1>6. Slots' = Slots /\ Index' = Index
  BY <1>1 DEF Slots, Index
<1>7. kind' = kind
  BY <1>1 DEF kind
<1> QED BY <1>1, <1>2, <1>3, <1>4, <1>5, <1>6, <1>7, MemoryTypeStep DEF HostType

(* No step makes the program's epoch another enable's. *)
LEMMA EpochMachine ==
  ASSUME RegType(d), HostType, OffInv, EpochInv, Machine \/ Fabric
  PROVE  EpochInv'
<1>0. d.epoch \in Nat /\ s.epoch \in Nat /\ Based \subseteq Under
  BY DEF RegType, HostType, Based, Under
<1>1. UNCHANGED <<pc, s, b>> /\ kind' = kind
  BY DEF kind, Machine, Fabric, Enable, Disable, Reset, Post, Take, Load, Reuse, Land, Engine,
         program, local
<1>2. CASE Enable
  <2>1. d.busy = FALSE /\ given' = TRUE
    BY <1>2 DEF Enable, EpochInv, RegType
  <2> QED BY <1>0, <1>1, <1>2, <2>1, EnableRegs DEF EpochInv
<1>3. CASE Disable
  <2>1. given' = given
    BY <1>3 DEF Disable
  <2>2. d'.busy = d.busy /\ ~d'.on /\ s.epoch <= d'.epoch /\ s.epoch # d'.epoch
    <3>1. d'.busy = d.busy /\ ~d'.on /\ d'.epoch = d.epoch + 1
      BY <1>3, DisableRegs
    <3>2. s.epoch <= d.epoch
      BY DEF EpochInv
    <3> QED BY <1>0, <3>1, <3>2
  <2> QED BY <1>1, <2>1, <2>2 DEF EpochInv
<1>4. CASE Reset
  <2>1. given' = given
    BY <1>4 DEF Reset, memory
  <2>2. /\ d'.busy = d.busy /\ ~d'.on /\ s.epoch <= d'.epoch
        /\ s.epoch # d'.epoch \/ (~d.on /\ d'.epoch = d.epoch)
    <3>1. d'.busy = d.busy /\ ~d'.on /\ d'.epoch = IF d.on THEN d.epoch + 1 ELSE d.epoch
      BY <1>4, ResetRegs
    <3>2. s.epoch <= d.epoch
      BY DEF EpochInv
    <3> QED BY <1>0, <3>1, <3>2
  <2> QED BY <1>1, <2>1, <2>2 DEF EpochInv
<1>5. CASE Reuse
  <2>1. ~d.on /\ ~d.busy /\ d' = Landed
    BY <1>5 DEF Reuse
  <2> QED BY <1>0, <1>1, <2>1, LandedQuiet DEF EpochInv, Quiet
<1>6. CASE Post \/ Take \/ Load \/ Land \/ Engine
  <2>1. given' = given
    BY <1>6 DEF Post, Take, Load, Land, Engine
  <2>2. d'.on = d.on /\ d'.busy = d.busy /\ d'.based = d.based /\ d'.epoch = d.epoch
    BY <1>6, PostRegs, TakeRegs, EngineRegs, LandedQuiet DEF Load, Land, Quiet
  <2> QED BY <1>1, <2>1, <2>2 DEF EpochInv
<1> QED BY <1>2, <1>3, <1>4, <1>5, <1>6 DEF Machine, Fabric

LEMMA EpochProgram ==
  ASSUME RegType(d), HostType, EpochInv, Program \/ Kill \/ Stop
  PROVE  EpochInv'
<1>0. /\ d.epoch \in Nat /\ s.epoch \in Nat /\ DOMAIN s = {"epoch", "work"}
      /\ d.on \in BOOLEAN /\ d.busy \in BOOLEAN /\ kind' = kind
  BY ProgramQuiet DEF RegType, HostType, kind, Kill, Stop
<1>1. CASE Kill
  BY <1>0, <1>1 DEF Kill, EpochInv, memory, Under, Based
<1>2. CASE Stop
  <2>1. /\ Quiet(d') /\ d'.busy = FALSE
    BY <1>0, <1>2, LandedQuiet, ReleaseQuiet DEF Stop, EpochInv, Under, Based
  <2> QED BY <1>0, <1>2, <2>1 DEF Stop, EpochInv, Quiet, Under, Based
<1>3. CASE Complete
  <2>1. d'.on = d.on /\ d'.busy = d.busy /\ d'.based = d.based /\ d'.epoch = d.epoch
    BY <1>3, CompleteRegs DEF Quiet
  <2> QED BY <1>0, <1>3, <2>1 DEF Complete, Access, EpochInv, Under, Based
<1>4. CASE Attach \/ LetGo
  <2>1. Quiet(d') /\ d'.busy = FALSE
    BY ZenonT(40), <1>4, ReleaseQuiet DEF Attach, LetGo, Write, Access
  <2> QED BY ZenonT(40), <1>0, <1>4, <2>1 DEF Attach, LetGo, Write, Access, local, EpochInv, Quiet, Under, Based
<1>5. CASE Tell \/ Handles \/ Farewell
  <2>1. Quiet(d') /\ d'.busy = d.busy
    <3>1. \E e, o : d' = Stage(e, o)
      BY <1>5 DEF Tell, Handles, Farewell, Write, Access
    <3> QED BY <3>1, StageQuiet
  <2> QED BY ZenonT(40), <1>0, <1>5, <2>1 DEF Tell, Handles, Farewell, Write, Access, local, EpochInv, Quiet,
                            Under, Based
<1>6. CASE Claim
  <2>1. Quiet(d') /\ d'.busy = (d.busy \/ in_epoch(s.epoch))
    BY <1>0, <1>6, LandedQuiet, ClaimQuiet DEF Claim, Write, Access
  <2> QED BY <1>0, <1>6, <2>1 DEF Claim, Write, Access, local, EpochInv, Quiet, Under, Based, in_epoch
<1>7. ASSUME d' = Landed, UNCHANGED <<world, given>>
      PROVE  /\ d'.on = d.on /\ d'.busy = d.busy /\ d'.based = d.based /\ d'.epoch = d.epoch
             /\ given' = given
  BY <1>7, LandedQuiet DEF Quiet
<1>8. CASE Look
  <2>1. d'.on = d.on /\ d'.busy = d.busy /\ d'.based = d.based /\ d'.epoch = d.epoch /\ given' = given
    BY <1>7, <1>8, Zenon DEF Look, Access
  <2>2. pc = "look" /\ s' = [epoch |-> d.epoch, work |-> work]
    BY <1>8, Zenon DEF Look, Access
  <2>3. pc' \in {"tell", "look"} \/ (pc' \in {"claim", "prod"} /\ work)
    BY <1>8, Zenon DEF Look, Access
  <2>4. work => d.on
    BY Zenon DEF work
  <2>5. ~d.busy
    BY <2>2 DEF EpochInv, Under, Based
  <2>6. s'.epoch = d.epoch /\ (s'.work <=> work)
    BY <2>2
  <2>7. pc' \notin Under /\ pc' \notin Based /\ pc' # "claimed"
    BY <2>3 DEF Under, Based
  <2>8. s'.epoch <= d'.epoch /\ pc' # "attach" /\ (pc' \in {"cons", "claim", "claimed", "prod"} => d.on)
    BY <1>0, <2>1, <2>3, <2>4, <2>6
  <2>9. (d'.on \/ d'.busy => given') /\ (d'.on => d'.based)
    BY <2>1 DEF EpochInv
  <2>10. pc' = "tell" /\ s'.work => d'.on
    BY <2>1, <2>4, <2>6
  <2>11. (pc' = "tell" => kind' = "file") /\ pc' # "prod again"
    BY <1>8, <2>3 DEF Look, Access, kind
  <2> QED
    BY <2>1, <2>5, <2>7, <2>8, <2>9, <2>10, <2>11, Zenon DEF EpochInv
<1>9. CASE ReadProd \/ ReadCons
  BY <1>0, <1>7, <1>9 DEF ReadProd, ReadCons, Read, Write, Access, local, EpochInv, Under, Based
<1>10. CASE Claimed \/ Again
  BY ZenonT(40), <1>0, <1>7, <1>10 DEF Claimed, Again, Read, Write, Access, local, EpochInv, Under, Based
<1>11. CASE Bases
  BY <1>0, <1>7, <1>11 DEF Bases, Access, EpochInv, Under, Based
<1>12. CASE ReadIndex \/ Entry \/ Do \/ Put \/ Check
  BY ZenonT(40), <1>0, <1>7, <1>12 DEF ReadIndex, Entry, Do, Put, Check, Access, local, EpochInv, Under, Based
<1>13. CASE Verify \/ VerifyIndex
  BY ZenonT(40), <1>0, <1>7, <1>13 DEF Verify, VerifyIndex, Read, Write, Access, local, EpochInv, Under, Based
<1>14. CASE Fail
  <2>1. s'.epoch = d.epoch /\ pc = "fail" /\ pc' = "last farewell" /\ b' = b
    BY <1>0, <1>14 DEF Fail, Access
  <2>2. ~d.busy
    BY <2>1 DEF EpochInv, Under, Based
  <2>3. /\ d'.on = d.on /\ d'.busy = d.busy /\ d'.based = d.based /\ d'.epoch = d.epoch
        /\ given' = given
    BY <1>7, <1>14 DEF Fail, Access
  <2>4. d.epoch <= d.epoch
    BY <1>0
  <2>5. s'.epoch <= d'.epoch
    BY <2>1, <2>3, <2>4, Zenon
  <2> QED BY <1>0, <2>1, <2>2, <2>3, <2>5 DEF EpochInv, Under, Based
<1> QED
  BY <1>1, <1>2, <1>3, <1>4, <1>5, <1>6, <1>8, <1>9, <1>10, <1>11, <1>12, <1>13, <1>14
     DEF Program
=============================================================================
