------------------------- MODULE QuuxPassageProofs -------------------------
(***************************************************************************)
(* What passes through a ring is its own entry's.  First the counts that   *)
(* the registers of a ring stand for, and what the program's steps do to   *)
(* them and to the entries: one lemma for each step that moves a count,    *)
(* carries an entry out or writes the rings, one for all the others.  Then *)
(* the machine's and the fabric's steps: RingInv is inductive, and         *)
(* ReadsItsAnswer, OnceInOrder and HandlesTogether follow from it.         *)
(* QuuxRingsProofs has the registers' part.                                *)
(***************************************************************************)
EXTENDS QuuxRingsProofs

-----------------------------------------------------------------------------
(* The counts, and what is known of the entries, over a clock in which the *)
(* machine writes no register: what was landing is shown.                  *)

LEMMA Sizes ==
  ASSUME HostType
  PROVE  /\ world.mod \in Nat \ {0} /\ kind \in Kinds
         /\ world.csize \in Nat \ {0} /\ world.csize < world.mod /\ world.mod % world.csize = 0
         /\ world.rsize \in Nat \ {0} /\ world.rsize < world.mod /\ world.mod % world.rsize = 0
         /\ kind = "receive" => world.csize = world.rsize
BY WorldSizes, Zenon DEF HostType, kind

LEMMA SlotFacts ==
  ASSUME HostType, NEW j \in Nat
  PROVE  /\ j % world.rsize \in Slots /\ j % world.csize \in Slots
         /\ (j % world.mod) % world.rsize = j % world.rsize
         /\ (j % world.mod) % world.csize = j % world.csize
<1>0. /\ j \in Int /\ world.mod \in Nat \ {0}
      /\ world.rsize \in Nat \ {0} /\ world.csize \in Nat \ {0}
      /\ world.mod % world.rsize = 0 /\ world.mod % world.csize = 0
  BY Sizes
<1>1. j % world.rsize \in 0 .. world.rsize - 1
  BY <1>0, Quotient, Zenon
<1>2. j % world.csize \in 0 .. world.csize - 1
  BY <1>0, Quotient, Zenon
<1>3. j % world.rsize \in Slots /\ j % world.csize \in Slots
  BY <1>1, <1>2, Sizes DEF Slots
<1>4. (j % world.mod) % world.rsize = j % world.rsize
  BY <1>0, SlotOf, Zenon
<1>5. (j % world.mod) % world.csize = j % world.csize
  BY <1>0, SlotOf, Zenon
<1> QED BY <1>3, <1>4, <1>5, Zenon

(* e of the entries are shown done after the clock. *)
Shown(e, c, h) == e = IF kind = "receive" THEN c ELSE h

LEMMA CountLanded ==
  ASSUME RegType(d), HostType, d.on, NEW c \in Nat, NEW t \in Nat, NEW h \in Nat, NEW e \in Nat,
         CountInv(c, t, h), Shown(e, c, h)
  PROVE  /\ Landed.cons = e % world.mod
         /\ kind = "receive" => Landed.target = h % world.mod
         /\ c <= e /\ e <= h
BY LandedQuiet DEF CountInv, Shown, Quiet, chost, land

LEMMA CountQuiet ==
  ASSUME RegType(d), HostType, d.on, NEW c \in Nat, NEW t \in Nat, NEW h \in Nat, NEW e \in Nat,
         CountInv(c, t, h), Shown(e, c, h), Quiet(d'), UNCHANGED <<world, posted>>
  PROVE  CountInv(e, t, h)'
<1>1. kind' = kind /\ posted \in Nat /\ d'.pub = None /\ d'.prod = d.prod /\ d'.taken = d.taken
  BY DEF kind, Quiet, HostType
<1>2. d'.cons = Landed.cons /\ d'.target = Landed.target
  BY LandedQuiet, Zenon DEF Quiet
<1>3. chost' = h % world.mod /\ d'.cons = e % world.mod
  BY <1>1, <1>2, CountLanded, Zenon DEF chost, land, Shown
<1> QED BY <1>1, <1>3, CountLanded, Sizes DEF CountInv, Shown

LEMMA CacheQuiet ==
  ASSUME RegType(d), HostType, d.on, NEW c \in Nat, NEW t \in Nat, NEW h \in Nat, NEW e \in Nat,
         CountInv(c, t, h), Shown(e, c, h), CacheInv(c, t, h),
         d'.epoch = d.epoch, d'.es = d.es, cache' = cache_w, UNCHANGED world
  PROVE  CacheInv(e, t, h)'
<1>1. kind' = kind
  BY Zenon DEF kind
<1>2. CASE kind = "receive"
  <2>1. e = c /\ cache' = cache
    BY <1>2, Zenon DEF Shown, cache_w
  <2> QED BY <1>1, <1>2, <2>1, Zenon DEF CacheInv
<1>3. CASE kind = "file"
  <2>1. d.es = "idle"
    BY <1>3, Zenon DEF CacheInv
  <2>2. CASE land
    <3>1. ASSUME NEW j \in t .. e - 1, NEW p \in Parts
          PROVE  cache'[p][j % world.rsize] = Out
      <4>1. j % world.rsize \in Slots
        BY SlotFacts
      <4> QED BY <1>3, <2>2, <4>1, Zenon DEF cache_w, Swept
    <3> QED BY <1>1, <1>3, <2>1, <3>1, Zenon DEF CacheInv
  <2>3. CASE ~land
    <3>1. e = c /\ cache' = cache
      BY <1>3, <2>3, Zenon DEF Shown, cache_w, land, CountInv
    <3> QED BY <1>1, <1>3, <2>1, <3>1, Zenon DEF CacheInv
  <2> QED BY <2>2, <2>3, Zenon
<1> QED BY <1>1, <1>2, <1>3, Sizes, Zenon DEF CacheInv, Kinds

LEMMA HandleQuiet ==
  ASSUME RegType(d), HostType, d.on, NEW c \in Nat, NEW t \in Nat, NEW h \in 0 .. posted,
         NEW e \in Nat,
         CountInv(c, t, h), Shown(e, c, h), HandleInv(c, h),
         \A j \in 0 .. h - 1 : opens'[j] = opens[j]
  PROVE  Landed.hopen = IF e = 0 THEN 0 ELSE opens'[e - 1]
<1>1. Landed.hopen = IF land THEN d.hnext ELSE d.hopen
  BY LandedQuiet, Zenon DEF Quiet
<1>2. posted \in 0 .. CmdBound /\ CmdBound \in Nat
  BY Bounds, Zenon DEF HostType
<1>3. CASE kind = "file"
  <2>1. e = h /\ c = IF d.pub = None THEN h ELSE h - 1
    BY <1>3, Zenon DEF Shown, CountInv
  <2>2. CASE land
    BY <1>1, <1>3, <2>1, <2>2 DEF HandleInv, land
  <2>3. CASE ~land
    BY <1>1, <1>3, <2>1, <2>3 DEF HandleInv, land
  <2> QED BY <2>2, <2>3, Zenon
<1>4. CASE kind # "file"
  <2>1. c <= e /\ e <= h
    BY CountLanded
  <2>2. d.hnext = 0 /\ \A j \in 0 .. CmdBound : opens[j] = 0
    BY <1>4, Zenon DEF HandleInv
  <2>3. d.hopen = 0
    BY <1>2, <2>1, <2>2 DEF HandleInv
  <2>4. e # 0 => e - 1 \in 0 .. h - 1 /\ e - 1 \in 0 .. CmdBound
    BY <1>2, <2>1
  <2> QED BY <1>1, <2>2, <2>3, <2>4, Zenon
<1> QED BY <1>3, <1>4, Zenon

(* A clock that changes neither the memory nor what was carried out: what  *)
(* is known of the entry being served is carried over to where the program *)
(* goes next.                                                              *)
LEMMA PlainStep ==
  ASSUME RegType(d), HostType, d.on, NEW c \in Nat, NEW t \in Nat, NEW h \in 0 .. posted,
         NEW e \in Nat, Enabled(c, t, h), Shown(e, c, h),
         Quiet(d'), cache' = cache_w, UNCHANGED <<world, cmd, posted, resp, did, opens>>,
         pc' \in Carrying \ {"entry"} => command' = <<d.epoch, h>>,
         pc' \in Carried <=> pc \in Carried,
         pc' \in Carried \ {"put"} => pc \in Carried \ {"put"},
         kind = "file" /\ pc' \in Carried => g'.open = opens[h],
         kind = "file" /\ pc' = "complete" => d'.hnext = opens[h],
         kind # "file" => g'.open = 0 /\ d'.hnext = 0,
         ServeInv(t, h)'
  PROVE  Enabled(e, t, h)'
<1>1. /\ kind' = kind /\ d'.epoch = d.epoch /\ d'.es = d.es /\ d'.pub = None
      /\ d'.hopen = Landed.hopen /\ posted \in Nat
  BY LandedQuiet DEF kind, Quiet, HostType
<1>2. CountInv(e, t, h)'
  BY CountQuiet DEF Enabled
<1>3. CacheInv(e, t, h)'
  BY <1>1, CacheQuiet DEF Enabled
<1>4. c <= e
  BY CountLanded DEF Enabled
<1>5. CmdInv(e, t, h)'
  BY <1>1, <1>4 DEF Enabled, CmdInv
<1>6. DidInv(h)'
  BY <1>1, Zenon DEF Enabled, DidInv
<1>7. HandleInv(e, h)'
  <2>1. d'.hopen = IF e = 0 THEN 0 ELSE opens'[e - 1]
    BY <1>1, HandleQuiet, Zenon DEF Enabled
  <2> QED BY <1>1, <2>1, Zenon DEF Enabled, HandleInv
<1>8. RespInv(t, h)'
  BY <1>1, Zenon DEF Enabled, RespInv
<1> QED BY <1>2, <1>3, <1>5, <1>6, <1>7, <1>8, Zenon DEF Enabled

(* The machine's moves leave standing what the program read. *)
LEMMA ServeStands ==
  ASSUME HostType, NEW t \in Nat, NEW u \in Nat, NEW h \in 0 .. posted, ServeInv(t, h),
         t <= u, posted' \in Nat, posted <= posted', d'.epoch = d.epoch,
         UNCHANGED <<world, pc, i, n, s>>
  PROVE  ServeInv(u, h)'
<1>1. kind' = kind /\ posted \in Nat /\ h .. posted \subseteq h .. posted'
      /\ h + 1 .. posted \subseteq h + 1 .. posted' /\ world.rsize \in Nat
  BY Sizes DEF kind, HostType
<1> QED BY <1>1 DEF ServeInv

(* The distances the device and the program work out are those of the      *)
(* counts.                                                                 *)
LEMMA Distances ==
  ASSUME HostType, NEW c \in Nat, NEW t \in Nat, NEW h \in Nat, CountInv(c, t, h)
  PROVE  /\ Minus(d.prod, chost) = posted - h
         /\ Minus(d.prod, d.cons) = posted - c
         /\ kind # "transmit" => Minus(d.cons, d.taken) = c - t
         /\ kind = "file" => Minus(chost, d.taken) = h - t
<1>1. posted \in Int /\ c \in Int /\ t \in Int /\ h \in Int /\ world.mod \in Nat \ {0}
  BY Sizes DEF HostType
<1>2. /\ posted - h \in 0 .. world.mod - 1
      /\ posted - c \in 0 .. world.mod - 1
      /\ kind # "transmit" => c - t \in 0 .. world.mod - 1
      /\ kind = "file" => h - t \in 0 .. world.mod - 1
  BY <1>1, Sizes DEF CountInv, Kinds
<1>3. Minus(d.prod, chost) = posted - h
  BY <1>1, <1>2, Distance DEF Minus, CountInv
<1>4. Minus(d.prod, d.cons) = posted - c
  BY <1>1, <1>2, Distance DEF Minus, CountInv
<1>5. kind # "transmit" => Minus(d.cons, d.taken) = c - t
  BY <1>1, <1>2, Distance DEF Minus, CountInv
<1>6. kind = "file" => Minus(chost, d.taken) = h - t
  BY <1>1, <1>2, Distance DEF Minus, CountInv
<1> QED BY <1>3, <1>4, <1>5, <1>6, Zenon

(* The program's accesses that write no memory and carry nothing out. *)
LEMMA PlainProgram ==
  ASSUME RegType(d), HostType, EpochInv, d.on, NEW c \in Nat, NEW t \in Nat,
         NEW h \in 0 .. posted, NEW e \in Nat, Enabled(c, t, h), Shown(e, c, h),
         Program \/ Stop, ~Do, ~Put, ~Complete
  PROVE  Enabled(e, t, h)'
<1>1. /\ Quiet(d') /\ cache' = cache_w /\ UNCHANGED <<world, cmd, posted>>
      /\ kind' = kind /\ d'.epoch = d.epoch /\ d'.on = d.on
  <2>1. Quiet(d') /\ cache' = cache_w /\ UNCHANGED <<world, cmd, posted>>
    <3>1. CASE Program
      BY <3>1, ProgramQuiet, Zenon
    <3>2. CASE Stop
      BY <3>2, LandedQuiet, ReleaseQuiet, Zenon DEF Stop, history
    <3> QED BY <3>1, <3>2, Zenon
  <2> QED BY <2>1, Zenon DEF Quiet, kind
<1>2. UNCHANGED <<resp, did, opens>>
  BY Zenon DEF Program, Attach, Look, Tell, ReadProd, ReadCons, Claim, Claimed, Again, Bases, ReadIndex,
         Entry, Check, Handles, Verify, VerifyIndex, LetGo, Fail, Farewell, Stop, history,
         Read, Write
<1>3. posted \in Nat /\ CountInv(c, t, h) /\ ServeInv(t, h)
  BY DEF HostType, Enabled
<1>4. kind # "file" => g.open = 0 /\ d.hnext = 0
  BY Zenon DEF Enabled, HandleInv
<1>5. /\ Landed.hnext = d.hnext /\ Release.hnext = d.hnext
      /\ [Landed EXCEPT !.busy = TRUE].hnext = d.hnext
      /\ \A k, o : Stage(k, o).hnext = IF in_epoch(k) THEN o ELSE d.hnext
  BY LandedQuiet, ReleaseQuiet, ClaimQuiet, StageQuiet, Zenon
<1>6. ASSUME pc \notin Carrying \ {"entry"}, pc' \notin Carrying \ {"entry"},
             kind # "file" => g'.open = 0 /\ d'.hnext = 0,
             ServeInv(t, h)'
      PROVE  Enabled(e, t, h)'
  BY <1>1, <1>2, <1>6, PlainStep, Zenon DEF Carrying, Carried
<1>7. CASE Attach \/ LetGo \/ Verify \/ VerifyIndex
  <2>1. /\ pc \notin Carrying \ {"entry"} /\ g' = g /\ d'.hnext = d.hnext
        /\ pc' \in {"look", "release", "release and stop", "verify index", "fail"}
    BY <1>5, <1>7, Zenon DEF Attach, LetGo, Verify, VerifyIndex, Read, Write, Access, local, Carrying
  <2>2. ServeInv(t, h)' /\ pc' \notin Carrying
    BY <2>1, Zenon DEF ServeInv, Carrying
  <2> QED BY <1>4, <1>6, <2>1, <2>2, Zenon
<1>8. CASE Look \/ Stop \/ Fail
  <2>1. /\ pc \notin Carrying /\ d'.hnext = d.hnext /\ (kind # "file" => g'.open = 0)
        /\ pc' \in {"tell", "look", "prod", "farewell", "attach", "last farewell"}
           \/ (pc' = "claim" /\ kind = "file")
    <3>1. CASE Look
      BY <1>4, <1>5, <3>1, Zenon DEF Look, Access, Carrying
    <3>2. CASE Stop
      BY <1>4, <1>5, <3>2, Zenon DEF Stop, Carrying
    <3>3. CASE Fail
      BY <1>4, <1>5, <3>3, Zenon DEF Fail, Access, Carrying
    <3> QED BY <1>8, <3>1, <3>2, <3>3, Zenon
  <2>2. ServeInv(t, h)' /\ pc' \notin Carrying
    BY <1>1, <2>1, Zenon DEF ServeInv, Carrying
  <2> QED BY <1>4, <1>6, <2>1, <2>2, Zenon
<1>9. CASE Tell \/ Farewell
  <2>1. /\ pc \notin Carrying /\ g' = g /\ d'.hnext \in {0, d.hnext}
        /\ pc' \in {"look", "attach", "stopped"} \/ (pc' = "claim" /\ kind = "file")
    <3>1. CASE Tell
      BY <1>5, <3>1, Zenon DEF Tell, Write, Access, local, Carrying, EpochInv
    <3>2. CASE Farewell
      BY <1>5, <3>2, ZenonT(60) DEF Farewell, Write, Access, local, Carrying
    <3> QED BY <1>9, <3>1, <3>2, Zenon
  <2>2. ServeInv(t, h)' /\ pc' \notin Carrying
    BY <1>1, <2>1, Zenon DEF ServeInv, Carrying
  <2> QED BY <1>4, <1>6, <2>1, <2>2, Zenon
<1>10. CASE ReadProd
  <2>1. /\ pc \notin Carrying /\ g' = g /\ d'.hnext = d.hnext /\ n' = posted % world.mod
        /\ pc' = "cons" \/ (pc' = "index" /\ kind = "transmit")
    BY <1>3, <1>5, <1>10, Zenon DEF ReadProd, Access, Carrying, EpochInv, CountInv
  <2>2. \E m \in h .. posted : n' = m % world.mod
    BY <1>3, <2>1 DEF CountInv
  <2>3. ServeInv(t, h)' /\ pc' \notin Carrying
    BY <1>1, <2>1, <2>2, Zenon DEF ServeInv, Carrying
  <2> QED BY <1>4, <1>6, <2>1, <2>3, Zenon
<1>11. CASE ReadCons
  <2>1. /\ pc = "cons" /\ UNCHANGED <<g, s, n>> /\ d'.hnext = d.hnext
        /\ pc' = IF chost = n THEN "look" ELSE "claim"
    BY <1>5, <1>11, Zenon DEF ReadCons, Read, Write, Access, local
  <2>2. kind = "receive" /\ s.epoch = d.epoch /\ chost # n => h < posted
    BY <1>3, <2>1 DEF ServeInv, CountInv
  <2>3. ServeInv(t, h)' /\ pc' \notin Carrying
    BY <1>1, <2>1, <2>2, Zenon DEF ServeInv, Carrying
  <2> QED BY <1>4, <1>6, <2>1, <2>3, Zenon DEF Carrying
<1>12. CASE Claim \/ Claimed
  <2>1. /\ pc \in {"claim", "claimed"} /\ UNCHANGED <<g, s>> /\ d'.hnext = d.hnext
        /\ pc' \in {"claimed", "again", "look"}
    BY <1>5, <1>12, Zenon DEF Claim, Claimed, Read, Write, Access, local
  <2>2. ServeInv(t, h)' /\ pc' \notin Carrying
    BY <1>1, <1>3, <2>1, Zenon DEF ServeInv, Carrying
  <2> QED BY <1>4, <1>6, <2>1, <2>2, Zenon DEF Carrying
<1>13. CASE Again
  <2>1. /\ pc = "again" /\ UNCHANGED <<g, s>> /\ d'.hnext = d.hnext
        /\ pc' = IF d.epoch = s.epoch /\ work THEN "bases" ELSE "release"
    BY <1>5, <1>13, Zenon DEF Again, Read, Write, Access, local
  <2>2. kind = "file" /\ work => h < posted /\ h - t < world.rsize
    BY <1>3, Distances DEF work, CountInv
  <2>3. ServeInv(t, h)' /\ pc' \notin Carrying
    BY <1>1, <1>3, <2>1, <2>2, Zenon DEF ServeInv, Carrying
  <2> QED BY <1>4, <1>6, <2>1, <2>3, Zenon DEF Carrying
<1>14. CASE Bases
  <2>1. /\ pc = "bases" /\ UNCHANGED <<g, s>> /\ d'.hnext = d.hnext
        /\ pc' = IF kind = "transmit" THEN "prod again" ELSE "index"
    BY ZenonT(40), <1>5, <1>14 DEF Bases, Access
  <2>2. ServeInv(t, h)' /\ pc' \notin Carrying
    BY <1>1, <1>3, <2>1, Zenon DEF ServeInv, Carrying
  <2> QED BY <1>4, <1>6, <2>1, <2>2, Zenon DEF Carrying
<1>15. CASE ReadIndex
  <2>1. /\ pc = "index" /\ UNCHANGED <<g, s, n>> /\ d'.hnext = d.hnext /\ i' = h % world.mod
        /\ pc' = IF kind = "transmit" /\ chost = n THEN "release" ELSE "entry"
    BY <1>3, <1>5, <1>15, Zenon DEF ReadIndex, Access, CountInv
  <2>2. s.epoch = d.epoch
    BY <2>1, Zenon DEF EpochInv, Under, Based
  <2>3. kind = "transmit" /\ chost # n => h < posted /\ \E m \in h + 1 .. posted : n = m % world.mod
    <3> SUFFICES ASSUME kind = "transmit", chost # n
                 PROVE  h < posted /\ \E m \in h + 1 .. posted : n = m % world.mod
      BY Zenon
    <3>1. PICK m \in h .. posted : n = m % world.mod
      BY <1>3, <2>1, Zenon DEF ServeInv
    <3>2. m # h
      BY <1>3, <3>1, Zenon DEF CountInv
    <3> QED BY <1>3, <3>1, <3>2
  <2>4. ServeInv(t, h)'
    BY <1>1, <1>3, <2>1, <2>2, <2>3, Sizes, Zenon DEF ServeInv, Carrying, Kinds
  <2> QED BY <1>4, <1>6, <2>1, <2>4, Zenon DEF Carrying
<1>16. CASE Entry
  <2>1. /\ pc = "entry" /\ UNCHANGED <<g, s, n, i>> /\ d'.hnext = d.hnext
        /\ pc' \in {"do", "release"} /\ command' = cmd[i % world.csize]
    BY <1>5, <1>16, Zenon DEF Entry, Access, EpochInv, Based
  <2>2. command' = <<d.epoch, h>>
    <3>1. i % world.csize = h % world.csize /\ h < posted
      <4>1. i = h % world.mod /\ h < posted
        BY <1>3, <2>1, Zenon DEF ServeInv, Carrying
      <4> QED BY <1>3, <4>1, SlotFacts
    <3> QED BY <1>3, <2>1, <3>1 DEF Enabled, CmdInv, CountInv
  <2>3. ServeInv(t, h)'
    BY <1>1, <1>3, <2>1, Zenon DEF ServeInv, Carrying
  <2> QED BY <1>1, <1>2, <1>4, <2>1, <2>2, <2>3, PlainStep, Zenon DEF Carrying, Carried
<1>17. CASE Check
  <2>1. s.epoch = d.epoch
    BY <1>17, Zenon DEF Check, Access, EpochInv, Under, Based
  <2>2. /\ pc = "check" /\ UNCHANGED <<g, s, n, i, command>> /\ d'.hnext = d.hnext
        /\ pc' = "handles"
    BY <1>5, <1>17, <2>1, Zenon DEF Check, Access
  <2>3. ServeInv(t, h)'
    BY <1>1, <1>3, <2>2, Zenon DEF ServeInv, Carrying
  <2>4. command = <<d.epoch, h>> /\ (kind = "file" => g.open = opens[h])
    BY <2>2, Zenon DEF Enabled, CmdInv, HandleInv, Carrying, Carried
  <2> QED BY <1>1, <1>2, <1>4, <2>2, <2>3, <2>4, PlainStep, Zenon DEF Carrying, Carried
<1>18. CASE Handles
  <2>1. s.epoch = d.epoch
    BY <1>18, Zenon DEF Handles, Write, Access, EpochInv, Under, Based
  <2>2. /\ pc = "handles" /\ UNCHANGED <<g, s, n, i, command>> /\ d'.hnext = g.open
        /\ pc' = "complete"
    BY <1>5, <1>18, <2>1, Zenon DEF Handles, Write, Access, local, in_epoch
  <2>3. ServeInv(t, h)'
    BY <1>1, <1>3, <2>2, Zenon DEF ServeInv, Carrying
  <2>4. command = <<d.epoch, h>> /\ (kind = "file" => g.open = opens[h])
    BY <2>2, Zenon DEF Enabled, CmdInv, HandleInv, Carrying, Carried
  <2> QED BY <1>1, <1>2, <1>4, <2>2, <2>3, <2>4, PlainStep, Zenon DEF Carrying, Carried
<1> QED
  BY <1>7, <1>8, <1>9, <1>10, <1>11, <1>12, <1>13, <1>14, <1>15, <1>16, <1>17, <1>18, Zenon DEF Program

(* What the program writes for an entry, it writes where no answer that    *)
(* the machine has yet to take is.                                         *)
LEMMA AnswerSlot ==
  ASSUME HostType, NEW c \in Nat, NEW t \in Nat, NEW h \in Nat, CountInv(c, t, h),
         ServeInv(t, h), pc \in Carrying, kind # "transmit"
  PROVE  \A j \in t .. h - 1 : j % world.rsize # h % world.rsize
<1>1. h - t < world.rsize /\ world.rsize \in Nat \ {0}
  BY Sizes DEF CountInv, ServeInv, Kinds, HostType
<1>2. ASSUME NEW j \in t .. h - 1, j % world.rsize = h % world.rsize PROVE FALSE
  <2>1. j \in Int /\ h \in Int /\ h - j \in 0 .. world.rsize - 1 /\ j # h
    BY <1>1
  <2> QED BY <1>1, <1>2, <2>1, OwnSlot, Zenon
<1> QED BY <1>2, Zenon

LEMMA DoStep ==
  ASSUME RegType(d), HostType, EpochInv, d.on, NEW c \in Nat, NEW t \in Nat,
         NEW h \in 0 .. posted, NEW e \in Nat, Enabled(c, t, h), Shown(e, c, h), Do
  PROVE  Enabled(e, t, h)'
<1>1. /\ Quiet(d') /\ d'.hnext = d.hnext /\ cache' = cache_w
      /\ UNCHANGED <<world, cmd, posted, s, i, n, b, command>>
      /\ pc = "do" /\ pc' = IF kind = "transmit" THEN "complete" ELSE "put"
  BY LandedQuiet, Zenon DEF Do, Access
<1>2. /\ kind' = kind /\ d'.epoch = d.epoch /\ d'.es = d.es /\ d'.pub = None
      /\ d'.hopen = Landed.hopen /\ posted \in Nat /\ posted <= CmdBound /\ CmdBound \in Nat
  BY <1>1, LandedQuiet, Bounds DEF kind, Quiet, HostType
<1>3. /\ command = <<d.epoch, h>> /\ i = h % world.mod /\ h < posted /\ b
      /\ CountInv(c, t, h) /\ ServeInv(t, h)
  BY <1>1, Zenon DEF Enabled, CmdInv, ServeInv, Carrying, EpochInv, Based
<1>4. command \in Tags /\ command[2] = h
  <2>1. d.epoch \in Nat /\ d.epoch <= EpochBound
    BY Zenon DEF HostType, RegType
  <2> QED BY <1>2, <1>3, <2>1, Bounds DEF Tags
<1>5. PICK o \in IF kind = "file" THEN 0 .. MaxHandles ELSE {0} :
         g' = [g EXCEPT !.open = o] /\ opens' = [opens EXCEPT ![h] = o]
  BY ZenonT(40), <1>4 DEF Do
<1>6. /\ g'.open = o /\ opens'[h] = o
      /\ \A j \in 0 .. CmdBound : j # h => opens'[j] = opens[j]
  BY <1>2, <1>5 DEF HostType
<1>7. CountInv(e, t, h)' /\ CacheInv(e, t, h)' /\ c <= e
  <2>1. CountInv(c, t, h) /\ CacheInv(c, t, h) /\ h \in Nat
    BY DEF Enabled, HostType
  <2>2. CountInv(e, t, h)'
    BY <1>1, <2>1, CountQuiet, Zenon
  <2>3. CacheInv(e, t, h)'
    BY <1>1, <1>2, <2>1, CacheQuiet, Zenon
  <2>4. c <= e
    BY <2>1, CountLanded, Zenon
  <2> QED BY <2>2, <2>3, <2>4, Zenon
<1>8. ServeInv(t, h)'
  BY <1>1, <1>2, <1>3, Zenon DEF ServeInv, Carrying
<1>9. CmdInv(e, t, h)'
  BY <1>1, <1>2, <1>3, <1>7 DEF Enabled, CmdInv
<1>10. DidInv(h)'
  <2>1. did' = Append(did, <<d.epoch, h>>)
    BY <1>3, Zenon DEF Do
  <2> SUFFICES ASSUME "kill" \notin world.events
               PROVE  /\ Len(did') = h + 1
                      /\ \A j \in 1 .. Len(did') : did'[j] = <<d.epoch, j - 1>>
    BY <1>1, <1>2, Zenon DEF DidInv, Carried
  <2>2. Len(did) = h /\ \A j \in 1 .. Len(did) : did[j] = <<d.epoch, j - 1>>
    BY <1>1, Zenon DEF Enabled, DidInv, Carried
  <2>a. did \in Seq(Words)
    BY Zenon DEF HostType
  <2>3. Len(did') = h + 1 /\ did'[h + 1] = <<d.epoch, h>>
    BY <2>1, <2>2, <2>a
  <2>4. ASSUME NEW j \in 1 .. h PROVE did'[j] = <<d.epoch, j - 1>>
    BY <2>1, <2>2, <2>a
  <2>5. ASSUME NEW j \in 1 .. h + 1 PROVE did'[j] = <<d.epoch, j - 1>>
    <3>1. CASE j \in 1 .. h
      BY <2>4, <3>1, Zenon
    <3>2. CASE j = h + 1
      <4>1. j - 1 = h
        BY <1>2, <3>2
      <4> QED BY <2>3, <3>2, <4>1, Zenon
    <3> QED BY <1>2, <3>1, <3>2
  <2> QED BY <2>3, <2>5, Zenon
<1>11. HandleInv(e, h)'
  <2>1. d'.hopen = IF e = 0 THEN 0 ELSE opens'[e - 1]
    BY <1>2, <1>6, HandleQuiet DEF Enabled
  <2>2. kind # "file" => d.hnext = 0 /\ \A j \in 0 .. CmdBound : opens[j] = 0
    BY Zenon DEF Enabled, HandleInv
  <2>3. kind # "file" => o = 0
    BY Zenon
  <2>4. kind # "file" => \A j \in 0 .. CmdBound : opens'[j] = 0
    BY <1>6, <2>2, <2>3, Zenon
  <2> QED BY <1>1, <1>2, <1>6, <2>1, <2>2, <2>3, <2>4, Zenon DEF HandleInv
<1>12. RespInv(t, h)'
  <2> SUFFICES ASSUME kind # "transmit" PROVE RespInv(t, h)'
    BY <1>2, Zenon DEF RespInv
  <2>0. h \in Nat /\ i % world.rsize = h % world.rsize
    BY <1>3, SlotFacts DEF HostType
  <2>1. resp' = [resp EXCEPT !["buffer"][h % world.rsize] = <<d.epoch, h>>]
    BY <1>3, <2>0, Zenon DEF Do
  <2>2. \A j \in t .. h - 1 : j % world.rsize # h % world.rsize
    <3>1. pc \in Carrying
      BY <1>1, Zenon DEF Carrying
    <3> QED BY <1>3, <2>0, <3>1, AnswerSlot, Zenon
  <2>3. \A j \in Nat : j % world.rsize \in Slots
    BY SlotFacts, Zenon
  <2>w. /\ resp'["buffer"][h % world.rsize] = <<d.epoch, h>>
        /\ \A p \in Parts, l \in Slots :
              p # "buffer" \/ l # h % world.rsize => resp'[p][l] = resp[p][l]
    <3>1. "buffer" \in Parts /\ h % world.rsize \in Slots
      BY <2>0, <2>3, Zenon DEF Parts
    <3>2. resp \in [Parts -> [Slots -> Words]]
      BY Zenon DEF HostType
    <3> QED BY <2>1, <3>1, <3>2, SMTT(30)
  <2>4. resp'["buffer"][h % world.rsize] = <<d.epoch, h>>
    BY <2>w, Zenon
  <2>5. ASSUME NEW j \in t .. h - 1, NEW p \in Parts
        PROVE  resp'[p][j % world.rsize] = <<d.epoch, j>>
    <3>1. resp[p][j % world.rsize] = <<d.epoch, j>>
      BY Zenon DEF Enabled, RespInv
    <3>2. j % world.rsize \in Slots /\ j % world.rsize # h % world.rsize
      BY <2>2, <2>3
    <3> QED BY <2>w, <3>1, <3>2, Zenon
  <2> QED BY <1>1, <1>2, <2>4, <2>5, Zenon DEF RespInv, Carried
<1> QED BY <1>7, <1>8, <1>9, <1>10, <1>11, <1>12, Zenon DEF Enabled

LEMMA PutStep ==
  ASSUME RegType(d), HostType, EpochInv, d.on, NEW c \in Nat, NEW t \in Nat,
         NEW h \in 0 .. posted, NEW e \in Nat, Enabled(c, t, h), Shown(e, c, h), Put
  PROVE  Enabled(e, t, h)'
<1>1. /\ Quiet(d') /\ d'.hnext = d.hnext /\ cache' = cache_w
      /\ UNCHANGED <<world, cmd, posted, did, opens, g, s, i, n, b, command>>
      /\ pc = "put" /\ pc' = IF kind = "file" THEN "check" ELSE "complete"
  BY LandedQuiet, Zenon DEF Put, Access, local
<1>2. /\ kind' = kind /\ d'.epoch = d.epoch /\ d'.es = d.es /\ d'.pub = None
      /\ d'.hopen = Landed.hopen
  BY <1>1, LandedQuiet, Zenon DEF kind, Quiet
<1>3. /\ command = <<d.epoch, h>> /\ i = h % world.mod /\ b
      /\ CountInv(c, t, h) /\ ServeInv(t, h)
  BY <1>1, Zenon DEF Enabled, CmdInv, ServeInv, Carrying, EpochInv, Based
<1>4. CountInv(e, t, h)' /\ CacheInv(e, t, h)' /\ c <= e
  <2>1. CountInv(c, t, h) /\ CacheInv(c, t, h) /\ h \in Nat
    BY DEF Enabled, HostType
  <2>2. CountInv(e, t, h)'
    BY <1>1, <2>1, CountQuiet, Zenon
  <2>3. CacheInv(e, t, h)'
    BY <1>1, <1>2, <2>1, CacheQuiet, Zenon
  <2>4. c <= e
    BY <2>1, CountLanded, Zenon
  <2> QED BY <2>2, <2>3, <2>4, Zenon
<1>5. ServeInv(t, h)'
  BY <1>1, <1>2, <1>3, Zenon DEF ServeInv, Carrying
<1>6. CmdInv(e, t, h)'
  <2>1. \A j \in (IF kind = "receive" THEN t ELSE e) .. posted - 1 :
            j \in (IF kind = "receive" THEN t ELSE c) .. posted - 1
    BY <1>4 DEF HostType
  <2>2. CmdInv(c, t, h)
    BY Zenon DEF Enabled
  <2> QED BY <1>1, <1>2, <1>3, <2>1, <2>2, Zenon DEF CmdInv
<1>7. DidInv(h)'
  BY <1>1, <1>2, Zenon DEF Enabled, DidInv, Carried
<1>8. HandleInv(e, h)'
  <2>1. d'.hopen = IF e = 0 THEN 0 ELSE opens'[e - 1]
    BY <1>1, <1>2, HandleQuiet, Zenon DEF Enabled
  <2> QED BY <1>1, <1>2, <2>1, Zenon DEF Enabled, HandleInv, Carried
<1>9. RespInv(t, h)'
  <2> SUFFICES ASSUME kind # "transmit" PROVE RespInv(t, h)'
    BY <1>2, Zenon DEF RespInv
  <2>0. h \in Nat /\ i % world.rsize = h % world.rsize
    BY <1>3, SlotFacts DEF HostType
  <2>1. resp' = [resp EXCEPT !["entry"][h % world.rsize] = <<d.epoch, h>>]
    BY <1>3, <2>0, Zenon DEF Put
  <2>2. \A j \in t .. h - 1 : j % world.rsize # h % world.rsize
    <3>1. pc \in Carrying
      BY <1>1, Zenon DEF Carrying
    <3> QED BY <1>3, <2>0, <3>1, AnswerSlot, Zenon
  <2>3. \A j \in Nat : j % world.rsize \in Slots
    BY SlotFacts, Zenon
  <2>w. /\ "buffer" \in Parts /\ h % world.rsize \in Slots
        /\ resp'["entry"][h % world.rsize] = <<d.epoch, h>>
        /\ \A p \in Parts, l \in Slots :
              p # "entry" \/ l # h % world.rsize => resp'[p][l] = resp[p][l]
    <3>1. {"entry", "buffer"} \subseteq Parts /\ h % world.rsize \in Slots
      BY <2>0, <2>3, Zenon DEF Parts
    <3>2. resp \in [Parts -> [Slots -> Words]]
      BY Zenon DEF HostType
    <3> QED BY <2>1, <3>1, <3>2, SMTT(30)
  <2>4. /\ resp'["entry"][h % world.rsize] = <<d.epoch, h>>
        /\ resp'["buffer"][h % world.rsize] = <<d.epoch, h>>
    <3>1. resp["buffer"][h % world.rsize] = <<d.epoch, h>>
      BY <1>1, Zenon DEF Enabled, RespInv, Carried
    <3> QED BY <2>w, <3>1, Zenon
  <2>5. ASSUME NEW j \in t .. h - 1, NEW p \in Parts
        PROVE  resp'[p][j % world.rsize] = <<d.epoch, j>>
    <3>1. resp[p][j % world.rsize] = <<d.epoch, j>>
      BY Zenon DEF Enabled, RespInv
    <3>2. j % world.rsize \in Slots /\ j % world.rsize # h % world.rsize
      BY <2>2, <2>3
    <3> QED BY <2>w, <3>1, <3>2, Zenon
  <2> QED BY <1>1, <1>2, <2>4, <2>5, Zenon DEF RespInv, Carried
<1> QED BY <1>4, <1>5, <1>6, <1>7, <1>8, <1>9, Zenon DEF Enabled

(* Nothing the machine did since makes the device turn the completion down. *)
LEMMA CompletionTaken ==
  ASSUME RegType(d), HostType, EpochInv, d.on, NEW c \in Nat, NEW t \in Nat,
         NEW h \in 0 .. posted, Enabled(c, t, h), pc = "complete"
  PROVE  /\ (i + 1) % world.mod = (h + 1) % world.mod
         /\ ok(s.epoch, (h + 1) % world.mod)
<1> DEFINE x == (h + 1) % world.mod
<1>1. /\ i = h % world.mod /\ h < posted /\ (kind = "file" => h - t < world.rsize)
      /\ CountInv(c, t, h) /\ in_epoch(s.epoch)
  <2>1. pc \in Under /\ pc \in Carrying /\ pc # "attach"
    BY Zenon DEF Under, Based, Carrying
  <2>2. s.epoch = d.epoch
    BY <2>1, Zenon DEF EpochInv
  <2> QED BY <2>1, <2>2, Zenon DEF Enabled, ServeInv, in_epoch
<1>2. /\ posted \in Nat /\ h \in Int /\ h + 1 \in Int /\ t \in Int
      /\ world.mod \in Nat \ {0} /\ 1 < world.mod /\ world.rsize \in Nat
      /\ world.rsize < world.mod
  BY Sizes DEF HostType
<1>3. (i + 1) % world.mod = x
  BY <1>1, <1>2, Successor, Zenon
<1>4. Minus(x, chost) = 1
  <2>1. (h + 1) - h = 1 /\ (h + 1) - h \in 0 .. world.mod - 1
    BY <1>2
  <2> QED BY <1>1, <1>2, <2>1, Distance, Zenon DEF Minus, CountInv
<1>5. Minus(x, chost) <= Minus(d.prod, chost)
  BY <1>1, <1>2, <1>4, Distances
<1>6. x # chost
  <2>1. Minus(chost, chost) = 0
    <3>1. h - h = 0 /\ h - h \in 0 .. world.mod - 1
      BY <1>2
    <3> QED BY <1>1, <1>2, <3>1, Distance, Zenon DEF Minus, CountInv
  <2> QED BY <1>4, <2>1
<1>7. kind = "file" => Minus(x, d.taken) <= world.rsize
  <2> SUFFICES ASSUME kind = "file" PROVE Minus(x, d.taken) <= world.rsize
    BY Zenon
  <2>1. (h + 1) - t <= world.rsize /\ (h + 1) - t \in 0 .. world.mod - 1
    BY <1>1, <1>2 DEF CountInv
  <2> QED BY <1>1, <1>2, <2>1, Distance DEF Minus, CountInv
<1> QED BY <1>1, <1>3, <1>5, <1>6, <1>7, Zenon DEF ok

LEMMA CompleteStep ==
  ASSUME RegType(d), HostType, EpochInv, d.on, NEW c \in Nat, NEW t \in Nat,
         NEW h \in 0 .. posted, NEW e \in Nat, Enabled(c, t, h), Shown(e, c, h), Complete
  PROVE  Enabled(e, t, h + 1)' /\ h + 1 <= posted
<1> DEFINE x == (h + 1) % world.mod
<1>1. /\ pc = "complete" /\ cache' = cache_w
      /\ UNCHANGED <<world, cmd, posted, resp, did, opens, g, s, n, b, command>>
      /\ pc' = IF kind = "file" THEN "verify"
               ELSE IF kind = "transmit" /\ (i + 1) % world.mod # n /\ left > 1 THEN "entry"
               ELSE "release"
      /\ kind = "transmit" => i' = (i + 1) % world.mod
  BY Zenon DEF Complete, Access
<1>2. (i + 1) % world.mod = x /\ ok(s.epoch, x)
  BY <1>1, CompletionTaken, Zenon
<1>3. /\ d'.pub = x /\ d'.on /\ d'.epoch = d.epoch /\ d'.es = d.es
      /\ d'.prod = d.prod /\ d'.taken = d.taken /\ d'.cons = Landed.cons
      /\ d'.target = Landed.target /\ d'.hopen = Landed.hopen /\ d'.hnext = d.hnext
  BY <1>2, CompleteRegs, Zenon
<1>4. /\ posted \in Nat /\ h \in Nat /\ h + 1 \in Int /\ world.mod \in Nat \ {0}
      /\ kind' = kind /\ kind \in Kinds /\ h + 1 - 1 = h /\ world.rsize \in Nat
      /\ world.csize \in Nat
  <2>1. kind' = kind
    BY <1>1, Zenon DEF kind
  <2>2. posted \in Nat /\ h \in Nat
    BY Bounds DEF HostType
  <2> QED BY <2>1, <2>2, Sizes
<1>5. x # None
  <2>1. x \in 0 .. world.mod - 1
    BY <1>4, Quotient, Zenon
  <2> QED BY <1>4, <2>1 DEF None
<1>6. /\ CountInv(c, t, h) /\ h < posted /\ (kind = "file" => h - t < world.rsize)
  BY <1>1, Zenon DEF Enabled, ServeInv, Carrying
<1>7. Landed.cons = e % world.mod /\ c <= e /\ e <= h
  BY <1>4, <1>6, CountLanded, Zenon
<1>8. CountInv(e, t, h + 1)'
  <2>1. chost' = (h + 1) % world.mod
    BY <1>3, <1>5, Zenon DEF chost, land
  <2>2. kind # "receive" => e = h
    BY Zenon DEF Shown
  <2>3. /\ t <= c /\ d.prod = posted % world.mod /\ d.taken = t % world.mod
        /\ kind = "receive" => posted - t <= world.csize
        /\ kind # "receive" => posted - c <= world.csize
    BY <1>6, Zenon DEF CountInv
  <2>4. /\ t <= e /\ e <= h + 1 /\ h + 1 <= posted
        /\ kind # "receive" => posted - e <= world.csize /\ e = h + 1 - 1
        /\ kind = "file" => h + 1 - t <= world.rsize
    BY <1>4, <1>6, <1>7, <2>2, <2>3
  <2>5. /\ posted' = posted /\ world' = world /\ d'.pub # None
        /\ d'.prod = posted % world.mod /\ d'.cons = e % world.mod
        /\ d'.taken = t % world.mod
    BY <1>1, <1>3, <1>5, <1>7, <2>3, Zenon
  <2> QED BY <1>4, <2>1, <2>3, <2>4, <2>5, SMTT(30) DEF CountInv
<1>9. ServeInv(t, h + 1)'
  <2>1. CASE pc' # "entry"
    BY <1>1, <1>4, <2>1, Zenon DEF ServeInv, Carrying
  <2>2. CASE pc' = "entry"
    <3>1. kind = "transmit" /\ i' = x /\ x # n
      BY <1>1, <1>2, <2>2, Zenon
    <3>2. PICK m \in h + 1 .. posted : n = m % world.mod
      BY <1>1, <3>1, Zenon DEF Enabled, ServeInv, Carrying
    <3>3. m \in h + 1 + 1 .. posted /\ h + 1 < posted
      BY <1>4, <3>1, <3>2
    <3> QED BY <1>1, <1>4, <2>2, <3>1, <3>2, <3>3, Zenon DEF ServeInv, Carrying
  <2> QED BY <2>1, <2>2, Zenon
<1>10. CmdInv(e, t, h + 1)'
  <2>1. CmdInv(c, t, h)
    BY Zenon DEF Enabled
  <2>2. pc' \notin Carrying \ {"entry"}
    BY <1>1, Zenon DEF Carrying
  <2>3. \A j \in (IF kind = "receive" THEN t ELSE e) .. posted - 1 :
            j \in (IF kind = "receive" THEN t ELSE c) .. posted - 1
    BY <1>4, <1>7
  <2>4. UNCHANGED <<kind, posted, world, cmd>> /\ d'.epoch = d.epoch
    BY <1>1, <1>3, <1>4, Zenon
  <2> QED BY <2>1, <2>2, <2>3, <2>4, Zenon DEF CmdInv
<1>11. DidInv(h + 1)'
  BY <1>1, <1>3, <1>4, Zenon DEF Enabled, DidInv, Carried
<1>12. HandleInv(e, h + 1)'
  <2>1. d'.hopen = IF e = 0 THEN 0 ELSE opens'[e - 1]
    BY <1>1, <1>3, HandleQuiet, Zenon DEF Enabled
  <2>2. kind = "file" => d'.hnext = opens'[h + 1 - 1]
    BY <1>1, <1>3, <1>4, Zenon DEF Enabled, HandleInv
  <2>3. pc' \notin Carried
    BY <1>1, Zenon DEF Carried
  <2>4. UNCHANGED <<kind, opens, g>> /\ d'.hnext = d.hnext /\ pc' # "complete"
    BY <1>1, <1>3, <1>4, Zenon
  <2>5. kind # "file" => /\ g.open = 0 /\ d.hnext = 0
                         /\ \A j \in 0 .. CmdBound : opens[j] = 0
    BY Zenon DEF Enabled, HandleInv
  <2> QED BY <2>1, <2>2, <2>3, <2>4, <2>5 DEF HandleInv
<1>13. RespInv(t, h + 1)'
  <2>1. kind' = kind /\ world' = world /\ resp' = resp /\ d'.epoch = d.epoch
    BY <1>1, <1>3, <1>4, Zenon
  <2>2. pc' \notin Carried
    BY <1>1, Zenon DEF Carried
  <2>3. ASSUME kind # "transmit", NEW j \in t .. (h + 1) - 1, NEW p \in Parts
        PROVE  resp[p][j % world.rsize] = <<d.epoch, j>>
    <3>1. CASE j = h
      BY <1>1, <2>3, <3>1, Zenon DEF Enabled, RespInv, Carried, Parts
    <3>2. CASE j \in t .. h - 1
      BY <2>3, <3>2, Zenon DEF Enabled, RespInv
    <3>3. h \in Nat
      BY <1>4, Zenon
    <3>4. j = h \/ j \in t .. h - 1
      BY <3>3
    <3> QED BY <3>1, <3>2, <3>4, Zenon
  <2>4. kind' # "transmit" =>
          \A j \in t .. (h + 1) - 1, p \in Parts : resp'[p][j % world'.rsize] = <<d'.epoch, j>>
    BY <2>1, <2>3, Zenon
  <2>5. pc' \notin Carried \ {"put"}
    BY <2>2, Zenon
  <2> QED BY <2>2, <2>4, <2>5, Zenon DEF RespInv
<1>14. CacheInv(e, t, h + 1)'
  <2>1. CacheInv(e, t, h)'
    BY <1>1, <1>3, <1>4, CacheQuiet, Zenon DEF Enabled
  <2>2. h \in Nat
    BY <1>4, Zenon
  <2>3. e < h => e < h + 1
    BY <2>2
  <2> QED BY <2>1, <2>3, Zenon DEF CacheInv
<1> QED BY <1>4, <1>6, <1>8, <1>9, <1>10, <1>11, <1>12, <1>13, <1>14 DEF Enabled

LEMMA KillStep ==
  ASSUME HostType, NEW c \in Nat, NEW t \in Nat,
         NEW h \in 0 .. posted, Enabled(c, t, h), Kill
  PROVE  Enabled(c, t, h)'
<1>1. /\ UNCHANGED <<world, d, cmd, resp, cache, posted, opens>>
      /\ pc' = "attach" /\ "kill" \in world.events /\ g'.open = 0
  BY ZenonT(40) DEF Kill, memory, history
<1>2. kind' = kind /\ chost' = chost
  BY <1>1, Zenon DEF kind, chost, land
<1>3. CountInv(c, t, h)' /\ CmdInv(c, t, h)'
  BY <1>1, <1>2, Zenon DEF Enabled, CountInv, CmdInv, Carrying
<1>4. ServeInv(t, h)' /\ DidInv(h)'
  BY <1>1, <1>2, Zenon DEF ServeInv, DidInv, Carrying
<1>5. HandleInv(c, h)' /\ RespInv(t, h)' /\ CacheInv(c, t, h)'
  BY <1>1, <1>2, Zenon DEF Enabled, HandleInv, RespInv, CacheInv, Carried
<1> QED BY <1>3, <1>4, <1>5, Zenon DEF Enabled

-----------------------------------------------------------------------------
(* The machine's steps, and the fabric's.                                  *)

LEMMA LandStep ==
  ASSUME RegType(d), HostType, d.on, NEW c \in Nat, NEW t \in Nat,
         NEW h \in 0 .. posted, NEW e \in Nat, Enabled(c, t, h), Shown(e, c, h), Land
  PROVE  Enabled(e, t, h)'
<1>1. /\ Quiet(d') /\ d'.hnext = d.hnext /\ cache' = cache_w /\ d'.epoch = d.epoch
      /\ UNCHANGED <<world, cmd, posted, resp, did, opens, pc, i, n, s, g, command>>
  BY LandedQuiet, ZenonT(60) DEF Land, history, program, local, Quiet
<1>2. ServeInv(t, h)'
  <2>1. posted' \in Nat /\ posted <= posted' /\ t <= t
    BY <1>1 DEF HostType
  <2> QED BY <1>1, <2>1, ServeStands, Zenon DEF Enabled
<1>3. /\ pc' \in Carrying \ {"entry"} => command' = <<d.epoch, h>>
      /\ kind = "file" /\ pc' \in Carried => g'.open = opens[h]
      /\ kind = "file" /\ pc' = "complete" => d'.hnext = opens[h]
      /\ kind # "file" => g'.open = 0 /\ d'.hnext = 0
  BY <1>1, Zenon DEF Enabled, CmdInv, HandleInv
<1> QED BY <1>1, <1>2, <1>3, PlainStep, Zenon

(* What the machine's cache takes in is what the program wrote. *)
LEMMA LoadStep ==
  ASSUME RegType(d), HostType, d.on, NEW c \in Nat, NEW t \in Nat,
         NEW h \in 0 .. posted, Enabled(c, t, h), Load
  PROVE  Enabled(c, t, h)'
<1>1. UNCHANGED <<world, d, cmd, resp, posted, did, opens, pc, i, n, s, g, command>>
  BY Zenon DEF Load, history, program, local
<1>2. kind' = kind /\ chost' = chost
  BY <1>1, Zenon DEF kind, chost, land
<1>3. CountInv(c, t, h)' /\ CmdInv(c, t, h)' /\ ServeInv(t, h)'
  BY <1>1, <1>2, Zenon DEF Enabled, CountInv, CmdInv, ServeInv
<1>4. HandleInv(c, h)' /\ RespInv(t, h)' /\ DidInv(h)'
  BY <1>1, <1>2, Zenon DEF Enabled, HandleInv, RespInv, DidInv
<1>5. CacheInv(c, t, h)'
  <2>1. PICK q \in Parts, k \in 0 .. world.rsize - 1 : cache' = [cache EXCEPT ![q][k] = resp[q][k]]
    BY ZenonT(60) DEF Load
  <2>2. \A p \in Parts, l \in Slots : cache'[p][l] \in {cache[p][l], resp[p][l]}
    BY <2>1, Zenon DEF HostType
  <2>3. c <= h /\ h \in Nat
    BY DEF Enabled, CountInv, HostType
  <2>4. ASSUME kind # "transmit", NEW j \in t .. h - 1, NEW p \in Parts
        PROVE  /\ j % world.rsize \in Slots
               /\ resp[p][j % world.rsize] = <<d.epoch, j>>
    BY <2>4, SlotFacts DEF Enabled, RespInv
  <2> SUFFICES ASSUME kind # "transmit" PROVE CacheInv(c, t, h)'
    BY <1>2, Zenon DEF CacheInv
  <2>5. ASSUME NEW j \in t .. c - 1, NEW p \in Parts
        PROVE  cache'[p][j % world.rsize] \in {<<d.epoch, j>>, Out}
    <3>1. j \in t .. h - 1
      BY <2>3
    <3>2. cache[p][j % world.rsize] \in {<<d.epoch, j>>, Out}
      BY Zenon DEF Enabled, CacheInv
    <3> QED BY <2>2, <2>4, <3>1, <3>2, ZenonT(60)
  <2>6. ASSUME d.es = "entry"
        PROVE  cache'["buffer"][c % world.rsize] \in {<<d.epoch, c>>, Out}
    <3>1. c \in t .. h - 1
      BY <2>3, <2>6 DEF Enabled, CacheInv, CountInv
    <3>2. cache["buffer"][c % world.rsize] \in {<<d.epoch, c>>, Out}
      BY <2>6, Zenon DEF Enabled, CacheInv
    <3>3. "buffer" \in Parts
      BY Zenon DEF Parts
    <3> QED BY <2>2, <2>4, <3>1, <3>2, <3>3, ZenonT(60)
  <2> QED BY <1>1, <1>2, <2>5, <2>6, Zenon DEF Enabled, CacheInv
<1> QED BY <1>3, <1>4, <1>5, Zenon DEF Enabled

(* The producer's own test, on indexes, that the ring has room for one more. *)
LEMMA RoomForOne ==
  ASSUME NEW m \in Nat \ {0}, NEW z \in 1 .. m - 1, NEW a \in Int, NEW c \in Int,
         a - c \in 0 .. z,
         ((a % m) + 1 - (c % m)) % m <= z,
         ((a % m) + 1 - (c % m)) % m >= ((a % m) - (c % m)) % m
  PROVE  a + 1 - c <= z
<1> DEFINE q == a \div m
           p == c \div m
           x == a % m
           y == c % m
<1>1. /\ q \in Int /\ p \in Int /\ x \in 0 .. m - 1 /\ y \in 0 .. m - 1
      /\ a = q * m + x /\ c = p * m + y
  BY Quotient, Zenon
<1>2. (x - y) % m = a - c
  <2>1. a - c \in 0 .. m - 1
    OBVIOUS
  <2> QED BY <2>1, Distance, ZenonT(60)
<1> HIDE DEF q, p, x, y
<1>3. (p - q) * m = p * m - q * m /\ (1 * (p - q) + 1) * m = 1 * ((p - q) * m) + 1 * m
  BY <1>1, Distributes
<1> DEFINE r == (p - q) * m
<1>4. r \in Int /\ x + 1 - y = r + (a + 1 - c)
  BY <1>1, <1>3
<1> SUFFICES ASSUME a - c = z PROVE FALSE
  OBVIOUS
<1>5. CASE z + 1 < m
  <2>1. (r + (z + 1)) % m = z + 1
    BY <1>1, <1>5, Remainder
  <2>2. x + 1 - y = r + (z + 1)
    BY <1>1, <1>4
  <2>3. (x + 1 - y) % m <= z
    BY Zenon DEF x, y
  <2> QED BY <2>1, <2>2, <2>3
<1>6. CASE z + 1 = m
  <2>1. ((p - q + 1) * m + 0) % m = 0
    BY <1>1, Remainder
  <2>2. x + 1 - y = (p - q + 1) * m + 0
    <3>1. (p - q + 1) * m = r + m
      BY <1>1, <1>3
    <3> HIDE DEF r
    <3> QED BY <1>1, <1>4, <1>6, <3>1
  <2>3. (x + 1 - y) % m >= (x - y) % m
    BY Zenon DEF x, y
  <2> QED BY <1>2, <2>1, <2>2, <2>3
<1> QED BY <1>5, <1>6

LEMMA PostStep ==
  ASSUME RegType(d), HostType, d.on, NEW c \in Nat, NEW t \in Nat,
         NEW h \in 0 .. posted, NEW e \in Nat, Enabled(c, t, h), Shown(e, c, h), Post
  PROVE  Enabled(e, t, h)' /\ posted' = posted + 1
<1> DEFINE from == IF kind = "receive" THEN t ELSE e
<1>1. /\ UNCHANGED <<world, resp, did, opens, pc, i, n, s, g, command>>
      /\ posted' = posted + 1 /\ cache' = cache_w
      /\ cmd' = [cmd EXCEPT ![d.prod % world.csize] = <<d.epoch, posted>>]
  BY Zenon DEF Post, program, local
<1>2. /\ d'.on /\ d'.epoch = d.epoch /\ d'.es = d.es /\ d'.taken = d.taken /\ d'.pub = None
      /\ d'.cons = Landed.cons /\ d'.target = Landed.target
      /\ d'.hopen = Landed.hopen /\ d'.hnext = d.hnext
      /\ d'.prod = (d.prod + 1) % world.mod
  BY PostRegs, Zenon
<1>3. /\ posted \in Nat /\ posted \in Int /\ h \in Nat /\ world.mod \in Nat \ {0} /\ kind' = kind
      /\ world.csize \in Nat \ {0} /\ world.csize \in 1 .. world.mod - 1 /\ CountInv(c, t, h)
      /\ from \in Int /\ from \in Nat
  <2>1. kind' = kind /\ CountInv(c, t, h)
    BY <1>1, Zenon DEF kind, Enabled
  <2>2. posted \in Nat /\ posted \in Int /\ h \in Nat /\ t \in Int /\ e \in Int
    BY DEF HostType
  <2>3. world.csize \in 1 .. world.mod - 1
    BY Sizes
  <2> QED BY <2>1, <2>2, <2>3, Sizes, Zenon
<1>4. /\ Landed.cons = e % world.mod
      /\ kind = "receive" => Landed.target = h % world.mod
      /\ c <= e /\ e <= h /\ Landed.prod = posted % world.mod /\ Landed.taken = t % world.mod
  <2>1. Landed.prod = posted % world.mod /\ Landed.taken = t % world.mod
    BY <1>3, LandedQuiet, Zenon DEF CountInv, Quiet
  <2> QED BY <1>3, <2>1, CountLanded, Zenon
<1>5. posted + 1 - from <= world.csize
  <2>1. posted - from \in 0 .. world.csize
    BY <1>3, <1>4 DEF CountInv, Shown
  <2>2. /\ ((posted % world.mod) + 1 - (from % world.mod)) % world.mod <= world.csize
        /\ ((posted % world.mod) + 1 - (from % world.mod)) % world.mod
              >= ((posted % world.mod) - (from % world.mod)) % world.mod
    <3> DEFINE f == IF kind = "receive" THEN Landed.taken ELSE Landed.cons
    <3>1. /\ Minus(Landed.prod + 1, f) <= world.csize
          /\ Minus(Landed.prod + 1, f) >= Minus(Landed.prod, f)
      BY Zenon DEF Post
    <3>2. f = from % world.mod
      BY <1>4, Zenon
    <3> HIDE DEF f, from
    <3> QED BY <1>3, <1>4, <3>1, <3>2 DEF Minus
  <2> QED BY <1>3, <2>1, <2>2, RoomForOne, Zenon
<1>6. d'.prod = (posted + 1) % world.mod
  <2>1. d.prod = posted % world.mod
    BY <1>3, Zenon DEF CountInv
  <2>2. ((posted % world.mod) + 1) % world.mod = (posted + 1) % world.mod
    BY <1>3, Successor, Zenon
  <2> QED BY <1>2, <2>1, <2>2, Zenon
<1>7. CountInv(e, t, h)'
  <2>1. chost' = h % world.mod
    BY <1>2, <1>3, <1>4, Zenon DEF chost, land, Shown
  <2> QED BY <1>1, <1>2, <1>3, <1>4, <1>5, <1>6, <2>1 DEF CountInv, Shown
<1>8. ServeInv(t, h)'
  <2>1. posted' \in Nat /\ posted <= posted' /\ t <= t
    BY <1>1, <1>3
  <2> QED BY <1>1, <1>2, <2>1, ServeStands, Zenon DEF Enabled
<1>9. CmdInv(e, t, h)'
  <2> DEFINE k == posted % world.csize
  <2>1. cmd' = [cmd EXCEPT ![k] = <<d.epoch, posted>>]
    BY <1>1, <1>3, SlotFacts, ZenonT(60) DEF CountInv
  <2>2. \A j \in Nat : j % world.csize \in Slots
    BY SlotFacts, Zenon
  <2>3. cmd'[k] = <<d.epoch, posted>>
    BY <1>3, <2>1, <2>2, Zenon DEF HostType
  <2>4. ASSUME NEW j \in from .. posted - 1
        PROVE  cmd'[j % world.csize] = <<d.epoch, j>>
    <3>1. j \in Int /\ j \in Nat /\ posted - j \in 0 .. world.csize - 1 /\ j # posted
      BY <1>3, <1>5
    <3>2. j % world.csize # k
      BY <1>3, <3>1, OwnSlot, Zenon
    <3>3. cmd[j % world.csize] = <<d.epoch, j>>
      <4>1. j \in (IF kind = "receive" THEN t ELSE c) .. posted - 1
        BY <1>3, <1>4
      <4> QED BY <4>1, Zenon DEF Enabled, CmdInv
    <3> QED BY <2>1, <2>2, <3>1, <3>2, <3>3, Zenon DEF HostType
  <2>5. ASSUME NEW j \in from .. posted + 1 - 1
        PROVE  cmd'[j % world.csize] = <<d.epoch, j>>
    <3>1. j \in from .. posted - 1 \/ j = posted
      BY <1>3
    <3> QED BY <2>3, <2>4, <3>1, Zenon
  <2>6. pc' \in Carrying \ {"entry"} => command' = <<d.epoch, h>>
    BY <1>1, Zenon DEF Enabled, CmdInv
  <2>7. /\ world' = world /\ d'.epoch = d.epoch /\ posted' - 1 = posted + 1 - 1
        /\ (IF kind' = "receive" THEN t ELSE e) = from
    <3>1. kind' = kind
      BY <1>3, Zenon
    <3>2. posted' = posted + 1
      BY <1>1, Zenon
    <3>3. (IF kind' = "receive" THEN t ELSE e) = from
      BY <3>1
    <3>4. posted' - 1 = posted + 1 - 1
      BY <1>3, <3>2
    <3> QED BY <1>1, <1>2, <3>3, <3>4, Zenon
  <2>8. \A j \in (IF kind' = "receive" THEN t ELSE e) .. posted' - 1 :
            cmd'[j % world'.csize] = <<d'.epoch, j>>
    BY <2>5, <2>7, Zenon
  <2> QED BY <1>2, <2>6, <2>8, Zenon DEF CmdInv
<1>10. DidInv(h)' /\ RespInv(t, h)'
  BY <1>1, <1>2, <1>3, Zenon DEF Enabled, DidInv, RespInv
<1>11. HandleInv(e, h)'
  <2>1. d'.hopen = IF e = 0 THEN 0 ELSE opens'[e - 1]
    BY <1>1, <1>2, HandleQuiet, Zenon DEF Enabled
  <2> QED BY <1>1, <1>2, <1>3, <2>1, Zenon DEF Enabled, HandleInv
<1>12. CacheInv(e, t, h)'
  BY <1>1, <1>2, <1>3, CacheQuiet, Zenon DEF Enabled
<1> QED BY <1>1, <1>7, <1>8, <1>9, <1>10, <1>11, <1>12, Zenon DEF Enabled

LEMMA TakeStep ==
  ASSUME RegType(d), HostType, d.on, NEW c \in Nat, NEW t \in Nat,
         NEW h \in 0 .. posted, NEW e \in Nat, Enabled(c, t, h), Shown(e, c, h), Take
  PROVE  Enabled(e, t + 1, h)' /\ t + 1 <= posted
<1>1. /\ UNCHANGED <<world, cmd, resp, posted, did, opens, pc, i, n, s, g, command>>
      /\ cache' = cache_w /\ kind # "transmit" /\ Landed.taken # Landed.cons
  BY Zenon DEF Take, program, local, history
<1>2. /\ d'.on /\ d'.epoch = d.epoch /\ d'.es = d.es /\ d'.prod = d.prod /\ d'.pub = None
      /\ d'.cons = Landed.cons /\ d'.target = Landed.target
      /\ d'.hopen = Landed.hopen /\ d'.hnext = d.hnext
      /\ d'.taken = (d.taken + 1) % world.mod
  BY TakeRegs, ZenonT(60)
<1>3. /\ posted \in Nat /\ h \in Nat /\ t \in Int /\ world.mod \in Nat \ {0} /\ kind' = kind
      /\ world.csize \in Nat /\ world.rsize \in Nat /\ CountInv(c, t, h)
  <2>1. kind' = kind /\ CountInv(c, t, h)
    BY <1>1, Zenon DEF kind, Enabled
  <2>2. posted \in Nat /\ h \in Nat /\ t \in Int
    BY DEF HostType
  <2> QED BY <2>1, <2>2, Sizes, Zenon
<1>4. /\ Landed.cons = e % world.mod
      /\ kind = "receive" => Landed.target = h % world.mod
      /\ c <= e /\ e <= h /\ Landed.taken = t % world.mod
  <2>1. Landed.taken = t % world.mod
    BY <1>3, LandedQuiet, Zenon DEF CountInv, Quiet
  <2> QED BY <1>3, <2>1, CountLanded, Zenon
<1>5. t + 1 <= e /\ e <= posted
  <2>1. t <= e /\ t # e
    BY <1>1, <1>3, <1>4 DEF CountInv
  <2> QED BY <1>3, <1>4, <2>1
<1>6. CountInv(e, t + 1, h)'
  <2>1. chost' = h % world.mod
    BY <1>2, <1>3, <1>4, Zenon DEF chost, land, Shown
  <2>2. d'.taken = (t + 1) % world.mod
    BY <1>2, <1>3, Successor, Zenon DEF CountInv
  <2>3. kind # "receive" => posted - e <= world.csize /\ e = h
    BY <1>3, <1>4 DEF CountInv, Shown
  <2> QED BY <1>1, <1>2, <1>3, <1>4, <1>5, <2>1, <2>2, <2>3 DEF CountInv
<1>7. ServeInv(t + 1, h)'
  <2>1. posted' \in Nat /\ posted <= posted' /\ t <= t + 1
    BY <1>1, <1>3
  <2> QED BY <1>1, <1>2, <2>1, ServeStands DEF Enabled
<1>8. CmdInv(e, t + 1, h)'
  <2>1. \A j \in (IF kind = "receive" THEN t + 1 ELSE e) .. posted - 1 :
            j \in (IF kind = "receive" THEN t ELSE c) .. posted - 1
    BY <1>3, <1>4
  <2>2. CmdInv(c, t, h)
    BY Zenon DEF Enabled
  <2> QED BY <1>1, <1>2, <1>3, <2>1, <2>2, Zenon DEF CmdInv
<1>9. DidInv(h)' /\ RespInv(t + 1, h)'
  <2>1. DidInv(h) /\ RespInv(t, h)
    BY Zenon DEF Enabled
  <2>2. DidInv(h)'
    BY <1>1, <1>2, <2>1, Zenon DEF DidInv
  <2>3. \A j \in t + 1 .. h - 1 : j \in t .. h - 1
    BY <1>3
  <2>4. RespInv(t + 1, h)'
    BY <1>1, <1>2, <1>3, <2>1, <2>3, Zenon DEF RespInv
  <2> QED BY <2>2, <2>4, Zenon
<1>10. HandleInv(e, h)'
  <2>1. d'.hopen = IF e = 0 THEN 0 ELSE opens'[e - 1]
    BY <1>1, <1>2, HandleQuiet, Zenon DEF Enabled
  <2> QED BY <1>1, <1>2, <1>3, <2>1, Zenon DEF Enabled, HandleInv
<1>11. CacheInv(e, t + 1, h)'
  <2>1. CacheInv(e, t, h)'
    BY <1>1, <1>2, <1>3, CacheQuiet, Zenon DEF Enabled
  <2> QED BY <2>1 DEF CacheInv
<1> QED BY <1>4, <1>5, <1>3, <1>6, <1>7, <1>8, <1>9, <1>10, <1>11 DEF Enabled

(* The engine shows one frame more when its lines are gone from the cache. *)
LEMMA EngineStep ==
  ASSUME RegType(d), HostType, d.on, NEW c \in Nat, NEW t \in Nat,
         NEW h \in 0 .. posted, NEW e \in Nat, Enabled(c, t, h),
         e = (IF d.es = "entry" THEN c + 1 ELSE c), Engine
  PROVE  Enabled(e, t, h)' /\ e <= posted
<1>1. /\ UNCHANGED <<world, cmd, resp, posted, did, opens, pc, i, n, s, g, command>>
      /\ kind = "receive"
  BY Zenon DEF Engine, program, local, history
<1>2. /\ d'.on /\ d'.epoch = d.epoch /\ d'.prod = d.prod /\ d'.pub = None
      /\ d'.taken = d.taken /\ d'.target = Landed.target
      /\ d'.hopen = Landed.hopen /\ d'.hnext = d.hnext
      /\ \/ d.es = "idle" /\ d'.es = "read" /\ d'.cons = Landed.cons
            /\ Landed.cons # Landed.target
         \/ d.es = "read" /\ d'.es = "clear" /\ d'.cons = Landed.cons
         \/ d.es = "clear" /\ d'.es = "entry" /\ d'.cons = Landed.cons
         \/ d.es = "entry" /\ d'.es = "idle" /\ d'.cons = (Landed.cons + 1) % world.mod
  BY EngineRegs, ZenonT(60)
<1>3. /\ posted \in Nat /\ h \in Nat /\ c \in Int /\ world.mod \in Nat \ {0} /\ kind' = kind
      /\ world.csize \in Nat /\ world.rsize \in Nat /\ CountInv(c, t, h) /\ Shown(c, c, h)
  BY <1>1, Sizes DEF HostType, kind, Enabled, Shown
<1>4. Landed.cons = c % world.mod /\ Landed.target = h % world.mod
  BY <1>1, <1>3, CountLanded, Zenon
<1>5. /\ c < h /\ c <= e /\ e <= h /\ e <= posted
      /\ (d'.es # "idle" => e < h) /\ d'.cons = e % world.mod
  <2>1. c < h
    <3>1. CASE d.es = "idle"
      <4>1. c % world.mod # h % world.mod
        BY <1>2, <1>4, <3>1, Zenon
      <4>2. c <= h
        BY <1>3, Zenon DEF CountInv
      <4>3. c # h
        BY <4>1, Zenon
      <4> QED BY <1>3, <4>2, <4>3
    <3>2. CASE d.es # "idle"
      <4>1. kind # "transmit"
        BY <1>1, Zenon
      <4> QED BY <3>2, <4>1, Zenon DEF Enabled, CacheInv
    <3> QED BY <3>1, <3>2, Zenon
  <2>2. (Landed.cons + 1) % world.mod = (c + 1) % world.mod
    BY <1>3, <1>4, Successor, Zenon
  <2>3. d'.cons = e % world.mod
    BY <1>2, <1>4, <2>2, Zenon
  <2>4. d.es = "entry" => d'.es = "idle"
    BY <1>2, Zenon
  <2>5. /\ c <= e /\ e <= h /\ h <= posted /\ e <= posted
        /\ d.es # "entry" => e < h
    BY <1>3, <2>1
  <2> QED BY <2>1, <2>3, <2>4, <2>5, Zenon
<1>6. CountInv(e, t, h)'
  <2>1. chost' = h % world.mod
    <3>1. d'.pub = None /\ kind' = "receive" /\ d'.target = h % world.mod
      BY <1>1, <1>2, <1>3, <1>4, Zenon
    <3> QED BY <3>1, Zenon DEF chost, land
  <2>2. /\ t <= c /\ h <= posted /\ d.prod = posted % world.mod /\ d.taken = t % world.mod
        /\ posted - t <= world.csize
    BY <1>1, <1>3, Zenon DEF CountInv
  <2>3. /\ UNCHANGED <<world, posted>> /\ kind' = "receive"
        /\ d'.prod = d.prod /\ d'.taken = d.taken /\ d'.cons = e % world.mod
    BY <1>1, <1>2, <1>3, <1>5, Zenon
  <2>4. t <= e /\ e <= h
    BY <1>3, <1>5, <2>2
  <2>5. kind' # "file"
    BY <2>3, Zenon
  <2> QED BY <2>1, <2>2, <2>3, <2>4, <2>5, Zenon DEF CountInv
<1>7. ServeInv(t, h)'
  <2>1. posted' \in Nat /\ posted <= posted' /\ t <= t
    BY <1>1, <1>3
  <2> QED BY <1>1, <1>2, <2>1, ServeStands, Zenon DEF Enabled
<1>8. CmdInv(e, t, h)' /\ DidInv(h)' /\ RespInv(t, h)'
  <2>1. CmdInv(c, t, h) /\ DidInv(h) /\ RespInv(t, h)
    BY Zenon DEF Enabled
  <2>2. CmdInv(e, t, h)'
    BY <1>1, <1>2, <1>3, <2>1, Zenon DEF CmdInv
  <2>3. DidInv(h)'
    BY <1>1, <1>2, <1>3, <2>1, Zenon DEF DidInv
  <2>4. RespInv(t, h)'
    BY <1>1, <1>2, <1>3, <2>1, Zenon DEF RespInv
  <2> QED BY <2>2, <2>3, <2>4, Zenon
<1>9. HandleInv(e, h)'
  <2>1. d'.hopen = IF c = 0 THEN 0 ELSE opens'[c - 1]
    <3>1. HandleInv(c, h) /\ \A j \in 0 .. h - 1 : opens'[j] = opens[j]
      BY <1>1, Zenon DEF Enabled
    <3>2. Landed.hopen = IF c = 0 THEN 0 ELSE opens'[c - 1]
      BY <1>3, <3>1, HandleQuiet, Zenon
    <3> QED BY <1>2, <3>2, Zenon
  <2>2. \A j \in 0 .. CmdBound : opens'[j] = 0
    BY <1>1, Zenon DEF Enabled, HandleInv
  <2>3. posted <= CmdBound /\ CmdBound \in Nat
    BY Bounds DEF HostType
  <2>4. d'.hopen = 0 /\ (e # 0 => opens'[e - 1] = 0)
    BY <1>3, <1>5, <2>1, <2>2, <2>3
  <2> QED BY <1>1, <1>2, <1>3, <2>4, Zenon DEF Enabled, HandleInv
<1>10. CacheInv(e, t, h)'
  <2> DEFINE k == c % world.rsize
  <2>1. Landed.cons % world.rsize = k /\ \A j \in Nat : j % world.rsize \in Slots
    BY <1>4, SlotFacts, Zenon
  <2>2. /\ cache' \in {cache, [cache EXCEPT !["buffer"][k] = Out], [cache EXCEPT !["entry"][k] = Out]}
        /\ d.es = "clear" => cache' = [cache EXCEPT !["buffer"][k] = Out]
        /\ d.es = "entry" => cache' = [cache EXCEPT !["entry"][k] = Out]
    <3>1. Landed.es = d.es
      BY LandedQuiet, Zenon DEF Quiet
    <3> QED BY <2>1, <3>1, Zenon DEF Engine
  <2>3. \A p \in Parts, l \in Slots : cache'[p][l] \in {cache[p][l], Out}
    BY <2>2 DEF HostType, Parts
  <2>4. ASSUME NEW j \in t .. c - 1, NEW p \in Parts
        PROVE  cache'[p][j % world.rsize] \in {<<d.epoch, j>>, Out}
    <3>1. cache[p][j % world.rsize] \in {<<d.epoch, j>>, Out} /\ j \in Nat
      <4>1. kind # "transmit" /\ CacheInv(c, t, h)
        BY <1>1, Zenon DEF Enabled
      <4>2. j \in Nat
        BY <1>3
      <4> QED BY <4>1, <4>2, Zenon DEF CacheInv
    <3> QED BY <2>1, <2>3, <3>1, Zenon
  <2>5. d.es = "clear" => cache'["buffer"][k] = Out
    BY <2>1, <2>2 DEF HostType, Parts
  <2>6. ASSUME d.es = "entry", NEW p \in Parts
        PROVE  cache'[p][k] \in {<<d.epoch, c>>, Out}
    <3>1. cache'["entry"][k] = Out
      BY <2>1, <2>2, <2>6 DEF HostType, Parts
    <3>2. cache["buffer"][k] \in {<<d.epoch, c>>, Out}
      BY <1>1, <2>6, Zenon DEF Enabled, CacheInv
    <3>3. cache'["buffer"][k] \in {<<d.epoch, c>>, Out}
      BY <2>1, <2>3, <3>2, Zenon DEF Parts
    <3> QED BY <3>1, <3>3, Zenon DEF Parts
  <2>7. ASSUME NEW j \in t .. e - 1, NEW p \in Parts
        PROVE  cache'[p][j % world.rsize] \in {<<d.epoch, j>>, Out}
    <3>1. CASE j \in t .. c - 1
      BY <2>4, <3>1, Zenon
    <3>2. CASE j = c /\ d.es = "entry"
      BY <2>6, <3>2, Zenon
    <3> QED BY <1>3, <3>1, <3>2
  <2>8. d'.es = "entry" => cache'["buffer"][e % world.rsize] = Out
    BY <1>2, <2>5, Zenon
  <2> QED BY <1>1, <1>2, <1>3, <1>5, <2>7, <2>8, Zenon DEF CacheInv
<1> QED BY <1>5, <1>6, <1>7, <1>8, <1>9, <1>10, Zenon DEF Enabled

(* An enable starts from nothing: the program is under no claim, and what  *)
(* it knows of the indexes is of an earlier epoch.                         *)
LEMMA EnableStep ==
  ASSUME RegType(d), HostType, OffInv, EpochInv, Enable
  PROVE  Enabled(0, 0, 0)' /\ posted' = 0
<1>1. /\ UNCHANGED <<world, cmd, resp, cache, pc, i, n, s, g, command>>
      /\ posted' = 0 /\ did' = <<>> /\ opens' = [j \in 0 .. CmdBound |-> 0]
      /\ ~d.on /\ ~given
  BY Zenon DEF Enable, program, local
<1>2. /\ d'.on /\ d'.epoch = d.epoch /\ d'.pub = None
      /\ d'.prod = 0 /\ d'.cons = 0 /\ d'.taken = 0 /\ d'.target = 0
      /\ d'.hopen = 0 /\ d'.hnext = 0 /\ d'.es = "idle"
  BY EnableRegs, Zenon
<1>3. /\ world.mod \in Nat \ {0} /\ kind' = kind /\ kind \in Kinds /\ 0 % world.mod = 0
      /\ world.csize \in Nat /\ world.rsize \in Nat
  BY <1>1, Sizes DEF kind
<1>4. pc \notin Under
  BY <1>1, Zenon DEF EpochInv
<1>5. ~(pc \in {"cons", "claim", "claimed"} /\ s.epoch = d.epoch)
  BY <1>1, Zenon DEF EpochInv
<1>6. CountInv(0, 0, 0)'
  <2>1. chost' = 0
    BY <1>2, Zenon DEF chost, land
  <2> QED BY <1>1, <1>2, <1>3, <2>1 DEF CountInv
<1>7. ServeInv(0, 0)'
  BY <1>1, <1>2, <1>3, <1>4, <1>5, Zenon DEF ServeInv, Under, Based, Carrying
<1>8. pc' \notin Carrying /\ pc' \notin Carried
  BY <1>1, <1>4, Zenon DEF Under, Based, Carrying, Carried
<1>9. CmdInv(0, 0, 0)'
  <2>1. \A j : j \notin 0 .. 0 - 1
    OBVIOUS
  <2> QED BY <1>1, <1>8, <2>1, Zenon DEF CmdInv
<1>10. DidInv(0)'
  <2>1. Len(did') = 0
    BY <1>1, Zenon
  <2> QED BY <1>8, <2>1 DEF DidInv
<1>11. RespInv(0, 0)' /\ CacheInv(0, 0, 0)'
  <2>1. \A j : j \notin 0 .. 0 - 1
    OBVIOUS
  <2> QED BY <1>2, <1>8, <2>1, Zenon DEF RespInv, CacheInv
<1>12. HandleInv(0, 0)'
  <2>1. kind # "file" => g'.open = 0
    BY <1>1, Zenon DEF HostType
  <2>2. pc' # "complete"
    BY <1>8, Zenon DEF Carried
  <2> QED BY <1>1, <1>2, <1>3, <1>8, <2>1, <2>2, Zenon DEF HandleInv
<1> QED BY <1>1, <1>6, <1>7, <1>9, <1>10, <1>11, <1>12, Zenon DEF Enabled

-----------------------------------------------------------------------------
(* The invariant, and what it says.                                        *)

LEMMA RingInit ==
  ASSUME Init PROVE RingInv
<1>1. world.mod \in Nat \ {0} /\ 0 \in Index
  BY WorldSizes DEF Init, Index
<1>2. RegType(d) /\ OffInv /\ ~d.on
  BY <1>1, Zenon DEF Init, RegType, OffInv
<1>3. HostType
  <2>1. world \in Worlds /\ posted \in 0 .. CmdBound /\ d.epoch <= EpochBound
    BY Bounds DEF Init
  <2>2. did \in Seq(Words) /\ opens \in [0 .. CmdBound -> Nat]
    BY DEF Init
  <2>3. Other \in Words
    BY Zenon DEF Words
  <2>4. /\ cmd \in [Slots -> Words] /\ resp \in [Parts -> [Slots -> Words]]
        /\ cache \in [Parts -> [Slots -> Words \cup {Out}]]
    BY <2>3, Zenon DEF Init
  <2>5. /\ DOMAIN s = {"epoch", "work"} /\ s.epoch \in Nat
        /\ DOMAIN g = {"epoch", "open"} /\ g.open \in Nat /\ g.open = 0
        /\ i \in Index /\ n \in Index /\ b \in BOOLEAN /\ command \in Words
    BY <1>1, <2>3, ZenonT(60) DEF Init
  <2> QED BY <2>1, <2>2, <2>4, <2>5, Zenon DEF HostType
<1>4. EpochInv
  <2>1. /\ ~d.on /\ ~d.busy /\ s.epoch <= d.epoch
    BY DEF Init
  <2>2. pc = "attach" /\ pc \notin Under /\ pc \notin Based
    BY Zenon DEF Init, Under, Based
  <2> QED BY <2>1, <2>2, Zenon DEF EpochInv
<1> QED BY <1>2, <1>3, <1>4, Zenon DEF RingInv

(* A step under one enable moves the counts as its lemma says. *)
LEMMA CountsMove ==
  ASSUME RegType(d), HostType, OffInv, EpochInv, d.on, Next, d'.on,
         NEW c \in 0 .. posted, NEW t \in 0 .. posted, NEW h \in 0 .. posted, Enabled(c, t, h)
  PROVE  \E x, y, z \in 0 .. posted' : Enabled(x, y, z)'
<1>0. posted \in Nat /\ c \in Nat /\ t \in Nat /\ h \in Nat
  BY DEF HostType
<1>1. PICK e \in 0 .. posted : e \in Nat /\ Shown(e, c, h)
  BY <1>0, Zenon DEF Shown
<1>2. CASE (Program /\ ~Complete) \/ Stop \/ Land
  <2>1. Enabled(e, t, h)'
    BY <1>0, <1>1, <1>2, DoStep, PutStep, PlainProgram, LandStep, Zenon
       DEF Do, Put, Complete, Stop, Access
  <2>2. posted' = posted
    BY <1>2, ProgramQuiet, Zenon DEF Stop, Land, history
  <2> QED BY <1>1, <2>1, <2>2, Zenon
<1>3. CASE Complete
  <2>1. Enabled(e, t, h + 1)' /\ h + 1 <= posted
    BY <1>0, <1>1, <1>3, CompleteStep, Zenon
  <2>2. posted' = posted
    BY <1>3, Zenon DEF Complete, Access
  <2> QED BY <1>0, <1>1, <2>1, <2>2
<1>4. CASE Kill \/ Load
  <2>1. Enabled(c, t, h)'
    BY <1>0, <1>4, KillStep, LoadStep, Zenon
  <2>2. posted' = posted
    BY <1>4, Zenon DEF Kill, Load, history
  <2> QED BY <2>1, <2>2, Zenon
<1>5. CASE Post
  <2>1. Enabled(e, t, h)' /\ posted' = posted + 1
    BY <1>0, <1>1, <1>5, PostStep, Zenon
  <2>2. 0 .. posted \subseteq 0 .. posted'
    BY <1>0, <2>1
  <2> QED BY <1>1, <2>1, <2>2, Zenon
<1>6. CASE Take
  <2>1. Enabled(e, t + 1, h)' /\ t + 1 <= posted
    BY <1>0, <1>1, <1>6, TakeStep, Zenon
  <2>2. posted' = posted
    BY <1>6, Zenon DEF Take, history
  <2> QED BY <1>0, <1>1, <2>1, <2>2
<1>7. CASE Engine
  <2>1. PICK f \in Nat : f = IF d.es = "entry" THEN c + 1 ELSE c
    BY <1>0
  <2>2. Enabled(f, t, h)' /\ f <= posted
    BY <1>0, <1>7, <2>1, EngineStep, Zenon
  <2>3. posted' = posted /\ f \in 0 .. posted
    BY <1>0, <1>7, <2>1, <2>2 DEF Engine, history
  <2> QED BY <2>2, <2>3, Zenon
<1>8. CASE Disable \/ Reset
  BY <1>8, DisableRegs, ResetRegs, Zenon
<1>9. CASE Enable \/ Reuse
  BY <1>9, Zenon DEF Enable, Reuse
<1> QED BY <1>2, <1>3, <1>4, <1>5, <1>6, <1>7, <1>8, <1>9, Zenon DEF Next, Machine, Fabric

LEMMA RingStep ==
  ASSUME RingInv, [Next]_vars PROVE RingInv'
<1>1. CASE Next
  <2>1. RegType(d) /\ HostType /\ OffInv /\ EpochInv
    BY Zenon DEF RingInv
  <2>2. RegType(d)' /\ OffInv' /\ HostType'
    BY <1>1, <2>1, RegStep, HostTypeStep, Zenon
  <2>3. EpochInv'
    BY <1>1, <2>1, EpochMachine, EpochProgram, Zenon DEF Next
  <2>4. ASSUME d'.on, ~d.on PROVE Enable
    <3>1. CASE Disable \/ Reset \/ Reuse \/ Land \/ Load \/ Kill
      BY <2>1, <2>4, <3>1, DisableRegs, ResetRegs, LandedQuiet, Zenon DEF Reuse, Land, Load, Kill, Quiet
    <3>2. CASE Post \/ Take \/ Engine
      BY <2>4, <3>2, Zenon DEF Post, Take, Engine
    <3>3. CASE Complete
      BY <2>1, <2>4, <3>3, CompleteRegs, ZenonT(60) DEF Quiet
    <3>4. CASE Program /\ ~Complete
      BY <2>1, <2>4, <3>4, ProgramQuiet, ZenonT(60) DEF Quiet
    <3>5. CASE Stop
      BY <2>1, <2>4, <3>5, LandedQuiet, ReleaseQuiet, Zenon DEF Stop, Quiet
    <3> QED BY <1>1, <3>1, <3>2, <3>3, <3>4, <3>5, Zenon DEF Next, Machine, Fabric
  <2>5. d'.on => \E c, t, h \in 0 .. posted' : Enabled(c, t, h)'
    <3>1. CASE ~d.on /\ d'.on
      <4>1. Enabled(0, 0, 0)' /\ posted' = 0
        BY <2>1, <2>4, <3>1, EnableStep, Zenon
      <4>2. 0 \in 0 .. posted'
        BY <4>1
      <4> QED BY <4>1, <4>2, Zenon
    <3>2. CASE d.on /\ d'.on
      <4>1. PICK c \in 0 .. posted, t \in 0 .. posted, h \in 0 .. posted : Enabled(c, t, h)
        BY <3>2, Zenon DEF RingInv
      <4> QED BY <1>1, <2>1, <3>2, <4>1, CountsMove, Zenon
    <3> QED BY <2>1, <3>1, <3>2, Zenon DEF RegType
  <2> QED BY <2>2, <2>3, <2>5, Zenon DEF RingInv
<1>2. CASE UNCHANGED vars
  <2>1. UNCHANGED <<world, d, cmd, resp, cache, given, posted, did, opens, pc, g, s, i, n, b,
                    command>>
    BY <1>2, Zenon DEF vars, memory, history, program, local
  <2>2. kind' = kind /\ chost' = chost /\ Index' = Index /\ Slots' = Slots
    BY <2>1, Zenon DEF kind, chost, land, Index, Slots
  <2>3. RegType(d)' /\ HostType' /\ OffInv' /\ EpochInv'
    BY <2>1, <2>2, ZenonT(60) DEF RingInv, RegType, HostType, OffInv, EpochInv
  <2>4. ASSUME NEW c, NEW t, NEW h, Enabled(c, t, h) PROVE Enabled(c, t, h)'
    <3>1. CountInv(c, t, h)' /\ ServeInv(t, h)' /\ CmdInv(c, t, h)' /\ DidInv(h)'
      <4> USE <2>1, <2>2, <2>4 DEF Enabled
      <4>1. CountInv(c, t, h)'
        BY Zenon DEF CountInv
      <4>2. ServeInv(t, h)'
        BY Zenon DEF ServeInv
      <4>3. CmdInv(c, t, h)' /\ DidInv(h)'
        BY Zenon DEF CmdInv, DidInv
      <4> QED BY <4>1, <4>2, <4>3, Zenon
    <3>2. HandleInv(c, h)' /\ RespInv(t, h)' /\ CacheInv(c, t, h)'
      BY <2>1, <2>2, <2>4, Zenon DEF Enabled, HandleInv, RespInv, CacheInv
    <3> QED BY <3>1, <3>2, Zenon DEF Enabled
  <2> QED BY <2>1, <2>3, <2>4, Zenon DEF RingInv
<1> QED BY <1>1, <1>2, Zenon

LEMMA RingAlways == Spec => []RingInv
<1>1. Init => RingInv
  BY RingInit, Zenon
<1>2. RingInv /\ [Next]_vars => RingInv'
  BY RingStep, Zenon
<1> QED BY <1>1, <1>2, PTL DEF Spec

(* Whatever the sizes of the rings and of the indexes, and however often   *)
(* these wrap: each response or frame between what the machine has taken   *)
(* and the index it reads is whole in memory, of its own entry under this  *)
(* enable, and no line of it in the machine's cache is older.  A program   *)
(* that died before it completed an entry writes the same slot again.      *)
THEOREM AnswersAreRead == Spec => []ReadsItsAnswer
<1>1. RingInv => ReadsItsAnswer
  <2> SUFFICES ASSUME RingInv, d.on, kind # "transmit" PROVE ReadsItsAnswer
    BY Zenon DEF ReadsItsAnswer
  <2>1. RegType(d) /\ HostType /\ posted \in Nat
    BY DEF RingInv, HostType
  <2>2. PICK c \in 0 .. posted, t \in 0 .. posted, h \in 0 .. posted : Enabled(c, t, h)
    BY Zenon DEF RingInv
  <2>3. /\ c \in Nat /\ t \in Nat /\ h \in Nat /\ c <= h
        /\ Entries(d.cons) = c /\ Minus(d.cons, d.taken) = c - t
    BY <2>1, <2>2, Distances DEF Enabled, CountInv, Entries
  <2>4. Entries(d.cons) - Minus(d.cons, d.taken) .. Entries(d.cons) - 1 = t .. c - 1
    BY <2>3
  <2>5. RespInv(t, h) /\ CacheInv(c, t, h)
    BY <2>2, Zenon DEF Enabled
  <2>6. t .. c - 1 \subseteq t .. h - 1
    BY <2>3
  <2>7. \A j \in t .. c - 1, p \in Parts : resp[p][j % world.rsize] = <<d.epoch, j>>
    BY <2>5, <2>6, Zenon DEF RespInv
  <2>8. \A j \in t .. c - 1, p \in Parts :
            cache[p][j % world.rsize] \in {<<d.epoch, j>>, Out}
    BY <2>5, Zenon DEF CacheInv
  <2> QED BY <2>4, <2>7, <2>8, ZenonT(60) DEF ReadsItsAnswer
<1> QED BY <1>1, RingAlways, PTL

(* However the machine posts, takes, disables and resets meanwhile: under  *)
(* one enable the entries are carried out in order, each once, none left   *)
(* out, and the device never shows one done that was not (a program that   *)
(* does not die).                                                          *)
THEOREM DoneOnceInOrder == Spec => []OnceInOrder
<1>1. RingInv => OnceInOrder
  <2> SUFFICES ASSUME RingInv, d.on, "kill" \notin world.events PROVE OnceInOrder
    BY Zenon DEF OnceInOrder
  <2>1. HostType /\ posted \in Nat
    <3>1. HostType
      BY Zenon DEF RingInv
    <3>2. posted \in 0 .. CmdBound
      BY <3>1, Zenon DEF HostType
    <3> QED BY <3>1, <3>2, Bounds
  <2>2. PICK c \in 0 .. posted, t \in 0 .. posted, h \in 0 .. posted : Enabled(c, t, h)
    BY Zenon DEF RingInv
  <2>3. c \in Nat /\ t \in Nat /\ h \in Nat /\ Entries(chost) = h
    <3>1. c \in Nat /\ t \in Nat /\ h \in Nat /\ posted \in Nat
      BY <2>1
    <3>2. CountInv(c, t, h)
      BY <2>2, Zenon DEF Enabled
    <3>3. Minus(d.prod, chost) = posted - h
      BY <2>1, <3>1, <3>2, Distances, Zenon
    <3> QED BY <3>1, <3>3 DEF Entries
  <2>4. /\ Len(did) = h \/ Len(did) = h + 1
        /\ \A j \in 1 .. Len(did) : did[j] = <<d.epoch, j - 1>>
    BY <2>2, Zenon DEF Enabled, DidInv
  <2> QED BY <2>3, <2>4 DEF OnceInOrder
<1> QED BY <1>1, RingAlways, PTL

(* The count of open handles the machine reads moves in the same tick as   *)
(* the index of the responses: it is the count after the last command the  *)
(* machine sees done, staged though it was some accesses before.           *)
THEOREM HandlesMoveTogether == Spec => []HandlesTogether
<1>1. RingInv => HandlesTogether
  <2> SUFFICES ASSUME RingInv, d.on PROVE HandlesTogether
    BY Zenon DEF HandlesTogether
  <2>1. HostType /\ posted \in Nat
    BY DEF RingInv, HostType
  <2>2. PICK c \in 0 .. posted, t \in 0 .. posted, h \in 0 .. posted : Enabled(c, t, h)
    BY Zenon DEF RingInv
  <2>3. Entries(d.cons) = c
    <3>1. c \in Nat /\ t \in Nat /\ h \in Nat /\ posted \in Nat
      BY <2>1
    <3>2. CountInv(c, t, h)
      BY <2>2, Zenon DEF Enabled
    <3>3. Minus(d.prod, d.cons) = posted - c
      BY <2>1, <3>1, <3>2, Distances, Zenon
    <3> QED BY <3>1, <3>3 DEF Entries
  <2> QED BY <2>2, <2>3, Zenon DEF HandlesTogether, Enabled, HandleInv
<1> QED BY <1>1, RingAlways, PTL
=============================================================================
