-------------------------- MODULE DiskFeederProofs --------------------------
(***************************************************************************)
(* What pack_feeder.c keeps, for any number of slots, blocks and writes,   *)
(* while blocks are moved one at a time on a pack that nothing disturbs:   *)
(* no write of the CADR is lost, every walk is on the words last written,  *)
(* and every block is in one slot that the table knows.                    *)
(*                                                                         *)
(* None of the three is inductive.  What makes them so is how far the two  *)
(* sides can have moved apart: while Linux answers a request the channel   *)
(* stands waiting for that very block, so that the DIRTY it read and the   *)
(* words it fetched are not stale; while Linux drains, the channel may be  *)
(* on the slot whose words are on their way, and DIRTY is then up again.   *)
(***************************************************************************)
EXTENDS DiskFeeder, WellFoundedInduction, TLAPS

Backs == {"writeback", "moved", "commit"}
Calm == {"poll", "deny", "victim", "check", "serve", "fetch", "landed", "dirty", "drain", "scan"} \cup Backs

\* Linux has a request in hand.
Answering ==
  pc \in {"deny", "victim", "check", "serve", "fetch", "landed"} \/ (pc \in Backs /\ ret = "serve")

\* Linux goes through the slots it read as dirty.
Draining == pc = "drain" \/ (pc \in Backs /\ ret = "drain")

\* The pack stays in its bay, and every walk is of one block.
StillInv ==
  /\ world \in Worlds /\ Undisturbed
  /\ left = 0 /\ drive = 1 /\ drive_ro = 0 /\ named = 1 /\ mark = 0
  /\ pc \in Calm /\ ret \in {"serve", "drain"}

KindInv ==
  /\ walk \in {"idle", "look", "wait", "on"}
  /\ blk \in Blocks /\ want \in Blocks \cup {None}
  /\ ch_slot \in Slots /\ s \in Slots /\ hand \in Slots /\ todo \subseteq Slots
  /\ wrote \in Nat /\ rec \in Nat /\ latest \in [Blocks -> SUBSET Nat]
  /\ tag \in [Slots -> Blocks \cup {None}] /\ table \in [Slots -> Blocks \cup {None}]
  /\ words \in [Slots -> Nat] /\ dirty \in [Slots -> Bits] /\ pack \in [Blocks -> Nat]

\* A slot holds the words last written to its block, and the pack has them
\* too if the slot is clean and they are not on their way; a block in no slot
\* is on the pack.
HeldInv ==
  /\ \A j, k \in Slots : tag[j] # None /\ tag[j] = tag[k] => j = k
  /\ \A k \in Slots : tag[k] # None =>
       /\ table[k] = tag[k] /\ words[k] \in latest[tag[k]]
       /\ dirty[k] = 1 \/ pack[tag[k]] \in latest[tag[k]] \/ (pc \in {"moved", "commit"} /\ s = k)
  /\ \A k \in Slots : dirty[k] = 1 => tag[k] # None
  /\ \A b \in Blocks : (\A k \in Slots : tag[k] # b) => pack[b] \in latest[b]

\* A block asked for is the one the walk waits for, and is what Linux answers.
AskedInv ==
  /\ req # None => walk = "wait" /\ req = blk /\ \A k \in Slots : tag[k] # blk
  /\ Answering => req # None /\ req = want
  /\ walk = "on" => tag[ch_slot] = blk /\ ch_slot # move

\* What Linux has read of the face and the pack still holds.
ReadInv ==
  /\ pc \in {"serve", "fetch", "landed"} => dirty[s] = 0
  /\ pc \in {"fetch", "landed"} => rec \in latest[want]
  /\ pc = "landed" => tag[s] = None
  /\ pc = "writeback" => dirty[s] = 1
  /\ pc = "moved" => dirty[s] = 0 /\ tag[s] # None
  /\ pc = "commit" => tag[s] # None /\ (dirty[s] = 0 => rec \in latest[tag[s]])
  /\ pc = "commit" /\ ret = "serve" => dirty[s] = 0
  /\ move = IF pc \in {"moved", "landed"} THEN s ELSE -1
  /\ Draining => \A k \in todo : dirty[k] = 1
  /\ pc \in Backs /\ ret = "drain" => s \notin todo

\* The inductive invariant of the worlds in which nothing disturbs the pack.
FeederInv == StillInv /\ KindInv /\ HeldInv /\ AskedInv /\ ReadInv

\* As it is checked.
FeederHolds == Undisturbed => FeederInv

-----------------------------------------------------------------------------
USE DEF Bits, None

(* The frames: what a step that leaves the slots alone keeps.              *)

LEMMA HeldKept ==
  ASSUME HeldInv, UNCHANGED <<tag, table, words, dirty, pack, latest>>, pc \notin {"moved", "commit"}
  PROVE  HeldInv'
BY Zenon DEF HeldInv

LEMMA KindKept ==
  ASSUME KindInv, UNCHANGED <<walk, blk, ch_slot, wrote, latest, tag, table, words, dirty, pack>>,
         want' \in Blocks \cup {None}, s' \in Slots, hand' \in Slots, todo' \subseteq Slots, rec' \in Nat
  PROVE  KindInv'
BY Zenon DEF KindInv

LEMMA StillKept ==
  ASSUME StillInv, UNCHANGED <<world, left, drive, drive_ro, named, mark>>,
         pc' \in Calm, ret' \in {"serve", "drain"}
  PROVE  StillInv'
BY Zenon DEF StillInv, Undisturbed

\* A step of the channel that writes nothing leaves what Linux read.
LEMMA Stands ==
  ASSUME HeldInv, ReadInv,
         UNCHANGED <<tag, table, words, dirty, pack, latest, pc, s, ret, todo, rec, want, move>>
  PROVE  HeldInv' /\ ReadInv'
<1>1. HeldInv'
  BY Zenon DEF HeldInv
<1>2. Draining' = Draining
  BY Zenon DEF Draining
<1>3. ReadInv'
  BY <1>2, Zenon DEF ReadInv
<1> QED
  BY <1>1, <1>3, Zenon

-----------------------------------------------------------------------------
(* The channel.                                                            *)

LEMMA StartStep ==
  ASSUME FeederInv, Start
  PROVE  FeederInv'
<1>1. /\ walk = "idle" /\ walk' = "look" /\ blk' \in 1 .. world.blocks /\ left' \in 0 .. world.list - 1
      /\ UNCHANGED <<ch_slot, wrote, latest, tag, words, dirty, req, move>>
      /\ UNCHANGED <<pc, want, s, ret, todo, rec, table, hand, drive, drive_ro>>
      /\ UNCHANGED <<pack, named, mark, world>>
  BY Zenon DEF Start, store, face, linux, files
<1>2. StillInv /\ KindInv /\ HeldInv /\ AskedInv /\ ReadInv
  BY Zenon DEF FeederInv
<1>3. left' = 0
  BY <1>1, <1>2 DEF StillInv, Undisturbed
<1>4. blk' \in Blocks
  <2>1. world.blocks \in 1 .. BlockCount /\ BlockCount \in Nat
    BY <1>2, FeederAssumption, Zenon DEF StillInv
  <2> QED
    BY <1>1, <2>1 DEF Blocks
<1>5. StillInv'
  BY <1>1, <1>2, <1>3, Zenon DEF StillInv, Undisturbed
<1>6. KindInv'
  BY <1>1, <1>2, <1>4, Zenon DEF KindInv
<1>7. HeldInv' /\ ReadInv'
  BY <1>1, <1>2, Stands, Zenon
<1>8. AskedInv'
  <2>1. req = None /\ ~Answering
    BY <1>1, <1>2, Zenon DEF AskedInv
  <2>2. ~Answering'
    BY <1>1, <2>1, Zenon DEF Answering
  <2> QED
    BY <1>1, <2>1, <2>2, Zenon DEF AskedInv
<1> QED
  BY <1>5, <1>6, <1>7, <1>8, Zenon DEF FeederInv

LEMMA LookStep ==
  ASSUME FeederInv, Look
  PROVE  FeederInv'
<1>1. /\ walk \in {"look", "wait"}
      /\ UNCHANGED <<blk, left, wrote, latest, tag, words, dirty, move>>
      /\ UNCHANGED <<pc, want, s, ret, todo, rec, table, hand, drive, drive_ro>>
      /\ UNCHANGED <<pack, named, mark, world>>
  BY Zenon DEF Look, store, linux, files
<1>2. StillInv /\ KindInv /\ HeldInv /\ AskedInv /\ ReadInv
  BY Zenon DEF FeederInv
<1>3. \/ walk' = "on" /\ ch_slot' \in Slots /\ tag[ch_slot'] = blk /\ ch_slot' # move /\ req' = req
      \/ /\ walk = "look" /\ walk' = "wait" /\ req' = blk /\ ch_slot' = ch_slot
         /\ \A k \in Slots : tag[k] # blk
  BY Zenon DEF Look, Holding
<1>4. StillInv'
  BY <1>1, <1>2, Zenon DEF StillInv, Undisturbed
<1>5. KindInv'
  BY <1>1, <1>2, <1>3, Zenon DEF KindInv
<1>6. HeldInv' /\ ReadInv'
  BY <1>1, <1>2, Stands, Zenon
<1>7. Answering' = Answering
  BY <1>1, Zenon DEF Answering
<1>8. AskedInv'
  <2>1. CASE walk' = "on" /\ ch_slot' \in Slots /\ tag[ch_slot'] = blk /\ ch_slot' # move /\ req' = req
    <3>1. req = None /\ ~Answering
      BY <1>2, <2>1, Zenon DEF AskedInv
    <3> QED
      BY <1>1, <1>7, <2>1, <3>1, Zenon DEF AskedInv
  <2>2. CASE walk = "look" /\ walk' = "wait" /\ req' = blk /\ \A k \in Slots : tag[k] # blk
    <3>1. ~Answering
      BY <1>2, <2>2, Zenon DEF AskedInv
    <3> QED
      BY <1>1, <1>7, <2>2, <3>1, Zenon DEF AskedInv
  <2> QED
    BY <1>3, <2>1, <2>2, Zenon
<1> QED
  BY <1>4, <1>5, <1>6, <1>8, Zenon DEF FeederInv

\* A Write ends in the slot the walk is on, which no move is on and Linux has
\* not read as clean to fetch into.
LEMMA FinishStep ==
  ASSUME FeederInv, Finish
  PROVE  FeederInv'
<1>1. /\ walk = "on" /\ UNCHANGED <<ch_slot, tag, req, move>>
      /\ UNCHANGED <<pc, want, s, ret, todo, rec, table, hand, drive, drive_ro>>
      /\ UNCHANGED <<pack, named, mark, world>>
  BY Zenon DEF Finish, linux, files
<1>2. StillInv /\ KindInv /\ HeldInv /\ AskedInv /\ ReadInv
  BY Zenon DEF FeederInv
<1>3. walk' = "idle" /\ UNCHANGED <<blk, left>>
  BY <1>2 DEF Finish, StillInv
<1>4. StillInv'
  BY <1>1, <1>2, <1>3, Zenon DEF StillInv, Undisturbed
<1>5. /\ req = None /\ ~Answering /\ tag[ch_slot] = blk /\ ch_slot # move
      /\ ch_slot \in Slots /\ blk \in Blocks
  BY <1>1, <1>2, Zenon DEF AskedInv, KindInv
<1>6. AskedInv'
  <2>1. ~Answering'
    BY <1>1, <1>5, Zenon DEF Answering
  <2> QED
    BY <1>1, <1>3, <1>5, <2>1, Zenon DEF AskedInv
<1>7. CASE UNCHANGED <<wrote, words, latest, dirty>>
  <2>1. HeldInv' /\ ReadInv'
    BY <1>1, <1>2, <1>7, Stands, Zenon
  <2>2. KindInv'
    BY <1>1, <1>2, <1>3, <1>7, Zenon DEF KindInv
  <2> QED
    BY <1>4, <1>6, <2>1, <2>2, Zenon DEF FeederInv
<1>8. CASE /\ wrote' = wrote + 1
           /\ words' = [words EXCEPT ![ch_slot] = wrote + 1]
           /\ latest' = [latest EXCEPT ![blk] = {wrote + 1}]
           /\ dirty' = [dirty EXCEPT ![ch_slot] = 1]
  <2>1. KindInv'
    <3>1. wrote' \in Nat /\ words' \in [Slots -> Nat]
      BY <1>2, <1>8 DEF KindInv
    <3>2. latest' \in [Blocks -> SUBSET Nat] /\ dirty' \in [Slots -> Bits]
      BY <1>2, <1>8 DEF KindInv
    <3> QED
      BY <1>1, <1>2, <1>3, <3>1, <3>2, Zenon DEF KindInv
  <2>2. /\ \A k \in Slots : k # ch_slot => words'[k] = words[k] /\ dirty'[k] = dirty[k]
        /\ words'[ch_slot] = wrote + 1 /\ dirty'[ch_slot] = 1
        /\ \A b \in Blocks : b # blk => latest'[b] = latest[b]
        /\ wrote + 1 \in latest'[blk]
    BY <1>2, <1>5, <1>8, Zenon DEF KindInv
  <2>3. \A k \in Slots : k # ch_slot => tag[k] # blk
    BY <1>2, <1>5 DEF HeldInv, Blocks
  <2>4. \A k \in Slots : tag[k] # None => tag[k] \in Blocks
    BY <1>2, Zenon DEF KindInv
  <2>5. HeldInv'
    <3>1. ASSUME NEW k \in Slots, tag[k] # None
          PROVE  /\ table[k] = tag[k] /\ words'[k] \in latest'[tag[k]]
                 /\ \/ dirty'[k] = 1 \/ pack[tag[k]] \in latest'[tag[k]]
                    \/ pc \in {"moved", "commit"} /\ s = k
      <4>1. /\ table[k] = tag[k] /\ words[k] \in latest[tag[k]]
            /\ \/ dirty[k] = 1 \/ pack[tag[k]] \in latest[tag[k]]
               \/ pc \in {"moved", "commit"} /\ s = k
        BY <1>2, <3>1, Zenon DEF HeldInv
      <4>2. CASE k = ch_slot
        BY <1>5, <2>2, <4>1, <4>2, Zenon
      <4>3. CASE k # ch_slot
        <5>1. latest'[tag[k]] = latest[tag[k]]
          BY <2>2, <2>3, <2>4, <3>1, <4>3, Zenon
        <5> QED
          BY <2>2, <4>1, <4>3, <5>1, Zenon
      <4> QED
        BY <4>2, <4>3, Zenon
    <3>2. ASSUME NEW k \in Slots, dirty'[k] = 1
          PROVE  tag[k] # None
      <4>1. CASE k = ch_slot
        BY <1>5, <4>1 DEF Blocks
      <4>2. CASE k # ch_slot
        BY <1>2, <2>2, <3>2, <4>2, Zenon DEF HeldInv
      <4> QED
        BY <4>1, <4>2, Zenon
    <3>3. ASSUME NEW b \in Blocks, \A k \in Slots : tag[k] # b
          PROVE  pack[b] \in latest'[b]
      <4>1. b # blk
        BY <1>5, <3>3, Zenon
      <4>2. pack[b] \in latest[b]
        BY <1>2, <3>3, Zenon DEF HeldInv
      <4> QED
        BY <2>2, <4>1, <4>2, Zenon
    <3>4. \A j, k \in Slots : tag[j] # None /\ tag[j] = tag[k] => j = k
      BY <1>2, Zenon DEF HeldInv
    <3> QED
      BY <1>1, <3>1, <3>2, <3>3, <3>4, Zenon DEF HeldInv
  <2>6. ReadInv'
    <3>1. /\ pc \notin {"serve", "fetch", "landed"} /\ s \in Slots
          /\ pc \in Backs => ret = "drain" 
      BY <1>2, <1>5, Zenon DEF Answering, StillInv, KindInv
    <3>2. pc = "moved" => dirty'[s] = 0 /\ tag[s] # None
      BY <1>2, <1>5, <2>2, <3>1, Zenon DEF ReadInv
    <3>3. pc = "writeback" => dirty'[s] = 1
      BY <1>2, <2>2, <3>1, Zenon DEF ReadInv
    <3>4. pc = "commit" => tag[s] # None /\ (dirty'[s] = 0 => rec \in latest'[tag[s]])
      BY <1>2, <2>2, <2>3, <2>4, <3>1 DEF ReadInv
    <3>5. Draining' => \A k \in todo : dirty'[k] = 1
      <4>1. Draining' => \A k \in todo : k \in Slots /\ dirty[k] = 1
        BY <1>1, <1>2, Zenon DEF ReadInv, Draining, KindInv
      <4> QED
        BY <2>2, <4>1, Zenon
    <3>6. pc \in Backs /\ ret = "drain" => s \notin todo
      BY <1>2, Zenon DEF ReadInv
    <3>7. move = IF pc \in {"moved", "landed"} THEN s ELSE -1
      BY <1>2, Zenon DEF ReadInv
    <3>8. pc = "commit" => ret # "serve"
      BY <3>1, Zenon DEF Backs
    <3> QED
      BY <1>1, <3>1, <3>2, <3>3, <3>4, <3>5, <3>6, <3>7, <3>8, Zenon DEF ReadInv
  <2> QED
    BY <1>4, <1>6, <2>1, <2>5, <2>6, Zenon DEF FeederInv
<1> QED
  BY <1>7, <1>8, Zenon DEF Finish

-----------------------------------------------------------------------------
(* Linux.                                                                  *)

\* Where Linux has read nothing that could be stale.
Fresh == {"poll", "deny", "victim", "check", "dirty", "scan"}

LEMMA ReadFresh ==
  ASSUME pc' \in Fresh, move' = -1
  PROVE  ReadInv'
BY Zenon DEF ReadInv, Fresh, Draining, Backs

LEMMA AskedKept ==
  ASSUME AskedInv, UNCHANGED <<req, walk, blk, tag, ch_slot, move>>,
         Answering' => req # None /\ req = want'
  PROVE  AskedInv'
BY Zenon DEF AskedInv

\* A step of the program's own, between accesses of the slots.
LEMMA OwnStep ==
  ASSUME FeederInv,
         UNCHANGED <<channel, store, dirty, req, move, seam, table, drive, drive_ro, files>>,
         pc \notin {"moved", "commit"}, pc' \in Calm, ret' \in {"serve", "drain"},
         want' \in Blocks \cup {None}, s' \in Slots, hand' \in Slots, todo' \subseteq Slots, rec' \in Nat,
         Answering' => req # None /\ req = want',
         ReadInv'
  PROVE  FeederInv'
<1>1. /\ UNCHANGED <<walk, blk, left, ch_slot, wrote, latest, tag, words, dirty, req, move>>
      /\ UNCHANGED <<table, drive, drive_ro, pack, named, mark, world>>
  BY Zenon DEF channel, store, files
<1>2. StillInv /\ KindInv /\ HeldInv /\ AskedInv
  BY Zenon DEF FeederInv
<1>3. StillInv'
  BY <1>1, <1>2, StillKept, Zenon
<1>4. KindInv'
  BY <1>1, <1>2, KindKept, Zenon
<1>5. HeldInv'
  BY <1>1, <1>2, HeldKept, Zenon
<1>6. AskedInv'
  BY <1>1, <1>2, AskedKept, Zenon
<1> QED
  BY <1>3, <1>4, <1>5, <1>6, Zenon DEF FeederInv

\* The ranges and the whereabouts the steps of Linux need.
LEMMA OwnFacts ==
  ASSUME FeederInv
  PROVE  /\ pc \in Calm /\ ret \in {"serve", "drain"} /\ drive = 1 /\ drive_ro = 0
         /\ world.events = {} /\ named = 1 /\ mark = 0
         /\ want \in Blocks \cup {None} /\ s \in Slots /\ hand \in Slots /\ todo \subseteq Slots
         /\ rec \in Nat
         /\ move = IF pc \in {"moved", "landed"} THEN s ELSE -1
         /\ Answering => req # None /\ req = want
         /\ req # None => req \in Blocks /\ walk = "wait" /\ req = blk /\ \A k \in Slots : tag[k] # blk
<1>1. StillInv /\ KindInv /\ AskedInv /\ ReadInv
  BY Zenon DEF FeederInv
<1>2. /\ pc \in Calm /\ ret \in {"serve", "drain"} /\ drive = 1 /\ drive_ro = 0
      /\ world.events = {} /\ named = 1 /\ mark = 0
  BY <1>1, Zenon DEF StillInv, Undisturbed
<1>3. want \in Blocks \cup {None} /\ s \in Slots /\ hand \in Slots /\ todo \subseteq Slots /\ rec \in Nat
  BY <1>1, Zenon DEF KindInv
<1>4. move = IF pc \in {"moved", "landed"} THEN s ELSE -1
  BY <1>1, Zenon DEF ReadInv
<1>5. /\ Answering => req # None /\ req = want
      /\ req # None => req \in Blocks /\ walk = "wait" /\ req = blk /\ \A k \in Slots : tag[k] # blk
  BY <1>1, Zenon DEF AskedInv, KindInv
<1> QED
  BY <1>2, <1>3, <1>4, <1>5, Zenon

LEMMA ReadRequestStep ==
  ASSUME FeederInv, ReadRequest
  PROVE  FeederInv'
<1>1. /\ UNCHANGED <<channel, store, dirty, req, move, seam, table, drive, drive_ro, files>>
      /\ UNCHANGED <<s, ret, todo, hand, rec>> /\ pc = "poll"
  BY Zenon DEF ReadRequest, face
<1>2. \/ pc' = "dirty" /\ want' = want
      \/ pc' \in {"deny", "victim"} /\ want' = req /\ req # None
  BY Zenon DEF ReadRequest
<1>3. move' = -1 /\ pc' \in Fresh /\ pc' \in Calm
  BY <1>1, <1>2, OwnFacts, Zenon DEF Fresh, Calm
<1>4. ReadInv'
  BY <1>3, ReadFresh, Zenon
<1>5. Answering' => req # None /\ req = want'
  BY <1>2, Zenon DEF Answering, Backs
<1>6. want' \in Blocks \cup {None}
  BY <1>2, OwnFacts, Zenon
<1> QED
  BY <1>1, <1>3, <1>4, <1>5, <1>6, OwnFacts, OwnStep, Zenon

LEMMA DenyStep ==
  ASSUME FeederInv, Deny
  PROVE  FeederInv'
<1>1. /\ UNCHANGED <<blk, left, ch_slot, wrote, latest, tag, words, dirty, move>>
      /\ UNCHANGED <<want, s, ret, todo, rec, table, hand, drive, drive_ro>>
      /\ UNCHANGED <<pack, named, mark, world>> /\ req' = None /\ walk' \in {"idle", walk}
      /\ pc \in {"deny", "unread"} /\ pc' = IF pc = "deny" THEN "dirty" ELSE "scan"
  BY Zenon DEF Deny, Denied, store, files
<1>2. pc' = "dirty" /\ pc' \in Calm /\ pc \notin {"moved", "commit"} /\ move' = -1
  BY <1>1, OwnFacts, Zenon DEF Calm, Backs
<1>3. StillInv /\ KindInv /\ HeldInv /\ AskedInv
  BY Zenon DEF FeederInv
<1>4. StillInv'
  BY <1>1, <1>2, <1>3, OwnFacts, StillKept, Zenon
<1>5. KindInv'
  BY <1>1, <1>3, Zenon DEF KindInv
<1>6. HeldInv'
  BY <1>1, <1>2, <1>3, HeldKept, Zenon
<1>7. ReadInv'
  BY <1>2, ReadFresh, Zenon DEF Fresh
<1>8. AskedInv'
  <2>1. ~Answering'
    BY <1>2, Zenon DEF Answering, Backs
  <2>2. walk' = "on" => walk = "on"
    BY <1>1, Zenon
  <2> QED
    BY <1>1, <1>3, <2>1, <2>2, Zenon DEF AskedInv
<1> QED
  BY <1>4, <1>5, <1>6, <1>7, <1>8, Zenon DEF FeederInv

LEMMA AtSlot ==
  ASSUME hand \in Slots, NEW k \in Nat
  PROVE  At(k) \in Slots
<1>1. SlotCount \in Nat \ {0} /\ hand \in Nat
  BY FeederAssumption DEF Slots
<1> QED
  BY <1>1 DEF At, Slots

LEMMA VictimStep ==
  ASSUME FeederInv, Victim
  PROVE  FeederInv'
<1>1. /\ UNCHANGED <<channel, store, dirty, req, move, seam, table, drive, drive_ro, files>>
      /\ UNCHANGED <<want, ret, todo, rec>> /\ pc = "victim"
  BY Zenon DEF Victim
<1>2. \/ pc' = "scan" /\ UNCHANGED <<s, hand>>
      \/ pc' = "check" /\ \E k \in 0 .. 2 * SlotCount : s' = At(k) /\ hand' = At(k + 1)
  BY Zenon DEF Victim
<1>3. move' = -1 /\ pc' \in Fresh /\ pc' \in Calm
  BY <1>1, <1>2, OwnFacts, Zenon DEF Fresh, Calm
<1>4. ReadInv'
  BY <1>3, ReadFresh, Zenon
<1>5. req # None /\ req = want'
  BY <1>1, OwnFacts, Zenon DEF Answering
<1>6. s' \in Slots /\ hand' \in Slots
  <2>1. \A k \in 0 .. 2 * SlotCount : k \in Nat /\ k + 1 \in Nat
    BY FeederAssumption
  <2> QED
    BY <1>2, <2>1, OwnFacts, AtSlot, Zenon
<1> QED
  BY <1>1, <1>3, <1>4, <1>5, <1>6, OwnFacts, OwnStep, Zenon

LEMMA CheckStep ==
  ASSUME FeederInv, Check
  PROVE  FeederInv'
<1>1. /\ UNCHANGED <<channel, store, dirty, req, move, seam, table, drive, drive_ro, files>>
      /\ UNCHANGED <<want, s, todo, hand, rec>> /\ pc = "check"
      /\ \/ dirty[s] = 1 /\ pc' = "writeback" /\ ret' = "serve"
         \/ dirty[s] # 1 /\ pc' = "serve" /\ ret' = ret
  BY Zenon DEF Check, face
<1>2. dirty[s] \in Bits /\ s \in Slots
  BY Zenon DEF FeederInv, KindInv
<1>3. pc' \in Calm /\ ret' \in {"serve", "drain"} /\ move' = -1
  BY <1>1, OwnFacts, Zenon DEF Calm, Backs
<1>4. ReadInv'
  BY <1>1, <1>2, <1>3, Zenon DEF ReadInv, Draining, Backs
<1>5. req # None /\ req = want'
  BY <1>1, OwnFacts, Zenon DEF Answering
<1> QED
  BY <1>1, <1>3, <1>4, <1>5, OwnFacts, OwnStep, Zenon

\* The block asked for is in no slot, and so the pack has its words.
LEMMA ServeStep ==
  ASSUME FeederInv, Serve
  PROVE  FeederInv'
<1>1. /\ UNCHANGED <<channel, store, dirty, req, move, seam, table, drive, drive_ro, files>>
      /\ UNCHANGED <<want, s, ret, todo, hand>> /\ pc = "serve"
  BY Zenon DEF Serve, face
<1>2. pc' = "fetch" /\ rec' = pack[want]
  BY OwnFacts, Zenon DEF Serve
<1>3. req # None /\ req = want /\ want \in Blocks /\ \A k \in Slots : tag[k] # want
  BY <1>1, OwnFacts, Zenon DEF Answering
<1>4. pack[want] \in latest[want] /\ dirty[s] = 0
  BY <1>1, <1>3, Zenon DEF FeederInv, HeldInv, ReadInv
<1>5. move' = -1 /\ latest' = latest
  BY <1>1, OwnFacts, Zenon DEF channel
<1>6. ReadInv'
  BY <1>1, <1>2, <1>4, <1>5, Zenon DEF ReadInv, Draining, Backs
<1>7. pc' \in Calm
  BY <1>2, Zenon DEF Calm
<1>8. rec' \in Nat
  BY <1>2, <1>3, Zenon DEF FeederInv, KindInv
<1> QED
  BY <1>1, <1>3, <1>6, <1>7, <1>8, OwnFacts, OwnStep, Zenon

LEMMA ReadDirtyStep ==
  ASSUME FeederInv, ReadDirty
  PROVE  FeederInv'
<1>1. /\ UNCHANGED <<channel, store, dirty, req, move, seam, table, drive, drive_ro, files>>
      /\ UNCHANGED <<want, s, ret, hand, rec>> /\ pc = "dirty" /\ pc' = "drain" /\ todo' = IsDirty
  BY Zenon DEF ReadDirty, face
<1>2. todo' \subseteq Slots /\ \A k \in todo' : dirty[k] = 1
  BY <1>1, Zenon DEF IsDirty
<1>3. move' = -1 /\ pc' \in Calm /\ ~Answering'
  BY <1>1, OwnFacts, Zenon DEF Calm, Answering, Backs
<1>4. ReadInv'
  BY <1>1, <1>2, <1>3, Zenon DEF ReadInv, Backs
<1> QED
  BY <1>1, <1>2, <1>3, <1>4, OwnFacts, OwnStep, Zenon

\* The lowest slot of a set is one of the set.
LEMMA FirstOfSlots ==
  ASSUME NEW S, S \subseteq Slots, S # {}
  PROVE  First(S) \in S
<1>1. S \subseteq Nat
  BY DEF Slots
<1>2. ASSUME NEW j \in Nat, NEW k \in Nat, j < k
      PROVE  <<j, k>> \in OpToRel(<, Nat)
  BY <1>2, Zenon DEF OpToRel
<1>3. \E k \in S : \A j \in S : ~(<<j, k>> \in OpToRel(<, Nat))
  BY <1>1, NatLessThanWellFounded, WFMin, Zenon
<1>4. \E k \in S : \A j \in S : ~(j < k)
  BY <1>1, <1>2, <1>3, Zenon
<1>5. \E k \in S : \A j \in S : k <= j
  BY <1>1, <1>4
<1> QED
  BY <1>5, Zenon DEF First

LEMMA DrainStep ==
  ASSUME FeederInv, Drain
  PROVE  FeederInv'
<1> DEFINE known == {k \in todo : table[k] # None}
<1>1. /\ UNCHANGED <<channel, store, dirty, req, move, seam, table, drive, drive_ro, files>>
      /\ UNCHANGED <<want, hand, rec>> /\ pc = "drain"
      /\ \/ known = {} /\ pc' = "scan" /\ todo' = {} /\ UNCHANGED <<s, ret>>
         \/ /\ known # {} /\ s' = First(known) /\ todo' = todo \ {First(known)}
            /\ pc' = "writeback" /\ ret' = "drain"
  BY Zenon DEF Drain, face
<1>2. /\ todo \subseteq Slots /\ move' = -1 /\ s \in Slots /\ ret \in {"serve", "drain"}
      /\ \A k \in todo : dirty[k] = 1
  <2>1. \A k \in todo : dirty[k] = 1
    BY <1>1, Zenon DEF FeederInv, ReadInv, Draining
  <2> QED
    BY <1>1, <2>1, OwnFacts, Zenon
<1>3. known # {} => First(known) \in known
  BY <1>2, FirstOfSlots, Zenon
<1>4. /\ todo' \subseteq Slots /\ s' \in Slots /\ ret' \in {"serve", "drain"} /\ pc' \in Calm
      /\ \A k \in todo' : dirty[k] = 1
      /\ pc' \in Backs => pc' = "writeback" /\ ret' = "drain" /\ dirty[s'] = 1 /\ s' \notin todo'
      /\ pc' \in {"scan", "writeback"}
  BY <1>1, <1>2, <1>3, Zenon DEF Calm, Backs
<1>5. ReadInv'
  BY <1>1, <1>2, <1>4, Zenon DEF ReadInv, Draining, Backs
<1>6. ~Answering'
  BY <1>4, Zenon DEF Answering, Backs
<1> QED
  BY <1>1, <1>4, <1>5, <1>6, OwnFacts, OwnStep, Zenon

\* The bay has nothing to say of a pack that stays.
LEMMA ScanStep ==
  ASSUME FeederInv, Scan
  PROVE  FeederInv'
<1>1. /\ UNCHANGED <<channel, store, dirty, req, move, seam, table, files>>
      /\ UNCHANGED <<want, s, ret, todo, hand, rec>> /\ pc = "scan"
  BY Zenon DEF Scan, face
<1>2. pc' = "poll" /\ UNCHANGED <<drive, drive_ro>>
  BY OwnFacts DEF Scan
<1>3. move' = -1 /\ pc' \in Fresh /\ pc' \in Calm /\ ~Answering'
  BY <1>1, <1>2, OwnFacts, Zenon DEF Fresh, Calm, Answering, Backs
<1>4. ReadInv'
  BY <1>3, ReadFresh, Zenon
<1> QED
  BY <1>1, <1>2, <1>3, <1>4, OwnFacts, OwnStep, Zenon

\* The slot fetched into is clean, and nobody is on it: what it held is on the
\* pack.
LEMMA FetchStep ==
  ASSUME FeederInv, Fetch
  PROVE  FeederInv'
<1>1. /\ UNCHANGED <<walk, blk, left, ch_slot, wrote, latest, words, req>>
      /\ UNCHANGED <<want, s, ret, todo, rec, table, hand, drive, drive_ro>>
      /\ UNCHANGED <<pack, named, mark, world>> /\ pc = "fetch"
  BY Zenon DEF Fetch, channel, files
<1>2. req # None /\ req = want /\ walk = "wait" /\ want = blk /\ \A k \in Slots : tag[k] # blk
  BY <1>1, OwnFacts, Zenon DEF Answering
<1>3. /\ pc' = "landed" /\ move' = s
      /\ tag' = [tag EXCEPT ![s] = None] /\ dirty' = [dirty EXCEPT ![s] = 0]
  BY <1>2, Zenon DEF Fetch, refuse
<1>4. StillInv /\ KindInv /\ HeldInv /\ AskedInv /\ ReadInv
  BY Zenon DEF FeederInv
<1>5. StillInv'
  <2>1. pc' \in Calm
    BY <1>3, Zenon DEF Calm
  <2> QED
    BY <1>1, <1>4, <2>1, OwnFacts, StillKept, Zenon
<1>6. KindInv'
  <2>1. tag' \in [Slots -> Blocks \cup {None}] /\ dirty' \in [Slots -> Bits]
    BY <1>3, <1>4, Zenon DEF KindInv
  <2> QED
    BY <1>1, <1>4, <2>1, Zenon DEF KindInv
<1>7. /\ s \in Slots /\ tag'[s] = None /\ dirty'[s] = 0 /\ dirty[s] = 0
      /\ \A k \in Slots : k # s => tag'[k] = tag[k] /\ dirty'[k] = dirty[k]
  BY <1>1, <1>3, <1>4, Zenon DEF KindInv, ReadInv
<1>8. HeldInv'
  <2>1. \A j, k \in Slots : tag'[j] # None /\ tag'[j] = tag'[k] => j = k
    <3>1. \A j, k \in Slots : tag[j] # None /\ tag[j] = tag[k] => j = k
      BY <1>4, Zenon DEF HeldInv
    <3> QED
      BY <1>7, <3>1, Zenon
  <2>2. ASSUME NEW k \in Slots, tag'[k] # None
        PROVE  /\ table[k] = tag'[k] /\ words[k] \in latest[tag'[k]]
               /\ dirty'[k] = 1 \/ pack[tag'[k]] \in latest[tag'[k]]
    <3>1. k # s /\ tag'[k] = tag[k] /\ dirty'[k] = dirty[k]
      BY <1>7, <2>2, Zenon
    <3>2. /\ table[k] = tag[k] /\ words[k] \in latest[tag[k]]
          /\ dirty[k] = 1 \/ pack[tag[k]] \in latest[tag[k]]
      BY <1>4, <2>2, <3>1, Zenon DEF HeldInv
    <3> QED
      BY <3>1, <3>2, Zenon
  <2>3. \A k \in Slots : dirty'[k] = 1 => tag'[k] # None
    BY <1>4, <1>7 DEF HeldInv
  <2>4. ASSUME NEW b \in Blocks, \A k \in Slots : tag'[k] # b
        PROVE  pack[b] \in latest[b]
    <3>1. CASE tag[s] = b
      <4>1. dirty[s] # 1 /\ pc \notin {"moved", "commit"} /\ tag[s] # None
        BY <1>1, <1>7, <3>1 DEF Blocks
      <4> QED
        BY <1>4, <1>7, <3>1, <4>1, Zenon DEF HeldInv
    <3>2. CASE tag[s] # b
      <4>1. \A k \in Slots : tag[k] # b
        BY <1>7, <2>4, <3>2, Zenon
      <4> QED
        BY <1>4, <4>1, Zenon DEF HeldInv
    <3> QED
      BY <3>1, <3>2, Zenon
  <2> QED
    BY <1>1, <2>1, <2>2, <2>3, <2>4, Zenon DEF HeldInv
<1>9. AskedInv'
  <2>1. \A k \in Slots : tag'[k] # blk
    BY <1>2, <1>7, Zenon
  <2> QED
    BY <1>1, <1>2, <2>1, Zenon DEF AskedInv
<1>10. ReadInv'
  <2>1. rec \in latest[want]
    BY <1>1, <1>4, Zenon DEF ReadInv
  <2> QED
    BY <1>1, <1>3, <1>7, <2>1, Zenon DEF ReadInv, Draining, Backs
<1> QED
  BY <1>5, <1>6, <1>8, <1>9, <1>10, Zenon DEF FeederInv

\* The block asked for lands in one slot, and no other has it.
LEMMA LandedStep ==
  ASSUME FeederInv, Landed
  PROVE  FeederInv'
<1>1. /\ UNCHANGED <<walk, blk, left, ch_slot, wrote, latest, dirty>>
      /\ UNCHANGED <<want, s, ret, todo, rec, hand, drive, drive_ro>>
      /\ UNCHANGED <<pack, named, mark, world>> /\ pc = "landed" /\ pc' = "dirty" /\ move' = -1
  BY Zenon DEF Landed, channel, files
<1>2. /\ req # None /\ req = want /\ walk = "wait" /\ want = blk /\ want \in Blocks
      /\ \A k \in Slots : tag[k] # want
  BY <1>1, OwnFacts, Zenon DEF Answering
<1>3. StillInv /\ KindInv /\ HeldInv /\ AskedInv /\ ReadInv
  BY Zenon DEF FeederInv
<1>4. StillInv'
  <2>1. pc' \in Calm
    BY <1>1, Zenon DEF Calm
  <2> QED
    BY <1>1, <1>3, <2>1, OwnFacts, StillKept, Zenon
<1>5. KindInv'
  <2>1. tag' \in [Slots -> Blocks \cup {None}] /\ words' \in [Slots -> Nat]
    BY <1>2, <1>3, Zenon DEF KindInv, Landed
  <2>2. table' \in [Slots -> Blocks \cup {None}]
    BY <1>2, <1>3, Zenon DEF KindInv, Landed
  <2> QED
    BY <1>1, <1>3, <2>1, <2>2, Zenon DEF KindInv
<1>6. /\ s \in Slots /\ tag'[s] = want /\ words'[s] = rec /\ table'[s] = want
      /\ \A k \in Slots : k # s => /\ tag'[k] = tag[k] /\ words'[k] = words[k]
                                   /\ table[k] # want => table'[k] = table[k]
      /\ req' = None
  BY <1>2, <1>3, Zenon DEF KindInv, Landed, Cleared
<1>7. HeldInv'
  <2>1. \A j, k \in Slots : tag'[j] # None /\ tag'[j] = tag'[k] => j = k
    <3>1. \A j, k \in Slots : tag[j] # None /\ tag[j] = tag[k] => j = k
      BY <1>3, Zenon DEF HeldInv
    <3> QED
      BY <1>2, <1>6, <3>1, Zenon
  <2>2. rec \in latest[want] /\ pack[want] \in latest[want] /\ dirty[s] = 0 /\ tag[s] = None
    BY <1>1, <1>2, <1>3, Zenon DEF HeldInv, ReadInv
  <2>3. ASSUME NEW k \in Slots, tag'[k] # None
        PROVE  /\ table'[k] = tag'[k] /\ words'[k] \in latest[tag'[k]]
               /\ dirty[k] = 1 \/ pack[tag'[k]] \in latest[tag'[k]]
    <3>1. CASE k = s
      BY <1>6, <2>2, <3>1, Zenon
    <3>2. CASE k # s
      <4>1. tag'[k] = tag[k] /\ words'[k] = words[k]
        BY <1>6, <3>2, Zenon
      <4>2. /\ table[k] = tag[k] /\ words[k] \in latest[tag[k]]
            /\ dirty[k] = 1 \/ pack[tag[k]] \in latest[tag[k]]
        BY <1>1, <1>3, <2>3, <4>1, Zenon DEF HeldInv
      <4>3. table'[k] = table[k]
        BY <1>2, <1>6, <3>2, <4>2, Zenon
      <4> QED
        BY <4>1, <4>2, <4>3, Zenon
    <3> QED
      BY <3>1, <3>2, Zenon
  <2>4. \A k \in Slots : dirty[k] = 1 => tag'[k] # None
    BY <1>3, <1>6, <2>2, Zenon DEF HeldInv
  <2>5. ASSUME NEW b \in Blocks, \A k \in Slots : tag'[k] # b
        PROVE  pack[b] \in latest[b]
    <3>1. \A k \in Slots : tag[k] # b
      <4>1. b # None
        BY DEF Blocks, None
      <4> QED
        BY <1>6, <2>2, <2>5, <4>1, Zenon
    <3> QED
      BY <1>3, <3>1, Zenon DEF HeldInv
  <2> QED
    BY <1>1, <2>1, <2>3, <2>4, <2>5, Zenon DEF HeldInv
<1>8. AskedInv'
  BY <1>1, <1>2, <1>6, Zenon DEF AskedInv, Answering, Backs
<1>9. ReadInv'
  BY <1>1, ReadFresh, Zenon DEF Fresh
<1> QED
  BY <1>4, <1>5, <1>7, <1>8, <1>9, Zenon DEF FeederInv

\* A dirty slot is one the table knows; its words are moved off it unless the
\* walk is on it.
LEMMA WriteBackStep ==
  ASSUME FeederInv, WriteBack
  PROVE  FeederInv'
<1>1. /\ UNCHANGED <<channel, store, req, seam, table, drive, drive_ro, files>>
      /\ UNCHANGED <<want, s, ret, todo, rec, hand>> /\ pc = "writeback"
  BY Zenon DEF WriteBack
<1>2. StillInv /\ KindInv /\ HeldInv /\ AskedInv /\ ReadInv
  BY Zenon DEF FeederInv
<1>3. s \in Slots /\ dirty[s] = 1 /\ tag[s] # None /\ table[s] # None
  BY <1>1, <1>2, OwnFacts, Zenon DEF HeldInv, ReadInv
<1>4. \/ refuse(s) /\ Return("walk") /\ UNCHANGED <<dirty, move>>
      \/ ~refuse(s) /\ pc' = "moved" /\ move' = s /\ dirty' = [dirty EXCEPT ![s] = 0]
  <2>1. ~(table[s] = None \/ drive = 0)
    BY <1>3, OwnFacts
  <2> QED
    BY <2>1, Zenon DEF WriteBack
<1>5. CASE refuse(s) /\ Return("walk") /\ UNCHANGED <<dirty, move>>
  <2>1. ret = "drain"
    <3>1. walk # "wait"
      BY <1>5, Zenon DEF refuse
    <3> QED
      BY <1>1, <3>1, OwnFacts, Zenon DEF Answering, Backs
  <2>2. pc' = "drain" /\ pc' \in Calm
    BY <1>5, <2>1, Zenon DEF Return, Calm
  <2>3. ReadInv'
    <3>1. move' = -1 /\ \A k \in todo : dirty[k] = 1
      BY <1>1, <1>2, <1>5, <2>1, OwnFacts, Zenon DEF ReadInv, Draining, Backs
    <3> QED
      BY <1>1, <1>5, <2>2, <3>1, Zenon DEF ReadInv, Backs
  <2>4. ~Answering'
    BY <2>2, Zenon DEF Answering, Backs
  <2> QED
    BY <1>1, <1>5, <2>2, <2>3, <2>4, OwnFacts, OwnStep, Zenon
<1>6. CASE ~refuse(s) /\ pc' = "moved" /\ move' = s /\ dirty' = [dirty EXCEPT ![s] = 0]
  <2>1. /\ UNCHANGED <<walk, blk, left, ch_slot, wrote, latest, tag, words>>
        /\ UNCHANGED <<pack, named, mark, world>>
    BY <1>1, Zenon DEF channel, store, files
  <2>2. StillInv'
    <3>1. pc' \in Calm
      BY <1>6, Zenon DEF Calm, Backs
    <3> QED
      BY <1>1, <1>2, <2>1, <3>1, OwnFacts, StillKept, Zenon
  <2>3. KindInv'
    <3>1. dirty' \in [Slots -> Bits]
      BY <1>2, <1>6, Zenon DEF KindInv
    <3> QED
      BY <1>1, <1>2, <2>1, <3>1, Zenon DEF KindInv
  <2>4. dirty'[s] = 0 /\ \A k \in Slots : k # s => dirty'[k] = dirty[k]
    BY <1>2, <1>3, <1>6, Zenon DEF KindInv
  <2>5. HeldInv'
    <3>1. \A j, k \in Slots : tag[j] # None /\ tag[j] = tag[k] => j = k
      BY <1>2, Zenon DEF HeldInv
    <3>2. ASSUME NEW k \in Slots, tag[k] # None
          PROVE  /\ table[k] = tag[k] /\ words[k] \in latest[tag[k]]
                 /\ dirty'[k] = 1 \/ pack[tag[k]] \in latest[tag[k]] \/ s = k
      <4>1. /\ table[k] = tag[k] /\ words[k] \in latest[tag[k]]
            /\ dirty[k] = 1 \/ pack[tag[k]] \in latest[tag[k]] \/ s = k
        BY <1>2, <3>2, Zenon DEF HeldInv
      <4> QED
        BY <2>4, <4>1, Zenon
    <3>3. \A k \in Slots : dirty'[k] = 1 => tag[k] # None
      <4>1. \A k \in Slots : dirty[k] = 1 => tag[k] # None
        BY <1>2, Zenon DEF HeldInv
      <4> QED
        BY <1>3, <2>4, <4>1, Zenon
    <3>4. \A b \in Blocks : (\A k \in Slots : tag[k] # b) => pack[b] \in latest[b]
      BY <1>2, Zenon DEF HeldInv
    <3> QED
      BY <1>1, <1>6, <2>1, <3>1, <3>2, <3>3, <3>4, Zenon DEF HeldInv
  <2>6. AskedInv'
    <3>1. walk = "on" => ch_slot # s
      BY <1>6, Zenon DEF refuse
    <3>2. Answering' => Answering
      BY <1>1, <1>6, Zenon DEF Answering, Backs
    <3> QED
      BY <1>1, <1>2, <1>6, <2>1, <3>1, <3>2, Zenon DEF AskedInv
  <2>7. ReadInv'
    <3>1. ret = "drain" => s \notin todo /\ \A k \in todo : dirty[k] = 1
      BY <1>1, <1>2, Zenon DEF ReadInv, Draining, Backs
    <3>2. todo \subseteq Slots
      BY OwnFacts, Zenon
    <3>3. ret = "drain" => \A k \in todo : dirty'[k] = 1
      BY <2>4, <3>1, <3>2, Zenon
    <3> QED
      BY <1>1, <1>3, <1>6, <2>1, <2>4, <3>1, <3>3, Zenon DEF ReadInv, Draining, Backs
  <2> QED
    BY <2>2, <2>3, <2>5, <2>6, <2>7, Zenon DEF FeederInv
<1> QED
  BY <1>4, <1>5, <1>6, Zenon

LEMMA MovedStep ==
  ASSUME FeederInv, Moved
  PROVE  FeederInv'
<1>1. /\ UNCHANGED <<walk, blk, left, ch_slot, wrote, latest, tag, words, dirty, req>>
      /\ UNCHANGED <<want, s, ret, todo, table, hand, drive, drive_ro>>
      /\ UNCHANGED <<pack, named, mark, world>>
      /\ pc = "moved" /\ pc' = "commit" /\ rec' = words[s] /\ move' = -1
  BY Zenon DEF Moved, channel, store, files
<1>2. StillInv /\ KindInv /\ HeldInv /\ AskedInv /\ ReadInv
  BY Zenon DEF FeederInv
<1>3. /\ s \in Slots /\ dirty[s] = 0 /\ tag[s] # None /\ words[s] \in latest[tag[s]]
  BY <1>1, <1>2, OwnFacts, Zenon DEF HeldInv, ReadInv
<1>4. StillInv'
  <2>1. pc' \in Calm
    BY <1>1, Zenon DEF Calm, Backs
  <2> QED
    BY <1>1, <1>2, <2>1, OwnFacts, StillKept, Zenon
<1>5. KindInv'
  <2>1. rec' \in Nat
    BY <1>1, <1>2, <1>3, Zenon DEF KindInv
  <2> QED
    BY <1>1, <1>2, <2>1, OwnFacts, KindKept, Zenon
<1>6. HeldInv'
  BY <1>1, <1>2, Zenon DEF HeldInv
<1>7. AskedInv'
  <2>1. Answering' => Answering
    BY <1>1, Zenon DEF Answering, Backs
  <2>2. ch_slot \in Slots /\ move' \notin Slots
    BY <1>1, <1>2 DEF KindInv, Slots
  <2>3. walk = "on" => ch_slot # move'
    BY <2>2, Zenon
  <2> QED
    BY <1>1, <1>2, <2>1, <2>3, Zenon DEF AskedInv
<1>8. ReadInv'
  <2>1. ret = "drain" => s \notin todo /\ \A k \in todo : dirty[k] = 1
    BY <1>1, <1>2, Zenon DEF ReadInv, Draining, Backs
  <2> QED
    BY <1>1, <1>3, <2>1, Zenon DEF ReadInv, Draining, Backs
<1> QED
  BY <1>4, <1>5, <1>6, <1>7, <1>8, Zenon DEF FeederInv

\* The pack takes what was moved.  The slot is clean and these are its words,
\* or the CADR has written it again and it is dirty.
LEMMA CommitStep ==
  ASSUME FeederInv, Commit
  PROVE  FeederInv'
<1>1. /\ UNCHANGED <<walk, blk, left, ch_slot, wrote, latest, tag, words, dirty, req, move>>
      /\ UNCHANGED <<want, s, ret, todo, rec, table, hand, drive, drive_ro>>
      /\ UNCHANGED <<named, mark, world>> /\ pc = "commit"
  BY Zenon DEF Commit, channel, store, face
<1>2. pack' = [pack EXCEPT ![table[s]] = rec] /\ pc' = IF ret = "serve" THEN "serve" ELSE "drain"
  BY OwnFacts DEF Commit, Return
<1>3. StillInv /\ KindInv /\ HeldInv /\ AskedInv /\ ReadInv
  BY Zenon DEF FeederInv
<1>4. /\ s \in Slots /\ tag[s] # None /\ table[s] = tag[s]
      /\ dirty[s] = 0 => rec \in latest[tag[s]]
      /\ ret = "serve" => dirty[s] = 0
  BY <1>1, <1>3, OwnFacts, Zenon DEF HeldInv, ReadInv
<1>5. StillInv'
  <2>1. pc' \in Calm
    BY <1>2, Zenon DEF Calm
  <2> QED
    BY <1>1, <1>3, <2>1, OwnFacts, StillKept, Zenon
<1>6. /\ tag[s] \in Blocks /\ dirty[s] \in Bits /\ pack'[tag[s]] = rec
      /\ \A b \in Blocks : b # tag[s] => pack'[b] = pack[b]
  BY <1>2, <1>3, <1>4, Zenon DEF KindInv
<1>7. HeldInv'
  <2>1. \A j, k \in Slots : tag[j] # None /\ tag[j] = tag[k] => j = k
    BY <1>3, Zenon DEF HeldInv
  <2>2. ASSUME NEW k \in Slots, tag[k] # None
        PROVE  /\ table[k] = tag[k] /\ words[k] \in latest[tag[k]]
               /\ dirty[k] = 1 \/ pack'[tag[k]] \in latest[tag[k]]
    <3>1. /\ table[k] = tag[k] /\ words[k] \in latest[tag[k]]
          /\ dirty[k] = 1 \/ pack[tag[k]] \in latest[tag[k]] \/ s = k
      BY <1>3, <2>2, Zenon DEF HeldInv
    <3>2. CASE k = s
      BY <1>4, <1>6, <3>1, <3>2, Zenon
    <3>3. CASE k # s
      <4>1. tag[k] # tag[s] /\ tag[k] \in Blocks
        BY <1>3, <1>4, <2>1, <2>2, <3>3, Zenon DEF KindInv
      <4> QED
        BY <1>6, <3>1, <3>3, <4>1, Zenon
    <3> QED
      BY <3>2, <3>3, Zenon
  <2>3. \A k \in Slots : dirty[k] = 1 => tag[k] # None
    BY <1>3, Zenon DEF HeldInv
  <2>4. ASSUME NEW b \in Blocks, \A k \in Slots : tag[k] # b
        PROVE  pack'[b] \in latest[b]
    <3>1. b # tag[s] /\ pack[b] \in latest[b]
      BY <1>3, <1>4, <2>4, Zenon DEF HeldInv
    <3> QED
      BY <1>6, <3>1, Zenon
  <2> QED
    BY <1>1, <2>1, <2>2, <2>3, <2>4, Zenon DEF HeldInv
<1>8. KindInv'
  <2>1. pack' \in [Blocks -> Nat]
    BY <1>2, <1>3, <1>6, Zenon DEF KindInv
  <2> QED
    BY <1>1, <1>3, <2>1, Zenon DEF KindInv
<1>9. AskedInv'
  <2>1. Answering' => Answering
    BY <1>1, <1>2, Zenon DEF Answering, Backs
  <2> QED
    BY <1>1, <1>3, <2>1, OwnFacts, AskedKept, Zenon
<1>10. ReadInv'
  <2>1. move' = -1 /\ (ret # "serve" => \A k \in todo : dirty[k] = 1)
    BY <1>1, <1>3, OwnFacts, Zenon DEF ReadInv, Draining, Backs
  <2> QED
    BY <1>1, <1>2, <1>4, <2>1, Zenon DEF ReadInv, Draining, Backs
<1> QED
  BY <1>5, <1>7, <1>8, <1>9, <1>10, Zenon DEF FeederInv

-----------------------------------------------------------------------------
(* The invariant.                                                          *)

LEMMA FeederInit ==
  ASSUME Init, Undisturbed
  PROVE  FeederInv
<1>1. StillInv
  BY Zenon DEF Init, StillInv, Calm
<1>2. KindInv
  <2>1. 0 \in Slots /\ 1 \in Blocks /\ 0 \in Nat
    BY FeederAssumption DEF Slots, Blocks
  <2>2. /\ tag \in [Slots -> Blocks \cup {None}] /\ table \in [Slots -> Blocks \cup {None}]
        /\ words \in [Slots -> Nat] /\ dirty \in [Slots -> Bits] /\ pack \in [Blocks -> Nat]
        /\ latest \in [Blocks -> SUBSET Nat]
    BY DEF Init
  <2>3. /\ walk = "idle" /\ blk = 1 /\ want = None /\ ch_slot = 0 /\ s = 0 /\ hand = 0 /\ todo = {}
        /\ wrote = 0 /\ rec = 0
    BY Zenon DEF Init
  <2> QED
    BY <2>1, <2>2, <2>3, Zenon DEF KindInv
<1>3. HeldInv
  <2>1. \A k \in Slots : tag[k] = None /\ dirty[k] = 0
    BY Zenon DEF Init
  <2>2. \A b \in Blocks : pack[b] \in latest[b]
    BY Zenon DEF Init
  <2> QED
    BY <2>1, <2>2 DEF HeldInv
<1>4. req = None /\ walk = "idle" /\ pc = "poll" /\ move = -1
  BY Zenon DEF Init
<1>5. AskedInv
  BY <1>4, Zenon DEF AskedInv, Answering, Backs
<1>6. ReadInv
  BY <1>4, Zenon DEF ReadInv, Draining, Backs
<1> QED
  BY <1>1, <1>2, <1>3, <1>5, <1>6, Zenon DEF FeederInv

LEMMA FeederNext ==
  ASSUME FeederInv, [Next]_vars
  PROVE  FeederInv'
<1>1. world.events = {} /\ left = 0 /\ pc \in Calm
  BY Zenon DEF FeederInv, StillInv, Undisturbed
<1>2. CASE Start
  BY <1>2, StartStep, Zenon
<1>3. CASE Stop
  BY <1>1, <1>3, Zenon DEF Stop
<1>4. CASE Bay
  BY <1>1, <1>4, Zenon DEF Bay
<1>5. CASE Look
  BY <1>5, LookStep, Zenon
<1>6. CASE Prefetch
  BY <1>1, <1>6 DEF Prefetch
<1>7. CASE Finish
  BY <1>7, FinishStep, Zenon
<1>8. CASE ReadRequest \/ Deny \/ Victim \/ Check \/ Serve
  BY <1>8, ReadRequestStep, DenyStep, VictimStep, CheckStep, ServeStep, Zenon
<1>9. CASE Fetch \/ Landed \/ WriteBack \/ Moved \/ Commit
  BY <1>9, FetchStep, LandedStep, WriteBackStep, MovedStep, CommitStep, Zenon
<1>10. CASE ReadDirty \/ Drain \/ Scan
  BY <1>10, ReadDirtyStep, DrainStep, ScanStep, Zenon
<1>11. CASE Flush \/ Flushing \/ Reopen \/ Owed \/ Take \/ Seam
  <2>1. pc \in {"flush", "flushing", "reopen", "owed", "take", "seam"}
    BY <1>11, Zenon DEF Flush, Flushing, Reopen, Owed, Take, Seam
  <2> QED
    BY <1>1, <2>1, Zenon DEF Calm, Backs
<1>12. CASE UNCHANGED vars
  <2>1. /\ UNCHANGED <<walk, blk, left, ch_slot, wrote, latest, tag, words, dirty, req, move>>
        /\ UNCHANGED <<pc, want, s, ret, todo, rec, table, hand, drive, drive_ro>>
        /\ UNCHANGED <<pack, named, mark, world>>
    BY <1>12, Zenon DEF vars, channel, store, face, linux, files
  <2>2. StillInv /\ KindInv /\ HeldInv /\ AskedInv /\ ReadInv
    BY Zenon DEF FeederInv
  <2>3. HeldInv' /\ ReadInv'
    BY <2>1, <2>2, Stands, Zenon
  <2>4. StillInv' /\ KindInv'
    BY <2>1, <2>2, Zenon DEF StillInv, Undisturbed, KindInv
  <2>5. AskedInv'
    BY <2>1, <2>2, Zenon DEF AskedInv, Answering
  <2> QED
    BY <2>3, <2>4, <2>5, Zenon DEF FeederInv
<1> QED
  BY <1>2, <1>3, <1>4, <1>5, <1>6, <1>7, <1>8, <1>9, <1>10, <1>11, <1>12, Zenon DEF Next, Channel, Linux

\* The world never changes.
LEMMA WorldStands ==
  ASSUME [Next]_vars
  PROVE  world' = world
<1>1. CASE Start \/ Stop \/ Bay \/ Channel
  BY <1>1, Zenon DEF Start, Stop, Bay, Channel, Look, Prefetch, Finish, files
<1>2. CASE ReadRequest \/ Deny \/ Victim \/ Check \/ Serve \/ Fetch \/ Landed
  BY <1>2, Zenon DEF ReadRequest, Deny, Victim, Check, Serve, Fetch, Landed, files
<1>3. CASE WriteBack \/ Moved \/ Commit \/ ReadDirty \/ Drain \/ Scan
  BY <1>3, Zenon DEF WriteBack, Moved, Commit, ReadDirty, Drain, Scan, files
<1>4. CASE Flush \/ Flushing \/ Reopen \/ Owed \/ Take \/ Seam
  BY <1>4, Zenon DEF Flush, Flushing, Reopen, Owed, Take, Seam, files
<1>5. CASE UNCHANGED vars
  BY <1>5, Zenon DEF vars, files
<1> QED
  BY <1>1, <1>2, <1>3, <1>4, <1>5, Zenon DEF Next, Linux

\* In a world that leaves the pack alone, whatever its size and however long
\* it runs, the two sides stay as near each other as FeederInv says.
THEOREM FeederInvariant == Spec => []FeederHolds
<1>1. Init => FeederHolds
  BY FeederInit, Zenon DEF FeederHolds
<1>2. FeederHolds /\ [Next]_vars => FeederHolds'
  <2> SUFFICES ASSUME FeederHolds, [Next]_vars, Undisturbed'
               PROVE  FeederInv'
    BY Zenon DEF FeederHolds
  <2>1. Undisturbed
    BY WorldStands, Zenon DEF Undisturbed
  <2> QED
    BY <2>1, FeederNext, Zenon DEF FeederHolds
<1> QED
  BY <1>1, <1>2, PTL DEF Spec

\* pack_feeder.c loses no write of the CADR: feeder_writeback comes before
\* every fetch into a slot that is dirty, and what is neither on the pack nor
\* in a dirty slot that slot_lba knows is in its hands.
THEOREM NoWriteIsLost == Spec => []NothingLostSingly
<1>1. FeederInv => NothingLost
  <2> SUFFICES ASSUME FeederInv, NEW b \in Blocks
               PROVE  \/ pack[b] \in latest[b] \/ b \in reported \/ InFlight(b)
                      \/ \E k \in Slots : /\ tag[k] = b /\ table[k] = b /\ dirty[k] = 1
                                          /\ words[k] \in latest[b]
    BY Zenon DEF NothingLost
  <2>1. HeldInv /\ ReadInv
    BY Zenon DEF FeederInv
  <2>2. CASE \A k \in Slots : tag[k] # b
    BY <2>1, <2>2, Zenon DEF HeldInv
  <2>3. ASSUME NEW k \in Slots, tag[k] = b
        PROVE  \/ pack[b] \in latest[b] \/ InFlight(b)
               \/ table[k] = b /\ dirty[k] = 1 /\ words[k] \in latest[b]
    <3>1. b # None
      BY DEF Blocks
    <3>2. /\ table[k] = b /\ words[k] \in latest[b]
          /\ dirty[k] = 1 \/ pack[b] \in latest[b] \/ (pc \in {"moved", "commit"} /\ s = k)
      BY <2>1, <2>3, <3>1, Zenon DEF HeldInv
    <3>3. CASE pc \in {"moved", "commit"} /\ s = k /\ dirty[k] # 1
      <4>1. dirty[k] = 0
        BY <3>3, Zenon DEF FeederInv, KindInv
      <4>2. pc = "commit" => rec \in latest[b]
        BY <2>1, <2>3, <3>3, <4>1, Zenon DEF ReadInv
      <4> QED
        BY <3>2, <3>3, <4>2, Zenon DEF InFlight
    <3> QED
      BY <3>2, <3>3, Zenon
  <2> QED
    BY <2>2, <2>3, Zenon
<1>2. FeederHolds => NothingLostSingly
  BY <1>1, Zenon DEF FeederHolds, NothingLostSingly
<1> QED
  BY <1>2, FeederInvariant, PTL

\* However often a block went to the pack and came back, the walk that takes
\* its slot is on the words the CADR last wrote to it.
THEOREM WalkOnLatest == Spec => []WalkSeesLatest
<1>1. FeederInv /\ walk = "on" => tag[ch_slot] = blk /\ words[ch_slot] \in latest[blk]
  <2> SUFFICES ASSUME FeederInv, walk = "on"
               PROVE  tag[ch_slot] = blk /\ words[ch_slot] \in latest[blk]
    BY Zenon
  <2>1. tag[ch_slot] = blk /\ ch_slot \in Slots /\ blk \in Blocks
    BY Zenon DEF FeederInv, AskedInv, KindInv
  <2>2. tag[ch_slot] # None
    BY <2>1 DEF Blocks
  <2> QED
    BY <2>1, <2>2, Zenon DEF FeederInv, HeldInv
<1>2. FeederHolds => WalkSeesLatest
  BY <1>1, Zenon DEF FeederHolds, WalkSeesLatest
<1> QED
  BY <1>2, FeederInvariant, PTL

\* No block is in two slots, and slot_lba names the block of every slot that
\* holds one: serve_record forgets what the table said of the block elsewhere.
THEOREM EachBlockInOneSlot == Spec => []OneSlotEach
<1>1. FeederHolds => OneSlotEach
  BY Zenon DEF FeederHolds, FeederInv, HeldInv, OneSlotEach
<1> QED
  BY <1>1, FeederInvariant, PTL
=============================================================================
