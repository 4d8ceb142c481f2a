----------------------------- MODULE DiskFeeder -----------------------------
(***************************************************************************)
(* The disk pack program of Linux, pack_feeder.c: it answers the block the *)
(* CADR's channel asks for, puts back onto the pack what the CADR wrote    *)
(* and takes packs out of the drive bay, while the channel walks on.       *)
(*                                                                         *)
(* A step of Linux is one access of the pack side's register face, or one  *)
(* of the pack's file.  A step of the channel is a block found, asked for  *)
(* or finished.  What DiskStore shows to the tick is one step here: a move *)
(* is refused on the slot the walk is on, and the walk takes no slot a     *)
(* move is on.                                                             *)
(*                                                                         *)
(* What is abstracted: one drive; a block's words are the number of the    *)
(* write that laid them, 0 for the pack's first contents; the names, the   *)
(* tallies and the lines on the console; the record in DDR, whose poison   *)
(* only detects a move that moved nothing.                                 *)
(***************************************************************************)
EXTENDS Integers, FiniteSets

CONSTANTS
  SlotCount,    \* PS_SLOTS
  BlockCount,   \* the blocks of the largest pack
  WriteBound,   \* the most writes of the CADR, the bound of its words
  FlushPasses,  \* FEEDER_FLUSH_PASSES
  Worlds        \* what may happen around the program: the blocks of the
                \* pack, those of the longest command list, the writes of the
                \* CADR, the changes made to the bay, and the events: "stop",
                \* the channel's Reset; "fail", an access of the pack's file
                \* that fails; "rename", the pack renamed out of the bay and
                \* in again; "protect", its read-only mark set and cleared

ASSUME FeederAssumption ==
  /\ SlotCount \in Nat \ {0}
  /\ BlockCount \in Nat \ {0}
  /\ WriteBound \in Nat
  /\ FlushPasses \in Nat \ {0}
  /\ \A w \in Worlds :
       /\ w.blocks \in 1 .. BlockCount /\ w.list \in Nat \ {0}
       /\ w.writes \in 0 .. WriteBound /\ w.changes \in Nat
       /\ w.events \subseteq {"stop", "fail", "rename", "protect"}

Bits == {0, 1}
Slots == 0 .. SlotCount - 1
Blocks == 1 .. BlockCount
None == 0                      \* no block: slot_lba is -1
Words == 0 .. WriteBound

VARIABLES
  world,        \* the one of Worlds this is, which never changes
  \* the channel
  walk,         \* "idle", "look", "wait" or "on" a slot
  op,           \* "read" or "write"
  blk,          \* the block under the heads
  left,         \* the blocks of the command list after this one
  asked_next,   \* the prefetch of the next block has been decided
  ch_slot,      \* the slot the walk took last
  wrote,        \* the writes the CADR has made
  latest,       \* the words a Read of each block may give: the last finished
                \* Write's, and those of a Write stopped since
  \* the store and its face
  tag,          \* the block of each slot, None when it is not valid
  words,        \* the words of each slot
  dirty, ref,   \* DIRTY and REF
  req,          \* the block REQ names, None when it is not valid
  move,         \* the slot a move is on, or -1
  present, read_only,   \* the drive's bits of DRIVE
  \* Linux
  pc,           \* the next access
  want,         \* the block being answered
  s,            \* the slot at hand
  ret,          \* where feeder_writeback returns
  todo,         \* the slots a loop over DIRTY or the table has left
  skip,         \* the slots refused as the walk's
  rec,          \* the words in hand between the pack and the record
  table,        \* slot_lba
  hand,         \* second chance's hand
  last, repeats,        \* last_answered, repeat_serves
  passes,       \* the passes of a flush or a take still allowed
  why,          \* what the flush is for: a pack leaving or become read only
  reported,     \* the blocks said on the console to be lost
  drive, drive_ro,      \* bay_drive.present and its read_only
  \* the file system
  pack,         \* the words of each block on the pack
  named, mark,  \* the pack's name is in the bay; its read-only mark
  changes       \* the changes made to the bay

channel == <<walk, op, blk, left, asked_next, ch_slot, wrote, latest>>
store == <<tag, words>>
face == <<dirty, ref, req, move>>
seam == <<present, read_only>>
linux == <<pc, want, s, ret, todo, skip, rec, table, hand, last, repeats, passes, why, reported, drive, drive_ro>>
files == <<pack, named, mark, changes, world>>
vars == <<channel, store, face, seam, linux, files>>

-----------------------------------------------------------------------------
(* The channel, block by block.                                            *)

Holding(b) == {k \in Slots : tag[k] = b}

Next_block(b) == IF b = world.blocks THEN 1 ELSE b + 1

\* A START: a drive that is absent, or a Write on one that is read only, ends
\* at once and is not a walk.
Start ==
  /\ walk = "idle" /\ present = 1
  /\ op' \in {"read", "write"}
  /\ blk' \in 1 .. world.blocks
  /\ left' \in 0 .. world.list - 1
  /\ op' = "write" => read_only = 0 /\ wrote + left' < world.writes
  /\ walk' = "look" /\ asked_next' = 0
  /\ UNCHANGED <<ch_slot, wrote, latest, store, face, seam, linux, files>>

\* C_LOOK and C_HDRCK: the slot is taken when no move is on it; a walk that
\* finds no slot asks for the block, over whatever stood asked for, and waits.
Look ==
  /\ walk \in {"look", "wait"}
  /\ UNCHANGED <<op, blk, left, wrote, latest, store, dirty, move, seam, linux, files>>
  /\ \/ /\ Holding(blk) # {}
        /\ ch_slot' \in Holding(blk) /\ ch_slot' # move
        /\ \A k \in Holding(blk) : k <= ch_slot'
        /\ walk' = "on" /\ asked_next' = 0
        /\ ref' = [ref EXCEPT ![ch_slot'] = 1]
        /\ UNCHANGED req
     \/ /\ Holding(blk) = {} /\ walk = "look"
        /\ walk' = "wait" /\ req' = blk
        /\ UNCHANGED <<ch_slot, asked_next, ref>>

\* C_PF: the next block asked for when the store lacks it and nothing stands
\* asked for.
Prefetch ==
  /\ walk = "on" /\ left > 0 /\ asked_next = 0
  /\ asked_next' = 1
  /\ req' = IF req = None /\ Holding(Next_block(blk)) = {} THEN Next_block(blk) ELSE req
  /\ UNCHANGED <<walk, op, blk, left, ch_slot, wrote, latest, store, dirty, ref, move, seam, linux, files>>

\* The block's words moved; a Write raises ch_wrote.
Finish ==
  /\ walk = "on" /\ (left > 0 => asked_next = 1)
  /\ IF op = "write"
     THEN /\ wrote' = wrote + 1
          /\ words' = [words EXCEPT ![ch_slot] = wrote + 1]
          /\ latest' = [latest EXCEPT ![blk] = {wrote + 1}]
          /\ dirty' = [dirty EXCEPT ![ch_slot] = 1]
     ELSE UNCHANGED <<wrote, words, latest, dirty>>
  /\ IF left > 0
     THEN walk' = "look" /\ blk' = Next_block(blk) /\ left' = left - 1
     ELSE walk' = "idle" /\ UNCHANGED <<blk, left>>
  /\ asked_next' = 0
  /\ UNCHANGED <<op, ch_slot, tag, ref, req, move, seam, linux, files>>

\* Reset in the command register: the walk and its request are gone.  A Write
\* stopped in its block has changed words and is not announced.
Stop ==
  /\ "stop" \in world.events /\ walk # "idle"
  /\ walk' = "idle" /\ req' = None
  /\ \/ UNCHANGED <<wrote, words, latest>>
     \/ /\ walk = "on" /\ op = "write"
        /\ wrote' = wrote + 1
        /\ words' = [words EXCEPT ![ch_slot] = wrote + 1]
        /\ latest' = [latest EXCEPT ![blk] = @ \cup {wrote + 1}]
  /\ UNCHANGED <<op, blk, left, asked_next, ch_slot, tag, dirty, ref, move, seam, linux, files>>

-----------------------------------------------------------------------------
(* The register face.                                                      *)

\* A request is refused on the walk's slot while the walk is not waiting.
refuse(k) == walk \in {"look", "on"} /\ ch_slot = k

\* Mutant: any tag that lands ends the request.
MutCleared(b) == None

\* The request as a tag lands.
Cleared(b) == IF req = b THEN None ELSE req

\* A denial ends the wait of a walk that has no slot, and any request.
Denied ==
  /\ req' = None
  /\ walk' = IF walk = "wait" /\ Holding(blk) = {} THEN "idle" ELSE walk

-----------------------------------------------------------------------------
(* feeder_pass: the request.                                               *)

\* Mutant: a request for the block last answered is taken to be the old one.
MutReadRequest ==
  /\ pc = "poll"
  /\ IF req = None \/ req = last
     THEN pc' = "dirty" /\ UNCHANGED <<want, skip>>
     ELSE want' = req /\ skip' = {} /\ pc' = IF drive = 0 THEN "deny" ELSE "victim"
  /\ UNCHANGED <<channel, store, face, seam, s, ret, todo, rec, table, hand, last, repeats, passes, why, reported,
                 drive, drive_ro, files>>

\* REQ read, and the refusals of answer() that ask the face nothing.
ReadRequest ==
  /\ pc = "poll"
  /\ IF req = None
     THEN pc' = "dirty" /\ UNCHANGED <<want, skip, repeats>>
     ELSE /\ want' = req /\ skip' = {}
          /\ LET again == drive = 1 /\ last = req
             IN IF drive = 0 \/ (again /\ repeats + 1 >= 3)
                THEN /\ pc' = "deny"
                     /\ repeats' = IF again THEN 0 ELSE repeats
                ELSE /\ pc' = "victim"
                     /\ repeats' = IF again THEN repeats + 1 ELSE repeats
  /\ UNCHANGED <<channel, store, face, seam, s, ret, todo, rec, table, hand, last, passes, why, reported, drive, drive_ro, files>>

\* A block the pack cannot give is denied too, and ends the pass.
Deny ==
  /\ pc \in {"deny", "unread"}
  /\ pc' = IF pc = "deny" THEN "dirty" ELSE "scan"
  /\ Denied
  /\ UNCHANGED <<op, blk, left, asked_next, ch_slot, wrote, latest, store, dirty, ref, move, seam, files,
                 want, s, ret, todo, skip, rec, table, hand, last, repeats, passes, why, reported, drive, drive_ro>>

\* next_victim: the hand's k-th slot, and how far it goes: to the first slot
\* not skipped whose REF is down, every REF being down on the second turn.
At(k) == (hand + k) % SlotCount
Stops(k) == At(k) \notin skip /\ (ref[At(k)] = 0 \/ k >= SlotCount)

Victim ==
  /\ pc = "victim"
  /\ IF Slots \subseteq skip
     THEN pc' = "scan" /\ UNCHANGED <<s, hand, ref>>     \* answer() fails
     ELSE \E k \in 0 .. 2 * SlotCount :
            /\ Stops(k) /\ \A j \in 0 .. k - 1 : ~Stops(j)
            /\ s' = At(k) /\ hand' = At(k + 1)
            /\ ref' = [j \in Slots |-> IF j \notin skip /\ (\E i \in 0 .. k - 1 : At(i) = j)
                                       THEN 0 ELSE ref[j]]
            /\ pc' = "check"
  /\ UNCHANGED <<channel, store, dirty, req, move, seam, want, ret, todo, skip, rec, table, last, repeats,
                 passes, why, reported, drive, drive_ro, files>>

\* Mutant: the victim is fetched into, dirty or not.
MutCheck ==
  /\ pc = "check" /\ pc' = "serve"
  /\ UNCHANGED <<channel, store, face, seam, want, s, ret, todo, skip, rec, table, hand, last, repeats,
                 passes, why, reported, drive, drive_ro, files>>

\* DIRTY read for the victim.
Check ==
  /\ pc = "check"
  /\ IF dirty[s] = 1 THEN pc' = "writeback" /\ ret' = "serve"
     ELSE pc' = "serve" /\ UNCHANGED ret
  /\ UNCHANGED <<channel, store, face, seam, want, s, todo, skip, rec, table, hand, last, repeats,
                 passes, why, reported, drive, drive_ro, files>>

\* serve_record: the pack read, the fetch asked for, and the block landed.
Serve ==
  /\ pc = "serve"
  /\ \/ pc' = "fetch" /\ rec' = pack[want]
     \/ "fail" \in world.events /\ pc' = "unread" /\ UNCHANGED rec
  /\ UNCHANGED <<channel, store, face, seam, want, s, ret, todo, skip, table, hand, last, repeats,
                 passes, why, reported, drive, drive_ro, files>>

Fetch ==
  /\ pc = "fetch"
  /\ IF refuse(s)
     THEN pc' = "victim" /\ skip' = skip \cup {s} /\ UNCHANGED <<tag, dirty, ref, move>>
     ELSE /\ pc' = "landed" /\ move' = s /\ UNCHANGED skip
          /\ tag' = [tag EXCEPT ![s] = None]
          /\ dirty' = [dirty EXCEPT ![s] = 0]
          /\ ref' = [ref EXCEPT ![s] = 0]
  /\ UNCHANGED <<channel, words, req, seam, want, s, ret, todo, rec, table, hand, last, repeats,
                 passes, why, reported, drive, drive_ro, files>>

\* Mutant: the table keeps the block the slot held before.
MutLanded ==
  /\ pc = "landed" /\ pc' = "dirty"
  /\ move' = -1
  /\ tag' = [tag EXCEPT ![s] = want]
  /\ words' = [words EXCEPT ![s] = rec]
  /\ req' = Cleared(want)
  /\ table' = IF table[s] = None THEN [table EXCEPT ![s] = want] ELSE table
  /\ repeats' = IF last = want THEN repeats + 1 ELSE 1
  /\ last' = want
  /\ UNCHANGED <<channel, dirty, ref, seam, want, s, ret, todo, skip, rec, hand, passes, why, reported,
                 drive, drive_ro, files>>

Landed ==
  /\ pc = "landed" /\ pc' = "dirty"
  /\ move' = -1
  /\ tag' = [tag EXCEPT ![s] = want]
  /\ words' = [words EXCEPT ![s] = rec]
  /\ req' = Cleared(want)
  /\ table' = [k \in Slots |-> IF k = s THEN want
                               ELSE IF table[k] = want THEN None ELSE table[k]]
  /\ repeats' = IF last = want THEN repeats + 1 ELSE 1
  /\ last' = want
  /\ UNCHANGED <<channel, dirty, ref, seam, want, s, ret, todo, skip, rec, hand, passes, why, reported, drive, drive_ro, files>>

-----------------------------------------------------------------------------
(* feeder_writeback, called from three places.                             *)

\* Where it returns: what was refused as the walk's is skipped by answer()
\* and left for the next pass by a loop over DIRTY; a failure ends the pass,
\* and a flush goes on past it.
Return(outcome) ==
  /\ pc' = IF ret = "serve"
           THEN CASE outcome = "ok" -> "serve" [] outcome = "walk" -> "victim" [] outcome = "error" -> "scan"
           ELSE IF ret = "drain" /\ outcome = "error" THEN "scan" ELSE ret
  /\ skip' = IF outcome = "walk" THEN skip \cup {s} ELSE skip

WriteBack ==
  /\ pc = "writeback"
  /\ IF table[s] = None \/ drive = 0
     THEN Return("error") /\ UNCHANGED <<dirty, move>>
     ELSE IF refuse(s)
     THEN Return("walk") /\ UNCHANGED <<dirty, move>>
     ELSE /\ pc' = "moved" /\ move' = s
          /\ dirty' = [dirty EXCEPT ![s] = 0]
          /\ UNCHANGED skip
  /\ UNCHANGED <<channel, store, ref, req, seam, want, s, ret, todo, rec, table, hand, last, repeats,
                 passes, why, reported, drive, drive_ro, files>>

Moved ==
  /\ pc = "moved" /\ pc' = "commit"
  /\ rec' = words[s] /\ move' = -1
  /\ UNCHANGED <<channel, store, dirty, ref, req, seam, want, s, ret, todo, skip, table, hand, last, repeats,
                 passes, why, reported, drive, drive_ro, files>>

\* pack_writeback: a pack opened read only, or a failing card, takes nothing.
Commit ==
  /\ pc = "commit"
  /\ \/ /\ drive_ro = 0
        /\ pack' = [pack EXCEPT ![table[s]] = rec]
        /\ Return("ok")
     \/ /\ drive_ro = 1 \/ "fail" \in world.events
        /\ Return("error") /\ UNCHANGED pack
  /\ UNCHANGED <<channel, store, face, seam, want, s, ret, todo, rec, table, hand, last, repeats,
                 passes, why, reported, drive, drive_ro, named, mark, changes, world>>

-----------------------------------------------------------------------------
(* feeder_pass: the dirty slots.                                           *)

IsDirty == {k \in Slots : dirty[k] = 1}
First(set) == CHOOSE k \in set : \A j \in set : k <= j

ReadDirty ==
  /\ pc = "dirty" /\ pc' = "drain" /\ todo' = IsDirty
  /\ UNCHANGED <<channel, store, face, seam, want, s, ret, skip, rec, table, hand, last, repeats,
                 passes, why, reported, drive, drive_ro, files>>

\* Mutant: the loop ends one slot early.
MutDrain ==
  /\ pc = "drain"
  /\ LET known == {k \in todo : table[k] # None /\ k < SlotCount - 1}
     IN IF known = {}
        THEN pc' = "scan" /\ todo' = {} /\ UNCHANGED <<s, ret>>
        ELSE /\ s' = First(known) /\ todo' = todo \ {First(known)}
             /\ pc' = "writeback" /\ ret' = "drain"
  /\ UNCHANGED <<channel, store, face, seam, want, skip, rec, table, hand, last, repeats,
                 passes, why, reported, drive, drive_ro, files>>

\* A dirty slot the table does not know is said and left.
Drain ==
  /\ pc = "drain"
  /\ LET known == {k \in todo : table[k] # None}
     IN IF known = {}
        THEN pc' = "scan" /\ todo' = {} /\ UNCHANGED <<s, ret>>
        ELSE /\ s' = First(known) /\ todo' = todo \ {First(known)}
             /\ pc' = "writeback" /\ ret' = "drain"
  /\ UNCHANGED <<channel, store, face, seam, want, skip, rec, table, hand, last, repeats,
                 passes, why, reported, drive, drive_ro, files>>

-----------------------------------------------------------------------------
(* feeder_bay_scan, which the loop calls after a pass, on an interval.     *)

Claimed == {k \in Slots : table[k] # None}

\* The look at the name: nothing while the channel walks.  A pack that left
\* is flushed and taken, one that became read only is flushed, one that
\* appeared is opened.
Scan ==
  /\ pc = "scan"
  /\ \/ pc' = "poll" /\ UNCHANGED <<why, drive, drive_ro, passes>>      \* not due
     \/ /\ walk = "idle"
        /\ \/ /\ drive = 1 /\ (named = 0 \/ (mark = 1 /\ drive_ro = 0))
              /\ pc' = "flush" /\ why' = IF named = 0 THEN "owed" ELSE "reopen"
              /\ passes' = FlushPasses
              /\ UNCHANGED <<drive, drive_ro>>
           \/ /\ drive = 1 /\ named = 1 /\ mark = 0 /\ drive_ro = 1
              /\ drive_ro' = 0 /\ pc' = "seam"
              /\ UNCHANGED <<why, drive, passes>>
           \/ /\ drive = 0 /\ named = 1
              /\ drive' = 1 /\ drive_ro' = mark /\ pc' = "seam"
              /\ UNCHANGED <<why, passes>>
  /\ UNCHANGED <<channel, store, face, seam, want, s, ret, todo, skip, rec, table, hand, last, repeats, reported, files>>

\* A pass that the walk put something off in is made again, so many times.
AnotherPass == skip # {} /\ passes > 0

\* feeder_flush_unit: DIRTY read once a pass, another pass only for what the
\* walk put off.
Flush ==
  /\ pc = "flush" /\ pc' = "flushing"
  /\ todo' = IsDirty \cap Claimed /\ skip' = {} /\ passes' = passes - 1
  /\ UNCHANGED <<channel, store, face, seam, want, s, ret, rec, table, hand, last, repeats, why, reported,
                 drive, drive_ro, files>>

Flushing ==
  /\ pc = "flushing"
  /\ IF todo = {}
     THEN /\ pc' = IF AnotherPass THEN "flush" ELSE why
          /\ UNCHANGED <<s, todo, ret>>
     ELSE /\ s' = First(todo) /\ todo' = todo \ {First(todo)}
          /\ pc' = "writeback" /\ ret' = "flushing"
  /\ UNCHANGED <<channel, store, face, seam, want, skip, rec, table, hand, last, repeats, passes, why, reported,
                 drive, drive_ro, files>>

\* bay_reopen, on the read-only mark.
Reopen ==
  /\ pc = "reopen" /\ pc' = "seam" /\ drive_ro' = 1
  /\ UNCHANGED <<channel, store, face, seam, want, s, ret, todo, skip, rec, table, hand, last, repeats, passes,
                 why, reported, drive, files>>

\* bay_remove after its flush: what is still dirty is said to be lost.
Owed ==
  /\ pc = "owed" /\ pc' = "take"
  /\ reported' = reported \cup {table[k] : k \in IsDirty \cap Claimed}
  /\ todo' = Claimed /\ skip' = {} /\ passes' = FlushPasses - 1
  /\ UNCHANGED <<channel, store, face, seam, want, s, ret, rec, table, hand, last, repeats, why,
                 drive, drive_ro, files>>

\* feeder_take_unit, a slot a step; then the table forgets the unit and the
\* pack is closed.
Take ==
  /\ pc = "take"
  /\ IF todo # {}
     THEN LET k == First(todo)
          IN /\ todo' = todo \ {k}
             /\ IF refuse(k)
                THEN skip' = skip \cup {k} /\ UNCHANGED <<tag, dirty, table>>
                ELSE /\ tag' = [tag EXCEPT ![k] = None]
                     /\ dirty' = [dirty EXCEPT ![k] = 0]
                     /\ table' = [table EXCEPT ![k] = None]
                     /\ UNCHANGED skip
             /\ UNCHANGED <<pc, passes, drive>>
     ELSE IF AnotherPass
     THEN /\ todo' = Claimed /\ skip' = {} /\ passes' = passes - 1
          /\ UNCHANGED <<pc, tag, dirty, table, drive>>
     ELSE /\ table' = [k \in Slots |-> None] /\ drive' = 0 /\ pc' = "seam"
          /\ UNCHANGED <<tag, dirty, todo, skip, passes>>
  /\ UNCHANGED <<channel, words, ref, req, move, seam, want, s, ret, rec, hand, last, repeats, why, reported,
                 drive_ro, files>>

\* DRIVE written, once, at the end of the scan.
Seam ==
  /\ pc = "seam" /\ pc' = "poll"
  /\ present' = drive /\ read_only' = drive_ro
  /\ UNCHANGED <<channel, store, face, want, s, ret, todo, skip, rec, table, hand, last, repeats, passes, why,
                 reported, drive, drive_ro, files>>

-----------------------------------------------------------------------------
(* The bay: the pack renamed, or its mark changed.                         *)

Bay ==
  /\ changes < world.changes /\ changes' = changes + 1
  /\ \/ "rename" \in world.events /\ named' = 1 - named /\ UNCHANGED mark
     \/ "protect" \in world.events /\ named = 1 /\ mark' = 1 - mark /\ UNCHANGED named
  /\ UNCHANGED <<channel, store, face, seam, linux, pack, world>>

-----------------------------------------------------------------------------
\* The program has taken every slot away and found the pack in the bay.
Init ==
  /\ walk = "idle" /\ op = "read" /\ blk = 1 /\ left = 0 /\ asked_next = 0 /\ ch_slot = 0
  /\ wrote = 0 /\ latest = [b \in Blocks |-> {0}]
  /\ tag = [k \in Slots |-> None] /\ words = [k \in Slots |-> 0]
  /\ dirty = [k \in Slots |-> 0] /\ ref = [k \in Slots |-> 0] /\ req = None /\ move = -1
  /\ present = 1 /\ read_only = 0
  /\ pc = "poll" /\ want = None /\ s = 0 /\ ret = "drain" /\ todo = {} /\ skip = {} /\ rec = 0
  /\ table = [k \in Slots |-> None] /\ hand = 0 /\ last = None /\ repeats = 0
  /\ passes = 0 /\ why = "owed" /\ reported = {} /\ drive = 1 /\ drive_ro = 0
  /\ pack = [b \in Blocks |-> 0] /\ named = 1 /\ mark = 0 /\ changes = 0
  /\ world \in Worlds

Channel == Look \/ Prefetch \/ Finish
Linux ==
  \/ ReadRequest \/ Deny \/ Victim \/ Check \/ Serve \/ Fetch \/ Landed
  \/ WriteBack \/ Moved \/ Commit \/ ReadDirty \/ Drain
  \/ Scan \/ Flush \/ Flushing \/ Reopen \/ Owed \/ Take \/ Seam

Next == Start \/ Stop \/ Bay \/ Channel \/ Linux

Spec == Init /\ [][Next]_vars /\ WF_vars(Channel) /\ WF_vars(Linux)

-----------------------------------------------------------------------------
\* A block's words are on their way back: DIRTY is down from the moment the
\* move is taken, until pack_writeback.
InFlight(b) == pc \in {"moved", "commit"} /\ table[s] = b
               /\ (IF pc = "moved" THEN words[s] ELSE rec) \in latest[b]

\* Blocks are moved one at a time on a pack that stays in its bay, writes
\* without failing and is walked to the end.
Undisturbed == world.events = {} /\ world.list = 1

\* What the CADR wrote is on the pack, or in a slot that is dirty and that
\* the table knows, or on its way, or was said to be lost (pack_feeder.h:
\* "always before they are fetched into or taken away, or the CADR's write
\* is lost").
NothingLost ==
  \A b \in Blocks :
    \/ pack[b] \in latest[b] \/ b \in reported \/ InFlight(b)
    \/ \E k \in Slots : tag[k] = b /\ table[k] = b /\ dirty[k] = 1 /\ words[k] \in latest[b]

\* So it is as long as blocks are moved one at a time and nothing disturbs
\* the pack.
NothingLostSingly == Undisturbed => NothingLost

\* The walk is on the words the CADR last wrote to the block, however often
\* the block went to the pack and came back.
WalkSeesLatest ==
  Undisturbed /\ walk = "on" =>
    tag[ch_slot] = blk /\ (words[ch_slot] \in latest[blk] \/ blk \in reported)

\* Every block is in one slot at the most, and the table says which.
OneSlotEach ==
  Undisturbed => \A j, k \in Slots :
    /\ tag[j] # None /\ tag[j] = tag[k] => j = k
    /\ tag[j] # None => table[j] = tag[j]

\* A walk that waits is answered: the block comes, or a denial.
RequestAnswered == walk = "wait" ~> walk # "wait"

\* Once the CADR is quiet, its writes reach the pack.
WritesReachPack ==
  Undisturbed /\ <>[](walk = "idle") => <>[](\A b \in Blocks : pack[b] \in latest[b] \/ b \in reported)
=============================================================================
