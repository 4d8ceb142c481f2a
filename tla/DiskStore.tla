------------------------------ MODULE DiskStore ------------------------------
(***************************************************************************)
(* The block store between the CADR's disk channel and the pack side, one  *)
(* step a clock tick.  The store is a cache of SLOTS blocks.  The channel  *)
(* of cadr_disk_controller.sv walks a command list through it; the pack    *)
(* side, cadr_disk_pack.sv, fills, empties and writes back its slots at    *)
(* Linux's word.  Each side reads the other through registers, so every    *)
(* register between the two decisions is a variable here, under the name   *)
(* it has in the source.                                                   *)
(*                                                                         *)
(* What is abstracted: a block is a number on one track; the words of a    *)
(* block are not kept, only the slot's header; a fill takes FillTicks      *)
(* ticks at the least (130 beats in the source), and a bus or AXI answer   *)
(* any number.  Linux is any sequence of requests, each made when the last *)
(* is over.                                                                *)
(***************************************************************************)
EXTENDS Integers, FiniteSets

CONSTANTS
  SlotCount,    \* the store's slots, SLOTS
  BlockCount,   \* the blocks of the track, the tags of the store
  FillTicks,    \* the fewest ticks from a fetch's first address to its header
  Commands,     \* what the program STARTs: a block walk ("block": Read, Write
                \* and Read Compare), Read All, Write All
  Stops         \* which resets may come: "channel", a store of Reset in the
                \* command register or -XBUS INIT; "fabric", the board's own

Tracks == {"readall", "writeall"}

ASSUME StoreAssumption ==
  /\ SlotCount \in Nat \ {0}
  /\ BlockCount \in Nat \ {0}
  /\ FillTicks \in Nat
  /\ Commands \subseteq {"block"} \cup Tracks
  /\ Stops \subseteq {"channel", "fabric"}

Bits == {0, 1}
Bit(p) == IF p THEN 1 ELSE 0
Slots == 0 .. SlotCount - 1
Blocks == 0 .. BlockCount - 1
Headers == [blk : Blocks, ok : Bits]
HeaderOf(b) == [blk |-> b, ok |-> 1]

VARIABLES
  \* the channel: the walk, the heads, the stream of a track
  ch_state, ch_ph, ch_slot, waiting, ch_cmd, ch_more, head, trk_b, ps_st,
  \* a register store held two ticks, and the reset held one
  store_q, st_go, rst, rst_q,
  \* the tags and headers of the slots
  s_valid, s_tag, s_header, trk_meta_we,
  \* the lookup, three registers deep, and the registers beside it
  want_tag_q, hit_q, slot_hit, slot_of, hdr_q, hdr_eq_q, slot_ok_q,
  \* the request path
  req_valid, req_tag, tag_write_q, tag_match_q, req_clear_q,
  \* the pack side's register face
  ch_active_q, ch_waiting_q, ch_slot_q, bad_ch_q, r_slot, r_tag, go_q,
  \* the pack side's master, and the seam it drives through a register
  pst, fill, busy, done, error, p_slot, p_tag, take_only, p_drop, store_we

walkVars == <<ch_state, ch_ph, ch_slot, waiting, ch_cmd, ch_more, head,
              trk_b, ps_st, trk_meta_we>>
holdVars == <<store_q, st_go, rst, rst_q>>
tagVars == <<s_valid, s_tag, s_header>>
lookVars == <<want_tag_q, hit_q, slot_hit, slot_of, hdr_q, hdr_eq_q, slot_ok_q>>
reqVars == <<req_valid, req_tag, tag_write_q, tag_match_q, req_clear_q>>
faceVars == <<ch_active_q, ch_waiting_q, ch_slot_q, bad_ch_q, r_slot, r_tag,
              go_q>>
moveVars == <<pst, fill, busy, done, error, p_slot, p_tag, take_only, p_drop,
              store_we>>
vars == <<walkVars, holdVars, tagVars, lookVars, reqVars, faceVars, moveVars>>

-----------------------------------------------------------------------------
(* What the two sides read of each other.                                  *)

NoStore == [op |-> "none", blk |-> 0]
Reset == [op |-> "reset", blk |-> 0]
Starts == [op : Commands, blk : 0 .. BlockCount]   \* BlockCount: off the pack

Moves == {"fetch", "write", "take"}

ch_track == ch_cmd \in Tracks

\* The walk is announced from the two ticks a START is held.
ch_active ==
  \/ ch_state # "C_IDLE"
  \/ store_q.op \in Commands
  \/ st_go.op \in Commands

\* A store of 0o16 in the command register, or -XBUS INIT.
cmd_reset == st_go.op = "reset"

store_deny == go_q = "deny"
moving == busy = 1 \/ store_we.kind # "none"
MoveOn(s) == moving /\ p_slot = s

\* Mutant: the end of the pack a block late.
MutNbOffPack == head = BlockCount

nb_off_pack == head + 1 = BlockCount
trk_b_next == IF trk_b + 1 = BlockCount THEN 0 ELSE trk_b + 1

\* The key of the lookup: the next block in C_PF, a track's sector, or the
\* block under the heads.
want_tag ==
  IF ch_state = "C_PF" THEN head + 1
  ELSE IF ch_state = "C_TRD" THEN trk_b_next
  ELSE IF ch_track THEN trk_b ELSE head

-----------------------------------------------------------------------------
(* The walk.  A stop wins over the state the walk would go to.             *)

Goto(s) == ch_state' = IF cmd_reset THEN "C_IDLE" ELSE s
Wait(w) == waiting' = Bit(w /\ ~cmd_reset)
Phase(n) == ch_ph' = n
Stay == Goto(ch_state) /\ Phase(ch_ph)
End == Goto("C_ACC") /\ Phase(0)

\* A START lands.  A seek the drive refuses is charged its time and walks
\* nothing.
C_IDLE ==
  /\ ch_state = "C_IDLE"
  /\ UNCHANGED <<ch_slot, waiting, ch_more>>
  /\ IF st_go.op \in Commands
     THEN /\ ch_cmd' = st_go.op
          /\ ch_ph' = 0
          /\ ps_st' = IF st_go.op \in Tracks THEN "sync" ELSE ps_st
          /\ trk_b' = IF st_go.op \in Tracks /\ st_go.blk \in Blocks THEN st_go.blk ELSE trk_b
          /\ head' = IF st_go.blk \in Blocks THEN st_go.blk ELSE head
          /\ ch_state' = CASE st_go.blk \notin Blocks -> "C_ACC"
                           [] st_go.blk \in Blocks /\ st_go.op \in Tracks -> "C_TLOOK"
                           [] OTHER -> "C_CCW"
     ELSE UNCHANGED <<ch_state, ch_ph, ch_cmd, head, trk_b, ps_st>>

\* The command list word: the request goes out, crosses, and is answered or
\* is not there.
C_CCW ==
  /\ ch_state = "C_CCW"
  /\ UNCHANGED <<ch_slot, ch_cmd, head, trk_b, ps_st>>
  /\ Wait(waiting = 1)
  /\ \/ ch_ph < 2 /\ Goto("C_CCW") /\ Phase(ch_ph + 1) /\ UNCHANGED ch_more
     \/ ch_ph = 2 /\ Stay /\ UNCHANGED ch_more
     \/ ch_ph = 2 /\ End /\ UNCHANGED ch_more
     \/ /\ ch_ph = 2
        /\ ch_more' \in Bits
        /\ Phase(0)
        /\ Goto(CASE ch_cmd = "readall" -> "C_TRD"
                  [] ch_cmd = "writeall" -> "C_TWR"
                  [] OTHER -> "C_LOOK")

\* The wait for the block.
C_LOOK ==
  /\ ch_state = "C_LOOK"
  /\ UNCHANGED <<ch_cmd, ch_more, head, trk_b, ps_st>>
  /\ \/ slot_hit = 1 /\ Wait(FALSE) /\ ch_slot' = slot_of
        /\ Goto("C_HDRC") /\ Phase(0)
     \/ slot_hit = 0 /\ store_deny /\ Wait(FALSE) /\ End /\ UNCHANGED ch_slot
     \/ slot_hit = 0 /\ ~store_deny /\ Wait(TRUE)
        /\ Goto("C_LOOK") /\ Phase(0) /\ UNCHANGED ch_slot

\* The header compare, three ticks, and the header's checkword, four.
C_HDR ==
  /\ ch_state \in {"C_HDRC", "C_HDRE"}
  /\ UNCHANGED <<ch_slot, ch_cmd, ch_more, head, trk_b, ps_st>>
  /\ Wait(waiting = 1)
  /\ LET last == IF ch_state = "C_HDRC" THEN 2 ELSE 3
     IN \/ ch_ph < last /\ Goto(ch_state) /\ Phase(ch_ph + 1)
        \/ ch_ph = last /\ ch_state = "C_HDRC" /\ hdr_eq_q = 0 /\ End
        \/ /\ ch_ph = last
           /\ ch_state = "C_HDRC" => hdr_eq_q = 1
           /\ Goto(IF ch_state = "C_HDRC" THEN "C_HDRE" ELSE "C_HDRCK")
           /\ Phase(0)

\* The slot asked about once more, before a data word moves.
C_HDRCK ==
  /\ ch_state = "C_HDRCK"
  /\ UNCHANGED <<ch_slot, ch_cmd, ch_more, head, trk_b, ps_st>>
  /\ Wait(waiting = 1)
  /\ \/ ch_ph = 0 /\ Goto("C_HDRCK") /\ Phase(1)
     \/ ch_ph # 0 /\ slot_ok_q = 0 /\ Goto("C_LOOK") /\ Phase(0)
     \/ ch_ph # 0 /\ slot_ok_q = 1 /\ hdr_q.ok = 0 /\ End
     \/ /\ ch_ph # 0 /\ slot_ok_q = 1 /\ hdr_q.ok = 1
        /\ Goto(IF ch_more = 1 /\ ~nb_off_pack THEN "C_PF" ELSE "C_MOVE")
        /\ Phase(0)

\* The prefetch's four ticks.
C_PF ==
  /\ ch_state = "C_PF"
  /\ UNCHANGED <<ch_slot, ch_cmd, ch_more, head, trk_b, ps_st>>
  /\ Wait(waiting = 1)
  /\ IF ch_ph # 3
     THEN Goto("C_PF") /\ Phase(ch_ph + 1)
     ELSE Goto("C_MOVE") /\ Phase(0)

\* The block's own move, from C_DATA to C_WEND: the data field through the
\* code, the trap when it does not check, the page's words over the bus and
\* a write's fresh checkword.  Any number of ticks, every one on the slot.
C_MOVE ==
  /\ ch_state = "C_MOVE"
  /\ UNCHANGED <<ch_slot, ch_cmd, ch_more, head, trk_b, ps_st>>
  /\ Wait(waiting = 1)
  /\ Stay \/ End \/ (Goto("C_NEXT") /\ Phase(0))

\* The block done: the next of the list, the next page of a track, or the end.
C_NEXT ==
  /\ ch_state = "C_NEXT"
  /\ UNCHANGED <<ch_slot, ch_cmd, ch_more, trk_b, ps_st>>
  /\ Wait(waiting = 1)
  /\ \/ ch_more = 0 /\ Goto("C_ACC") /\ Phase(0) /\ UNCHANGED head
     \/ ch_more = 1 /\ ch_track /\ Goto("C_CCW") /\ Phase(0) /\ UNCHANGED head
     \/ ch_more = 1 /\ ~ch_track /\ nb_off_pack /\ End /\ UNCHANGED head
     \/ /\ ch_more = 1 /\ ~ch_track /\ ~nb_off_pack
        /\ head' = head + 1
        /\ Goto("C_CCW") /\ Phase(0)

\* The first sector of a track, looked up three ticks after the heads moved.
C_TLOOK ==
  /\ ch_state = "C_TLOOK"
  /\ UNCHANGED <<ch_cmd, ch_more, head, trk_b, ps_st>>
  /\ Wait(waiting = 1)
  /\ \/ ch_ph # 3 /\ Goto("C_TLOOK") /\ Phase(ch_ph + 1) /\ UNCHANGED ch_slot
     \/ ch_ph = 3 /\ ch_cmd = "readall" /\ slot_hit = 0 /\ End /\ UNCHANGED ch_slot
     \/ /\ ch_ph = 3
        /\ ch_cmd = "readall" => slot_hit = 1
        /\ ch_slot' = IF ch_cmd = "readall" THEN slot_of ELSE ch_slot
        /\ Goto("C_CCW") /\ Phase(0)

\* Read All: the track's bytes into pages.  ch_ph counts the ticks the key
\* has stood since the stream crossed into its sector.
C_TRD ==
  /\ ch_state = "C_TRD"
  /\ UNCHANGED <<ch_cmd, ch_more, head, ps_st>>
  /\ Wait(waiting = 1)
  /\ \/ Goto("C_TRD") /\ Phase(IF ch_ph = 3 THEN 3 ELSE ch_ph + 1)
        /\ UNCHANGED <<ch_slot, trk_b>>
     \/ /\ ch_ph = 3                                      \* trk_step
        /\ trk_b' = trk_b_next
        /\ ch_slot' = slot_of
        /\ Goto("C_TRD") /\ Phase(0)
     \/ ch_ph = 3 /\ End /\ UNCHANGED <<ch_slot, trk_b>>
     \/ ch_ph = 3 /\ Goto("C_NEXT") /\ Phase(0) /\ UNCHANGED <<ch_slot, trk_b>>

\* Write All: the pages' bits through the parser.  A sector is laid in the
\* slot found at its data sync; a chunk that does not parse lays no more.  A
\* preamble and a data field are hundreds of ticks: ch_ph counts three.
C_TWR ==
  /\ ch_state = "C_TWR"
  /\ UNCHANGED <<ch_cmd, ch_more, head>>
  /\ Wait(waiting = 1)
  /\ \/ Goto("C_TWR") /\ Phase(IF ch_ph = 3 THEN 3 ELSE ch_ph + 1)
        /\ UNCHANGED <<ch_slot, trk_b, ps_st>>
     \/ /\ ch_ph = 3 /\ ps_st = "sync"                    \* P_SYNC2 found
        /\ ch_slot' = slot_of
        /\ ps_st' = IF slot_hit = 1 THEN "data" ELSE "off"
        /\ Goto("C_TWR") /\ Phase(0) /\ UNCHANGED trk_b
     \/ /\ ch_ph = 3 /\ ps_st = "data"                    \* P_DCK taken
        /\ ps_st' = "done"
        /\ Stay /\ UNCHANGED <<ch_slot, trk_b>>
     \/ /\ ch_ph = 3                                      \* the chunk's end
        /\ trk_b' = trk_b_next
        /\ ps_st' = IF ps_st = "done" THEN "sync" ELSE "off"
        /\ Goto("C_TWR") /\ Phase(0) /\ UNCHANGED ch_slot
     \/ /\ ch_ph = 3 /\ End
        /\ UNCHANGED <<ch_slot, trk_b, ps_st>>
     \/ /\ ch_ph = 3 /\ Goto("C_NEXT") /\ Phase(0)
        /\ UNCHANGED <<ch_slot, trk_b, ps_st>>

\* The access time charged, and the end of the walk.
C_ACC ==
  /\ ch_state = "C_ACC"
  /\ UNCHANGED <<ch_slot, ch_cmd, ch_more, head, trk_b, ps_st>>
  /\ Wait(waiting = 1)
  /\ Phase(0)
  /\ Goto("C_ACC") \/ Goto("C_IDLE")

ResetWalk ==
  /\ ch_state' = "C_IDLE"
  /\ ch_ph' = 0 /\ ch_slot' = 0 /\ waiting' = 0
  /\ ch_more' = 0 /\ head' = 0 /\ trk_b' = 0 /\ ps_st' = "sync"
  /\ UNCHANGED ch_cmd

Walk ==
  /\ IF rst_q = 1 THEN ResetWalk
     ELSE \/ C_IDLE \/ C_CCW \/ C_LOOK \/ C_HDR \/ C_HDRCK \/ C_PF
          \/ C_MOVE \/ C_NEXT \/ C_TLOOK \/ C_TRD \/ C_TWR \/ C_ACC
  \* the parser's laid sector, a pulse
  /\ trk_meta_we' = Bit(rst_q = 0 /\ ps_st = "data" /\ ps_st' = "done")

-----------------------------------------------------------------------------
(* A register store is held two ticks; a bus cycle is tens of ticks.  The   *)
(* program STARTs an idle controller and may store a Reset at any time.     *)

StoreRegister ==
  /\ IF rst_q = 1
     THEN store_q' = NoStore /\ st_go' = NoStore
     ELSE /\ st_go' = store_q
          /\ \/ store_q' = NoStore
             \/ /\ store_q = NoStore /\ st_go = NoStore
                /\ store_q' \in (IF "channel" \in Stops THEN {Reset} ELSE {})
                             \cup (IF ch_active THEN {} ELSE Starts)

-----------------------------------------------------------------------------
(* The slots' tags, headers and the registers that read them.              *)

\* A record's header is the format's own unless a Write All laid another.
RecordHeaders(b) ==
  IF "writeall" \in Commands THEN Headers ELSE {HeaderOf(b)}

Tags ==
  /\ s_tag' = IF store_we.kind = "tag"
              THEN [s_tag EXCEPT ![store_we.slot] = store_we.tag] ELSE s_tag
  /\ s_valid' = IF rst_q = 1 THEN {}
                ELSE CASE store_we.kind = "tag" -> s_valid \cup {store_we.slot}
                       [] store_we.kind = "untag" -> s_valid \ {store_we.slot}
                       [] OTHER -> s_valid
  /\ CASE store_we.kind = "meta" ->
            \E h \in RecordHeaders(store_we.tag) :
               s_header' = [s_header EXCEPT ![store_we.slot] = h]
       [] store_we.kind # "meta" /\ trk_meta_we = 1 ->
            \E h \in Headers : s_header' = [s_header EXCEPT ![ch_slot] = h]
       [] OTHER -> UNCHANGED s_header

\* The last slot of the comparators' answer, as the priority encoder has it.
Encode(hits) ==
  IF \E k \in hits : \A j \in hits : j <= k
  THEN CHOOSE k \in hits : \A j \in hits : j <= k
  ELSE 0

\* Mutant: C_HDRCK asks whether the slot is valid and not whether a move is
\* on it.
MutSlotOk == ch_slot \in s_valid

slot_ok == ch_slot \in s_valid /\ ~MoveOn(ch_slot)

Lookup ==
  /\ want_tag_q' = want_tag
  /\ hit_q' = {k \in s_valid : s_tag[k] = want_tag_q}
  /\ slot_hit' = Bit(hit_q # {})
  /\ slot_of' = Encode(hit_q)
  /\ hdr_q' = s_header[ch_slot]
  /\ hdr_eq_q' = Bit(hdr_q.blk = want_tag_q)
  /\ slot_ok_q' = Bit(slot_ok)

\* The two posts: the first tick of a wait, and a prefetch of a block the
\* store lacks when nothing else stands asked for.
post_c ==
  \/ ch_state = "C_LOOK" /\ slot_hit = 0 /\ ~store_deny /\ waiting = 0
  \/ ch_state = "C_PF" /\ ch_ph = 3 /\ slot_hit = 0 /\ ~nb_off_pack /\ req_valid = 0

Request ==
  /\ tag_write_q' = Bit(store_we.kind = "tag")
  /\ tag_match_q' = Bit(store_we.tag = req_tag)
  /\ req_clear_q' = Bit(cmd_reset)
  /\ IF rst_q = 1 \/ req_clear_q = 1
     THEN req_valid' = 0 /\ req_tag' = 0
     ELSE IF post_c
     THEN req_valid' = 1 /\ req_tag' = want_tag_q
     ELSE /\ req_valid' = Bit(req_valid = 1 /\ ~(store_deny \/ (tag_write_q = 1 /\ tag_match_q = 1)))
          /\ UNCHANGED req_tag

-----------------------------------------------------------------------------
(* The register face: one beat a tick, a CTL beat acted on a tick later.   *)

go_any == go_q \in Moves

\* Mutant: the pack side does not ask which slot the walk is on.
MutRefuse == go_any /\ busy = 1

refuse == go_any /\ (busy = 1 \/ bad_ch_q = 1)
Accepted == go_any /\ ~refuse

\* Linux writes the slot and the tag in the beats before the CTL beat (how
\* long before shows nowhere: bad_ch_q reads the slot a tick later), and asks
\* for nothing while a move runs.
Beat ==
  \/ go_q # "regs" /\ go_q' = "none" /\ UNCHANGED <<r_slot, r_tag>>
  \/ go_q = "none" /\ busy = 0 /\ go_q' = "regs" /\ r_slot' \in Slots /\ r_tag' \in Blocks
  \/ go_q = "regs" /\ go_q' \in Moves /\ UNCHANGED <<r_slot, r_tag>>
  \/ go_q = "none" /\ go_q' = "deny" /\ UNCHANGED <<r_slot, r_tag>>

Face(fabric_rst) ==
  /\ bad_ch_q' = Bit(ch_active_q = 1 /\ ch_waiting_q = 0 /\ r_slot = ch_slot_q)
  /\ IF fabric_rst
     THEN /\ ch_active_q' = 0 /\ ch_waiting_q' = 0 /\ ch_slot_q' = 0
          /\ r_slot' = 0 /\ r_tag' = 0 /\ go_q' = "none"
     ELSE /\ ch_active_q' = Bit(ch_active)
          /\ ch_waiting_q' = waiting
          /\ ch_slot_q' = ch_slot
          /\ Beat

-----------------------------------------------------------------------------
(* The master, and the seam registered on its way to the store.            *)

NoWrite == [kind |-> "none", slot |-> 0, tag |-> 0]
Seam(k) == [kind |-> k, slot |-> p_slot, tag |-> p_tag]

owed == pst \in {"P_R", "P_W"}

\* A go the face took: the move latched for its whole length.
P_IDLE ==
  /\ pst = "P_IDLE"
  /\ store_we' = NoWrite
  /\ IF Accepted
     THEN /\ p_slot' = r_slot /\ p_tag' = r_tag
          /\ fill' = FillTicks
          /\ busy' = 1 /\ done' = 0 /\ error' = 0
          /\ take_only' = Bit(go_q = "take")
          /\ pst' = IF go_q = "write" THEN "P_W" ELSE "P_TAKE"
          /\ UNCHANGED p_drop
     ELSE /\ UNCHANGED <<p_slot, p_tag, fill, take_only, pst>>
          /\ p_drop' = 0
          /\ busy' = Bit(busy = 1 /\ p_drop = 0)
          /\ done' = Bit(done = 1 /\ p_drop = 0)
          /\ error' = Bit(error = 1 /\ p_drop = 0)

\* Mutant: a fetch leaves the old tag up until the new one lands.
MutTake ==
  /\ pst = "P_TAKE"
  /\ store_we' = IF take_only = 1 THEN Seam("untag") ELSE NoWrite
  /\ UNCHANGED <<p_slot, p_tag, fill, take_only, p_drop, error>>
  /\ IF take_only = 1
     THEN pst' = "P_IDLE" /\ busy' = 0 /\ done' = 1
     ELSE pst' = "P_R" /\ UNCHANGED <<busy, done>>

\* The slot's block taken away, one tick.
P_TAKE ==
  /\ pst = "P_TAKE"
  /\ store_we' = Seam("untag")
  /\ UNCHANGED <<p_slot, p_tag, fill, take_only, p_drop, error>>
  /\ IF take_only = 1
     THEN pst' = "P_IDLE" /\ busy' = 0 /\ done' = 1
     ELSE pst' = "P_R" /\ UNCHANGED <<busy, done>>

\* The bursts of a fetch: the words, then the beat that holds the header.  A
\* drop ends the move at the end of the burst in flight; the fabric's reset
\* asks for the drop.
P_R(fabric_rst) ==
  /\ pst = "P_R"
  /\ p_drop' = Bit(p_drop = 1 \/ fabric_rst)
  /\ done' = Bit(done = 1 /\ ~fabric_rst)
  /\ UNCHANGED <<p_slot, p_tag, take_only, busy>>
  /\ \/ /\ store_we' = Seam("word")
        /\ fill' = IF fill = 0 THEN 0 ELSE fill - 1
        /\ error' = Bit(error = 1 /\ ~fabric_rst)
        /\ pst' \in IF p_drop = 1 THEN {"P_R", "P_IDLE"} ELSE {"P_R"}
     \/ /\ fill = 0
        /\ store_we' = Seam("meta")
        /\ error' \in IF fabric_rst THEN {0} ELSE {error, 1}
        /\ pst' = IF p_drop = 1 THEN "P_IDLE" ELSE "P_TAG"
        /\ UNCHANGED fill

\* The tag, last, and only of a fetch that met no error.
P_TAG ==
  /\ pst = "P_TAG"
  /\ store_we' = IF error = 1 THEN NoWrite ELSE Seam("tag")
  /\ pst' = "P_IDLE" /\ busy' = 0 /\ done' = 1
  /\ UNCHANGED <<p_slot, p_tag, fill, take_only, p_drop, error>>

\* The bursts of a write-back: the slot's words read out, and the last
\* response.
P_W(fabric_rst) ==
  /\ pst = "P_W"
  /\ store_we' = NoWrite
  /\ p_drop' = Bit(p_drop = 1 \/ fabric_rst)
  /\ UNCHANGED <<p_slot, p_tag, fill, take_only>>
  /\ \/ /\ done' = Bit(done = 1 /\ ~fabric_rst)
        /\ error' = Bit(error = 1 /\ ~fabric_rst)
        /\ UNCHANGED <<pst, busy>>
     \/ /\ pst' = "P_IDLE"
        /\ busy' = 0
        /\ done' = Bit(p_drop = 0 /\ ~fabric_rst)
        /\ error' \in IF fabric_rst THEN {0} ELSE {error, 1}
     \/ /\ p_drop = 1
        /\ pst' = "P_IDLE"
        /\ done' = Bit(done = 1 /\ ~fabric_rst)
        /\ error' = Bit(error = 1 /\ ~fabric_rst)
        /\ UNCHANGED busy

\* The fabric's reset with nothing owed on the port: at once.  The seam's
\* register is not in it.
ResetMaster ==
  /\ pst' = "P_IDLE" /\ busy' = 0 /\ done' = 0 /\ error' = 0
  /\ take_only' = 0
  /\ p_drop' = Bit(p_drop = 1 /\ pst # "P_IDLE")
  /\ store_we' = CASE pst = "P_TAKE" -> Seam("untag")
                   [] pst = "P_TAG" /\ error = 0 -> Seam("tag")
                   [] OTHER -> NoWrite
  /\ UNCHANGED <<p_slot, p_tag, fill>>

Master(fabric_rst) ==
  IF fabric_rst /\ ~owed
  THEN ResetMaster
  ELSE P_IDLE \/ P_TAKE \/ P_R(fabric_rst) \/ P_TAG \/ P_W(fabric_rst)

-----------------------------------------------------------------------------
(* The fabric's reset, a level that stands two ticks at the least.          *)

FabricReset ==
  /\ rst' \in CASE rst = 0 -> IF "fabric" \in Stops THEN {0, 1} ELSE {0}
               [] rst = 1 -> {2}
               [] OTHER -> {0, 2}
  /\ rst_q' = Bit(rst # 0)

Init ==
  /\ ch_state = "C_IDLE" /\ ch_ph = 0 /\ ch_slot = 0 /\ waiting = 0
  /\ ch_cmd \in Commands /\ ch_more = 0 /\ head = 0 /\ trk_b = 0
  /\ ps_st = "sync" /\ trk_meta_we = 0
  /\ store_q = NoStore /\ st_go = NoStore /\ rst = 0 /\ rst_q = 0
  /\ s_valid = {} /\ s_tag = [s \in Slots |-> 0]
  /\ s_header = [s \in Slots |-> HeaderOf(0)]
  /\ want_tag_q = 0 /\ hit_q = {} /\ slot_hit = 0 /\ slot_of = 0
  /\ hdr_q = HeaderOf(0) /\ hdr_eq_q = 0 /\ slot_ok_q = 0
  /\ req_valid = 0 /\ req_tag = 0 /\ tag_write_q = 0
  /\ tag_match_q = 0 /\ req_clear_q = 0
  /\ ch_active_q = 0 /\ ch_waiting_q = 0 /\ ch_slot_q = 0
  /\ bad_ch_q = 0 /\ r_slot = 0 /\ r_tag = 0 /\ go_q = "none"
  /\ pst = "P_IDLE" /\ fill = 0 /\ busy = 0 /\ done = 0
  /\ error = 0 /\ p_slot = 0 /\ p_tag = 0 /\ take_only = 0
  /\ p_drop = 0 /\ store_we = NoWrite

Tick ==
  /\ Walk
  /\ StoreRegister
  /\ Tags
  /\ Lookup
  /\ Request
  /\ Face(rst # 0)
  /\ Master(rst # 0)
  /\ FabricReset

Next == Tick

Spec == Init /\ [][Next]_vars

-----------------------------------------------------------------------------
(* The properties.                                                         *)

WalkStates ==
  {"C_IDLE", "C_CCW", "C_LOOK", "C_HDRC", "C_HDRE", "C_HDRCK", "C_PF",
   "C_MOVE", "C_NEXT", "C_TLOOK", "C_TRD", "C_TWR", "C_ACC"}

WalkType ==
  /\ ch_state \in WalkStates /\ ch_ph \in 0 .. 3 /\ ch_slot \in Slots
  /\ waiting \in Bits /\ ch_cmd \in Commands /\ ch_more \in Bits
  /\ head \in Blocks /\ trk_b \in Blocks
  /\ ps_st \in {"sync", "data", "done", "off"} /\ trk_meta_we \in Bits

HoldType ==
  /\ store_q \in {NoStore, Reset} \cup Starts
  /\ st_go \in {NoStore, Reset} \cup Starts
  /\ rst \in 0 .. 2 /\ rst_q \in Bits

TagType ==
  /\ s_valid \subseteq Slots /\ s_tag \in [Slots -> Blocks]
  /\ s_header \in [Slots -> Headers]

LookType ==
  /\ want_tag_q \in Blocks /\ hit_q \subseteq Slots /\ slot_hit \in Bits
  /\ slot_of \in Slots /\ hdr_q \in Headers /\ hdr_eq_q \in Bits
  /\ slot_ok_q \in Bits

ReqType ==
  /\ req_valid \in Bits /\ req_tag \in Blocks
  /\ tag_write_q \in Bits /\ tag_match_q \in Bits
  /\ req_clear_q \in Bits

FaceType ==
  /\ ch_active_q \in Bits /\ ch_waiting_q \in Bits
  /\ ch_slot_q \in Slots /\ bad_ch_q \in Bits
  /\ r_slot \in Slots /\ r_tag \in Blocks
  /\ go_q \in {"none", "regs", "deny"} \cup Moves

MoveType ==
  /\ pst \in {"P_IDLE", "P_TAKE", "P_R", "P_TAG", "P_W"}
  /\ fill \in 0 .. FillTicks
  /\ busy \in Bits /\ done \in Bits /\ error \in Bits
  /\ p_slot \in Slots /\ p_tag \in Blocks /\ take_only \in Bits
  /\ p_drop \in Bits
  /\ store_we \in [kind : {"none", "untag", "word", "meta", "tag"},
                   slot : Slots, tag : Blocks]

\* Every register holds a value of its width; above all the heads stay on the
\* pack, across the prefetch's step ahead of them.
TypeOK ==
  /\ WalkType /\ HoldType /\ TagType /\ LookType /\ ReqType /\ FaceType
  /\ MoveType

\* The walk reads or writes words of its slot: past C_HDRCK for a block, in
\* the stream for a track.
BlockTouch == ch_state \in {"C_PF", "C_MOVE", "C_NEXT"} /\ ~ch_track
TrackTouch == ch_state = "C_TRD" \/ (ch_state = "C_TWR" /\ ps_st \in {"data", "done"})

\* cadr_disk_controller.sv, the note at store_busy: a walk never touches the
\* slot a move is on.  The block walk, whose slot C_HDRCK asks about again.
BlockInterlock == BlockTouch => ~MoveOn(ch_slot)

\* cadr_disk_controller.sv, the note at ch_active: the channel owns the slot
\* it is working on.  Once a track walk has held a slot three ticks, no move
\* begins on it before the stream leaves it.
TrackOwnsItsSlot ==
  [][TrackTouch /\ ch_ph = 3 /\ ~MoveOn(ch_slot) /\ TrackTouch' /\ ch_slot' = ch_slot
       => ~MoveOn(ch_slot)']_vars

\* What the walk moves is the block under the heads: its slot is valid and
\* tagged with it for as long as the walk touches it.
WalkHasItsBlock ==
  BlockTouch => ch_slot \in s_valid /\ s_tag[ch_slot] = head

\* On a pack with the format's own headers, no race of a fill with the walk
\* shows the machine a header error: what C_HDRC and C_HDRCK decide on is the
\* header of the block under the heads.
NoFalseHeaderError ==
  /\ ch_state = "C_HDRC" /\ ch_ph = 2 => hdr_eq_q = 1
  /\ ch_state = "C_HDRCK" /\ ch_ph = 1 /\ slot_ok_q = 1 => hdr_q = HeaderOf(head)

\* A slot the store calls valid holds one whole record: no fill stores words
\* in it, and its header is the one its record came with.
ValidIsWhole ==
  \A s \in s_valid :
    /\ ~(store_we.kind \in {"word", "meta"} /\ store_we.slot = s)
    /\ "writeall" \notin Commands => s_header[s] = HeaderOf(s_tag[s])
=============================================================================
