-------------------------- MODULE DiskStoreProofs --------------------------
(***************************************************************************)
(* What DiskStore promises for every number of slots and blocks, every     *)
(* length of a fill and every choice of commands: the registers keep their *)
(* types, no move of the pack side is ever on the slot a block walk is     *)
(* moving words of, and a valid slot holds one whole record.  What the     *)
(* look-up names is still the block's when the walk moves it as long as a  *)
(* fill is not shorter than the look-up.                                   *)
(***************************************************************************)
EXTENDS DiskStore, WellFoundedInduction, TLAPS

\* C_HDRCK enters the prefetch only with a block ahead of the heads.
PrefetchOnPack == ch_state = "C_PF" => ~nb_off_pack

USE StoreAssumption DEF StoreAssumption, Slots, Blocks, Headers, HeaderOf, Moves, Tracks, Bits, Bit

LEMMA TypeInit == Init => TypeOK /\ PrefetchOnPack
<1> SUFFICES ASSUME Init PROVE TypeOK /\ PrefetchOnPack
  OBVIOUS
<1> USE DEF Init
<1>1. WalkType /\ PrefetchOnPack
  BY DEF WalkType, WalkStates, PrefetchOnPack
<1>2. HoldType
  BY DEF HoldType
<1>3. TagType
  BY DEF TagType
<1>4. LookType /\ ReqType
  BY DEF LookType, ReqType
<1>5. FaceType
  BY DEF FaceType
<1>6. MoveType
  BY DEF MoveType, NoWrite
<1> QED
  BY <1>1, <1>2, <1>3, <1>4, <1>5, <1>6 DEF TypeOK

LEMMA WalkTypeStep ==
  ASSUME TypeOK, PrefetchOnPack, Walk
  PROVE  WalkType' /\ PrefetchOnPack'
<1> USE DEF TypeOK, WalkType, WalkStates, PrefetchOnPack, nb_off_pack
<1> trk_meta_we' \in Bits
  BY DEF Walk
<1>1. CASE rst_q = 1
  BY <1>1 DEF Walk, ResetWalk
<1>2. CASE rst_q # 1 /\ C_IDLE
  BY <1>2 DEF C_IDLE, HoldType, Starts, NoStore, Reset
<1> USE DEF Goto, Wait, Phase, Stay, End
<1>3. CASE rst_q # 1 /\ C_CCW
  BY <1>3 DEF C_CCW
<1>4. CASE rst_q # 1 /\ C_LOOK
  BY <1>4 DEF C_LOOK, LookType
<1>5. CASE rst_q # 1 /\ C_HDR
  BY <1>5 DEF C_HDR
<1>6. CASE rst_q # 1 /\ C_HDRCK
  BY <1>6 DEF C_HDRCK
<1>7. CASE rst_q # 1 /\ C_PF
  BY <1>7 DEF C_PF
<1>8. CASE rst_q # 1 /\ C_MOVE
  BY <1>8 DEF C_MOVE
<1>9. CASE rst_q # 1 /\ C_NEXT
  BY <1>9 DEF C_NEXT
<1>10. CASE rst_q # 1 /\ C_TLOOK
  BY <1>10 DEF C_TLOOK, LookType
<1>11. CASE rst_q # 1 /\ C_TRD
  BY <1>11 DEF C_TRD, LookType, trk_b_next
<1>12. CASE rst_q # 1 /\ C_TWR
  BY <1>12 DEF C_TWR, LookType, trk_b_next
<1>13. CASE rst_q # 1 /\ C_ACC
  BY <1>13 DEF C_ACC
<1> QED
  BY <1>1, <1>2, <1>3, <1>4, <1>5, <1>6, <1>7, <1>8, <1>9, <1>10, <1>11,
     <1>12, <1>13 DEF Walk

LEMMA HoldTypeStep ==
  ASSUME TypeOK, StoreRegister, FabricReset
  PROVE  HoldType'
  BY DEF TypeOK, HoldType, StoreRegister, FabricReset

LEMMA TagTypeStep ==
  ASSUME TypeOK, Tags
  PROVE  TagType'
<1> USE DEF TypeOK, TagType, MoveType, WalkType
<1>1. s_tag' \in [Slots -> Blocks] /\ s_valid' \subseteq Slots
  BY DEF Tags
<1>2. RecordHeaders(store_we.tag) \subseteq Headers
  BY DEF RecordHeaders
<1>3. s_header \in [Slots -> Headers] /\ store_we.slot \in Slots /\ ch_slot \in Slots
  OBVIOUS
<1> HIDE DEF TypeOK, TagType, MoveType, WalkType
<1>4. s_header' \in [Slots -> Headers]
  <2>1. ASSUME NEW i \in Slots, NEW h \in Headers
        PROVE  [s_header EXCEPT ![i] = h] \in [Slots -> Headers]
    BY <1>3
  <2>2. \/ s_header' = s_header
        \/ \E i \in Slots, h \in Headers : s_header' = [s_header EXCEPT ![i] = h]
    BY <1>2, <1>3 DEF Tags
  <2> QED
    BY <1>3, <2>1, <2>2
<1> QED
  BY <1>1, <1>4 DEF TagType

LEMMA EncodeType ==
  ASSUME NEW hits \in SUBSET Slots
  PROVE  Encode(hits) \in Slots
<1>1. CASE \E k \in hits : \A j \in hits : j <= k
  <2>1. (CHOOSE k \in hits : \A j \in hits : j <= k) \in hits
    BY <1>1, Zenon
  <2> QED
    BY <1>1, <2>1 DEF Encode
<1>2. CASE ~\E k \in hits : \A j \in hits : j <= k
  BY <1>2 DEF Encode
<1> QED
  BY <1>1, <1>2

LEMMA LookTypeStep ==
  ASSUME TypeOK, PrefetchOnPack, Lookup
  PROVE  LookType'
<1> USE DEF TypeOK, LookType, TagType, WalkType, Lookup
<1>1. want_tag \in Blocks
  BY DEF want_tag, trk_b_next, PrefetchOnPack, nb_off_pack
<1>2. Encode(hit_q) \in Slots
  BY EncodeType
<1>3. s_header[ch_slot] \in Headers
  OBVIOUS
<1> QED
  BY <1>1, <1>2, <1>3

LEMMA ReqTypeStep ==
  ASSUME TypeOK, Request
  PROVE  ReqType'
  BY DEF TypeOK, ReqType, LookType, Request

LEMMA FaceTypeStep ==
  ASSUME TypeOK, NEW b \in BOOLEAN, Face(b)
  PROVE  FaceType'
  BY DEF TypeOK, FaceType, WalkType, Face, Beat

LEMMA SeamType ==
  ASSUME TypeOK, NEW k \in {"untag", "word", "meta", "tag"}
  PROVE  Seam(k) \in [kind : {"none", "untag", "word", "meta", "tag"},
                      slot : Slots, tag : Blocks]
  BY DEF TypeOK, MoveType, Seam

LEMMA MoveTypeStep ==
  ASSUME TypeOK, NEW b \in BOOLEAN, Master(b)
  PROVE  MoveType'
<1> USE SeamType DEF TypeOK, MoveType, FaceType
<1> NoWrite \in [kind : {"none", "untag", "word", "meta", "tag"},
                 slot : Slots, tag : Blocks]
  BY DEF NoWrite
<1>1. CASE ResetMaster
  BY <1>1 DEF ResetMaster
<1>2. CASE P_IDLE
  BY <1>2 DEF P_IDLE
<1>3. CASE P_TAKE
  BY <1>3 DEF P_TAKE
<1>4. CASE P_R(b)
  BY <1>4 DEF P_R
<1>5. CASE P_TAG
  BY <1>5 DEF P_TAG
<1>6. CASE P_W(b)
  BY <1>6 DEF P_W
<1> QED
  BY <1>1, <1>2, <1>3, <1>4, <1>5, <1>6 DEF Master

LEMMA TypeStep ==
  ASSUME TypeOK, PrefetchOnPack, [Next]_vars
  PROVE  TypeOK' /\ PrefetchOnPack'
<1>1. CASE Next
  BY <1>1, WalkTypeStep, HoldTypeStep, TagTypeStep, LookTypeStep, ReqTypeStep,
     FaceTypeStep, MoveTypeStep DEF Next, Tick, TypeOK
<1>2. CASE UNCHANGED vars
  <2> USE <1>2 DEF TypeOK, vars
  <2>1. WalkType' /\ PrefetchOnPack'
    BY Zenon DEF walkVars, WalkType, PrefetchOnPack, nb_off_pack
  <2>2. HoldType' /\ TagType'
    BY Zenon DEF holdVars, tagVars, HoldType, TagType
  <2>3. LookType' /\ ReqType'
    BY Zenon DEF lookVars, reqVars, LookType, ReqType
  <2>4. FaceType'
    BY Zenon DEF faceVars, FaceType
  <2>5. MoveType'
    BY Zenon DEF moveVars, MoveType
  <2> QED
    BY <2>1, <2>2, <2>3, <2>4, <2>5
<1> QED
  BY <1>1, <1>2

\* Every register of the two sides keeps its type, the heads on the pack and
\* the key of the lookup a block of it.
THEOREM TypeCorrect == Spec => []TypeOK
<1>1. Init => TypeOK /\ PrefetchOnPack
  BY TypeInit
<1>2. TypeOK /\ PrefetchOnPack /\ [Next]_vars => (TypeOK /\ PrefetchOnPack)'
  BY TypeStep
<1> QED
  BY <1>1, <1>2, PTL DEF Spec

-----------------------------------------------------------------------------
(* The interlock.  A walk that has chosen a slot is seen by the pack side   *)
(* a tick later in ch_slot_q and two ticks later in bad_ch_q.  Seen and     *)
(* Barred say so; from there on no move is accepted on the slot, and a move *)
(* that was on it is what C_HDRCK asks about.                               *)

BlockWalk ==
  \/ ch_state \in {"C_HDRC", "C_HDRE", "C_HDRCK", "C_PF", "C_MOVE"}
  \/ ch_state = "C_NEXT" /\ ~ch_track

\* How many ticks the walk has had its slot, three at the most.
Held(n) ==
  \/ BlockWalk /\ (ch_state = "C_HDRC" => ch_ph >= n)
  \/ TrackTouch /\ ch_ph >= n

SeenByFace == Held(1) /\ rst_q = 0 =>
                ch_active_q = 1 /\ ch_waiting_q = 0 /\ ch_slot_q = ch_slot
Barred == Held(2) /\ rst_q = 0 =>
            (go_q \in Moves /\ r_slot = ch_slot => bad_ch_q = 1)

\* C_HDRCK has its answer, or the walk has gone on.
Cleared == (ch_state = "C_HDRCK" /\ ch_ph # 0 /\ slot_ok_q = 1) \/ BlockTouch

WalkInv ==
  /\ waiting = 1 => ch_state = "C_LOOK"
  /\ ch_state \in {"C_TRD", "C_TWR"} => ch_track
MasterInv ==
  /\ pst # "P_IDLE" => busy = 1
  /\ store_we.kind # "none" => store_we.slot = p_slot
FaceInv == rst_q = 1 => go_q \notin Moves
ClearInv == Cleared => ch_slot \in s_valid /\ ~MoveOn(ch_slot)

InterlockInv ==
  TypeOK /\ PrefetchOnPack /\ WalkInv /\ MasterInv /\ FaceInv
  /\ SeenByFace /\ Barred /\ ClearInv

LEMMA InterlockInit == Init => InterlockInv
<1> SUFFICES ASSUME Init PROVE InterlockInv
  OBVIOUS
<1>1. TypeOK /\ PrefetchOnPack
  BY TypeInit
<1>2. WalkInv /\ MasterInv /\ FaceInv
  BY DEF Init, WalkInv, MasterInv, FaceInv, NoWrite
<1>3. ~Held(1) /\ ~Held(2) /\ ~Cleared
  BY DEF Init, Held, BlockWalk, TrackTouch, Cleared, BlockTouch
<1> QED
  BY <1>1, <1>2, <1>3 DEF InterlockInv, SeenByFace, Barred, ClearInv

\* What the walk does to the states the invariant names, and when it keeps
\* its slot.
LEMMA WalkStep ==
  ASSUME TypeOK, WalkInv, Walk
  PROVE  /\ WalkInv'
         /\ Held(1)' => Held(0) /\ ch_slot' = ch_slot /\ rst_q = 0
         /\ Held(2)' => Held(1) /\ ch_slot' = ch_slot /\ rst_q = 0
         /\ Cleared' => \/ ch_state = "C_HDRCK" /\ ch_ph = 0 /\ slot_ok_q' = 1
                        \/ Cleared
<1> USE DEF TypeOK, WalkType, WalkStates, WalkInv, Held, BlockWalk, TrackTouch,
        Cleared, BlockTouch, ch_track
<1>1. CASE rst_q = 1
  BY <1>1 DEF Walk, ResetWalk
<1>2. CASE rst_q # 1 /\ C_IDLE
  BY <1>2 DEF C_IDLE, HoldType, Starts, NoStore, Reset
<1> USE DEF Goto, Wait, Phase, Stay, End
<1>3. CASE rst_q # 1 /\ C_CCW
  BY <1>3 DEF C_CCW
<1>4. CASE rst_q # 1 /\ C_LOOK
  BY <1>4 DEF C_LOOK, LookType
<1>5. CASE rst_q # 1 /\ C_HDR
  BY <1>5 DEF C_HDR, HoldType
<1>6. CASE rst_q # 1 /\ C_HDRCK
  BY <1>6 DEF C_HDRCK, HoldType
<1>7. CASE rst_q # 1 /\ C_PF
  BY <1>7 DEF C_PF, HoldType
<1>8. CASE rst_q # 1 /\ C_MOVE
  BY <1>8 DEF C_MOVE, HoldType
<1>9. CASE rst_q # 1 /\ C_NEXT
  BY <1>9 DEF C_NEXT, HoldType
<1>10. CASE rst_q # 1 /\ C_TLOOK
  BY <1>10 DEF C_TLOOK, LookType
<1>11. CASE rst_q # 1 /\ C_TRD
  BY <1>11 DEF C_TRD, LookType, trk_b_next, HoldType
<1>12. CASE rst_q # 1 /\ C_TWR
  BY <1>12 DEF C_TWR, LookType, trk_b_next, HoldType
<1>13. CASE rst_q # 1 /\ C_ACC
  BY <1>13 DEF C_ACC
<1> QED
  BY ZenonT(40), <1>1, <1>2, <1>3, <1>4, <1>5, <1>6, <1>7, <1>8, <1>9, <1>10, <1>11,
     <1>12, <1>13 DEF Walk

\* A move is on a slot because it was, or because the face accepted it there.
LEMMA MasterStep ==
  ASSUME TypeOK, MasterInv, Master(rst # 0)
  PROVE  /\ MasterInv'
         /\ moving' => \/ moving /\ p_slot' = p_slot
                       \/ Accepted /\ p_slot' = r_slot
<1> USE DEF TypeOK, MoveType, MasterInv, moving, NoWrite, Seam
<1>1. CASE ResetMaster
  BY <1>1 DEF ResetMaster
<1>2. CASE P_IDLE
  BY <1>2 DEF P_IDLE
<1>3. CASE P_TAKE
  BY <1>3 DEF P_TAKE
<1>4. CASE P_R(rst # 0)
  BY <1>4 DEF P_R
<1>5. CASE P_TAG
  BY <1>5 DEF P_TAG
<1>6. CASE P_W(rst # 0)
  BY <1>6 DEF P_W
<1> QED
  BY <1>1, <1>2, <1>3, <1>4, <1>5, <1>6 DEF Master

LEMMA FaceStep ==
  ASSUME InterlockInv, Walk, Face(rst # 0), FabricReset
  PROVE  FaceInv' /\ SeenByFace' /\ Barred'
<1> USE DEF InterlockInv, Face, FabricReset, TypeOK, FaceType, HoldType
<1>1. FaceInv'
  BY DEF FaceInv
<1>2. SeenByFace'
  <2> SUFFICES ASSUME Held(1)', rst_q' = 0
               PROVE  ch_active_q' = 1 /\ ch_waiting_q' = 0 /\ ch_slot_q' = ch_slot'
    BY DEF SeenByFace
  <2>1. Held(0) /\ ch_slot' = ch_slot
    BY WalkStep
  <2>2. ch_active /\ waiting = 0
    BY <2>1 DEF Held, BlockWalk, TrackTouch, ch_active, WalkInv, WalkType
  <2> QED
    BY <2>1, <2>2
<1>3. Barred'
  <2> SUFFICES ASSUME Held(2)', rst_q' = 0, go_q' \in Moves, r_slot' = ch_slot'
               PROVE  bad_ch_q' = 1
    BY DEF Barred
  <2>1. Held(1) /\ ch_slot' = ch_slot /\ rst_q = 0
    BY WalkStep
  <2>2. r_slot' = r_slot
    BY DEF Beat
  <2> QED
    BY <2>1, <2>2 DEF SeenByFace
<1> QED
  BY <1>1, <1>2, <1>3

\* Two ticks after the walk took its slot, the face accepts no move on it.
LEMMA NotAccepted ==
  ASSUME InterlockInv, Held(2), rst_q = 0, ~MoveOn(ch_slot), Master(rst # 0)
  PROVE  ~(moving' /\ p_slot' = ch_slot)
<1>0. TypeOK /\ MasterInv
  BY DEF InterlockInv
<1>1. moving' => (moving /\ p_slot' = p_slot) \/ (Accepted /\ p_slot' = r_slot)
  BY <1>0, MasterStep
<1>2. Accepted => r_slot # ch_slot
  BY DEF Accepted, refuse, go_any, InterlockInv, Barred
<1> QED
  BY <1>1, <1>2 DEF MoveOn

LEMMA ClearStep ==
  ASSUME InterlockInv, Walk, Tags, Lookup, Master(rst # 0)
  PROVE  ClearInv'
<1> SUFFICES ASSUME Cleared'
             PROVE  ch_slot' \in s_valid' /\ ~MoveOn(ch_slot)'
  BY DEF ClearInv
<1> USE DEF InterlockInv
<1>1. Held(2)'
  BY DEF Cleared, BlockTouch, Held, BlockWalk
<1>2. ch_slot' = ch_slot /\ rst_q = 0
  BY <1>1, WalkStep
<1>3. \/ ch_state = "C_HDRCK" /\ ch_ph = 0 /\ slot_ok_q' = 1
      \/ Cleared
  BY WalkStep
<1>4. Held(2)
  BY <1>3 DEF Cleared, BlockTouch, Held, BlockWalk
<1>5. ch_slot \in s_valid /\ ~MoveOn(ch_slot)
  <2>1. CASE Cleared
    BY <2>1 DEF ClearInv
  <2>2. CASE slot_ok_q' = 1
    BY <2>2 DEF Lookup, slot_ok
  <2> QED
    BY <1>3, <2>1, <2>2
<1>6. ch_slot \in s_valid'
  <2>1. store_we.kind = "untag" => store_we.slot # ch_slot
    BY <1>5 DEF MoveOn, moving, MasterInv
  <2> QED
    BY <1>2, <1>5, <2>1 DEF Tags
<1>7. ~(moving' /\ p_slot' = ch_slot)
  BY <1>2, <1>4, <1>5, NotAccepted
<1> QED
  BY <1>2, <1>6, <1>7 DEF MoveOn

LEMMA InterlockStep ==
  ASSUME InterlockInv, [Next]_vars
  PROVE  InterlockInv'
<1>1. CASE Next
  <2> USE <1>1 DEF Next, Tick
  <2>1. TypeOK' /\ PrefetchOnPack'
    BY TypeStep DEF InterlockInv
  <2>2. WalkInv'
    BY WalkStep DEF InterlockInv
  <2>3. MasterInv'
    BY MasterStep DEF InterlockInv
  <2>4. FaceInv' /\ SeenByFace' /\ Barred'
    BY FaceStep
  <2>5. ClearInv'
    BY ClearStep
  <2> QED
    BY <2>1, <2>2, <2>3, <2>4, <2>5 DEF InterlockInv
<1>2. CASE UNCHANGED vars
  <2>1. TypeOK' /\ PrefetchOnPack'
    BY TypeStep DEF InterlockInv
  <2> USE <1>2 DEF InterlockInv, vars, walkVars, holdVars, tagVars, lookVars, faceVars, moveVars
  <2>2. WalkInv' /\ MasterInv' /\ FaceInv'
    BY DEF WalkInv, MasterInv, FaceInv, ch_track
  <2>3. SeenByFace' /\ Barred'
    BY DEF SeenByFace, Barred, Held, BlockWalk, TrackTouch, ch_track
  <2>4. ClearInv'
    BY DEF ClearInv, Cleared, BlockTouch, ch_track, MoveOn, moving
  <2> QED
    BY <2>1, <2>2, <2>3, <2>4
<1> QED
  BY <1>1, <1>2

LEMMA InterlockInductive == Spec => []InterlockInv
<1>1. Init => InterlockInv
  BY InterlockInit
<1>2. InterlockInv /\ [Next]_vars => InterlockInv'
  BY InterlockStep
<1> QED
  BY <1>1, <1>2, PTL DEF Spec

\* cadr_disk_controller.sv's note at store_busy: whatever the pack side is
\* asked and whenever, no move is on the slot a block walk moves words of.
THEOREM Interlock == Spec => []BlockInterlock
<1>1. InterlockInv => BlockInterlock
  BY DEF InterlockInv, ClearInv, Cleared, BlockInterlock
<1> QED
  BY <1>1, InterlockInductive, PTL

\* The slot a block walk moves words of stays valid under it: neither a fetch
\* nor a take of it can be accepted before the walk has left it.
SlotStaysValid == BlockTouch => ch_slot \in s_valid

THEOREM SlotStays == Spec => []SlotStaysValid
<1>1. InterlockInv => SlotStaysValid
  BY DEF InterlockInv, ClearInv, Cleared, SlotStaysValid
<1> QED
  BY <1>1, InterlockInductive, PTL

\* The note at ch_active: a track walk that has held a slot three ticks with
\* no move on it keeps it to itself.
THEOREM TrackOwns == Spec => TrackOwnsItsSlot
<1>1. InterlockInv /\ [Next]_vars =>
        [TrackTouch /\ ch_ph = 3 /\ ~MoveOn(ch_slot) /\ TrackTouch' /\ ch_slot' = ch_slot
           => ~MoveOn(ch_slot)']_vars
  <2> SUFFICES ASSUME InterlockInv, Next, TrackTouch, ch_ph = 3, ~MoveOn(ch_slot),
                      TrackTouch', ch_slot' = ch_slot
               PROVE  ~MoveOn(ch_slot)'
    OBVIOUS
  <2>1. Held(2)
    BY DEF Held
  <2>2. rst_q = 0
    BY DEF Next, Tick, Walk, ResetWalk, TrackTouch, InterlockInv, TypeOK, HoldType
  <2>3. ~(moving' /\ p_slot' = ch_slot)
    BY <2>1, <2>2, NotAccepted DEF Next, Tick
  <2> QED
    BY <2>3 DEF MoveOn
<1> QED
  BY <1>1, InterlockInductive, PTL DEF Spec, TrackOwnsItsSlot
-----------------------------------------------------------------------------
(* The slots' contents.  A fetch takes the tag away before it stores a word *)
(* and puts it up after the header, so what the store calls valid is whole. *)

HIDE StoreAssumption DEF StoreAssumption, Slots, Blocks, Headers, HeaderOf, Moves, Tracks

\* What the master has on the seam in each of its states, and a slot being
\* filled is not valid once the first word is on its way.
SeamInv ==
  /\ pst = "P_TAKE" => store_we.kind = "none" /\ fill = FillTicks
  /\ pst = "P_R" => store_we.kind \in {"untag", "word"}
  /\ pst = "P_R" /\ store_we.kind = "untag" => fill = FillTicks
  /\ pst = "P_TAG" => store_we.kind = "meta" /\ store_we.tag = p_tag
  /\ store_we.kind \in {"word", "meta", "tag"} => p_slot \notin s_valid

\* Without a Write All the parser lays no header.
NoneLaid ==
  "writeall" \notin Commands =>
    ch_state # "C_TWR" /\ ps_st # "data" /\ trk_meta_we = 0

HeaderInv ==
  "writeall" \notin Commands =>
    /\ \A s \in s_valid : s_header[s] = HeaderOf(s_tag[s])
    /\ store_we.kind = "tag" => s_header[store_we.slot] = HeaderOf(store_we.tag)

WholeInv == InterlockInv /\ SeamInv /\ NoneLaid /\ HeaderInv

LEMMA WholeInit == Init => WholeInv
<1> SUFFICES ASSUME Init PROVE WholeInv
  OBVIOUS
<1>1. SeamInv /\ NoneLaid
  BY DEF Init, SeamInv, NoneLaid, NoWrite
<1>2. s_valid = {} /\ store_we.kind = "none"
  BY DEF Init, NoWrite
<1>3. HeaderInv
  BY <1>2 DEF HeaderInv
<1> QED
  BY <1>1, <1>3, InterlockInit DEF WholeInv

\* What a tick of a fetch's bursts puts on the seam.
LEMMA BurstStep ==
  ASSUME NEW fabric_rst, P_R(fabric_rst)
  PROVE  /\ pst = "P_R" /\ p_slot' = p_slot /\ p_tag' = p_tag
         /\ \/ /\ store_we' = Seam("word") /\ pst' \in {"P_R", "P_IDLE"}
               /\ fill' = IF fill = 0 THEN 0 ELSE fill - 1
            \/ store_we' = Seam("meta") /\ pst' \in {"P_TAG", "P_IDLE"} /\ fill = 0
<1>1. pst = "P_R" /\ p_slot' = p_slot /\ p_tag' = p_tag
  BY DEF P_R
<1>2. CASE /\ store_we' = Seam("word") /\ fill' = IF fill = 0 THEN 0 ELSE fill - 1
           /\ pst' \in IF p_drop = 1 THEN {"P_R", "P_IDLE"} ELSE {"P_R"}
  BY <1>1, <1>2
<1>3. CASE fill = 0 /\ store_we' = Seam("meta") /\ pst' = IF p_drop = 1 THEN "P_IDLE" ELSE "P_TAG"
  BY <1>1, <1>3
<1> QED
  BY <1>2, <1>3 DEF P_R

LEMMA SeamStep ==
  ASSUME InterlockInv, SeamInv, Tags, Master(rst # 0)
  PROVE  SeamInv'
<1> USE DEF InterlockInv, TypeOK, MoveType, SeamInv, NoWrite, Seam
<1>0. store_we.kind # "none" => store_we.slot = p_slot
  BY DEF MasterInv
<1>1. \/ s_valid' \subseteq s_valid /\ store_we.kind # "tag"
      \/ s_valid' \subseteq s_valid \union {p_slot} /\ store_we.kind = "tag"
  BY <1>0 DEF Tags
<1>2. store_we.kind = "untag" => p_slot \notin s_valid'
  BY <1>0 DEF Tags
<1>3. CASE ResetMaster
  BY <1>1, <1>3 DEF ResetMaster
<1>4. CASE P_IDLE
  BY <1>4 DEF P_IDLE
<1>5. CASE P_TAKE
  BY <1>5 DEF P_TAKE
<1>6. CASE P_R(rst # 0)
  <2>1. pst = "P_R" /\ p_slot' = p_slot /\ p_tag' = p_tag /\ p_slot \notin s_valid'
    BY <1>1, <1>2, <1>6, BurstStep
  <2>2. CASE store_we' = Seam("word") /\ pst' \in {"P_R", "P_IDLE"}
    BY <2>1, <2>2
  <2>3. CASE store_we' = Seam("meta") /\ pst' \in {"P_TAG", "P_IDLE"}
    BY <2>1, <2>3
  <2> QED
    BY <1>6, <2>2, <2>3, BurstStep
<1>7. CASE P_TAG
  BY <1>1, <1>7 DEF P_TAG
<1>8. CASE P_W(rst # 0)
  BY <1>8 DEF P_W
<1> QED
  BY <1>3, <1>4, <1>5, <1>6, <1>7, <1>8 DEF Master

LEMMA NoneLaidStep ==
  ASSUME TypeOK, NoneLaid, Walk
  PROVE  NoneLaid'
<1> USE DEF TypeOK, WalkType, WalkStates, NoneLaid
<1> SUFFICES ASSUME "writeall" \notin Commands
             PROVE  (ch_state # "C_TWR" /\ ps_st # "data" /\ trk_meta_we = 0)'
  OBVIOUS
<1>0. trk_meta_we' = 0
  BY DEF Walk
<1>1. CASE rst_q = 1
  BY <1>0, <1>1 DEF Walk, ResetWalk
<1>2. CASE rst_q # 1 /\ C_IDLE
  BY <1>0, <1>2 DEF C_IDLE
<1> USE <1>0 DEF Goto, Wait, Phase, Stay, End
<1>3. CASE rst_q # 1 /\ C_CCW
  BY <1>3 DEF C_CCW
<1>4. CASE rst_q # 1 /\ (C_LOOK \/ C_PF \/ C_MOVE \/ C_NEXT)
  BY <1>4 DEF C_LOOK, C_PF, C_MOVE, C_NEXT
<1>5. CASE rst_q # 1 /\ (C_HDR \/ C_HDRCK)
  BY <1>5 DEF C_HDR, C_HDRCK
<1>6. CASE rst_q # 1 /\ (C_TLOOK \/ C_TRD \/ C_ACC)
  BY <1>6 DEF C_TLOOK, C_TRD, C_ACC
<1>7. CASE rst_q # 1 /\ C_TWR
  BY <1>7 DEF C_TWR
<1> QED
  BY <1>1, <1>2, <1>3, <1>4, <1>5, <1>6, <1>7 DEF Walk

\* Without a Write All a header is written by a fetch alone, and is that of
\* the block fetched.
LEMMA HeaderWrites ==
  ASSUME WholeInv, "writeall" \notin Commands, Tags, NEW s \in Slots
  PROVE  /\ store_we.kind = "meta" /\ store_we.slot = s => s_header'[s] = HeaderOf(store_we.tag)
         /\ ~(store_we.kind = "meta" /\ store_we.slot = s) => s_header'[s] = s_header[s]
<1>1. s_header \in [Slots -> Headers] /\ trk_meta_we = 0
  BY DEF WholeInv, InterlockInv, TypeOK, TagType, NoneLaid
<1>2. RecordHeaders(store_we.tag) = {HeaderOf(store_we.tag)}
  BY DEF RecordHeaders
<1> QED
  BY <1>1, <1>2 DEF Tags

LEMMA HeaderStep ==
  ASSUME WholeInv, Tags, Master(rst # 0)
  PROVE  HeaderInv'
<1> SUFFICES ASSUME "writeall" \notin Commands
             PROVE  /\ \A s \in s_valid' : s_header'[s] = HeaderOf(s_tag'[s])
                    /\ store_we'.kind = "tag" =>
                         s_header'[store_we'.slot] = HeaderOf(store_we'.tag)
  BY DEF HeaderInv
<1> USE DEF WholeInv, InterlockInv, TypeOK, MoveType, TagType
<1>0. store_we.kind # "none" => store_we.slot = p_slot
  BY DEF MasterInv
<1>1. ASSUME NEW s \in s_valid'
      PROVE  s_header'[s] = HeaderOf(s_tag'[s])
  <2>0. s \in Slots /\ (s \in s_valid \/ (store_we.kind = "tag" /\ store_we.slot = s))
    BY DEF Tags
  <2>1. CASE store_we.kind = "tag" /\ store_we.slot = s
    <3>1. s_header'[s] = s_header[s]
      BY <2>0, <2>1, HeaderWrites
    <3>2. s_tag'[s] = store_we.tag
      BY <2>0, <2>1 DEF Tags
    <3> QED
      BY <2>1, <3>1, <3>2 DEF HeaderInv
  <2>2. CASE s \in s_valid /\ ~(store_we.kind = "tag" /\ store_we.slot = s)
    <3>1. ~(store_we.kind = "meta" /\ store_we.slot = s)
      BY <1>0, <2>2 DEF SeamInv
    <3>2. s_header'[s] = s_header[s]
      BY <2>0, <3>1, HeaderWrites
    <3>3. s_tag'[s] = s_tag[s]
      BY <2>0, <2>2 DEF Tags
    <3> QED
      BY <2>2, <3>2, <3>3 DEF HeaderInv
  <2> QED
    BY <2>0, <2>1, <2>2
<1>2. ASSUME store_we'.kind = "tag"
      PROVE  s_header'[store_we'.slot] = HeaderOf(store_we'.tag)
  <2>1. pst = "P_TAG" /\ store_we' = Seam("tag")
    <3>1. CASE ResetMaster
      BY <1>2, <3>1 DEF ResetMaster, Seam, NoWrite
    <3>2. CASE P_IDLE
      BY <1>2, <3>2 DEF P_IDLE, NoWrite
    <3>3. CASE P_TAKE
      BY <1>2, <3>3 DEF P_TAKE, Seam
    <3>4. CASE P_R(rst # 0)
      <4>1. store_we' = Seam("word") \/ store_we' = Seam("meta")
        BY <3>4, BurstStep, Zenon
      <4>2. store_we'.kind \in {"word", "meta"}
        BY <4>1 DEF Seam
      <4> QED
        BY <1>2, <4>2
    <3>5. CASE P_TAG
      BY <1>2, <3>5 DEF P_TAG, Seam, NoWrite
    <3>6. CASE P_W(rst # 0)
      BY <1>2, <3>6 DEF P_W, NoWrite
    <3> QED
      BY <3>1, <3>2, <3>3, <3>4, <3>5, <3>6 DEF Master
  <2>2. store_we.kind = "meta" /\ store_we.slot = p_slot /\ store_we.tag = p_tag
    BY <1>0, <2>1 DEF SeamInv
  <2>3. s_header'[p_slot] = HeaderOf(p_tag)
    BY <2>2, HeaderWrites, Zenon
  <2> QED
    BY <2>1, <2>3 DEF Seam
<1> QED
  BY <1>1, <1>2

LEMMA WholeStep ==
  ASSUME WholeInv, [Next]_vars
  PROVE  WholeInv'
<1>0. InterlockInv'
  BY InterlockStep DEF WholeInv
<1>1. CASE Next
  <2>1. SeamInv'
    BY <1>1, SeamStep DEF Next, Tick, WholeInv
  <2>2. NoneLaid'
    BY <1>1, NoneLaidStep DEF Next, Tick, WholeInv, InterlockInv
  <2>3. HeaderInv'
    BY <1>1, HeaderStep DEF Next, Tick
  <2> QED
    BY <1>0, <2>1, <2>2, <2>3 DEF WholeInv
<1>2. CASE UNCHANGED vars
  BY <1>0, <1>2 DEF WholeInv, SeamInv, NoneLaid, HeaderInv, vars, walkVars,
     tagVars, moveVars
<1> QED
  BY <1>1, <1>2

LEMMA WholeInductive == Spec => []WholeInv
<1>1. Init => WholeInv
  BY WholeInit
<1>2. WholeInv /\ [Next]_vars => WholeInv'
  BY WholeStep
<1> QED
  BY <1>1, <1>2, PTL DEF Spec

\* cadr_disk_pack.sv's order of a fetch, the tag taken away first and put up
\* last: a slot the store calls valid holds one whole record, whatever resets
\* come in the middle of a fetch.
THEOREM ValidSlotsAreWhole == Spec => []ValidIsWhole
<1>1. WholeInv => ValidIsWhole
  <2> SUFFICES ASSUME WholeInv, NEW s \in s_valid
               PROVE  /\ ~(store_we.kind \in {"word", "meta"} /\ store_we.slot = s)
                      /\ "writeall" \notin Commands => s_header[s] = HeaderOf(s_tag[s])
    BY DEF ValidIsWhole
  <2>1. ~(store_we.kind \in {"word", "meta"} /\ store_we.slot = s)
    BY DEF WholeInv, InterlockInv, MasterInv, SeamInv
  <2>2. "writeall" \notin Commands => s_header[s] = HeaderOf(s_tag[s])
    BY DEF WholeInv, HeaderInv
  <2> QED
    BY <2>1, <2>2
<1> QED
  BY <1>1, WholeInductive, PTL

-----------------------------------------------------------------------------
(* The look-up.  It is three registers deep, and the slot it names was the  *)
(* block's some ticks ago; a fill is too long to have put another there.    *)

\* Slot k held block b when it was looked up a ticks ago.  Its tag is still
\* b's, and so is its header: a fetch that has taken it since then is so many
\* ticks from its header, and from its tag, at the least.
Since(k, b, a) ==
  /\ s_tag[k] = b
  /\ "writeall" \in Commands \/ a >= FillTicks + 2 \/ s_header[k] = HeaderOf(b)
  /\ p_slot = k => /\ pst = "P_R" => fill >= FillTicks - a
                   /\ pst = "P_TAG" \/ store_we.kind = "meta" => a >= FillTicks + 1
                   /\ store_we.kind = "tag" => a >= FillTicks + 2

\* The block under the heads has been the key for n ticks.
Keyed(n) ==
  \/ ch_state = "C_CCW" /\ ~ch_track /\ ch_ph >= n
  \/ ch_state \in {"C_LOOK", "C_HDRC", "C_HDRE", "C_HDRCK"}

KeyInv ==
  /\ ch_state \in {"C_LOOK", "C_HDRC", "C_HDRE", "C_HDRCK", "C_PF", "C_MOVE"} => ~ch_track
  /\ Keyed(1) => want_tag_q = head
HitInv ==
  /\ Keyed(2) => \A k \in hit_q : Since(k, head, 1)
  /\ Keyed(3) /\ slot_hit = 1 => Since(slot_of, head, 2)

AgeInv ==
  /\ ch_state = "C_HDRC" => Since(ch_slot, head, 3 + ch_ph)
  /\ ch_state = "C_HDRE" => Since(ch_slot, head, 6 + ch_ph)
  /\ ch_state = "C_HDRCK" /\ ch_ph = 0 => Since(ch_slot, head, 10)
  /\ Cleared => s_tag[ch_slot] = head

\* What C_HDRC and C_HDRCK decide on.
CompareInv ==
  "writeall" \notin Commands =>
    /\ ch_state = "C_HDRC" /\ ch_ph >= 1 => hdr_q.blk = head
    /\ ch_state = "C_HDRC" /\ ch_ph = 2 => hdr_eq_q = 1
    /\ ch_state = "C_HDRCK" /\ ch_ph # 0 /\ slot_ok_q = 1 => hdr_q = HeaderOf(head)

LookInv == WholeInv /\ KeyInv /\ HitInv /\ AgeInv /\ CompareInv

\* The priority encoder names one of the hits.
LEMMA EncodeHits ==
  ASSUME NEW hits \in SUBSET Slots, hits # {}
  PROVE  Encode(hits) \in hits
<1> USE StoreAssumption DEF StoreAssumption, Slots
<1> DEFINE T == {n \in Nat : SlotCount - n \in hits}
<1>1. T # {} /\ T \subseteq Nat
  <2>1. PICK k \in hits : TRUE
    OBVIOUS
  <2>2. SlotCount - k \in Nat /\ SlotCount - (SlotCount - k) = k
    BY <2>1
  <2> QED
    BY <2>1, <2>2
<1>2. \E x \in T : \A y \in T : ~(<<y, x>> \in OpToRel(<, Nat))
  <2> HIDE DEF T
  <2> QED
    BY <1>1, NatLessThanWellFounded, WFMin
<1>3. PICK x \in T : \A y \in T : ~(<<y, x>> \in OpToRel(<, Nat))
  BY <1>2
<1>4. ASSUME NEW j \in hits  PROVE j <= SlotCount - x
  <2>1. SlotCount - j \in T
    <3>1. SlotCount - j \in Nat /\ SlotCount - (SlotCount - j) = j
      OBVIOUS
    <3> QED
      BY <3>1
  <2>2. ~(SlotCount - j < x)
    BY <1>3, <2>1 DEF OpToRel
  <2> QED
    BY <2>2
<1>5. \E k \in hits : \A j \in hits : j <= k
  BY <1>3, <1>4
<1>6. (CHOOSE k \in hits : \A j \in hits : j <= k) \in hits
  BY <1>5, Zenon
<1> QED
  BY <1>5, <1>6 DEF Encode

LEMMA FillIsNat == FillTicks \in Nat
  BY StoreAssumption DEF StoreAssumption

\* A slot that holds the block now has held it for no time yet.
LEMMA SinceNow ==
  ASSUME WholeInv, NEW k \in s_valid
  PROVE  Since(k, s_tag[k], 0)
<1> USE DEF WholeInv, InterlockInv, TypeOK, MoveType
<1>1. "writeall" \notin Commands => s_header[k] = HeaderOf(s_tag[k])
  BY DEF HeaderInv
<1>2. p_slot = k => store_we.kind \notin {"word", "meta", "tag"}
  BY DEF SeamInv
<1>3. p_slot = k => pst # "P_TAG" /\ (pst = "P_R" => fill = FillTicks)
  BY <1>2 DEF SeamInv
<1>4. FillTicks >= FillTicks - 0
  BY FillIsNat
<1> QED
  BY <1>1, <1>2, <1>3, <1>4, Zenon DEF Since

\* A tick later it is a tick older, as long as no fetch can have ended.
LEMMA SinceStep ==
  ASSUME WholeInv, Tags, Master(rst # 0), NEW k \in Slots, NEW b, NEW a \in Nat,
         NEW c, c = a + 1, Since(k, b, a), a <= FillTicks + 1
  PROVE  /\ s_tag'[k] = b
         /\ "writeall" \in Commands \/ c >= FillTicks + 2 \/ s_header'[k] = HeaderOf(b)
         /\ p_slot' = k => /\ pst' = "P_R" => fill' >= FillTicks - c
                           /\ pst' = "P_TAG" \/ store_we'.kind = "meta" => c >= FillTicks + 1
                           /\ store_we'.kind = "tag" => c >= FillTicks + 2
<1>0. /\ s_tag \in [Slots -> Blocks] /\ MoveType
      /\ store_we.kind # "none" => store_we.slot = p_slot
  BY DEF WholeInv, InterlockInv, TypeOK, TagType, MasterInv
<1>1. s_tag'[k] = b
  <2>1. ~(store_we.kind = "tag" /\ store_we.slot = k)
    <3>1. ~(a >= FillTicks + 2)
      BY FillIsNat
    <3> QED
      BY <1>0, <3>1, Zenon DEF Since
  <2>2. s_tag[k] = b
    BY DEF Since
  <2> QED
    BY <1>0, <2>1, <2>2 DEF Tags
<1>2. "writeall" \in Commands \/ c >= FillTicks + 2 \/ s_header'[k] = HeaderOf(b)
  <2> SUFFICES ASSUME "writeall" \notin Commands, ~(c >= FillTicks + 2)
               PROVE  s_header'[k] = HeaderOf(b)
    OBVIOUS
  <2>1. s_header[k] = HeaderOf(b) /\ ~(store_we.kind = "meta" /\ store_we.slot = k)
    <3>1. ~(a >= FillTicks + 2) /\ ~(a >= FillTicks + 1)
      BY FillIsNat
    <3> QED
      BY <1>0, <3>1, Zenon DEF Since
  <2>2. s_header'[k] = s_header[k]
    BY <2>1, HeaderWrites
  <2> QED
    BY <2>1, <2>2
<1>3. ASSUME p_slot' = k
      PROVE  /\ pst' = "P_R" => fill' >= FillTicks - c
             /\ pst' = "P_TAG" \/ store_we'.kind = "meta" => c >= FillTicks + 1
             /\ store_we'.kind = "tag" => c >= FillTicks + 2
  <2>0. /\ fill \in Nat
        /\ p_slot = k => /\ pst = "P_R" => fill >= FillTicks - a
                         /\ pst = "P_TAG" => a >= FillTicks + 1
    BY <1>0, FillIsNat DEF MoveType, Since
  <2>1. CASE ResetMaster
    <3>1. /\ pst' = "P_IDLE" /\ p_slot' = p_slot /\ store_we'.kind # "meta"
          /\ store_we'.kind = "tag" => pst = "P_TAG"
      BY <2>1 DEF ResetMaster, NoWrite, Seam
    <3> QED
      BY <1>3, <2>0, <3>1, FillIsNat
  <2>2. CASE P_IDLE
    <3>1. pst' \notin {"P_R", "P_TAG"} /\ store_we'.kind = "none"
      BY <2>2 DEF P_IDLE, NoWrite
    <3> QED
      BY <3>1
  <2>3. CASE P_TAKE
    <3>1. fill = FillTicks
      BY <2>3 DEF P_TAKE, WholeInv, SeamInv
    <3>2. fill' = fill /\ pst' # "P_TAG" /\ store_we'.kind = "untag"
      BY <2>3 DEF P_TAKE, Seam
    <3> QED
      BY <3>1, <3>2, FillIsNat
  <2>4. CASE P_R(rst # 0)
    <3>0. /\ pst = "P_R" /\ p_slot' = p_slot
          /\ \/ /\ store_we' = Seam("word") /\ pst' \in {"P_R", "P_IDLE"}
                /\ fill' = IF fill = 0 THEN 0 ELSE fill - 1
             \/ store_we' = Seam("meta") /\ pst' \in {"P_TAG", "P_IDLE"} /\ fill = 0
      BY <2>4, BurstStep, Zenon
    <3>1. /\ pst = "P_R" /\ p_slot' = p_slot /\ store_we'.kind # "tag"
          /\ pst' = "P_TAG" \/ store_we'.kind = "meta" => fill = 0
          /\ pst' = "P_R" => fill' = IF fill = 0 THEN 0 ELSE fill - 1
      BY <3>0 DEF Seam
    <3> QED
      BY <1>3, <2>0, <3>1, FillIsNat
  <2>5. CASE P_TAG
    <3>1. pst = "P_TAG" /\ pst' = "P_IDLE" /\ p_slot' = p_slot /\ store_we'.kind # "meta"
      BY <2>5 DEF P_TAG, NoWrite, Seam
    <3> QED
      BY <1>3, <2>0, <3>1, FillIsNat
  <2>6. CASE P_W(rst # 0)
    <3>1. pst' \notin {"P_R", "P_TAG"} /\ store_we'.kind = "none"
      BY <2>6 DEF P_W, NoWrite
    <3> QED
      BY <3>1
  <2> QED
    BY <2>1, <2>2, <2>3, <2>4, <2>5, <2>6, Zenon DEF Master
<1> QED
  BY <1>1, <1>2, <1>3

\* What the walk does to the key, the slot and the block under the heads.
LEMMA KeyStep ==
  ASSUME TypeOK, KeyInv, Walk
  PROVE  /\ ch_state' \in {"C_LOOK", "C_HDRC", "C_HDRE", "C_HDRCK", "C_PF", "C_MOVE"} => ~ch_track'
         /\ Keyed(1)' => Keyed(0) /\ head' = head
         /\ Keyed(2)' => Keyed(1) /\ head' = head
         /\ Keyed(3)' => Keyed(2) /\ head' = head
         /\ ch_state' = "C_HDRC" =>
              \/ ch_state = "C_LOOK" /\ slot_hit = 1 /\ ch_slot' = slot_of /\ ch_ph' = 0
              \/ ch_state = "C_HDRC" /\ ch_slot' = ch_slot /\ ch_ph' = ch_ph + 1 /\ ch_ph < 2
         /\ ch_state' = "C_HDRE" =>
              \/ ch_state = "C_HDRC" /\ ch_slot' = ch_slot /\ ch_ph = 2 /\ ch_ph' = 0
              \/ ch_state = "C_HDRE" /\ ch_slot' = ch_slot /\ ch_ph' = ch_ph + 1 /\ ch_ph < 3
         /\ ch_state' = "C_HDRCK" =>
              \/ ch_state = "C_HDRE" /\ ch_slot' = ch_slot /\ ch_ph = 3 /\ ch_ph' = 0
              \/ ch_state = "C_HDRCK" /\ ch_slot' = ch_slot /\ ch_ph = 0 /\ ch_ph' = 1
         /\ Cleared' => head' = head
<1> USE DEF Tracks, TypeOK, WalkType, WalkStates, Keyed, KeyInv, Cleared, BlockTouch, ch_track
<1>1. CASE rst_q = 1
  BY <1>1 DEF Walk, ResetWalk
<1>2. CASE rst_q # 1 /\ C_IDLE
  BY <1>2 DEF C_IDLE, HoldType, Starts, NoStore, Reset
<1> USE DEF Goto, Wait, Phase, Stay, End
<1>3. CASE rst_q # 1 /\ C_CCW
  BY <1>3 DEF C_CCW
<1>4. CASE rst_q # 1 /\ C_LOOK
  BY <1>4 DEF C_LOOK
<1>5. CASE rst_q # 1 /\ C_HDR
  BY <1>5 DEF C_HDR
<1>6. CASE rst_q # 1 /\ C_HDRCK
  BY <1>6 DEF C_HDRCK
<1>7. CASE rst_q # 1 /\ C_PF
  BY <1>7 DEF C_PF
<1>8. CASE rst_q # 1 /\ C_MOVE
  BY <1>8 DEF C_MOVE
<1>9. CASE rst_q # 1 /\ C_NEXT
  <2>1. ch_state' \in {"C_IDLE", "C_ACC", "C_CCW"} /\ ch_ph' = 0
    BY <1>9 DEF C_NEXT
  <2>2. ~Keyed(1)' /\ ~Keyed(2)' /\ ~Keyed(3)' /\ ~Cleared'
    BY <2>1
  <2> QED
    BY <2>1, <2>2
<1>10. CASE rst_q # 1 /\ C_TLOOK
  <2>1. ch_state' \in {"C_IDLE", "C_ACC", "C_TLOOK", "C_CCW"} /\ (ch_state' = "C_CCW" => ch_ph' = 0)
    BY <1>10 DEF C_TLOOK
  <2>2. ~Keyed(1)' /\ ~Keyed(2)' /\ ~Keyed(3)' /\ ~Cleared'
    BY <2>1
  <2> QED
    BY <2>1, <2>2
<1>11. CASE rst_q # 1 /\ C_TRD
  BY <1>11 DEF C_TRD
<1>12. CASE rst_q # 1 /\ C_TWR
  BY <1>12 DEF C_TWR
<1>13. CASE rst_q # 1 /\ C_ACC
  BY <1>13 DEF C_ACC
<1> QED
  BY <1>1, <1>2, <1>3, <1>4, <1>5, <1>6, <1>7, <1>8, <1>9, <1>10, <1>11,
     <1>12, <1>13, ZenonT(40) DEF Walk

\* The length of a fill that the look-up's depth asks for: from the tick the
\* tags are compared to the tick C_HDRCK asks about the slot is ten, and a
\* fetch that takes the slot is two ticks on the seam after its last word.
LongFill == FillTicks >= 8

LEMMA LookInit == Init => LookInv
<1> SUFFICES ASSUME Init PROVE LookInv
  OBVIOUS
<1>1. WholeInv
  BY WholeInit
<1>2. KeyInv /\ HitInv /\ AgeInv /\ CompareInv
  BY DEF Init, KeyInv, HitInv, AgeInv, CompareInv, Keyed, Cleared, BlockTouch
<1> QED
  BY <1>1, <1>2 DEF LookInv

LEMMA KeyInvStep ==
  ASSUME LookInv, Walk, Lookup
  PROVE  KeyInv'
<1>0. TypeOK /\ KeyInv
  BY DEF LookInv, WholeInv, InterlockInv
<1>1. Keyed(0) => want_tag = head
  BY <1>0 DEF want_tag, Keyed, KeyInv, ch_track
<1>2. (ch_state \in {"C_LOOK", "C_HDRC", "C_HDRE", "C_HDRCK", "C_PF", "C_MOVE"} => ~ch_track)'
  BY <1>0, KeyStep
<1>3. Keyed(1)' => want_tag_q' = head'
  BY <1>0, <1>1, KeyStep DEF Lookup
<1> QED
  BY <1>2, <1>3 DEF KeyInv

LEMMA HitStep ==
  ASSUME LookInv, LongFill, Walk, Tags, Lookup, Master(rst # 0)
  PROVE  HitInv'
<1>0. TypeOK /\ KeyInv /\ WholeInv /\ s_valid \subseteq Slots /\ hit_q \subseteq Slots
  BY DEF LookInv, WholeInv, InterlockInv, TypeOK, TagType, LookType
<1>1. ASSUME Keyed(2)', NEW k \in hit_q'
      PROVE  Since(k, head, 1)'
  <2>1. want_tag_q = head /\ head' = head
    BY <1>0, <1>1, KeyStep DEF KeyInv
  <2>2. k \in s_valid /\ s_tag[k] = head /\ k \in Slots
    BY <1>0, <1>1, <2>1 DEF Lookup
  <2>3. Since(k, head, 0)
    BY <1>0, <2>2, SinceNow
  <2>4. /\ s_tag'[k] = head
        /\ "writeall" \in Commands \/ 1 >= FillTicks + 2 \/ s_header'[k] = HeaderOf(head)
        /\ p_slot' = k => /\ pst' = "P_R" => fill' >= FillTicks - 1
                          /\ pst' = "P_TAG" \/ store_we'.kind = "meta" => 1 >= FillTicks + 1
                          /\ store_we'.kind = "tag" => 1 >= FillTicks + 2
    <3>1. 0 \in Nat /\ 1 = 0 + 1 /\ 0 <= FillTicks + 1
      BY FillIsNat
    <3> QED
      BY <1>0, <2>2, <2>3, <3>1, SinceStep, ZenonT(30)
  <2> QED
    BY <2>1, <2>4, Zenon DEF Since
<1>2. ASSUME Keyed(3)', slot_hit' = 1
      PROVE  Since(slot_of, head, 2)'
  <2>1. Keyed(2) /\ head' = head
    BY <1>0, <1>2, KeyStep
  <2>2. hit_q # {} /\ slot_of' = Encode(hit_q)
    <3>1. slot_hit' = Bit(hit_q # {}) /\ slot_of' = Encode(hit_q)
      BY Zenon DEF Lookup
    <3> QED
      BY <1>2, <3>1
  <2>3. PICK k \in hit_q : k = slot_of'
    BY <1>0, <2>2, EncodeHits
  <2>4. Since(k, head, 1) /\ k \in Slots
    BY <1>0, <2>1, <2>3 DEF LookInv, HitInv
  <2>5. /\ s_tag'[k] = head
        /\ "writeall" \in Commands \/ 2 >= FillTicks + 2 \/ s_header'[k] = HeaderOf(head)
        /\ p_slot' = k => /\ pst' = "P_R" => fill' >= FillTicks - 2
                          /\ pst' = "P_TAG" \/ store_we'.kind = "meta" => 2 >= FillTicks + 1
                          /\ store_we'.kind = "tag" => 2 >= FillTicks + 2
    <3>1. 1 \in Nat /\ 2 = 1 + 1 /\ 1 <= FillTicks + 1
      BY FillIsNat
    <3> QED
      BY <1>0, <2>4, <3>1, SinceStep, ZenonT(30)
  <2> QED
    BY <2>1, <2>3, <2>5, Zenon DEF Since
<1> QED
  BY <1>1, <1>2 DEF HitInv

LEMMA AgeStep ==
  ASSUME LookInv, LongFill, Walk, Tags, Lookup, Master(rst # 0)
  PROVE  AgeInv'
<1>0. TypeOK /\ KeyInv /\ WholeInv /\ ch_slot \in Slots /\ slot_of \in Slots /\ ch_ph \in 0..3
  BY DEF LookInv, WholeInv, InterlockInv, TypeOK, WalkType, LookType
<1>1. ASSUME NEW k \in Slots, NEW a \in 0..9, Since(k, head, a), ch_slot' = k, head' = head,
             NEW c, c = a + 1
      PROVE  Since(ch_slot, head, c)'
  <2>0. a \in Nat /\ a <= FillTicks + 1
    BY FillIsNat DEF LongFill
  <2>1. /\ s_tag'[k] = head
        /\ "writeall" \in Commands \/ c >= FillTicks + 2 \/ s_header'[k] = HeaderOf(head)
        /\ p_slot' = k => /\ pst' = "P_R" => fill' >= FillTicks - c
                          /\ pst' = "P_TAG" \/ store_we'.kind = "meta" => c >= FillTicks + 1
                          /\ store_we'.kind = "tag" => c >= FillTicks + 2
    BY <1>0, <1>1, <2>0, SinceStep, ZenonT(30)
  <2> QED
    BY <1>1, <2>1, Zenon DEF Since
<1>2. ch_state' \in {"C_HDRC", "C_HDRE", "C_HDRCK"} => head' = head
  BY <1>0, KeyStep DEF Keyed
<1>3. ASSUME ch_state' = "C_HDRC"  PROVE Since(ch_slot, head, 3 + ch_ph)'
  <2>1. CASE ch_state = "C_LOOK" /\ slot_hit = 1 /\ ch_slot' = slot_of /\ ch_ph' = 0
    <3>1. Since(slot_of, head, 2)
      BY <2>1 DEF LookInv, HitInv, Keyed
    <3>2. Since(ch_slot, head, 3)'
      BY <1>0, <1>1, <1>2, <1>3, <2>1, <3>1
    <3> QED
      BY <2>1, <3>2
  <2>2. CASE ch_state = "C_HDRC" /\ ch_slot' = ch_slot /\ ch_ph' = ch_ph + 1 /\ ch_ph < 2
    <3>1. PICK a \in 0..9 : a = 3 + ch_ph
      BY <1>0, <2>2
    <3>2. Since(ch_slot, head, a)
      BY <2>2, <3>1 DEF LookInv, AgeInv
    <3>3. Since(ch_slot, head, a + 1)'
      BY <1>0, <1>1, <1>2, <1>3, <2>2, <3>2
    <3>4. a + 1 = 3 + ch_ph'
      BY <1>0, <2>2, <3>1
    <3> QED
      BY <3>3, <3>4
  <2> QED
    BY <1>0, <1>3, <2>1, <2>2, KeyStep
<1>4. ASSUME ch_state' = "C_HDRE"  PROVE Since(ch_slot, head, 6 + ch_ph)'
  <2>1. PICK a \in 0..9 : Since(ch_slot, head, a) /\ a + 1 = 6 + ch_ph'
    <3>1. CASE ch_state = "C_HDRC" /\ ch_ph = 2 /\ ch_ph' = 0
      <4>1. Since(ch_slot, head, 5) /\ 5 + 1 = 6 + ch_ph'
        BY <3>1 DEF LookInv, AgeInv
      <4> QED
        BY <4>1
    <3>2. CASE ch_state = "C_HDRE" /\ ch_ph' = ch_ph + 1 /\ ch_ph < 3
      <4>1. Since(ch_slot, head, 6 + ch_ph) /\ 6 + ch_ph + 1 = 6 + ch_ph'
        BY <1>0, <3>2 DEF LookInv, AgeInv
      <4> QED
        BY <1>0, <3>2, <4>1
    <3> QED
      BY <1>0, <1>4, <3>1, <3>2, KeyStep
  <2>2. ch_slot' = ch_slot
    BY <1>0, <1>4, KeyStep
  <2>3. Since(ch_slot, head, a + 1)'
    BY <1>0, <1>1, <1>2, <1>4, <2>1, <2>2
  <2> QED
    BY <2>1, <2>3
<1>5. ASSUME ch_state' = "C_HDRCK", ch_ph' = 0  PROVE Since(ch_slot, head, 10)'
  <2>1. ch_state = "C_HDRE" /\ ch_slot' = ch_slot /\ ch_ph = 3
    BY <1>0, <1>5, KeyStep
  <2>2. Since(ch_slot, head, 9)
    BY <2>1 DEF LookInv, AgeInv
  <2>3. Since(ch_slot, head, 10)'
    BY <1>0, <1>1, <1>2, <1>5, <2>1, <2>2
  <2> QED
    BY <2>3
<1>6. ASSUME Cleared'  PROVE s_tag'[ch_slot'] = head'
  <2>1. /\ head' = head
        /\ (ch_state = "C_HDRCK" /\ ch_ph = 0 /\ slot_ok_q' = 1) \/ Cleared
    BY <1>0, <1>6, KeyStep, WalkStep DEF WholeInv, InterlockInv
  <2>2. ch_slot' = ch_slot
    BY <1>0, <1>6, WalkStep DEF WholeInv, InterlockInv, Held, Cleared, BlockTouch, BlockWalk
  <2>3. s_tag[ch_slot] = head /\ ~MoveOn(ch_slot)
    <3>1. CASE Cleared
      BY <3>1 DEF LookInv, AgeInv, WholeInv, InterlockInv, ClearInv
    <3>2. CASE ch_state = "C_HDRCK" /\ ch_ph = 0 /\ slot_ok_q' = 1
      <4>1. Since(ch_slot, head, 10)
        BY <3>2 DEF LookInv, AgeInv
      <4> QED
        <5>1. s_tag[ch_slot] = head
          BY <4>1 DEF Since
        <5>2. slot_ok_q' = Bit(slot_ok)
          BY Zenon DEF Lookup
        <5> QED
          BY <3>2, <5>1, <5>2 DEF slot_ok
    <3> QED
      BY <2>1, <3>1, <3>2
  <2>4. ~(store_we.kind = "tag" /\ store_we.slot = ch_slot)
    BY <1>0, <2>3 DEF MoveOn, moving, WholeInv, InterlockInv, MasterInv
  <2>5. s_tag'[ch_slot] = s_tag[ch_slot]
    BY <1>0, <2>4 DEF Tags, TypeOK, TagType
  <2> QED
    BY <2>1, <2>2, <2>3, <2>5
<1> QED
  BY <1>3, <1>4, <1>5, <1>6 DEF AgeInv

LEMMA CompareStep ==
  ASSUME LookInv, LongFill, Walk, Lookup
  PROVE  CompareInv'
<1> SUFFICES ASSUME "writeall" \notin Commands
             PROVE  /\ ch_state' = "C_HDRC" /\ ch_ph' >= 1 => hdr_q'.blk = head'
                    /\ ch_state' = "C_HDRC" /\ ch_ph' = 2 => hdr_eq_q' = 1
                    /\ ch_state' = "C_HDRCK" /\ ch_ph' # 0 /\ slot_ok_q' = 1 =>
                         hdr_q' = HeaderOf(head')
  BY DEF CompareInv
<1>0. TypeOK /\ KeyInv /\ WholeInv /\ ch_slot \in Slots /\ ch_ph \in 0..3
  BY DEF LookInv, WholeInv, InterlockInv, TypeOK, WalkType
<1>1. ch_state' \in {"C_HDRC", "C_HDRCK"} => head' = head
  BY <1>0, KeyStep DEF Keyed
<1>2. ASSUME ch_state' = "C_HDRC", ch_ph' >= 1  PROVE hdr_q'.blk = head'
  <2>1. ch_state = "C_HDRC" /\ ch_ph < 2
    <3>1. \/ ch_state = "C_LOOK" /\ ch_ph' = 0
          \/ ch_state = "C_HDRC" /\ ch_ph < 2
      BY <1>0, <1>2, KeyStep, Zenon
    <3> QED
      BY <1>2, <3>1
  <2>2. Since(ch_slot, head, 3 + ch_ph)
    BY <2>1 DEF LookInv, AgeInv
  <2>3. s_header[ch_slot] = HeaderOf(head)
    <3>1. ~(3 + ch_ph >= FillTicks + 2)
      BY <1>0, <2>1, FillIsNat DEF LongFill
    <3> QED
      BY <2>2, <3>1, Zenon DEF Since
  <2> QED
    <3>1. hdr_q' = HeaderOf(head)
      BY <2>3 DEF Lookup
    <3> QED
      BY <1>1, <1>2, <3>1 DEF HeaderOf
<1>3. ASSUME ch_state' = "C_HDRC", ch_ph' = 2  PROVE hdr_eq_q' = 1
  <2>1. ch_state = "C_HDRC" /\ ch_ph = 1
    <3>1. \/ ch_state = "C_LOOK" /\ ch_ph' = 0
          \/ ch_state = "C_HDRC" /\ ch_ph' = ch_ph + 1
      BY <1>0, <1>3, KeyStep, Zenon
    <3> QED
      BY <1>0, <1>3, <3>1
  <2>2. hdr_q.blk = head
    BY <2>1 DEF LookInv, CompareInv
  <2>3. want_tag_q = head
    BY <1>0, <2>1 DEF KeyInv, Keyed
  <2> QED
    BY <2>2, <2>3 DEF Lookup
<1>4. ASSUME ch_state' = "C_HDRCK", ch_ph' # 0, slot_ok_q' = 1
      PROVE  hdr_q' = HeaderOf(head')
  <2>1. ch_state = "C_HDRCK" /\ ch_ph = 0
    BY <1>0, <1>4, KeyStep
  <2>2. s_tag[ch_slot] = head
    <3>1. Since(ch_slot, head, 10)
      BY <2>1 DEF LookInv, AgeInv
    <3> QED
      BY <3>1 DEF Since
  <2>3. ch_slot \in s_valid
    <3>1. slot_ok_q' = Bit(slot_ok)
      BY Zenon DEF Lookup
    <3> QED
      BY <1>4, <3>1 DEF slot_ok
  <2>4. s_header[ch_slot] = HeaderOf(head)
    BY <1>0, <2>2, <2>3 DEF WholeInv, HeaderInv
  <2> QED
    BY <1>1, <1>4, <2>4 DEF Lookup
<1> QED
  BY <1>2, <1>3, <1>4

LEMMA LookStep ==
  ASSUME LookInv, LongFill, [Next]_vars
  PROVE  LookInv'
<1>0. WholeInv'
  BY WholeStep DEF LookInv
<1>1. CASE Next
  <2>1. KeyInv'
    BY <1>1, KeyInvStep DEF Next, Tick
  <2>2. HitInv'
    BY <1>1, HitStep DEF Next, Tick
  <2>3. AgeInv'
    BY <1>1, AgeStep DEF Next, Tick
  <2>4. CompareInv'
    BY <1>1, CompareStep DEF Next, Tick
  <2> QED
    BY <1>0, <2>1, <2>2, <2>3, <2>4 DEF LookInv
<1>2. CASE UNCHANGED vars
  <2> USE <1>2 DEF LookInv, vars, walkVars, tagVars, lookVars, moveVars
  <2>1. KeyInv'
    BY DEF KeyInv, Keyed, ch_track
  <2>2. HitInv'
    BY ZenonT(40) DEF HitInv, Keyed, Since, ch_track
  <2>3. AgeInv'
    BY ZenonT(40) DEF AgeInv, Since, Cleared, BlockTouch, ch_track
  <2>4. CompareInv'
    BY DEF CompareInv
  <2> QED
    BY <1>0, <2>1, <2>2, <2>3, <2>4
<1> QED
  BY <1>1, <1>2

LEMMA LookInductive == LongFill => (Spec => []LookInv)
<1> SUFFICES ASSUME LongFill PROVE Spec => []LookInv
  OBVIOUS
<1>1. Init => LookInv
  BY LookInit
<1>2. LookInv /\ [Next]_vars => LookInv'
  BY LookStep
<1> QED
  BY <1>1, <1>2, PTL DEF Spec

\* What a block walk moves is the block under the heads, for as long as it
\* touches the slot: between the look-up and C_HDRCK's question no fill is
\* short enough to have put another block there (a fill is 130 beats).
THEOREM WalkHasBlock == LongFill => (Spec => []WalkHasItsBlock)
<1> SUFFICES ASSUME LongFill PROVE Spec => []WalkHasItsBlock
  OBVIOUS
<1>1. LookInv => WalkHasItsBlock
  BY DEF LookInv, AgeInv, WholeInv, InterlockInv, ClearInv, Cleared, WalkHasItsBlock
<1> QED
  BY <1>1, LookInductive, PTL

\* Without a Write All every header is the format's own, and C_HDRC and
\* C_HDRCK never refuse one, however the pack side's fills fall.
THEOREM NoHeaderErrors ==
  LongFill /\ "writeall" \notin Commands => (Spec => []NoFalseHeaderError)
<1> SUFFICES ASSUME LongFill, "writeall" \notin Commands
             PROVE  Spec => []NoFalseHeaderError
  OBVIOUS
<1>1. LookInv => NoFalseHeaderError
  BY DEF LookInv, CompareInv, NoFalseHeaderError
<1> QED
  BY <1>1, LookInductive, PTL
=============================================================================
