---------------------------- MODULE MCDiskStore ----------------------------
(***************************************************************************)
(* DiskStore for TLC.  A register that is written again before anything    *)
(* reads it is left out of the state TLC tells apart: Seen keeps a         *)
(* register exactly when its present value can still be read.  The request *)
(* registers are read by Linux alone, which here asks for anything.        *)
(***************************************************************************)
EXTENDS DiskStore

Kept(c, x) == IF c THEN x ELSE "-"

walking == ch_state \notin {"C_IDLE", "C_ACC"}
tracking == ch_state \in {"C_TLOOK", "C_TRD", "C_TWR"}

\* The look-up is read in C_LOOK, by C_PF at its last tick, and by a track;
\* each of its registers from as many ticks before as it is deep.  C_CCW takes
\* three ticks and C_PF four, so a look-up of before them is not read.
At(state, ph) == ch_state = state /\ ch_ph >= ph
keyRead == tracking \/ ch_state \in {"C_LOOK", "C_HDRC", "C_HDRE", "C_HDRCK"}
             \/ At("C_CCW", 1) \/ At("C_PF", 1)
hitRead == tracking \/ ch_state = "C_LOOK" \/ At("C_CCW", 2) \/ At("C_HDRCK", 1) \/ At("C_PF", 2)
slotRead == tracking \/ ch_state = "C_LOOK" \/ At("C_PF", 3)

\* The header is read at the last tick of C_HDRC and of C_HDRCK.
headerRead == At("C_HDRC", 1) \/ At("C_HDRCK", 1)

Seen ==
  <<ch_state, ch_ph, ch_slot, waiting, Kept(walking, ch_cmd),
    Kept(walking /\ ch_state \notin {"C_CCW", "C_TLOOK"}, ch_more), Kept(walking, head),
    Kept(walking, trk_b), ps_st, trk_meta_we, store_q, st_go, rst, rst_q, s_valid,
    [s \in Slots |-> Kept(s \in s_valid, s_tag[s])],
    Kept("block" \in Commands, s_header),
    Kept(keyRead, want_tag_q), Kept(hitRead, hit_q), Kept(slotRead, <<slot_hit, slot_of>>),
    Kept(headerRead, hdr_q), Kept(At("C_HDRC", 2), hdr_eq_q), Kept(At("C_HDRCK", 1), slot_ok_q),
    ch_active_q, Kept(ch_active_q = 1, <<ch_waiting_q, ch_slot_q>>),
    go_q, Kept(go_q \in Moves, bad_ch_q),
    Kept(go_q \in {"regs"} \cup Moves, <<r_slot, r_tag>>),
    pst, Kept(pst = "P_R", fill), busy, Kept(busy = 1, <<error, take_only>>),
    Kept(moving, <<p_slot, p_tag>>), p_drop, store_we>>
=============================================================================
