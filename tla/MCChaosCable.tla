---------------------------- MODULE MCChaosCable ----------------------------
(***************************************************************************)
(* Instances of ChaosCable: frames short enough to enumerate, one of them  *)
(* long enough for the next give to write the window while it streams.     *)
(***************************************************************************)
EXTENDS ChaosCable

MCKinds ==
  {[by |-> "machine", to |-> "me", len |-> 2], [by |-> "machine", to |-> "else", len |-> 1],
   [by |-> "net", to |-> "me", len |-> 6], [by |-> "net", to |-> "me", len |-> 1],
   [by |-> "net", to |-> "all", len |-> 1], [by |-> "net", to |-> "else", len |-> 1]}

MCShortKinds ==
  {[by |-> "machine", to |-> "me", len |-> 1], [by |-> "net", to |-> "me", len |-> 1]}

\* The state without what nothing reads before it is written again: the words
\* of a buffer that holds no frame, the counts of an idle stream, LOST but for
\* what it has moved since the program read it, and which of the counters that
\* no property tells apart a frame went to.
Seen ==
  LET live(p, x) == IF p THEN x ELSE <<>>
      giving == pc \in {"fill", "length", "commit", "after"}
  IN <<kind, card, cst, tx_valid, live(tx_valid = 1 \/ cst # "C_IDLE", <<tx_buf, out>>),
       live(tx_valid = 1, <<tx_seen>>), live(xst # "X_IDLE" \/ giving, rx_buf), r_rxlen, xst,
       live(xst # "X_IDLE", <<sent, x_len>>), live(xst # "X_IDLE" \/ rdone = 1, given),
       live(giving, <<lost - before>>), rx_free, moved, pc, hand, k, refused, aborted,
       live(frame # <<>>, <<ret, frame>>), queue, offers, held, landed,
       [f \in DOMAIN fate |-> fate[f] \in {"given_up", "no_room"}]>>
=============================================================================
