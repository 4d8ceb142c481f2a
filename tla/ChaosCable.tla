----------------------------- MODULE ChaosCable -----------------------------
(***************************************************************************)
(* The Chaosnet of the CADR: the interface card (cadr_io_board.sv), the    *)
(* cable in the fabric (cadr_chaos_cable.sv) and the program that is the   *)
(* ether (cadr-chaosnet).  The card and the cable move a word a tick; the  *)
(* program reads and writes the cable's registers one access at a time,    *)
(* and the machine may clear or reset its interface between any two.       *)
(*                                                                         *)
(* A frame is a number and a word of it is that number: kind says where    *)
(* each frame goes and how many words it has, which its last word tells    *)
(* whoever reads it.  A word the window does not hold reads 0.             *)
(***************************************************************************)
EXTENDS Integers, Sequences, FiniteSets

CONSTANTS
  Kinds,        \* the frames there may be: sent by the "machine" or off the
                \* "net"; to "me", "all" or "else"; of how many of 4 to 255
                \* words
  FrameBound,   \* the frames sent and arrived
  QueueLength,  \* CHAOS_INJECT_QUEUE
  Offers,       \* CHAOS_INJECT_OFFERS
  Events        \* what else the machine does to its interface: "clear_tx",
                \* "clear_rx", "reset", "mode" (Loop Back and Spy), "short"

ASSUME ChaosAssumption ==
  /\ Kinds \subseteq [by : {"machine", "net"}, to : {"me", "all", "else"}, len : Nat \ {0}]
  /\ \E x \in Kinds : \A y \in Kinds : y.len <= x.len
  /\ FrameBound \in Nat /\ QueueLength \in Nat \ {0} /\ Offers \in Nat \ {0, 1}
  /\ Events \subseteq {"clear_tx", "clear_rx", "reset", "mode", "short"}

Bits == {0, 1}
Bit(p) == IF p THEN 1 ELSE 0
MaxWords == (CHOOSE x \in Kinds : \A y \in Kinds : y.len <= x.len).len

VARIABLES
  kind,         \* the frames so far, numbered as they came
  \* the card
  tdone, tabort, rdone,         \* its CSR
  rbuf, drop,   \* the words stored of the stream, ch_drop
  \* the cable, towards the program
  cst, tx_buf, tx_valid, tx_seen, out,
  \* the cable, towards the card
  rx_buf, r_rxlen, xst, sent, x_len, lost, rx_free,
  moved,        \* the streams have moved a word since the last access
  \* the program
  pc, hand, k, refused, before, aborted, ret, frame, queue, offers, held,
  fate,         \* what the program counted each arrived frame as
  \* history
  given,        \* the words of the last commit taken
  landed        \* the arrived frames to this machine by name that landed

card == <<tdone, tabort, rdone, rbuf, drop>>
txVars == <<cst, tx_buf, tx_valid, tx_seen, out>>
rxVars == <<rx_buf, r_rxlen, xst, sent, x_len, lost, rx_free>>
program == <<pc, hand, k, refused, before, aborted, ret, frame, queue, offers, held>>
history == <<given, landed>>
vars == <<kind, fate, card, txVars, rxVars, moved, program, history>>

-----------------------------------------------------------------------------
(* The machine and its card.  The driver writes a packet when Transmit     *)
(* Done is up and reads a packet out before it clears the receiver.        *)

New(f, as) == Len(kind) < FrameBound /\ kind' = Append(kind, f) /\ fate' = Append(fate, as)

\* The words of a packet, and START.  A frame of 48 bits or fewer is offered
\* to nobody and done at once.
Start ==
  /\ tdone = 1
  /\ \/ /\ \E f \in Kinds : f.by = "machine" /\ New(f, "sent")
        /\ out' = Len(kind')
        /\ cst' = "C_WORDS" /\ tx_buf' = <<>> /\ tdone' = 0
     \/ "short" \in Events /\ tdone' = 1 /\ UNCHANGED <<kind, fate, out, cst, tx_buf>>
  /\ tabort' = 0
  /\ UNCHANGED <<rdone, rbuf, drop, tx_valid, tx_seen, rxVars, moved, program, history>>

\* Mutant: the cable drops an offered frame and captures on.
MutClearTransmitter ==
  /\ "clear_tx" \in Events /\ tdone = 0
  /\ tdone' = 1 /\ tabort' = 0 /\ tx_valid' = 0
  /\ UNCHANGED <<kind, fate, rdone, rbuf, drop, cst, tx_buf, tx_seen, out, rxVars, moved,
                 program, history>>

\* Clear Transmitter: the card is done and the cable drops the frame.
ClearTransmitter ==
  /\ "clear_tx" \in Events /\ tdone = 0
  /\ tdone' = 1 /\ tabort' = 0 /\ tx_valid' = 0 /\ cst' = "C_IDLE"
  /\ UNCHANGED <<kind, fate, rdone, rbuf, drop, tx_buf, tx_seen, out, rxVars, moved,
                 program, history>>

\* The machine has read the packet out, or clears a receiver with none.  A
\* clear inside a stream drops the rest of it and its done.
ClearReceiver ==
  /\ rdone = 1 \/ ("clear_rx" \in Events /\ xst # "X_IDLE")
  /\ rdone' = 0 /\ rbuf' = <<>> /\ given' = IF rdone = 1 THEN <<>> ELSE given
  /\ drop' = Bit(drop = 1 \/ xst \in {"X_STREAM", "X_GAP"})
  /\ rx_free' = IF rdone = 1 THEN 1 ELSE rx_free
  /\ UNCHANGED <<kind, fate, tdone, tabort, txVars, rx_buf, r_rxlen, xst, sent, x_len, lost, moved, program, landed>>

\* Mutant: a Reset clears LOST with the rest.
MutLostKept == 0

\* LOST survives the card's Reset.
LostKept == lost

\* Reset, or -UB INIT: both buffers, both streams and RXLEN.
Reset ==
  /\ "reset" \in Events
  /\ tdone' = 1 /\ tabort' = 0 /\ rdone' = 0 /\ rbuf' = <<>> /\ drop' = 0
  /\ tx_valid' = 0 /\ cst' = "C_IDLE"
  /\ xst' = "X_IDLE" /\ r_rxlen' = 0 /\ lost' = LostKept
  /\ rx_free' = IF rdone = 1 THEN 1 ELSE rx_free
  /\ UNCHANGED <<kind, fate, tx_buf, tx_seen, out, rx_buf, sent, x_len, moved, program, history>>

-----------------------------------------------------------------------------
(* The two streams, a word a tick.                                         *)

\* A word of the machine's frame, and the frame offered with its last.
Capture ==
  IF cst = "C_IDLE"
  THEN UNCHANGED <<cst, tx_buf, tx_valid, tx_seen>>
  ELSE /\ tx_buf' = Append(tx_buf, out)
       /\ IF Len(tx_buf') = kind[out].len
          THEN cst' = "C_IDLE" /\ tx_valid' = 1 /\ tx_seen' = 0
          ELSE UNCHANGED <<cst, tx_valid, tx_seen>>

\* Mutant: the length is RXLEN as it stands.
MutAtEnd == sent + 1 >= r_rxlen

AtEnd == sent + 1 = x_len

\* A frame off the network for this machine by name.
Named(f) == kind[f].by = "net" /\ kind[f].to = "me"

\* The words of the committed frame go into the card, then an idle tick, then
\* its done, which raises Receive Done unless a clear has dropped the stream.
Stream ==
  \/ xst = "X_IDLE" /\ UNCHANGED <<xst, sent, rbuf, rdone, drop, landed>>
  \/ xst = "X_PRIME" /\ xst' = "X_STREAM" /\ UNCHANGED <<sent, rbuf, rdone, drop, landed>>
  \/ /\ xst = "X_STREAM"
     /\ rbuf' = Append(rbuf, rx_buf[sent + 1])
     /\ IF AtEnd THEN xst' = "X_GAP" /\ UNCHANGED sent
                 ELSE sent' = sent + 1 /\ UNCHANGED xst
     /\ UNCHANGED <<rdone, drop, landed>>
  \/ /\ xst = "X_GAP" /\ xst' = "X_IDLE" /\ drop' = 0 /\ UNCHANGED sent
     /\ IF drop = 1
        THEN rbuf' = <<>> /\ UNCHANGED <<rdone, landed>>
        ELSE /\ rdone' = 1 /\ UNCHANGED rbuf
             /\ landed' = IF rbuf[1] # 0 /\ Named(rbuf[1]) THEN Append(landed, rbuf[1]) ELSE landed

streaming == cst # "C_IDLE" \/ xst # "X_IDLE"

Tick ==
  /\ streaming /\ moved' = 1
  /\ Capture /\ Stream
  /\ UNCHANGED <<kind, fate, tdone, tabort, out, rx_buf, r_rxlen, x_len, lost, rx_free, program, given>>

-----------------------------------------------------------------------------
(* The program: the frames out of the machine.                             *)

\* An access takes longer than a tick.
Access == (streaming => moved = 1) /\ moved' = 0

\* What the registers of the transmit side read with no frame waiting: 0.
TXLEN == IF tx_valid = 1 THEN Len(tx_buf) ELSE 0
TxWindow(j) == IF tx_valid = 1 /\ j <= Len(tx_buf) THEN tx_buf[j] ELSE 0

\* STAT.
ReadStat ==
  /\ pc = "poll" /\ Access
  /\ pc' = IF tx_valid = 1 THEN "txlen" ELSE "udp"
  /\ UNCHANGED <<kind, card, txVars, rxVars, hand, k, refused, before, aborted, ret, frame, queue, offers,
                 held, fate, history>>

\* TXLEN, which marks the waiting frame as seen.  No length: let go, unread.
ReadLength ==
  /\ pc = "txlen" /\ Access
  /\ tx_seen' = 1 /\ aborted' = 0
  /\ hand' = <<>>
  /\ k' = TXLEN
  /\ pc' = IF k' = 0 THEN "let_go" ELSE "window"
  /\ UNCHANGED <<kind, card, cst, tx_buf, tx_valid, out, rxVars, refused, before,
                 ret, frame, queue, offers, held, fate, history>>

\* A word of the transmit window.
ReadWord ==
  /\ pc = "window" /\ Access
  /\ hand' = Append(hand, TxWindow(Len(hand) + 1))
  /\ pc' = IF Len(hand') = k THEN "carry" ELSE "window"
  /\ UNCHANGED <<kind, card, txVars, rxVars, k, refused, before, aborted, ret, frame, queue, offers, held,
                 fate, history>>

\* STAT's two bits that the machine may write at any time: either reading of
\* them is possible at every access.
Looped == "mode" \in Events
Spied == "mode" \in Events

\* Where the words in hand say they go: the last of them tells.
Goes(w) == IF w[Len(w)] = 0 THEN "all" ELSE kind[w[Len(w)]].to

\* carry and chaos_face_own_frame: the machine hears its own frame unless it
\* is in Loop Back or for another.  What the check word passes goes out over UDP,
\* which changes nothing here.
Carry ==
  /\ pc = "carry" /\ Access
  /\ \/ /\ Looped \/ Goes(hand) = "else"
        /\ pc' = "let_go" /\ UNCHANGED <<ret, frame>>
     \/ /\ Goes(hand) # "else" \/ Spied
        /\ pc' = "give" /\ ret' = "own" /\ frame' = hand
  /\ UNCHANGED <<kind, card, txVars, rxVars, hand, k, refused, before, aborted, queue, offers, held, fate,
                 history>>

\* Mutant: any waiting frame is taken.
MutTakes == tx_valid = 1

\* Mutant: an abort does not end the transmission.
MutTakesUnaborted == tx_valid = 1 /\ tx_seen = 1 /\ aborted = 0

\* The take needs a frame, and its length read.
Takes == tx_valid = 1 /\ tx_seen = 1

\* chaos_face_let_go.  No length ends the drain; a frame asks for the next, up
\* to DRAIN of them.
LetGo ==
  /\ pc = "let_go" /\ Access
  /\ pc' \in (IF hand = <<>> THEN {"udp"} ELSE {"poll", "udp"})
  /\ IF Takes
     THEN tx_valid' = 0 /\ tdone' = 1 /\ tabort' = aborted
     ELSE UNCHANGED <<tx_valid, tdone, tabort>>
  /\ aborted' = 0 /\ hand' = <<>> /\ k' = 0
  /\ UNCHANGED <<kind, rdone, rbuf, drop, cst, tx_buf, tx_seen, out, rxVars,
                 refused, before, ret, frame, queue, offers, held, fate, history>>

-----------------------------------------------------------------------------
(* chaos_face_give: STAT, LOST, the words, RXLEN, the commit, LOST again.  *)

WriteFrame ==
  /\ pc \in {"give", "lost", "fill", "length"} /\ Access
  /\ \/ /\ pc = "give"
        /\ \/ Looped /\ refused' = 1 /\ pc' = "answer"
           \/ refused' = 0 /\ pc' = "lost"
        /\ UNCHANGED <<before, k, rx_buf, r_rxlen>>
     \/ pc = "lost" /\ before' = lost /\ k' = 0 /\ pc' = "fill" /\ UNCHANGED <<refused, rx_buf, r_rxlen>>
     \/ /\ pc = "fill" /\ k' = k + 1
        /\ rx_buf' = [rx_buf EXCEPT ![k + 1] = frame[k + 1]]
        /\ pc' = IF k' = Len(frame) THEN "length" ELSE "fill"
        /\ UNCHANGED <<refused, before, r_rxlen>>
     \/ pc = "length" /\ r_rxlen' = Len(frame) /\ pc' = "commit" /\ UNCHANGED <<refused, before, k, rx_buf>>
  /\ UNCHANGED <<kind, card, txVars, xst, sent, x_len, lost, rx_free, hand, aborted, ret, frame, queue,
                 offers, held, fate, history>>

\* The commit: taken by an empty card and an idle stream, else counted; with
\* no length it is not a commit.
Commit ==
  /\ pc = "commit" /\ Access
  /\ pc' = "after"
  /\ IF r_rxlen # 0 /\ rdone = 0 /\ xst = "X_IDLE"
     THEN /\ xst' = "X_PRIME" /\ sent' = 0 /\ x_len' = r_rxlen
          /\ rbuf' = <<>> /\ given' = SubSeq(rx_buf, 1, r_rxlen)
          /\ UNCHANGED lost
     ELSE /\ lost' = lost + Bit(r_rxlen # 0)
          /\ UNCHANGED <<xst, sent, x_len, rbuf, given>>
  /\ UNCHANGED <<kind, tdone, tabort, rdone, drop, txVars, rx_buf, r_rxlen, rx_free, hand, k, refused, before,
                 aborted, ret, frame, queue, offers, held, fate, landed>>

\* LOST read again: any change is a refusal.
ReadLost ==
  /\ pc = "after" /\ Access
  /\ refused' = Bit(lost # before)
  /\ pc' = "answer"
  /\ UNCHANGED <<kind, card, txVars, rxVars, hand, k, before, aborted, ret, frame, queue, offers, held, fate,
                 history>>

-----------------------------------------------------------------------------
(* chaos_inject: the retry at the machine's end of the cable.              *)

Counted(f, as) == fate' = [fate EXCEPT ![f] = as]

AnotherTurn == offers + 1 < Offers

\* What an offer came to, for whom it was made.
Answer ==
  /\ pc = "answer"
  /\ LET f == frame[1] IN
     \/ /\ ret = "own" /\ pc' = "let_go"
        /\ aborted' = Bit(refused = 1 /\ Goes(frame) = "me")
        /\ UNCHANGED <<queue, offers, held, fate>>
     \/ /\ ret = "broadcast" /\ pc' = "udp"
        /\ Counted(f, IF refused = 1 THEN "broadcasts_lost" ELSE "stored")
        /\ UNCHANGED <<aborted, queue, offers, held>>
     \/ /\ ret = "new" /\ pc' = "udp"
        /\ IF refused = 1
           THEN /\ queue' = <<f>> /\ offers' = offers + 1 /\ held' = 1
                /\ Counted(f, "waiting")
           ELSE Counted(f, "stored") /\ UNCHANGED <<queue, offers, held>>
        /\ UNCHANGED aborted
     \/ /\ ret = "head" /\ pc' = "poll"
        /\ IF refused = 1 /\ AnotherTurn
           THEN offers' = offers + 1 /\ held' = 1 /\ UNCHANGED <<queue, fate>>
           ELSE /\ queue' = Tail(queue) /\ offers' = 0 /\ held' = 0
                /\ Counted(f, IF refused = 1 THEN "given_up" ELSE "stored")
        /\ UNCHANGED aborted
  /\ frame' = <<>> /\ refused' = 0 /\ before' = 0 /\ k' = 0
  /\ UNCHANGED <<kind, card, txVars, rxVars, moved, hand, ret, history>>

\* The words of a frame.
Words(f, x) == [j \in 1 .. x.len |-> f]

\* The frames chudp_poll hands up: those with a source that is not this cable's.
Delivered == {x \in Kinds : x.by = "net"}

\* chudp_poll hands a frame up, or there is none: to everybody it is offered
\* once, to this machine it is offered or waits behind the others.
Arrive ==
  /\ pc = "udp"
  /\ \/ pc' = "pump" /\ UNCHANGED <<kind, ret, frame, queue, fate>>
     \/ \E x \in Delivered :
          LET f == Len(kind) + 1
              Offered == New(x, "offered") /\ frame' = Words(f, x) /\ UNCHANGED queue
              Kept(as) == New(x, as) /\ pc' = "udp" /\ UNCHANGED <<ret, frame>>
          IN    \/ x.to = "else" /\ Kept("dropped") /\ UNCHANGED queue
                \/ x.to = "all" /\ pc' = "give" /\ ret' = "broadcast" /\ Offered
                \/ x.to = "me" /\ queue = <<>> /\ pc' = "freed" /\ ret' = "new" /\ Offered
                \/ x.to = "me" /\ Len(queue) = QueueLength /\ Kept("no_room") /\ UNCHANGED queue
                \/ /\ x.to = "me" /\ Len(queue) \in 1 .. QueueLength - 1
                   /\ Kept("waiting") /\ queue' = Append(queue, f)
  /\ UNCHANGED <<card, txVars, rxVars, moved, hand, k, refused, before, aborted, offers, held, history>>

Offer == pc' = "freed" /\ ret' = "head" /\ frame' = Words(Head(queue), kind[Head(queue)])

\* chaos_inject_pump: the head goes when it has not been offered, or when the
\* machine has emptied its buffer since, or has not for long.
Pump ==
  /\ pc = "pump"
  /\ IF queue # <<>> /\ held = 0
     THEN Offer
     ELSE pc' = (IF queue = <<>> THEN "poll" ELSE "turn") /\ UNCHANGED <<ret, frame>>
  /\ UNCHANGED <<kind, card, txVars, rxVars, moved, hand, k, refused, before, aborted, queue, offers, held, fate,
                 history>>

\* chaos_face_rx_freed, asked for the turn or thrown away before an offer:
\* the bit read, and cleared if it was up.
ReadFreed ==
  /\ pc \in {"turn", "freed"} /\ Access
  /\ pc' = IF rx_free = 1 THEN (IF pc = "turn" THEN "clear_turn" ELSE "clear_freed")
           ELSE IF pc = "turn" THEN "wait" ELSE "give"
  /\ UNCHANGED <<kind, card, txVars, rxVars, hand, k, refused, before, aborted, ret, frame, queue, offers, held,
                 fate, history>>

ClearFreed ==
  /\ pc \in {"clear_turn", "clear_freed"} /\ Access
  /\ rx_free' = 0
  /\ IF pc = "clear_turn" THEN Offer ELSE pc' = "give" /\ UNCHANGED <<ret, frame>>
  /\ UNCHANGED <<kind, card, txVars, rx_buf, r_rxlen, xst, sent, x_len, lost, hand, k, refused, before, aborted,
                 queue, offers, held, fate, history>>

\* The buffer not emptied: not yet long enough, or long enough.
Waits ==
  /\ pc = "wait" /\ pc' = "poll"
  /\ UNCHANGED <<kind, card, txVars, rxVars, moved, hand, k, refused, before, aborted, ret, frame, queue,
                 offers, held, fate, history>>

\* Mutant: only the bit gives a turn.
MutExpires ==
  /\ pc = "wait" /\ rx_free = 1 /\ Offer
  /\ UNCHANGED <<kind, card, txVars, rxVars, moved, hand, k, refused, before, aborted, queue, offers, held,
                 fate, history>>

Expires ==
  /\ pc = "wait" /\ Offer
  /\ UNCHANGED <<kind, card, txVars, rxVars, moved, hand, k, refused, before, aborted, queue, offers, held,
                 fate, history>>

-----------------------------------------------------------------------------
Init ==
  /\ kind = <<>> /\ fate = <<>>
  /\ tdone = 1 /\ tabort = 0 /\ rdone = 0 /\ rbuf = <<>> /\ drop = 0
  /\ cst = "C_IDLE" /\ tx_buf = <<>> /\ tx_valid = 0 /\ tx_seen = 0 /\ out = 0
  /\ rx_buf = [j \in 1 .. MaxWords |-> 0] /\ r_rxlen = 0 /\ xst = "X_IDLE" /\ sent = 0 /\ x_len = 0
  /\ lost = 0 /\ rx_free = 0 /\ moved = 0
  /\ pc = "poll" /\ hand = <<>> /\ k = 0 /\ refused = 0 /\ before = 0 /\ aborted = 0
  /\ ret = "own" /\ frame = <<>> /\ queue = <<>> /\ offers = 0 /\ held = 0
  /\ given = <<>> /\ landed = <<>>

Machine == Start \/ ClearTransmitter \/ ClearReceiver \/ Reset
Program ==
  \/ ReadStat \/ ReadLength \/ ReadWord \/ Carry \/ LetGo
  \/ WriteFrame \/ Commit \/ ReadLost \/ Answer
  \/ Arrive \/ Pump \/ ReadFreed \/ ClearFreed \/ Waits \/ Expires

Next == Machine \/ Tick \/ Program

\* The streams run on the clock; the program loops; its clock advances.
Spec ==
  /\ Init /\ [][Next]_vars
  /\ WF_vars(Tick) /\ WF_vars(Program) /\ SF_vars(Expires)

-----------------------------------------------------------------------------
\* Transmit Done is never up while a frame of the machine's is still being
\* captured or waits to be taken: "a done pulse with nothing outstanding would
\* raise Transmit Done for a frame the machine never sent".
DoneMeansGone == tdone = 1 => tx_valid = 0 /\ cst = "C_IDLE"

\* A frame is dropped from the cable only when the program has read that very
\* frame, every word of it, however the machine cleared its transmitter and
\* started again between the program's accesses.
TakenWasRead ==
  [][LetGo /\ tx_valid = 1 /\ tx_valid' = 0 => hand = tx_buf]_vars

\* Receive Done stands over the frame that was committed, all its words and
\* no others, though the next give writes the window and RXLEN while the
\* frame still streams.
LandsWhole == rdone = 1 => rbuf = given

\* Frames to this machine by name land in the order they arrived, none of
\* them twice, and none that was given up or had no room.
LandsOnceInOrder ==
  /\ \A i, j \in DOMAIN landed : i < j => landed[i] < landed[j]
  /\ \A i \in DOMAIN landed : fate[landed[i]] \notin {"given_up", "no_room"}

\* The machine is let go: Transmit Done comes up after every START.
TransmitEnds == tdone = 0 ~> tdone = 1

\* A frame that waits for a turn is stored or given up.
QueueDrains == queue # <<>> ~> queue = <<>>
=============================================================================
