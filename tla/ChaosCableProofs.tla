-------------------------- MODULE ChaosCableProofs --------------------------
(***************************************************************************)
(* What the card, the cable and the ether's program promise each other     *)
(* for every set of frames of any lengths, every length of the queue and   *)
(* number of offers, and everything the machine may do to its interface    *)
(* between two accesses of the program's: Transmit Done is not up over a   *)
(* frame still waiting, a frame is dropped only when it has been read, a   *)
(* committed frame lands whole, and the frames for the machine land once   *)
(* and in order.                                                           *)
(***************************************************************************)
EXTENDS ChaosCable, SequenceTheorems, TLAPS

Fates ==
  {"sent", "offered", "dropped", "no_room", "waiting", "stored", "broadcasts_lost", "given_up"}

\* The program's places with a frame in hand for the card, before the commit
\* and in all.
Offering == {"freed", "clear_freed", "give", "lost", "fill", "length", "commit"}
Giving == Offering \cup {"after", "answer"}

FramesInv == kind \in Seq(Kinds) /\ fate \in Seq(Fates) /\ Len(fate) = Len(kind)

-----------------------------------------------------------------------------
(* The frames out of the machine.                                          *)

\* A word of a frame the machine sent, or of none.
Mine(w) == w = 0 \/ (w \in 1 .. Len(kind) /\ kind[w].by = "machine")

\* The words of the program's that came out of the transmit window.
HandInv ==
  /\ hand \in Seq(Nat) /\ Len(hand) <= MaxWords
  /\ \A j \in 1 .. Len(hand) : Mine(hand[j])
  /\ pc = "window" => k \in 1 .. MaxWords /\ Len(hand) < k
  /\ pc = "carry" => hand # <<>>

\* The cable: capturing, offering, or neither; the words are the machine's.
CaptureInv ==
  /\ tx_valid \in Bits /\ tx_seen \in Bits /\ cst \in {"C_IDLE", "C_WORDS"}
  /\ tx_buf \in Seq(Nat) /\ Len(tx_buf) <= MaxWords
  /\ \A j \in 1 .. Len(tx_buf) : Mine(tx_buf[j])
  /\ cst = "C_WORDS" => /\ tx_valid = 0
                        /\ out \in 1 .. Len(kind) /\ Mine(out)
                        /\ Len(tx_buf) < kind[out].len
  /\ tx_valid = 1 => tx_buf # <<>>

\* A waiting frame whose length has been read is the one in the program's
\* hands, as far as it has read.
SeenInv ==
  tx_valid = 1 /\ tx_seen = 1 =>
    \/ /\ pc = "window" /\ k = Len(tx_buf) /\ Len(hand) < k
       /\ \A j \in 1 .. Len(hand) : hand[j] = tx_buf[j]
    \/ pc \in {"carry", "let_go"} /\ hand = tx_buf
    \/ pc \in Giving /\ ret = "own" /\ hand = tx_buf

SendInv == HandInv /\ CaptureInv /\ DoneMeansGone /\ SeenInv

-----------------------------------------------------------------------------
(* The give, and the stream the commit starts.                             *)

GiveInv ==
  /\ rx_buf \in [1 .. MaxWords -> Nat] /\ r_rxlen \in 0 .. MaxWords
  /\ lost \in Nat /\ before \in Nat /\ refused \in Bits
  /\ ret \in {"own", "broadcast", "new", "head"}
  /\ pc \in {"freed", "clear_freed"} => ret # "own"
  /\ pc \in Giving => frame \in Seq(Nat) /\ frame # <<>> /\ Len(frame) <= MaxWords
  /\ pc = "fill" => /\ k \in 0 .. Len(frame) - 1
                    /\ \A j \in 1 .. k : rx_buf[j] = frame[j]
  /\ pc \in {"length", "commit"} => \A j \in 1 .. Len(frame) : rx_buf[j] = frame[j]
  /\ pc = "commit" => r_rxlen \in {0, Len(frame)}
  /\ pc \in {"fill", "length", "commit"} => lost = before

\* The ticks the program's place says have passed since the commit, in words
\* read out of the window: an access takes longer than a tick.
Paced ==
  LET since == CASE pc = "after" -> -1
                 [] pc = "lost"  -> 1
                 [] pc = "fill"  -> 2 + k
                 [] OTHER        -> 0
  IN sent >= since + moved

\* While a frame streams, what has gone into the card is what was committed
\* and what has not is still in the window.
StreamInv ==
  /\ xst \in {"X_IDLE", "X_PRIME", "X_STREAM", "X_GAP"}
  /\ moved \in Bits /\ drop \in Bits /\ rdone \in Bits
  /\ sent \in Nat /\ x_len \in Nat
  /\ rbuf \in Seq(Nat) /\ given \in Seq(Nat)
  /\ rdone = 1 => xst = "X_IDLE" /\ rbuf = given
  /\ xst # "X_IDLE" => given # <<>> /\ Len(given) = x_len /\ x_len <= MaxWords /\ sent < x_len
  /\ xst = "X_PRIME" => pc = "after" /\ moved = 0 /\ sent = 0 /\ rbuf = <<>>
  /\ xst \in {"X_IDLE", "X_PRIME"} => drop = 0
  /\ xst = "X_STREAM" => Paced
  /\ xst \in {"X_PRIME", "X_STREAM"} => \A j \in sent + 1 .. x_len : rx_buf[j] = given[j]
  /\ xst = "X_STREAM" /\ drop = 0 => /\ Len(rbuf) = sent
                                     /\ \A j \in 1 .. sent : rbuf[j] = given[j]
  /\ xst = "X_GAP" /\ drop = 0 => rbuf = given

-----------------------------------------------------------------------------
(* The frames for the machine by name, in the order they came.             *)

Bad == {"given_up", "no_room"}

\* The frames in the program's hands: waiting in the queue, or one on its way
\* to the card.
TurnInv ==
  /\ queue \in Seq(Nat)
  /\ \A i \in 1 .. Len(queue) : /\ queue[i] \in 1 .. Len(kind) /\ Named(queue[i])
                                /\ fate[queue[i]] \notin Bad
  /\ \A i, j \in 1 .. Len(queue) : i < j => queue[i] < queue[j]
  /\ pc \in {"turn", "clear_turn", "wait"} => queue # <<>>
  /\ pc \in Giving =>
       /\ ret = "own" => Mine(frame[1])
       /\ ret = "broadcast" => frame[1] \in 1 .. Len(kind) /\ ~Named(frame[1])
       /\ ret = "new" => /\ queue = <<>>
                         /\ frame[1] \in 1 .. Len(kind) /\ Named(frame[1])
                         /\ fate[frame[1]] \notin Bad
       /\ ret = "head" => queue # <<>> /\ frame[1] = queue[1]

\* The commit was not refused, as far as the program has seen.
Tried == (pc = "after" /\ lost = before) \/ (pc = "answer" /\ refused = 0)

\* A frame for the machine by name is on its way into the card.
Lands == xst # "X_IDLE" /\ given[1] # 0 /\ Named(given[1])

\* Nothing from f on has landed or is landing.
Ahead(f) ==
  /\ \A i \in 1 .. Len(landed) : landed[i] < f
  /\ Lands => given[1] < f

OrderInv ==
  /\ landed \in Seq(Nat)
  /\ \A i \in 1 .. Len(landed) : landed[i] \in 1 .. Len(kind) /\ fate[landed[i]] \notin Bad
  /\ \A i, j \in 1 .. Len(landed) : i < j => landed[i] < landed[j]
  /\ xst # "X_IDLE" => given[1] \in 0 .. Len(kind)
  /\ Lands => /\ fate[given[1]] \notin Bad
              /\ \A i \in 1 .. Len(landed) : landed[i] < given[1]
  /\ \A i \in 1 .. Len(queue) :
       Ahead(queue[i]) \/ (i = 1 /\ pc \in Giving /\ ret = "head" /\ Tried)
  /\ pc \in Giving /\ ret = "new" /\ ~Tried => Ahead(frame[1])

-----------------------------------------------------------------------------
USE DEF Bits, Bit

\* The receive window holds every frame there may be.
LEMMA MaxWordsHolds == MaxWords \in Nat \ {0} /\ \A x \in Kinds : x.len \in 1 .. MaxWords
<1> DEFINE longest == CHOOSE x \in Kinds : \A y \in Kinds : y.len <= x.len
<1>1. longest \in Kinds /\ \A y \in Kinds : y.len <= longest.len
  BY ChaosAssumption, Zenon DEF ChaosAssumption
<1>2. MaxWords = longest.len
  BY Zenon DEF MaxWords
<1>3. \A x \in Kinds : x.len \in Nat \ {0}
  BY ChaosAssumption, Zenon DEF ChaosAssumption
<1> HIDE DEF longest
<1> QED
  BY <1>1, <1>2, <1>3

\* The words of a frame that arrived: as many as its kind says, all the frame.
LEMMA WordsAre ==
  ASSUME NEW f \in Nat, NEW x \in Kinds
  PROVE  /\ Words(f, x) \in Seq(Nat) /\ Words(f, x) # <<>>
         /\ Len(Words(f, x)) <= MaxWords /\ Words(f, x)[1] = f
<1>1. x.len \in Nat \ {0} /\ x.len <= MaxWords
  BY MaxWordsHolds
<1>2. Words(f, x) \in Seq(Nat) /\ Len(Words(f, x)) = x.len
  BY <1>1 DEF Words
<1> QED
  BY <1>1, <1>2 DEF Words

\* A step appends a frame or none, and its fate with it.
LEMMA NewFrame ==
  ASSUME FramesInv, NEW x \in Kinds, NEW t \in Fates, New(x, t)
  PROVE  /\ FramesInv'
         /\ Len(kind') = Len(kind) + 1 /\ kind'[Len(kind) + 1] = x
         /\ \A f \in 1 .. Len(kind) : kind'[f] = kind[f] /\ fate'[f] = fate[f]
         /\ fate'[Len(kind) + 1] = t
<1>1. kind \in Seq(Kinds) /\ fate \in Seq(Fates) /\ Len(fate) = Len(kind)
  BY Zenon DEF FramesInv
<1>2. kind' = Append(kind, x) /\ fate' = Append(fate, t)
  BY Zenon DEF New
<1>3. kind' \in Seq(Kinds) /\ Len(kind') = Len(kind) + 1 /\ kind'[Len(kind) + 1] = x
  BY <1>1, <1>2, AppendProperties, Zenon
<1>4. fate' \in Seq(Fates) /\ Len(fate') = Len(kind) + 1 /\ fate'[Len(kind) + 1] = t
  BY <1>1, <1>2, AppendProperties
<1>5. \A f \in 1 .. Len(kind) : kind'[f] = kind[f] /\ fate'[f] = fate[f]
  BY <1>1, <1>2, AppendProperties
<1> QED
  BY <1>3, <1>4, <1>5, Zenon DEF FramesInv

\* The frames there have been stay what they are.
Grows ==
  /\ FramesInv'
  /\ Len(kind) <= Len(kind')
  /\ \A f \in 1 .. Len(kind) : kind'[f] = kind[f]

LEMMA FateMoves ==
  ASSUME FramesInv, NEW f \in 1 .. Len(kind), NEW t \in Fates, Counted(f, t)
  PROVE  /\ fate' \in Seq(Fates) /\ Len(fate') = Len(fate) /\ fate'[f] = t
         /\ \A g \in 1 .. Len(kind) : g # f => fate'[g] = fate[g]
<1>1. fate \in Seq(Fates) /\ Len(fate) = Len(kind) /\ fate' = [fate EXCEPT ![f] = t]
  BY Zenon DEF Counted, FramesInv
<1> QED
  BY <1>1, ExceptSeq

\* The frame whose offer is answered is one that arrived, unless it is the
\* machine's own.
LEMMA AnsweredFrame ==
  ASSUME FramesInv, GiveInv, TurnInv, pc \in Giving, ret # "own"
  PROVE  frame[1] \in 1 .. Len(kind)
  BY DEF TurnInv, GiveInv

LEMMA FramesStep ==
  ASSUME FramesInv, GiveInv, TurnInv, Next
  PROVE  Grows
<1> USE DEF Grows
<1>0. CASE UNCHANGED <<kind, fate>>
  BY <1>0 DEF FramesInv
<1>1. CASE Start
  <2>1. CASE UNCHANGED <<kind, fate>>
    BY <2>1, <1>0, Zenon
  <2>2. CASE \E f \in Kinds : f.by = "machine" /\ New(f, "sent")
    BY <2>2, NewFrame DEF Fates
  <2> QED
    BY <1>1, <2>1, <2>2, Zenon DEF Start
<1>2. CASE Answer
  <2>1. kind' = kind /\ pc = "answer" /\ pc \in Giving
    BY <1>2, Zenon DEF Answer, Giving
  <2>2. CASE ret = "own"
    BY <1>2, <2>2, <1>0, Zenon DEF Answer
  <2>3. CASE ret # "own"
    <3>1. frame[1] \in 1 .. Len(kind)
      BY <2>1, <2>3, AnsweredFrame, Zenon
    <3>2. fate' = fate \/ \E t \in Fates : Counted(frame[1], t)
      BY <1>2, <2>3, Zenon DEF Answer, Fates
    <3> QED
      BY <2>1, <3>1, <3>2, FateMoves DEF FramesInv
  <2> QED
    BY <2>2, <2>3, Zenon
<1>3. CASE Arrive
  <2>1. CASE UNCHANGED <<kind, fate>>
    BY <2>1, <1>0, Zenon
  <2>2. CASE \E x \in Kinds, t \in Fates : New(x, t)
    <3> PICK x \in Kinds, t \in Fates : New(x, t)
      BY <2>2, Zenon
    <3> QED
      BY NewFrame
  <2> QED
    BY <1>3, <2>1, <2>2, Zenon DEF Arrive, Delivered, Fates
<1>4. CASE ClearTransmitter \/ ClearReceiver \/ Reset \/ Tick
  BY <1>4, <1>0, Zenon DEF ClearTransmitter, ClearReceiver, Reset, Tick
<1>5. CASE ReadStat \/ ReadLength \/ ReadWord \/ Carry \/ LetGo \/ WriteFrame \/ Commit \/ ReadLost
  BY <1>5, <1>0, Zenon DEF ReadStat, ReadLength, ReadWord, Carry, LetGo, WriteFrame, Commit, ReadLost
<1>6. CASE Pump \/ ReadFreed \/ ClearFreed \/ Waits \/ Expires
  BY <1>6, <1>0, Zenon DEF Pump, ReadFreed, ClearFreed, Waits, Expires
<1> QED
  BY <1>1, <1>2, <1>3, <1>4, <1>5, <1>6, Zenon DEF Next, Machine, Program

-----------------------------------------------------------------------------
(* The frames out of the machine, step by step.                            *)

\* What is the machine's stays so.
LEMMA MineStays ==
  ASSUME Grows, NEW w \in Nat, Mine(w)
  PROVE  Mine(w)'
  BY DEF Grows, Mine

\* Steps that leave the transmit side and the words read of it alone.
LEMMA SendKept ==
  ASSUME SendInv, Grows,
         UNCHANGED <<tdone, cst, tx_buf, tx_valid, tx_seen, out, hand>>,
         \/ UNCHANGED <<pc, k, ret>>
         \/ /\ pc' \notin {"window", "carry"}
            /\ \/ pc \notin {"window", "carry", "let_go"} \cup Giving
               \/ pc \in {"carry", "let_go"} \cup Giving /\ pc' = "let_go"
               \/ pc = "carry" /\ pc' \in Giving /\ ret' = "own"
               \/ pc \in Giving /\ pc' \in Giving /\ ret' = ret
               \/ pc \in Giving /\ ret # "own"
  PROVE  SendInv'
<1>1. HandInv'
  <2>1. \A j \in 1 .. Len(hand) : hand[j] \in Nat /\ Mine(hand[j])
    BY DEF SendInv, HandInv
  <2>2. \A j \in 1 .. Len(hand) : Mine(hand[j])'
    BY <2>1, MineStays, Zenon DEF Mine
  <2> QED
    BY <2>2, Zenon DEF SendInv, HandInv, Mine
<1>2. CaptureInv'
  <2>1. \A j \in 1 .. Len(tx_buf) : tx_buf[j] \in Nat /\ Mine(tx_buf[j])
    BY DEF SendInv, CaptureInv
  <2>2. \A j \in 1 .. Len(tx_buf) : Mine(tx_buf[j])'
    BY <2>1, MineStays, Zenon DEF Mine
  <2>3. cst = "C_WORDS" => /\ out \in 1 .. Len(kind') /\ Mine(out)'
                           /\ Len(tx_buf) < kind'[out].len
    BY DEF SendInv, CaptureInv, Mine, Grows, FramesInv
  <2> QED
    BY <2>2, <2>3, Zenon DEF SendInv, CaptureInv, Mine
<1>3. DoneMeansGone'
  BY Zenon DEF SendInv, DoneMeansGone
<1>4. SeenInv'
  <2> SUFFICES ASSUME tx_valid = 1, tx_seen = 1 PROVE SeenInv'
    BY Zenon DEF SeenInv
  <2> SeenInv
    BY Zenon DEF SendInv
  <2>1. CASE pc \in {"carry", "let_go"} \cup Giving /\ pc' = "let_go"
    BY <2>1, Zenon DEF SeenInv, Giving, Offering
  <2>2. CASE pc = "carry" /\ pc' \in Giving /\ ret' = "own"
    BY <2>2, Zenon DEF SeenInv, Giving, Offering
  <2>3. CASE pc \in Giving /\ pc' \in Giving /\ ret' = ret
    BY <2>3, Zenon DEF SeenInv, Giving, Offering
  <2>4. CASE pc \notin {"window", "carry", "let_go"} \cup Giving \/ (pc \in Giving /\ ret # "own")
    BY <2>4, Zenon DEF SeenInv, Giving, Offering
  <2>5. CASE UNCHANGED <<pc, k, ret>>
    BY <2>5, Zenon DEF SeenInv
  <2> QED
    BY <2>1, <2>2, <2>3, <2>4, <2>5, Zenon
<1> QED
  BY <1>1, <1>2, <1>3, <1>4, Zenon DEF SendInv

\* Steps of the machine and the stream, which leave the program alone: the
\* words in its hands stay the machine's.
LEMMA HandKept ==
  ASSUME HandInv, Grows, UNCHANGED <<hand, pc, k>>
  PROVE  HandInv'
<1>1. \A j \in 1 .. Len(hand) : hand[j] \in Nat /\ Mine(hand[j])
  BY DEF HandInv
<1>2. \A j \in 1 .. Len(hand) : Mine(hand[j])'
  BY <1>1, MineStays, Zenon DEF Mine
<1> QED
  BY <1>2, Zenon DEF HandInv, Mine

LEMMA SendMachine ==
  ASSUME SendInv, FramesInv, Grows, Machine
  PROVE  SendInv'
<1>1. CASE Start
  <2>1. CASE tdone' = 1
    BY <1>1, <2>1, SendKept DEF Start, program, history
  <2>2. CASE tdone' # 1
    <3>1. PICK x \in Kinds : x.by = "machine" /\ New(x, "sent")
      BY <1>1, <2>2, Zenon DEF Start
    <3>2. /\ out' = Len(kind') /\ cst' = "C_WORDS" /\ tx_buf' = <<>> /\ tdone' = 0
          /\ UNCHANGED <<tx_valid, tx_seen, hand, pc, k>>
      BY <1>1, <2>2, Zenon DEF Start, program
    <3>3. tx_valid = 0
      BY <1>1, Zenon DEF Start, SendInv, DoneMeansGone, CaptureInv
    <3>4. Len(kind') = Len(kind) + 1 /\ kind'[Len(kind')] = x /\ x.len \in 1 .. MaxWords
      BY <3>1, NewFrame, MaxWordsHolds, Zenon DEF Fates
    <3>5. HandInv'
      BY <3>2, HandKept, Zenon DEF SendInv
    <3>6. CaptureInv'
      BY <3>1, <3>2, <3>3, <3>4, MaxWordsHolds DEF SendInv, CaptureInv, Mine, FramesInv
    <3> QED
      BY <3>2, <3>3, <3>5, <3>6 DEF SendInv, DoneMeansGone, SeenInv
  <2> QED
    BY <2>1, <2>2, Zenon
<1>2. CASE ClearTransmitter \/ Reset
  <2>1. /\ tx_valid' = 0 /\ cst' = "C_IDLE"
        /\ UNCHANGED <<kind, tx_buf, tx_seen, out, hand, pc, k>>
    BY <1>2, Zenon DEF ClearTransmitter, Reset, program
  <2>2. HandInv'
    BY <2>1, HandKept, Zenon DEF SendInv
  <2>3. CaptureInv'
    BY <2>1, Zenon DEF SendInv, CaptureInv, Mine
  <2> QED
    BY <2>1, <2>2, <2>3 DEF SendInv, DoneMeansGone, SeenInv
<1>3. CASE ClearReceiver
  BY <1>3, SendKept, Zenon DEF ClearReceiver, txVars, program
<1> QED
  BY <1>1, <1>2, <1>3, Zenon DEF Machine

LEMMA SendTick ==
  ASSUME SendInv, FramesInv, Grows, Tick
  PROVE  SendInv'
<1>1. UNCHANGED <<kind, tdone, out, hand, pc, k, ret>>
  BY Zenon DEF Tick, program
<1>2. CASE cst = "C_IDLE"
  BY <1>1, <1>2, SendKept, Zenon DEF Tick, Capture
<1>3. CASE cst # "C_IDLE"
  <2>1. /\ cst = "C_WORDS" /\ tx_valid = 0 /\ out \in 1 .. Len(kind) /\ Mine(out)
        /\ Len(tx_buf) < kind[out].len /\ tx_buf \in Seq(Nat)
    BY <1>3, Zenon DEF SendInv, CaptureInv
  <2>2. kind[out].len \in 1 .. MaxWords
    BY <2>1, MaxWordsHolds DEF FramesInv
  <2>3. tdone # 1
    BY <1>3, Zenon DEF SendInv, DoneMeansGone
  <2>4. /\ tx_buf' = Append(tx_buf, out)
        /\ \/ Len(tx_buf') = kind[out].len /\ cst' = "C_IDLE" /\ tx_valid' = 1 /\ tx_seen' = 0
           \/ Len(tx_buf') # kind[out].len /\ UNCHANGED <<cst, tx_valid, tx_seen>>
    BY <1>3, Zenon DEF Tick, Capture
  <2>5. /\ tx_buf' \in Seq(Nat) /\ tx_buf' # <<>> /\ Len(tx_buf') = Len(tx_buf) + 1
        /\ \A j \in 1 .. Len(tx_buf) : tx_buf'[j] = tx_buf[j]
        /\ tx_buf'[Len(tx_buf) + 1] = out
    BY <2>1, <2>4, AppendProperties
  <2>6. \A j \in 1 .. Len(tx_buf') : Mine(tx_buf'[j])
    <3>1. \A j \in 1 .. Len(tx_buf) : Mine(tx_buf[j])
      BY Zenon DEF SendInv, CaptureInv
    <3>2. \A j \in 1 .. Len(tx_buf') : j \in 1 .. Len(tx_buf) \/ j = Len(tx_buf) + 1
      BY <2>1, <2>5
    <3> QED
      BY <2>1, <2>5, <3>1, <3>2, Zenon
  <2>7. \A j \in 1 .. Len(tx_buf') : Mine(tx_buf[j])'
    BY <1>1, <2>6, Zenon DEF Mine
  <2>8. HandInv'
    BY <1>1, HandKept, Zenon DEF SendInv
  <2>9. CaptureInv'
    <3>1. tx_valid' \in Bits /\ tx_seen' \in Bits /\ cst' \in {"C_IDLE", "C_WORDS"}
      BY <2>2, <2>4, Zenon DEF SendInv, CaptureInv
    <3>2. Len(tx_buf') <= MaxWords /\ (cst' = "C_WORDS" => Len(tx_buf') < kind[out].len)
      BY <2>1, <2>2, <2>4, <2>5, MaxWordsHolds DEF SendInv, CaptureInv
    <3>3. cst' = "C_WORDS" => tx_valid' = 0 /\ out' \in 1 .. Len(kind') /\ Mine(out)' /\ kind'[out'] = kind[out]
      BY <1>1, <2>1, <2>2, <2>4, Zenon DEF SendInv, CaptureInv, Mine
    <3> QED
      BY <2>5, <2>7, <3>1, <3>2, <3>3, Zenon DEF CaptureInv
  <2>10. DoneMeansGone' /\ SeenInv'
    BY <1>1, <2>1, <2>3, <2>4 DEF DoneMeansGone, SeenInv
  <2> QED
    BY <2>8, <2>9, <2>10, Zenon DEF SendInv
<1> QED
  BY <1>2, <1>3, Zenon

LEMMA SendProgram ==
  ASSUME SendInv, FramesInv, GiveInv, Grows, Program
  PROVE  SendInv'
<1>1. CASE ReadStat
  BY <1>1, SendKept, Zenon DEF ReadStat, card, txVars, Giving, Offering
<1>2. CASE ReadLength
  <2>1. /\ UNCHANGED <<kind, tdone, cst, tx_buf, tx_valid, out>>
        /\ tx_seen' = 1 /\ hand' = <<>> /\ k' = TXLEN
        /\ pc' = IF k' = 0 THEN "let_go" ELSE "window"
    BY <1>2, Zenon DEF ReadLength, card
  <2>2. CaptureInv'
    BY <2>1, Zenon DEF SendInv, CaptureInv, Mine
  <2>3. k' \in 0 .. MaxWords
    BY <2>1, MaxWordsHolds DEF TXLEN, SendInv, CaptureInv
  <2>4. HandInv'
    BY <2>1, <2>3, MaxWordsHolds DEF HandInv
  <2>5. tx_valid = 1 => k' = Len(tx_buf) /\ k' # 0
    BY <2>1 DEF TXLEN, SendInv, CaptureInv
  <2>6. SeenInv'
    BY <2>1, <2>3, <2>5 DEF SeenInv
  <2> QED
    BY <2>1, <2>2, <2>4, <2>6, Zenon DEF SendInv, DoneMeansGone
<1>3. CASE ReadWord
  <2> DEFINE w == TxWindow(Len(hand) + 1)
  <2>1. /\ UNCHANGED <<kind, tdone, cst, tx_buf, tx_valid, tx_seen, out, k>>
        /\ pc = "window" /\ hand' = Append(hand, w)
        /\ pc' = IF Len(hand') = k THEN "carry" ELSE "window"
    BY <1>3, Zenon DEF ReadWord, card, txVars
  <2>2. CaptureInv' /\ DoneMeansGone'
    BY <2>1, Zenon DEF SendInv, CaptureInv, DoneMeansGone, Mine
  <2>3. hand \in Seq(Nat) /\ k \in 1 .. MaxWords /\ Len(hand) < k
    BY <2>1, Zenon DEF SendInv, HandInv
  <2>4. w \in Nat /\ Mine(w)
    BY <2>3 DEF TxWindow, SendInv, CaptureInv, Mine
  <2>5. tx_valid = 1 /\ Len(hand) < Len(tx_buf) => w = tx_buf[Len(hand) + 1]
    BY <2>3 DEF TxWindow, SendInv, CaptureInv
  <2> HIDE DEF w
  <2>6. /\ hand' \in Seq(Nat) /\ hand' # <<>> /\ Len(hand') = Len(hand) + 1
        /\ \A j \in 1 .. Len(hand) : hand'[j] = hand[j]
        /\ hand'[Len(hand) + 1] = w
    BY <2>1, <2>3, <2>4, AppendProperties
  <2>7. \A j \in 1 .. Len(hand') : Mine(hand'[j])
    BY <2>3, <2>4, <2>6 DEF SendInv, HandInv
  <2>8. \A j \in 1 .. Len(hand') : Mine(hand[j])'
    BY <2>1, <2>7, Zenon DEF Mine
  <2>9. HandInv'
    BY <2>1, <2>3, <2>6, <2>8, MaxWordsHolds DEF HandInv
  <2>10. SeenInv'
    <3> SUFFICES ASSUME tx_valid = 1, tx_seen = 1 PROVE SeenInv'
      BY <2>1, Zenon DEF SeenInv
    <3>1. k = Len(tx_buf) /\ \A j \in 1 .. Len(hand) : hand[j] = tx_buf[j]
      BY <2>1, Zenon DEF SendInv, SeenInv, Giving, Offering
    <3>2. \A j \in 1 .. Len(hand') : hand'[j] = tx_buf[j]
      <4>1. \A j \in 1 .. Len(hand') : j \in 1 .. Len(hand) \/ j = Len(hand) + 1
        BY <2>3, <2>6
      <4>2. w = tx_buf[Len(hand) + 1]
        BY <2>3, <2>5, <3>1, Zenon
      <4> QED
        BY <2>6, <3>1, <4>1, <4>2, Zenon
    <3>3. tx_buf \in Seq(Nat)
      BY Zenon DEF SendInv, CaptureInv
    <3>4. Len(hand') = k => hand' = tx_buf
      BY <2>6, <3>1, <3>2, <3>3, SeqEqual, Zenon
    <3> QED
      BY <2>1, <2>3, <2>6, <3>1, <3>2, <3>4 DEF SeenInv
  <2> QED
    BY <2>2, <2>9, <2>10, Zenon DEF SendInv
<1>4. CASE Carry
  BY <1>4, SendKept, Zenon DEF Carry, card, txVars, Giving, Offering
<1>5. CASE LetGo
  <2>1. /\ UNCHANGED <<kind, cst, tx_buf, tx_seen, out>>
        /\ pc' \in {"poll", "udp"} /\ hand' = <<>>
        /\ \/ Takes /\ tx_valid' = 0 /\ tdone' = 1
           \/ ~Takes /\ UNCHANGED <<tx_valid, tdone>>
    BY <1>5, Zenon DEF LetGo
  <2>2. HandInv'
    BY <2>1, MaxWordsHolds DEF HandInv
  <2>3. CaptureInv'
    BY <2>1, Zenon DEF SendInv, CaptureInv, Mine
  <2>4. DoneMeansGone'
    BY <2>1 DEF SendInv, CaptureInv, DoneMeansGone, Takes
  <2>5. SeenInv'
    BY <2>1 DEF SeenInv, Takes
  <2> QED
    BY <2>2, <2>3, <2>4, <2>5, Zenon DEF SendInv
<1>6. CASE WriteFrame \/ Commit \/ ReadLost
  <2>1. /\ UNCHANGED <<tdone, cst, tx_buf, tx_valid, tx_seen, out, hand, ret>>
        /\ pc \in Giving /\ pc' \in Giving
    BY <1>6, Zenon DEF WriteFrame, Commit, ReadLost, card, txVars, Giving, Offering
  <2> QED
    BY <2>1, SendKept, Zenon DEF Giving, Offering
<1>7. CASE Answer
  <2>1. /\ UNCHANGED <<tdone, cst, tx_buf, tx_valid, tx_seen, out, hand>> /\ pc \in Giving
        /\ (ret = "own" /\ pc' = "let_go") \/ (ret # "own" /\ pc' \in {"udp", "poll"})
    BY <1>7, Zenon DEF Answer, card, txVars, Giving
  <2> QED
    BY <2>1, SendKept, Zenon
<1>8. CASE Arrive \/ Pump \/ Waits \/ Expires
  <2>1. /\ UNCHANGED <<tdone, cst, tx_buf, tx_valid, tx_seen, out, hand>>
        /\ pc \in {"udp", "pump", "wait"}
        /\ pc' \in {"pump", "udp", "give", "freed", "poll", "turn"}
    BY <1>8, Zenon DEF Arrive, Pump, Waits, Expires, Offer, card, txVars
  <2> QED
    BY <2>1, SendKept, Zenon DEF Giving, Offering
<1>9. CASE ReadFreed \/ ClearFreed
  <2>1. /\ UNCHANGED <<tdone, cst, tx_buf, tx_valid, tx_seen, out, hand>>
        /\ \/ pc \in {"turn", "clear_turn"}
           \/ pc \in {"freed", "clear_freed"} /\ ret # "own"
        /\ pc' \in {"clear_turn", "clear_freed", "wait", "give", "freed"}
    BY <1>9, Zenon DEF ReadFreed, ClearFreed, Offer, card, txVars, GiveInv
  <2> QED
    BY <2>1, SendKept, Zenon DEF Giving, Offering
<1> QED
  BY <1>1, <1>2, <1>3, <1>4, <1>5, <1>6, <1>7, <1>8, <1>9, Zenon DEF Program

-----------------------------------------------------------------------------
(* The give and its stream, step by step.                                  *)

LEMMA GiveAlone ==
  ASSUME GiveInv, Machine \/ Tick
  PROVE  GiveInv'
<1>1. UNCHANGED <<rx_buf, lost, before, refused, ret, pc, frame, k>> /\ r_rxlen' \in {0, r_rxlen}
  BY Zenon DEF Machine, Start, ClearTransmitter, ClearReceiver, Reset, LostKept, Tick, rxVars, program
<1> QED
  BY <1>1, MaxWordsHolds DEF GiveInv

\* The frame of an offer out of the queue.
LEMMA OfferedFrame ==
  ASSUME FramesInv, TurnInv, queue # <<>>, Offer
  PROVE  /\ pc' = "freed" /\ ret' = "head"
         /\ frame' \in Seq(Nat) /\ frame' # <<>> /\ Len(frame') <= MaxWords /\ frame'[1] = queue[1]
<1>1. queue[1] = Head(queue) /\ queue[1] \in 1 .. Len(kind) /\ Len(queue) >= 1
  BY DEF TurnInv
<1>2. queue[1] \in Nat /\ kind[queue[1]] \in Kinds
  BY <1>1 DEF FramesInv
<1> QED
  BY <1>1, <1>2, WordsAre, Zenon DEF Offer

\* The program's steps that leave the cable's receive side alone, and are not
\* on their way between two writes of the give.
LEMMA GiveKept ==
  ASSUME GiveInv,
         UNCHANGED <<rx_buf, r_rxlen, lost, before>>, refused' \in Bits,
         ret' \in {"own", "broadcast", "new", "head"},
         pc' \notin {"fill", "length", "commit"},
         pc' \in {"freed", "clear_freed"} => ret' # "own",
         pc' \in Giving => frame' \in Seq(Nat) /\ frame' # <<>> /\ Len(frame') <= MaxWords
  PROVE  GiveInv'
  BY Zenon DEF GiveInv

LEMMA GiveWrites ==
  ASSUME GiveInv, WriteFrame
  PROVE  GiveInv'
<1> USE DEF Giving, Offering
<1>1. /\ frame \in Seq(Nat) /\ frame # <<>> /\ Len(frame) <= MaxWords /\ Len(frame) \in Nat \ {0}
      /\ rx_buf \in [1 .. MaxWords -> Nat] /\ MaxWords \in Nat
      /\ UNCHANGED <<frame, ret, lost>>
  <2>1. pc \in Giving /\ UNCHANGED <<frame, ret, lost>>
    BY Zenon DEF WriteFrame
  <2>2. /\ frame \in Seq(Nat) /\ frame # <<>> /\ Len(frame) <= MaxWords
        /\ rx_buf \in [1 .. MaxWords -> Nat]
    BY <2>1, Zenon DEF GiveInv
  <2>3. Len(frame) \in Nat \ {0}
    BY <2>2
  <2> QED
    BY <2>1, <2>2, <2>3, MaxWordsHolds, Zenon
<1>2. CASE pc = "give"
  BY <1>1, <1>2, GiveKept, Zenon DEF WriteFrame, GiveInv
<1>3. CASE pc = "lost"
  <2>1. before' = lost /\ k' = 0 /\ pc' = "fill" /\ UNCHANGED <<refused, rx_buf, r_rxlen>>
    BY <1>3, Zenon DEF WriteFrame
  <2> QED
    BY <1>1, <2>1 DEF GiveInv
<1>4. CASE pc = "fill"
  <2>1. /\ k' = k + 1 /\ rx_buf' = [rx_buf EXCEPT ![k + 1] = frame[k + 1]]
        /\ pc' = IF k' = Len(frame) THEN "length" ELSE "fill"
        /\ UNCHANGED <<refused, before, r_rxlen>>
    BY <1>4, Zenon DEF WriteFrame
  <2>2. k \in 0 .. Len(frame) - 1 /\ \A j \in 1 .. k : rx_buf[j] = frame[j]
    BY <1>4, Zenon DEF GiveInv
  <2>3. k + 1 \in 1 .. MaxWords /\ frame[k + 1] \in Nat
    BY <1>1, <2>2
  <2>4. rx_buf' \in [1 .. MaxWords -> Nat] /\ \A j \in 1 .. k + 1 : rx_buf'[j] = frame[j]
    <3>1. rx_buf' \in [1 .. MaxWords -> Nat] /\ rx_buf'[k + 1] = frame[k + 1]
      BY <1>1, <2>1, <2>3, Zenon
    <3>2. \A j \in 1 .. k : j \in 1 .. MaxWords /\ j # k + 1
      BY <1>1, <2>2
    <3>3. \A j \in 1 .. k : rx_buf'[j] = frame[j]
      BY <1>1, <2>1, <2>2, <3>2, Zenon
    <3>4. \A j \in 1 .. k + 1 : j \in 1 .. k \/ j = k + 1
      BY <2>2
    <3> QED
      BY <3>1, <3>3, <3>4, Zenon
  <2> QED
    BY <1>1, <1>4, <2>1, <2>2, <2>4 DEF GiveInv
<1>5. CASE pc = "length"
  <2>1. r_rxlen' = Len(frame) /\ pc' = "commit" /\ UNCHANGED <<refused, before, k, rx_buf>>
    BY <1>5, Zenon DEF WriteFrame
  <2> QED
    BY <1>1, <1>5, <2>1 DEF GiveInv
<1> QED
  BY <1>2, <1>3, <1>4, <1>5, Zenon DEF WriteFrame

LEMMA GiveProgram ==
  ASSUME FramesInv, SendInv, GiveInv, TurnInv, Program
  PROVE  GiveInv'
<1> USE DEF Giving, Offering
<1>0. refused \in Bits /\ ret \in {"own", "broadcast", "new", "head"}
  BY Zenon DEF GiveInv
<1>1. CASE ReadStat \/ ReadLength \/ ReadWord \/ LetGo \/ Waits
  <2>1. /\ UNCHANGED <<rx_buf, r_rxlen, lost, before, refused, ret>>
        /\ pc' \in {"txlen", "udp", "let_go", "window", "carry", "poll"}
    BY <1>1, Zenon DEF ReadStat, ReadLength, ReadWord, LetGo, Waits, rxVars
  <2> QED
    BY <1>0, <2>1, GiveKept, Zenon
<1>2. CASE Carry
  <2>1. /\ UNCHANGED <<rx_buf, r_rxlen, lost, before, refused>>
        /\ \/ pc' = "let_go" /\ ret' = ret
           \/ pc' = "give" /\ ret' = "own" /\ frame' = hand
    BY <1>2, Zenon DEF Carry, rxVars
  <2>2. hand \in Seq(Nat) /\ hand # <<>> /\ Len(hand) <= MaxWords
    BY <1>2, Zenon DEF Carry, SendInv, HandInv
  <2> QED
    BY <1>0, <2>1, <2>2, GiveKept, Zenon
<1>3. CASE WriteFrame
  BY <1>3, GiveWrites, Zenon
<1>4. CASE Commit
  <2>1. /\ UNCHANGED <<rx_buf, r_rxlen, before, refused, ret, frame>> /\ pc = "commit" /\ pc' = "after"
        /\ lost' = lost \/ lost' = lost + Bit(r_rxlen # 0)
    BY <1>4, Zenon DEF Commit
  <2>2. lost' \in Nat
    BY <2>1 DEF GiveInv
  <2> QED
    BY <2>1, <2>2, Zenon DEF GiveInv
<1>5. CASE ReadLost
  <2>1. /\ UNCHANGED <<rx_buf, r_rxlen, lost, before, ret, frame>> /\ refused' \in Bits
        /\ pc = "after" /\ pc' = "answer"
    BY <1>5, Zenon DEF ReadLost, rxVars
  <2> QED
    BY <1>0, <2>1, GiveKept, Zenon DEF GiveInv
<1>6. CASE Answer
  <2>1. /\ UNCHANGED <<rx_buf, r_rxlen, lost, ret>> /\ refused' = 0 /\ before' = 0
        /\ pc' \in {"let_go", "udp", "poll"}
    BY <1>6, Zenon DEF Answer, rxVars
  <2> QED
    BY <1>0, <2>1, Zenon DEF GiveInv
<1>7. CASE Arrive
  <2>1. /\ UNCHANGED <<rx_buf, r_rxlen, lost, before, refused>>
        /\ \/ pc' \in {"pump", "udp"} /\ ret' = ret
           \/ /\ pc' \in {"give", "freed"} /\ ret' \in {"broadcast", "new"}
              /\ \E x \in Kinds : frame' = Words(Len(kind) + 1, x)
    BY <1>7, Zenon DEF Arrive, Delivered, rxVars
  <2>2. CASE pc' \in {"pump", "udp"} /\ ret' = ret
    BY <1>0, <2>1, <2>2, GiveKept, Zenon
  <2>3. ASSUME NEW x \in Kinds, frame' = Words(Len(kind) + 1, x)
        PROVE  frame' \in Seq(Nat) /\ frame' # <<>> /\ Len(frame') <= MaxWords
    <3>1. Len(kind) + 1 \in Nat
      BY DEF FramesInv
    <3> QED
      BY <2>3, <3>1, WordsAre, Zenon
  <2> QED
    BY <1>0, <2>1, <2>2, <2>3, GiveKept, Zenon
<1>8. CASE Pump \/ Expires \/ ClearFreed
  <2>1. /\ UNCHANGED <<rx_buf, r_rxlen, lost, before, refused>>
        /\ \/ queue # <<>> /\ Offer
           \/ pc' \in {"poll", "turn"} /\ ret' = ret
           \/ pc = "clear_freed" /\ pc' = "give" /\ UNCHANGED <<ret, frame>>
    BY <1>8, Zenon DEF Pump, Expires, ClearFreed, rxVars, TurnInv
  <2>2. CASE queue # <<>> /\ Offer
    BY <1>0, <2>1, <2>2, OfferedFrame, GiveKept, Zenon
  <2>3. CASE pc' \in {"poll", "turn"} /\ ret' = ret
    BY <1>0, <2>1, <2>3, GiveKept, Zenon
  <2>4. CASE pc = "clear_freed" /\ pc' = "give" /\ UNCHANGED <<ret, frame>>
    BY <1>0, <2>1, <2>4, GiveKept, Zenon DEF GiveInv
  <2> QED
    BY <2>1, <2>2, <2>3, <2>4, Zenon
<1>9. CASE ReadFreed
  <2>1. /\ UNCHANGED <<rx_buf, r_rxlen, lost, before, refused, ret, frame>>
        /\ \/ pc = "turn" /\ pc' \in {"clear_turn", "wait"}
           \/ pc = "freed" /\ pc' \in {"clear_freed", "give"}
    BY <1>9, Zenon DEF ReadFreed, rxVars
  <2> QED
    BY <1>0, <2>1, GiveKept, Zenon DEF GiveInv
<1> QED
  BY <1>1, <1>2, <1>3, <1>4, <1>5, <1>6, <1>7, <1>8, <1>9, Zenon DEF Program

LEMMA StreamMachine ==
  ASSUME StreamInv, Machine
  PROVE  StreamInv'
<1>1. CASE Start \/ ClearTransmitter
  <2>1. UNCHANGED <<xst, moved, drop, rdone, sent, x_len, rbuf, given, pc, k, rx_buf>>
    BY <1>1, Zenon DEF Start, ClearTransmitter, rxVars, program, history
  <2>2. Paced' = Paced
    BY <2>1, Zenon DEF Paced
  <2> QED
    BY <2>1, <2>2, Zenon DEF StreamInv
<1>2. CASE ClearReceiver
  <2>1. /\ rdone' = 0 /\ rbuf' = <<>> /\ given' = (IF rdone = 1 THEN <<>> ELSE given)
        /\ drop' = Bit(drop = 1 \/ xst \in {"X_STREAM", "X_GAP"})
        /\ UNCHANGED <<xst, moved, sent, x_len, rx_buf, pc, k>>
    BY <1>2, Zenon DEF ClearReceiver, program
  <2>2. rbuf' \in Seq(Nat) /\ given' \in Seq(Nat)
    BY <2>1 DEF StreamInv
  <2>3. xst # "X_IDLE" => given' = given
    BY <2>1, Zenon DEF StreamInv
  <2> QED
    BY <2>1, <2>2, <2>3, Zenon DEF StreamInv, Paced
<1>3. CASE Reset
  <2>1. /\ rdone' = 0 /\ rbuf' = <<>> /\ drop' = 0 /\ xst' = "X_IDLE"
        /\ UNCHANGED <<moved, sent, x_len, given>>
    BY <1>3, Zenon DEF Reset, history
  <2> QED
    BY <2>1 DEF StreamInv
<1> QED
  BY <1>1, <1>2, <1>3, Zenon DEF Machine

LEMMA StreamTick ==
  ASSUME StreamInv, GiveInv, Tick
  PROVE  StreamInv'
<1>1. moved' = 1 /\ UNCHANGED <<rx_buf, x_len, pc, k, given>>
  BY Zenon DEF Tick, program
<1>2. CASE xst = "X_IDLE"
  BY <1>1, <1>2, Zenon DEF Tick, Stream, StreamInv
<1>3. CASE xst = "X_PRIME"
  <2>1. xst' = "X_STREAM" /\ UNCHANGED <<sent, rbuf, rdone, drop>>
    BY <1>3, Zenon DEF Tick, Stream
  <2>2. Paced'
    BY <1>1, <1>3, <2>1 DEF StreamInv, Paced
  <2> QED
    BY <1>1, <1>3, <2>1, <2>2 DEF StreamInv
<1>4. CASE xst = "X_STREAM"
  <2>1. /\ rbuf' = Append(rbuf, rx_buf[sent + 1]) /\ UNCHANGED <<rdone, drop>>
        /\ \/ sent + 1 = x_len /\ xst' = "X_GAP" /\ sent' = sent
           \/ sent + 1 # x_len /\ sent' = sent + 1 /\ xst' = "X_STREAM"
    BY <1>4, Zenon DEF Tick, Stream, AtEnd
  <2>2. /\ given # <<>> /\ Len(given) = x_len /\ x_len <= MaxWords /\ sent < x_len
        /\ rx_buf[sent + 1] = given[sent + 1] /\ sent \in Nat /\ x_len \in Nat
        /\ rbuf \in Seq(Nat) /\ given \in Seq(Nat) /\ rdone = 0
    BY <1>4 DEF StreamInv
  <2>3. given[sent + 1] \in Nat
    BY <2>2
  <2>4. /\ rbuf' \in Seq(Nat) /\ Len(rbuf') = Len(rbuf) + 1
        /\ \A j \in 1 .. Len(rbuf) : rbuf'[j] = rbuf[j]
        /\ rbuf'[Len(rbuf) + 1] = given[sent + 1]
    BY <2>1, <2>2, <2>3, AppendProperties
  <2>5. drop = 0 => Len(rbuf') = sent + 1 /\ \A j \in 1 .. sent + 1 : rbuf'[j] = given[j]
    <3>1. drop = 0 => Len(rbuf) = sent /\ \A j \in 1 .. sent : rbuf[j] = given[j]
      BY <1>4, Zenon DEF StreamInv
    <3> SUFFICES ASSUME drop = 0, NEW j \in 1 .. sent + 1
                 PROVE  Len(rbuf') = sent + 1 /\ rbuf'[j] = given[j]
      BY <2>2, <2>4, <3>1, Zenon
    <3>2. j \in 1 .. sent \/ j = sent + 1
      BY <2>2
    <3> QED
      BY <2>4, <3>1, <3>2, Zenon
  <2>6. drop = 0 /\ sent + 1 = x_len => rbuf' = given
    BY <2>2, <2>4, <2>5, SeqEqual, Zenon
  <2>7. CASE sent + 1 = x_len
    <3>1. xst' = "X_GAP" /\ sent' = sent /\ sent < x_len /\ (drop = 0 => rbuf' = given)
      BY <2>1, <2>2, <2>6, <2>7, Zenon
    <3>2. moved \in Bits /\ drop \in Bits /\ rdone # 1 /\ rdone \in Bits
      BY <2>2 DEF StreamInv
    <3> QED
      BY <1>1, <2>1, <2>2, <2>4, <3>1, <3>2, Zenon DEF StreamInv
  <2>8. CASE sent + 1 # x_len
    <3>1. Paced'
      <4>1. Paced /\ moved \in Bits /\ (pc = "fill" => k \in Nat)
        BY <1>4 DEF StreamInv, GiveInv
      <4> QED
        BY <1>1, <2>1, <2>2, <2>8, <4>1 DEF Paced
    <3>2. \A j \in sent + 2 .. x_len : rx_buf[j] = given[j]
      BY <1>4, <2>2 DEF StreamInv
    <3>3. xst' = "X_STREAM" /\ sent' = sent + 1 /\ sent' \in Nat /\ sent' < x_len
      BY <2>1, <2>2, <2>8
    <3>4. moved \in Bits /\ drop \in Bits /\ rdone # 1 /\ rdone \in Bits
      BY <2>2 DEF StreamInv
    <3>5. \A j \in sent' + 1 .. x_len : rx_buf[j] = given[j]
      BY <2>2, <3>2, <3>3
    <3>6. drop = 0 => Len(rbuf') = sent' /\ \A j \in 1 .. sent' : rbuf'[j] = given[j]
      BY <2>5, <3>3, Zenon
    <3> QED
      BY <1>1, <2>1, <2>2, <2>4, <3>1, <3>3, <3>4, <3>5, <3>6, Zenon DEF StreamInv
  <2> QED
    BY <2>7, <2>8, Zenon
<1>5. CASE xst = "X_GAP"
  <2>1. /\ xst' = "X_IDLE" /\ drop' = 0 /\ sent' = sent
        /\ \/ drop = 1 /\ rbuf' = <<>> /\ rdone' = rdone
           \/ drop # 1 /\ rdone' = 1 /\ rbuf' = rbuf
    BY <1>5, Zenon DEF Tick, Stream
  <2>2. rdone = 0
    BY <1>5, Zenon DEF StreamInv
  <2> QED
    <3>1. drop = 0 \/ drop = 1
      BY Zenon DEF StreamInv
    <3>2. CASE drop = 0
      BY <1>1, <1>5, <2>1, <3>2, Zenon DEF StreamInv
    <3>3. CASE drop = 1
      BY <1>1, <1>5, <2>1, <2>2, <3>3 DEF StreamInv
    <3> QED
      BY <3>1, <3>2, <3>3, Zenon
<1> QED
  BY <1>2, <1>3, <1>4, <1>5, Zenon DEF Tick, Stream

\* An access finds the stream a word further than the last one did.
LEMMA PaceStep ==
  ASSUME StreamInv, GiveInv, Program, xst = "X_STREAM", sent' = sent
  PROVE  Paced'
<1>0. Paced /\ sent \in Nat /\ moved \in Bits
  BY Zenon DEF StreamInv
<1>1. Access => moved = 1 /\ moved' = 0
  BY Zenon DEF Access, streaming
<1>2. CASE WriteFrame
  <2>1. \/ pc = "give" /\ pc' \in {"answer", "lost"}
        \/ pc = "lost" /\ pc' = "fill" /\ k' = 0
        \/ pc = "fill" /\ pc' = "fill" /\ k' = k + 1
        \/ pc = "fill" /\ pc' = "length" /\ k \in Nat
        \/ pc = "length" /\ pc' = "commit"
    BY <1>2 DEF WriteFrame, GiveInv
  <2>2. pc = "fill" => k \in Nat
    BY DEF GiveInv
  <2> QED
    BY <1>0, <1>1, <1>2, <2>1, <2>2 DEF WriteFrame, Paced
<1>3. CASE Commit
  BY <1>0, <1>1, <1>3 DEF Commit, Paced
<1>4. CASE ReadLost
  BY <1>0, <1>1, <1>4 DEF ReadLost, Paced
<1>5. CASE ~(WriteFrame \/ Commit \/ ReadLost)
  <2>1. /\ pc \notin {"after", "lost", "fill"} /\ pc' \notin {"after", "lost", "fill"}
        /\ Access \/ moved' = moved
    <3>1. CASE ReadStat \/ ReadLength \/ ReadWord \/ Carry \/ LetGo
      BY <3>1, Zenon DEF ReadStat, ReadLength, ReadWord, Carry, LetGo
    <3>2. CASE Answer \/ Arrive \/ Pump \/ Waits \/ Expires
      BY <3>2, Zenon DEF Answer, Arrive, Pump, Waits, Expires, Offer
    <3>3. CASE ReadFreed \/ ClearFreed
      BY <3>3, Zenon DEF ReadFreed, ClearFreed, Offer
    <3> QED
      BY <1>5, <3>1, <3>2, <3>3, Zenon DEF Program
  <2> QED
    BY <1>0, <1>1, <2>1 DEF Paced
<1> QED
  BY <1>2, <1>3, <1>4, <1>5, Zenon

\* The program's steps other than the commit: none comes before the stream
\* has started, and the give writes only words the stream is past.
LEMMA StreamProgram ==
  ASSUME StreamInv, GiveInv, Program, ~Commit
  PROVE  StreamInv'
<1>1. UNCHANGED <<xst, drop, rdone, sent, x_len, rbuf, given>> /\ moved' \in Bits
  <2>1. CASE ReadStat \/ ReadLength \/ ReadWord \/ Carry \/ LetGo
    BY <2>1, Zenon DEF ReadStat, ReadLength, ReadWord, Carry, LetGo, card, rxVars, history, Access
  <2>2. CASE WriteFrame \/ ReadLost
    BY <2>2, Zenon DEF WriteFrame, ReadLost, card, rxVars, history, Access
  <2>3. CASE Answer \/ Arrive \/ Pump \/ Waits \/ Expires
    BY <2>3, Zenon DEF Answer, Arrive, Pump, Waits, Expires, card, rxVars, history, StreamInv
  <2>4. CASE ReadFreed \/ ClearFreed
    BY <2>4, Zenon DEF ReadFreed, ClearFreed, card, rxVars, history, Access
  <2> QED
    BY <2>1, <2>2, <2>3, <2>4, Zenon DEF Program
<1>2. xst # "X_PRIME"
  <2> SUFFICES ASSUME xst = "X_PRIME" PROVE FALSE
    BY Zenon
  <2>1. pc = "after" /\ ~Access
    BY Zenon DEF StreamInv, Access, streaming
  <2> QED
    BY <2>1, Zenon DEF Program, ReadStat, ReadLength, ReadWord, Carry, LetGo, WriteFrame, Commit, ReadLost,
       Answer, Arrive, Pump, ReadFreed, ClearFreed, Waits, Expires
<1>3. xst = "X_STREAM" => \A j \in sent + 1 .. x_len : rx_buf'[j] = given[j]
  <2> SUFFICES ASSUME xst = "X_STREAM"
               PROVE  \A j \in sent + 1 .. x_len : rx_buf'[j] = rx_buf[j]
    BY Zenon DEF StreamInv
  <2>1. CASE rx_buf' = rx_buf
    BY <2>1, Zenon
  <2>2. CASE WriteFrame /\ pc = "fill"
    <3>1. rx_buf' = [rx_buf EXCEPT ![k + 1] = frame[k + 1]] /\ Access
      BY <2>2, Zenon DEF WriteFrame
    <3>2. moved = 1
      BY <3>1, Zenon DEF Access, streaming
    <3>3. k \in Nat /\ sent \in Nat /\ x_len \in Nat /\ sent >= k + 3
      BY <2>2, <3>2 DEF GiveInv, StreamInv, Paced
    <3>4. rx_buf \in [1 .. MaxWords -> Nat] /\ x_len <= MaxWords
      BY Zenon DEF GiveInv, StreamInv
    <3> QED
      BY <3>1, <3>3, <3>4, MaxWordsHolds
  <2>3. rx_buf' = rx_buf \/ (WriteFrame /\ pc = "fill")
    <3>1. CASE ReadStat \/ ReadLength \/ ReadWord \/ Carry \/ LetGo \/ WriteFrame \/ ReadLost
      BY ZenonT(40), <3>1 DEF ReadStat, ReadLength, ReadWord, Carry, LetGo, WriteFrame, ReadLost, rxVars
    <3>2. CASE Answer \/ Arrive \/ Pump \/ Waits \/ Expires \/ ReadFreed \/ ClearFreed
      BY <3>2, Zenon DEF Answer, Arrive, Pump, Waits, Expires, ReadFreed, ClearFreed, rxVars
    <3> QED
      BY <3>1, <3>2, Zenon DEF Program
  <2> QED
    BY <2>1, <2>2, <2>3, Zenon
<1>4. xst = "X_STREAM" => Paced'
  BY <1>1, PaceStep, Zenon
<1> HIDE DEF Program, Commit
<1> QED
  BY <1>1, <1>2, <1>3, <1>4, Zenon DEF StreamInv

LEMMA StreamCommit ==
  ASSUME StreamInv, GiveInv, Commit
  PROVE  StreamInv'
<1>1. /\ pc = "commit" /\ pc' = "after" /\ moved' = 0
      /\ UNCHANGED <<rdone, drop, rx_buf, k>>
  BY Zenon DEF Commit, Access
<1>2. CASE r_rxlen # 0 /\ rdone = 0 /\ xst = "X_IDLE"
  <2>1. /\ xst' = "X_PRIME" /\ sent' = 0 /\ x_len' = r_rxlen
        /\ rbuf' = <<>> /\ given' = SubSeq(rx_buf, 1, r_rxlen)
    BY <1>2, Zenon DEF Commit
  <2>2. r_rxlen \in 1 .. MaxWords /\ MaxWords \in Nat /\ \A j \in 1 .. r_rxlen : rx_buf[j] \in Nat
    BY <1>2, MaxWordsHolds DEF GiveInv
  <2>3. given' \in Seq(Nat) /\ Len(given') = r_rxlen /\ \A j \in 1 .. r_rxlen : given'[j] = rx_buf[j]
    BY <2>1, <2>2, SubSeqProperties
  <2>4. given' # <<>>
    BY <2>2, <2>3
  <2> QED
    <3>1. drop = 0 /\ rdone = 0
      BY <1>2, Zenon DEF StreamInv
    <3>2. \A j \in sent' + 1 .. x_len' : rx_buf'[j] = given'[j]
      BY <1>1, <2>1, <2>2, <2>3
    <3>3. rbuf' \in Seq(Nat) /\ sent' \in Nat /\ x_len' \in Nat /\ sent' < x_len' /\ x_len' <= MaxWords
      BY <2>1, <2>2
    <3>4. /\ xst' = "X_PRIME" /\ moved' = 0 /\ drop' = 0 /\ rdone' = 0 /\ pc' = "after"
          /\ sent' = 0 /\ rbuf' = <<>> /\ Len(given') = x_len'
      BY <1>1, <2>1, <2>3, <3>1, Zenon
    <3>5. {moved', drop', rdone'} \subseteq Bits /\ rdone' # 1
      BY <3>4 DEF Bits
    <3> QED
      BY <2>3, <2>4, <3>2, <3>3, <3>4, <3>5, Zenon DEF StreamInv
<1>3. CASE ~(r_rxlen # 0 /\ rdone = 0 /\ xst = "X_IDLE")
  <2>1. UNCHANGED <<xst, sent, x_len, rbuf, given>>
    BY <1>3, Zenon DEF Commit
  <2>2. xst # "X_PRIME"
    BY <1>1, Zenon DEF StreamInv
  <2>3. xst = "X_STREAM" => Paced'
    BY <2>1, PaceStep, Zenon DEF Program
  <2> QED
    BY <1>1, <2>1, <2>2, <2>3, Zenon DEF StreamInv
<1> QED
  BY <1>2, <1>3, Zenon

-----------------------------------------------------------------------------
(* The frames for the machine by name: from the network through the queue  *)
(* and the offers into the card, step by step, and what the card, the      *)
(* cable and the program promise as a whole.                               *)

\* No frame is given up or finds no room that was not already.
NoneWorse == \A f \in 1 .. Len(kind) : fate[f] \notin Bad => fate'[f] \notin Bad

\* Steps that leave the queue alone and offer nothing.
LEMMA TurnKept ==
  ASSUME GiveInv, TurnInv, Grows, NoneWorse, queue' = queue,
         pc' \in {"turn", "clear_turn", "wait"} => queue # <<>>,
         pc' \in Giving => pc \in Giving /\ UNCHANGED <<ret, frame>>
  PROVE  TurnInv'
<1>1. \A i \in 1 .. Len(queue) : queue[i] \in 1 .. Len(kind) /\ Named(queue[i]) /\ fate[queue[i]] \notin Bad
  BY Zenon DEF TurnInv
<1>2. \A i \in 1 .. Len(queue) :
        queue[i] \in 1 .. Len(kind') /\ Named(queue[i])' /\ fate'[queue[i]] \notin Bad
  BY <1>1 DEF Grows, FramesInv, NoneWorse, Named
<1>3. ASSUME pc' \in Giving
      PROVE  /\ ret' = "own" => Mine(frame[1])'
             /\ ret' = "broadcast" => frame'[1] \in 1 .. Len(kind') /\ ~Named(frame[1])'
             /\ ret' = "new" => /\ queue' = <<>>
                                /\ frame'[1] \in 1 .. Len(kind') /\ Named(frame[1])'
                                /\ fate'[frame'[1]] \notin Bad
             /\ ret' = "head" => queue' # <<>> /\ frame'[1] = queue'[1]
  <2>1. pc \in Giving /\ UNCHANGED <<ret, frame>>
    BY <1>3, Zenon
  <2>2. /\ ret = "own" => Mine(frame[1])
        /\ ret = "broadcast" => frame[1] \in 1 .. Len(kind) /\ ~Named(frame[1])
        /\ ret = "new" => /\ queue = <<>>
                          /\ frame[1] \in 1 .. Len(kind) /\ Named(frame[1])
                          /\ fate[frame[1]] \notin Bad
        /\ ret = "head" => queue # <<>> /\ frame[1] = queue[1]
    BY <2>1, Zenon DEF TurnInv
  <2> QED
    BY <2>1, <2>2 DEF Grows, FramesInv, NoneWorse, Named, Mine
<1> QED
  BY <1>2, <1>3, Zenon DEF TurnInv, Named

\* The head of the queue is offered.
LEMMA TurnOffer ==
  ASSUME FramesInv, TurnInv, Offer, queue # <<>>, UNCHANGED <<kind, fate, queue>>
  PROVE  TurnInv'
<1>1. pc' = "freed" /\ ret' = "head" /\ frame'[1] = queue[1]
  BY OfferedFrame, Zenon
<1> QED
  BY <1>1, Zenon DEF TurnInv, Named

LEMMA TurnAnswer ==
  ASSUME FramesInv, GiveInv, TurnInv, Grows, Answer
  PROVE  TurnInv'
<1> USE DEF Fates
<1> DEFINE f == frame[1]
<1>1. pc = "answer" /\ pc \in Giving /\ pc' \in {"let_go", "udp", "poll"} /\ UNCHANGED <<kind, ret>>
  BY Zenon DEF Answer, Giving
<1>2. CASE UNCHANGED <<fate, queue>>
  BY <1>1, <1>2, TurnKept, Zenon DEF NoneWorse, Giving, Offering
<1>3. CASE ret = "broadcast"
  <2>1. f \in 1 .. Len(kind) /\ queue' = queue
    BY <1>1, <1>3, Zenon DEF Answer, TurnInv
  <2>2. Counted(f, "broadcasts_lost") \/ Counted(f, "stored")
    BY <1>3, Zenon DEF Answer
  <2>3. NoneWorse
    BY <2>1, <2>2, FateMoves, Zenon DEF NoneWorse, Bad
  <2> QED
    BY <1>1, <2>1, <2>3, TurnKept, Zenon DEF Giving, Offering
<1>4. CASE ret = "new"
  <2>1. f \in 1 .. Len(kind) /\ Named(f) /\ queue = <<>>
    BY <1>1, <1>4, Zenon DEF TurnInv
  <2>2. CASE Counted(f, "stored") /\ queue' = queue
    <3>1. NoneWorse
      BY <2>1, <2>2, FateMoves, Zenon DEF NoneWorse, Bad
    <3> QED
      BY <1>1, <2>2, <3>1, TurnKept, Zenon DEF Giving, Offering
  <2>3. CASE Counted(f, "waiting") /\ queue' = <<f>>
    <3>1. fate'[f] = "waiting"
      BY <2>1, <2>3, FateMoves, Zenon
    <3>2. queue' \in Seq(Nat) /\ Len(queue') = 1 /\ queue'[1] = f
      BY <2>1, <2>3
    <3> HIDE DEF f
    <3> QED
      BY <1>1, <2>1, <3>1, <3>2 DEF TurnInv, Named, Bad, Giving, Offering
  <2> QED
    BY <1>4, <2>2, <2>3, Zenon DEF Answer
<1>5. CASE ret = "head" /\ ~ UNCHANGED <<fate, queue>>
  <2>1. queue # <<>> /\ f = queue[1] /\ queue \in Seq(Nat) /\ f \in 1 .. Len(kind)
    BY <1>1, <1>5 DEF TurnInv
  <2>2. queue' = Tail(queue) /\ \E t \in Fates : Counted(f, t)
    BY <1>5, Zenon DEF Answer
  <2>3. /\ queue' \in Seq(Nat) /\ Len(queue') = Len(queue) - 1
        /\ \A i \in 1 .. Len(queue') : queue'[i] = queue[i + 1]
    BY <2>1, <2>2, HeadTailProperties, Zenon
  <2>4. \A g \in 1 .. Len(kind) : g # f => fate'[g] = fate[g]
    BY <2>1, <2>2, FateMoves, Zenon
  <2> HIDE DEF f
  <2> DEFINE Standing(i) == queue[i] \in 1 .. Len(kind) /\ Named(queue[i]) /\ fate[queue[i]] \notin Bad
  <2>a. /\ \A i \in 1 .. Len(queue) : Standing(i)
        /\ \A i, j \in 1 .. Len(queue) : i < j => queue[i] < queue[j]
    BY Zenon DEF TurnInv
  <2>5. ASSUME NEW i \in 1 .. Len(queue')
        PROVE  i + 1 \in 1 .. Len(queue) /\ f < queue[i + 1] /\ queue'[i] = queue[i + 1] /\ Standing(i + 1)
    <3>1. Len(queue) \in Nat /\ 1 \in 1 .. Len(queue) /\ i + 1 \in 1 .. Len(queue) /\ 1 < i + 1
      BY <2>1, <2>3
    <3> HIDE DEF Standing
    <3> QED
      BY <2>1, <2>3, <2>a, <3>1, Zenon
  <2>6. \A i \in 1 .. Len(queue') : /\ queue'[i] \in 1 .. Len(kind) /\ Named(queue'[i])
                                    /\ fate'[queue'[i]] \notin Bad
    <3> TAKE i \in 1 .. Len(queue')
    <3>1. f < queue[i + 1] /\ queue'[i] = queue[i + 1] /\ Standing(i + 1)
      BY <2>5, Zenon
    <3>2. queue[i + 1] # f
      BY <2>1, <3>1
    <3> QED
      BY <2>4, <3>1, <3>2, Zenon
  <2>7. \A i, j \in 1 .. Len(queue') : i < j => queue'[i] < queue'[j]
    <3> TAKE i, j \in 1 .. Len(queue')
    <3>1. i + 1 \in 1 .. Len(queue) /\ j + 1 \in 1 .. Len(queue)
      BY <2>5, Zenon
    <3>2. queue'[i] = queue[i + 1] /\ queue'[j] = queue[j + 1]
      BY <2>3, Zenon
    <3>3. i < j => i + 1 < j + 1
      BY <2>3
    <3> QED
      BY <2>a, <3>1, <3>2, <3>3, Zenon
  <2> QED
    BY <1>1, <2>3, <2>6, <2>7, Zenon DEF TurnInv, Named, Giving, Offering
<1> QED
  BY <1>2, <1>3, <1>4, <1>5, Zenon DEF Answer

\* What an arrival does to the queue and the frame in hand.
Arrival(x) ==
  LET f == Len(kind) + 1 IN
  \/ x.to = "else" /\ New(x, "dropped") /\ pc' = "udp" /\ queue' = queue
  \/ x.to = "me" /\ New(x, "no_room") /\ pc' = "udp" /\ queue' = queue
  \/ x.to = "all" /\ New(x, "offered") /\ pc' = "give" /\ ret' = "broadcast"
     /\ frame' = Words(f, x) /\ queue' = queue
  \/ x.to = "me" /\ New(x, "offered") /\ pc' = "freed" /\ ret' = "new"
     /\ frame' = Words(f, x) /\ queue' = queue /\ queue = <<>>
  \/ x.to = "me" /\ New(x, "waiting") /\ pc' = "udp" /\ queue' = Append(queue, f)

LEMMA Arrivals ==
  ASSUME Arrive
  PROVE  /\ pc = "udp" /\ UNCHANGED <<xst, given, landed, lost, before, refused>>
         /\ \/ UNCHANGED <<kind, fate, queue>> /\ pc' = "pump"
            \/ \E x \in Kinds : x.by = "net" /\ Arrival(x)
<1>1. pc = "udp" /\ UNCHANGED <<xst, given, landed, lost, before, refused>>
  BY Zenon DEF Arrive, rxVars, history
<1>2. CASE pc' = "pump" /\ UNCHANGED <<kind, ret, frame, queue, fate>>
  BY <1>1, <1>2, Zenon
<1>3. CASE ~(pc' = "pump" /\ UNCHANGED <<kind, ret, frame, queue, fate>>)
  BY <1>1, <1>3, Zenon DEF Arrive, Delivered, Arrival
<1> QED
  BY <1>2, <1>3, Zenon

LEMMA TurnArrive ==
  ASSUME FramesInv, GiveInv, TurnInv, Grows, Arrive
  PROVE  TurnInv'
<1> USE DEF Giving, Offering, Fates
<1>1. CASE UNCHANGED <<kind, fate, queue>> /\ pc' = "pump"
  BY <1>1, TurnKept, Zenon DEF NoneWorse
<1>2. ASSUME NEW x \in Kinds, x.by = "net", Arrival(x)
      PROVE  TurnInv'
  <2> DEFINE f == Len(kind) + 1
  <2>1. \E t \in Fates : New(x, t)
    BY <1>2, Zenon DEF Arrival
  <2>2. /\ Len(kind') = f /\ kind'[f] = x /\ f \in Nat
        /\ \A g \in 1 .. Len(kind) : kind'[g] = kind[g] /\ fate'[g] = fate[g]
    BY <2>1, NewFrame DEF FramesInv
  <2>3. NoneWorse
    BY <2>2, Zenon DEF NoneWorse
  <2>4. /\ queue \in Seq(Nat)
        /\ \A i \in 1 .. Len(queue) : /\ queue[i] \in 1 .. Len(kind') /\ queue[i] < f
                                      /\ kind'[queue[i]].by = "net" /\ kind'[queue[i]].to = "me"
                                      /\ fate'[queue[i]] \notin Bad
        /\ \A i, j \in 1 .. Len(queue) : i < j => queue[i] < queue[j]
    <3>1. /\ queue \in Seq(Nat)
          /\ \A i \in 1 .. Len(queue) : /\ queue[i] \in 1 .. Len(kind) /\ Named(queue[i])
                                        /\ fate[queue[i]] \notin Bad
          /\ \A i, j \in 1 .. Len(queue) : i < j => queue[i] < queue[j]
      BY Zenon DEF TurnInv
    <3>2. \A g \in 1 .. Len(kind) : /\ g \in 1 .. Len(kind') /\ g < f
                                    /\ Named(g) => kind'[g].by = "net" /\ kind'[g].to = "me"
      BY <2>2 DEF Named
    <3> QED
      BY <2>2, <3>1, <3>2, Zenon DEF Named
  <2>5. CASE pc' = "udp" /\ queue' = queue
    BY <2>3, <2>5, TurnKept, Zenon
  <2>6. CASE x.to = "me" /\ New(x, "waiting") /\ pc' = "udp" /\ queue' = Append(queue, f)
    <3>1. /\ queue' \in Seq(Nat) /\ Len(queue') = Len(queue) + 1 /\ queue'[Len(queue) + 1] = f
          /\ \A i \in 1 .. Len(queue) : queue'[i] = queue[i]
      BY <2>2, <2>4, <2>6, AppendProperties
    <3>2. f \in 1 .. Len(kind') /\ kind'[f].by = "net" /\ kind'[f].to = "me" /\ fate'[f] \notin Bad
      <4>1. fate'[f] = "waiting"
        BY <2>6, NewFrame, Zenon
      <4> QED
        BY <1>2, <2>2, <2>6, <4>1 DEF Named, Bad
    <3> HIDE DEF f
    <3>3. \A i \in 1 .. Len(queue') : i \in 1 .. Len(queue) \/ i = Len(queue) + 1
      BY <2>4, <3>1
    <3>4. \A i \in 1 .. Len(queue') : /\ queue'[i] \in 1 .. Len(kind') /\ kind'[queue'[i]].by = "net"
                                      /\ kind'[queue'[i]].to = "me" /\ fate'[queue'[i]] \notin Bad
      <4> TAKE i \in 1 .. Len(queue')
      <4>1. CASE i \in 1 .. Len(queue)
        BY <2>4, <3>1, <4>1, Zenon
      <4>2. CASE i = Len(queue) + 1
        BY <3>1, <3>2, <4>2, Zenon
      <4> QED
        BY <3>3, <4>1, <4>2, Zenon
    <3>5. \A i, j \in 1 .. Len(queue') : i < j => queue'[i] < queue'[j]
      <4> TAKE i, j \in 1 .. Len(queue')
      <4>1. Len(queue) \in Nat
        BY <2>4
      <4>2. CASE j \in 1 .. Len(queue)
        <5>1. i < j => i \in 1 .. Len(queue)
          BY <3>1, <4>1, <4>2
        <5> QED
          BY <2>4, <3>1, <4>2, <5>1, Zenon
      <4>3. CASE j = Len(queue) + 1
        <5>1. i < j => i \in 1 .. Len(queue)
          BY <3>1, <4>1, <4>3
        <5> QED
          BY <2>4, <3>1, <4>3, <5>1, Zenon
      <4> QED
        BY <3>3, <4>2, <4>3, Zenon
    <3> QED
      BY <2>6, <3>1, <3>4, <3>5, Zenon DEF TurnInv, Named
  <2>7. CASE New(x, "offered") /\ frame' = Words(f, x)
    <3>1. frame'[1] = f
      BY <2>2, <2>7, WordsAre, Zenon
    <3>2. f \in 1 .. Len(kind') /\ fate'[f] \notin Bad
      BY <2>2, <2>7, NewFrame DEF Bad
    <3> HIDE DEF f
    <3>3. CASE x.to = "all" /\ pc' = "give" /\ ret' = "broadcast" /\ queue' = queue
      BY <2>2, <2>4, <3>1, <3>2, <3>3, Zenon DEF TurnInv, Named
    <3>4. CASE x.to = "me" /\ pc' = "freed" /\ ret' = "new" /\ queue' = queue /\ queue = <<>>
      BY <1>2, <2>2, <2>4, <3>1, <3>2, <3>4 DEF TurnInv, Named
    <3>5. \/ x.to = "all" /\ pc' = "give" /\ ret' = "broadcast" /\ queue' = queue
          \/ x.to = "me" /\ pc' = "freed" /\ ret' = "new" /\ queue' = queue /\ queue = <<>>
          \/ pc' = "udp" /\ queue' = queue
          \/ New(x, "waiting")
      BY <1>2, Zenon DEF Arrival
    <3>6. ~New(x, "waiting")
      BY <2>7, NewFrame, Zenon
    <3> QED
      BY <2>5, <3>3, <3>4, <3>5, <3>6, Zenon
  <2> HIDE DEF f
  <2> QED
    BY <1>2, <2>5, <2>6, <2>7, Zenon DEF Arrival, f
<1> QED
  BY <1>1, <1>2, Arrivals, Zenon

LEMMA TurnStep ==
  ASSUME FramesInv, SendInv, GiveInv, TurnInv, Grows, Next
  PROVE  TurnInv'
<1> USE DEF Giving, Offering
<1>1. CASE Start
  <2>1. UNCHANGED <<pc, ret, frame, queue>>
    BY <1>1, Zenon DEF Start, program
  <2>2. NoneWorse
    <3>1. CASE fate' = fate
      BY <3>1, Zenon DEF NoneWorse
    <3>2. CASE \E x \in Kinds : New(x, "sent")
      BY <3>2, NewFrame, Zenon DEF NoneWorse, Fates
    <3> QED
      BY <1>1, <3>1, <3>2, Zenon DEF Start
  <2> QED
    BY <2>1, <2>2, TurnKept, Zenon DEF TurnInv
<1>2. CASE ClearTransmitter \/ ClearReceiver \/ Reset \/ Tick
  <2>1. UNCHANGED <<fate, pc, ret, frame, queue>>
    BY <1>2, Zenon DEF ClearTransmitter, ClearReceiver, Reset, Tick, program
  <2> QED
    BY <2>1, TurnKept, Zenon DEF TurnInv, NoneWorse
<1>3. CASE ReadStat \/ ReadLength \/ ReadWord \/ LetGo \/ Waits
  <2>1. UNCHANGED <<fate, queue>> /\ pc' \in {"txlen", "udp", "let_go", "window", "carry", "poll"}
    BY <1>3, Zenon DEF ReadStat, ReadLength, ReadWord, LetGo, Waits
  <2> QED
    BY <2>1, TurnKept, Zenon DEF NoneWorse
<1>4. CASE Carry
  <2>1. UNCHANGED <<kind, fate, queue>>
    BY <1>4, Zenon DEF Carry
  <2>2. CASE pc' = "let_go"
    BY <2>1, <2>2, TurnKept, Zenon DEF NoneWorse
  <2>3. CASE pc' = "give" /\ ret' = "own" /\ frame' = hand
    <3>1. Mine(hand[1])
      BY <1>4 DEF Carry, SendInv, HandInv
    <3> QED
      BY <2>1, <2>3, <3>1, Zenon DEF TurnInv, Named, Mine
  <2> QED
    BY <1>4, <2>2, <2>3, Zenon DEF Carry
<1>5. CASE WriteFrame \/ Commit \/ ReadLost
  <2>1. UNCHANGED <<fate, queue, ret, frame>> /\ pc \in Giving /\ pc' \in Giving \ {"turn", "clear_turn", "wait"}
    BY <1>5, Zenon DEF WriteFrame, Commit, ReadLost
  <2> QED
    BY <2>1, TurnKept, Zenon DEF NoneWorse
<1>6. CASE Answer
  BY <1>6, TurnAnswer, Zenon
<1>7. CASE Arrive
  BY <1>7, TurnArrive, Zenon
<1>8. CASE Pump \/ Expires \/ ClearFreed
  <2>1. /\ UNCHANGED <<kind, fate, queue>>
        /\ \/ queue # <<>> /\ Offer
           \/ pc' \in {"poll", "turn"} /\ (pc' = "turn" => queue # <<>>)
           \/ pc = "clear_freed" /\ pc' = "give" /\ UNCHANGED <<ret, frame>>
    BY <1>8, Zenon DEF Pump, Expires, ClearFreed, TurnInv
  <2>2. CASE queue # <<>> /\ Offer
    BY <2>1, <2>2, TurnOffer, Zenon
  <2>3. CASE pc' \in {"poll", "turn"} /\ (pc' = "turn" => queue # <<>>)
    BY <2>1, <2>3, TurnKept, Zenon DEF NoneWorse
  <2>4. CASE pc = "clear_freed" /\ pc' = "give" /\ UNCHANGED <<ret, frame>>
    BY <2>1, <2>4, TurnKept, Zenon DEF NoneWorse
  <2> QED
    BY <2>1, <2>2, <2>3, <2>4, Zenon
<1>9. CASE ReadFreed
  <2>1. /\ UNCHANGED <<fate, queue, ret, frame>>
        /\ \/ pc = "turn" /\ pc' \in {"clear_turn", "wait"}
           \/ pc = "freed" /\ pc' \in {"clear_freed", "give"}
    BY <1>9, Zenon DEF ReadFreed
  <2> QED
    BY <2>1, TurnKept, Zenon DEF NoneWorse, TurnInv
<1> QED
  BY <1>1, <1>2, <1>3, <1>4, <1>5, <1>6, <1>7, <1>8, <1>9, Zenon DEF Next, Machine, Program

\* The frame on its way into the card is one that arrived, after all that
\* landed.
LEMMA LandingFrame ==
  ASSUME FramesInv, OrderInv, Lands
  PROVE  /\ given[1] \in 1 .. Len(kind) /\ given[1] \in Nat /\ fate[given[1]] \notin Bad
         /\ \A i \in 1 .. Len(landed) : landed[i] < given[1]
<1>1. given[1] \in 0 .. Len(kind) /\ given[1] # 0
  BY Zenon DEF OrderInv, Lands
<1>2. Len(kind) \in Nat
  BY DEF FramesInv
<1>3. fate[given[1]] \notin Bad /\ \A i \in 1 .. Len(landed) : landed[i] < given[1]
  BY Zenon DEF OrderInv
<1> QED
  BY <1>1, <1>2, <1>3

\* What is to come stays to come while nothing lands and nothing is committed.
LEMMA AheadKept ==
  ASSUME OrderInv, Grows, landed' = landed, xst' = "X_IDLE" \/ UNCHANGED <<xst, given>>
  PROVE  /\ Lands' => Lands /\ given'[1] = given[1]
         /\ \A f \in Nat : Ahead(f) => Ahead(f)'
<1>1. Lands' => Lands /\ given'[1] = given[1]
  BY DEF OrderInv, Lands, Named, Grows, FramesInv
<1> QED
  BY <1>1, Zenon DEF Ahead

\* Steps that land nothing, commit nothing and leave the queue alone.
LEMMA OrderKept ==
  ASSUME FramesInv, TurnInv, OrderInv, Grows, NoneWorse, UNCHANGED <<landed, queue>>,
         xst' = "X_IDLE" \/ UNCHANGED <<xst, given>>,
         pc \in Giving /\ ret = "head" /\ Tried => pc' \in Giving /\ ret' = "head" /\ Tried',
         pc' \in Giving /\ ret' = "new" /\ ~Tried' =>
           pc \in Giving /\ ret = "new" /\ ~Tried /\ frame' = frame
  PROVE  OrderInv'
<1>1. Lands' => Lands /\ given'[1] = given[1]
  BY AheadKept, Zenon
<1>2. \A f \in Nat : Ahead(f) => Ahead(f)'
  BY AheadKept, Zenon
<1>3. /\ landed \in Seq(Nat)
      /\ \A i \in 1 .. Len(landed) : landed[i] \in 1 .. Len(kind) /\ fate[landed[i]] \notin Bad
      /\ \A i, j \in 1 .. Len(landed) : i < j => landed[i] < landed[j]
  BY Zenon DEF OrderInv
<1>4. \A i \in 1 .. Len(landed) : landed[i] \in 1 .. Len(kind') /\ fate'[landed[i]] \notin Bad
  <2>1. \A f \in 1 .. Len(kind) : f \in 1 .. Len(kind')
    BY DEF Grows, FramesInv
  <2> QED
    BY <1>3, <2>1, Zenon DEF NoneWorse
<1>5. xst' # "X_IDLE" => given'[1] \in 0 .. Len(kind')
  BY DEF OrderInv, Grows, FramesInv
<1>6. Lands' => /\ fate'[given'[1]] \notin Bad
                /\ \A i \in 1 .. Len(landed) : landed[i] < given'[1]
  <2>1. Lands => /\ given[1] \in 1 .. Len(kind) /\ fate[given[1]] \notin Bad
                 /\ \A i \in 1 .. Len(landed) : landed[i] < given[1]
    BY LandingFrame, Zenon
  <2> QED
    BY <1>1, <2>1, Zenon DEF NoneWorse
<1>7. ASSUME NEW i \in 1 .. Len(queue')
      PROVE  Ahead(queue[i])' \/ (i = 1 /\ pc' \in Giving /\ ret' = "head" /\ Tried')
  <2>1. i \in 1 .. Len(queue) /\ queue[i] \in Nat /\ queue'[i] = queue[i]
    BY DEF TurnInv
  <2>2. Ahead(queue[i]) \/ (i = 1 /\ pc \in Giving /\ ret = "head" /\ Tried)
    BY <2>1, Zenon DEF OrderInv
  <2>3. Ahead(queue[i]) => Ahead(queue[i])'
    BY <1>2, <2>1, Zenon DEF Ahead
  <2> QED
    BY <2>2, <2>3, Zenon
<1>8. ASSUME pc' \in Giving, ret' = "new", ~Tried'
      PROVE  Ahead(frame[1])'
  <2>1. pc \in Giving /\ ret = "new" /\ ~Tried /\ frame' = frame
    BY <1>8, Zenon
  <2>2. Ahead(frame[1]) /\ frame[1] \in Nat
    BY <2>1 DEF OrderInv, TurnInv
  <2> QED
    BY <1>2, <2>1, <2>2, Zenon DEF Ahead
<1> HIDE DEF Giving, Tried
<1> QED
  BY <1>3, <1>4, <1>5, <1>6, <1>7, <1>8, Zenon DEF OrderInv

LEMMA OrderMachine ==
  ASSUME FramesInv, StreamInv, TurnInv, OrderInv, Grows, Machine
  PROVE  OrderInv'
<1>1. UNCHANGED <<landed, queue, pc, ret, frame, lost, before, refused>>
  BY Zenon DEF Machine, Start, ClearTransmitter, ClearReceiver, Reset, LostKept, rxVars, program, history
<1>2. Tried' = Tried
  BY <1>1, Zenon DEF Tried
<1>3. xst' = "X_IDLE" \/ UNCHANGED <<xst, given>>
  BY Zenon DEF Machine, Start, ClearTransmitter, ClearReceiver, Reset, rxVars, history, StreamInv
<1>4. NoneWorse
  <2>1. CASE fate' = fate
    BY <2>1, Zenon DEF NoneWorse
  <2>2. CASE \E x \in Kinds : New(x, "sent")
    BY <2>2, NewFrame, Zenon DEF NoneWorse, Fates
  <2> QED
    BY <2>1, <2>2, Zenon DEF Machine, Start, ClearTransmitter, ClearReceiver, Reset
<1> QED
  BY <1>1, <1>2, <1>3, <1>4, OrderKept, Zenon

LEMMA OrderTick ==
  ASSUME FramesInv, StreamInv, TurnInv, OrderInv, Grows, Tick
  PROVE  OrderInv'
<1>1. UNCHANGED <<kind, fate, queue, pc, ret, frame, lost, before, refused, given>>
  BY Zenon DEF Tick, program
<1>2. Tried' = Tried
  BY <1>1, Zenon DEF Tried
<1>3. CASE landed' = landed
  <2>1. CASE xst' = "X_IDLE" \/ xst' = xst
    BY <1>1, <1>2, <1>3, <2>1, OrderKept, Zenon DEF NoneWorse
  <2>2. CASE xst # "X_IDLE"
    <3>1. Lands' => Lands
      BY <1>1, <2>2, Zenon DEF Lands, Named
    <3>2. \A f \in Nat : Ahead(f) => Ahead(f)'
      BY <1>1, <1>3, <3>1, Zenon DEF Ahead
    <3>3. \A i \in 1 .. Len(queue) : Ahead(queue[i]) => Ahead(queue[i])'
      BY <1>1, <3>2 DEF Ahead, TurnInv
    <3>4. pc \in Giving /\ ret = "new" /\ Ahead(frame[1]) => Ahead(frame[1])'
      BY <1>1, <3>2 DEF Ahead, TurnInv
    <3> QED
      BY <1>1, <1>2, <1>3, <2>2, <3>1, <3>3, <3>4, Zenon DEF OrderInv
  <2> QED
    BY <2>1, <2>2, Zenon DEF Tick, Stream
<1>4. CASE landed' # landed
  <2>1. /\ xst = "X_GAP" /\ xst' = "X_IDLE" /\ drop # 1
        /\ rbuf[1] # 0 /\ Named(rbuf[1]) /\ landed' = Append(landed, rbuf[1])
    BY <1>4, Zenon DEF Tick, Stream
  <2>2. rbuf[1] = given[1] /\ Lands
    BY <2>1, Zenon DEF StreamInv, Lands
  <2>3. /\ given[1] \in 1 .. Len(kind) /\ given[1] \in Nat /\ fate[given[1]] \notin Bad
        /\ \A i \in 1 .. Len(landed) : landed[i] < given[1]
    BY <2>2, LandingFrame, Zenon
  <2>4. /\ landed \in Seq(Nat)
        /\ \A i \in 1 .. Len(landed) : landed[i] \in 1 .. Len(kind) /\ fate[landed[i]] \notin Bad
        /\ \A i, j \in 1 .. Len(landed) : i < j => landed[i] < landed[j]
    BY Zenon DEF OrderInv
  <2>5. /\ landed' \in Seq(Nat) /\ Len(landed') = Len(landed) + 1 /\ Len(landed) \in Nat
        /\ landed'[Len(landed) + 1] = given[1]
        /\ \A i \in 1 .. Len(landed) : landed'[i] = landed[i]
    BY <2>1, <2>2, <2>3, <2>4, AppendProperties
  <2>6. \A i \in 1 .. Len(landed') : i \in 1 .. Len(landed) \/ i = Len(landed) + 1
    BY <2>5
  <2>7. \A i \in 1 .. Len(landed') : landed'[i] \in 1 .. Len(kind') /\ fate'[landed'[i]] \notin Bad
    <3> TAKE i \in 1 .. Len(landed')
    <3>1. CASE i \in 1 .. Len(landed)
      BY <1>1, <2>4, <2>5, <3>1, Zenon
    <3>2. CASE i = Len(landed) + 1
      BY <1>1, <2>3, <2>5, <3>2, Zenon
    <3> QED
      BY <2>6, <3>1, <3>2, Zenon
  <2>8. \A i, j \in 1 .. Len(landed') : i < j => landed'[i] < landed'[j]
    <3> TAKE i, j \in 1 .. Len(landed')
    <3>1. i < j => i \in 1 .. Len(landed)
      BY <2>5
    <3>2. CASE j \in 1 .. Len(landed)
      BY <2>4, <2>5, <3>1, <3>2, Zenon
    <3>3. CASE j = Len(landed) + 1
      BY <2>3, <2>5, <3>1, <3>3, Zenon
    <3> QED
      BY <2>6, <3>2, <3>3, Zenon
  <2>9. ~Lands'
    BY <2>1, Zenon DEF Lands
  <2>10. \A f \in Nat : Ahead(f) => Ahead(f)'
    BY <2>2, <2>5, <2>6, <2>9, Zenon DEF Ahead
  <2>11. \A i \in 1 .. Len(queue) : Ahead(queue[i]) => Ahead(queue[i])'
    BY <1>1, <2>10 DEF Ahead, TurnInv
  <2>12. pc \in Giving /\ ret = "new" /\ Ahead(frame[1]) => Ahead(frame[1])'
    BY <1>1, <2>10 DEF Ahead, TurnInv
  <2> QED
    BY ZenonT(40), <1>1, <1>2, <2>1, <2>5, <2>7, <2>8, <2>9, <2>11, <2>12 DEF OrderInv
<1> QED
  BY <1>3, <1>4, Zenon

\* The commit: a frame for the machine by name is ahead of all that landed,
\* and all that wait are ahead of it.
LEMMA OrderCommit ==
  ASSUME FramesInv, GiveInv, StreamInv, TurnInv, OrderInv, Grows, Commit
  PROVE  OrderInv'
<1> USE DEF Giving, Offering
<1>1. /\ pc = "commit" /\ pc' = "after"
      /\ UNCHANGED <<kind, fate, landed, queue, ret, frame, before, refused, rx_buf>>
  BY Zenon DEF Commit
<1>2. ~Tried /\ lost = before
  BY <1>1, Zenon DEF Tried, GiveInv
<1>3. CASE r_rxlen # 0 /\ rdone = 0 /\ xst = "X_IDLE"
  <2>1. xst' = "X_PRIME" /\ given' = SubSeq(rx_buf, 1, r_rxlen) /\ lost' = lost
    BY <1>3, Zenon DEF Commit
  <2>2. /\ r_rxlen \in 1 .. MaxWords /\ rx_buf[1] = frame[1]
        /\ \A j \in 1 .. r_rxlen : rx_buf[j] \in Nat
    BY <1>1, <1>3, MaxWordsHolds DEF GiveInv
  <2>3. given'[1] = frame[1]
    BY <2>1, <2>2, MaxWordsHolds, SubSeqProperties
  <2>4. Tried'
    BY <1>1, <1>2, <2>1, Zenon DEF Tried
  <2>5. ret \in {"own", "broadcast", "new", "head"} /\ pc \in Giving
    BY <1>1, Zenon DEF GiveInv
  <2>6. given'[1] \in 0 .. Len(kind)
    BY <1>1, <2>3, <2>5 DEF TurnInv, Mine, FramesInv
  <2>7. \A f \in Nat : Ahead(f) => \A i \in 1 .. Len(landed) : landed[i] < f
    BY Zenon DEF Ahead
  <2>8. CASE ret \in {"own", "broadcast"}
    <3>1. ~Lands'
      BY <1>1, <2>3, <2>8, Zenon DEF Lands, Named, TurnInv, Mine
    <3>2. \A i \in 1 .. Len(queue) : Ahead(queue[i]) => Ahead(queue[i])'
      BY <1>1, <3>1, Zenon DEF Ahead
    <3> QED
      BY <1>1, <2>4, <2>6, <2>8, <3>1, <3>2, Zenon DEF OrderInv
  <2>9. CASE ret = "new"
    <3>1. /\ queue = <<>> /\ fate[frame[1]] \notin Bad /\ Ahead(frame[1])
      BY <1>1, <1>2, <2>9, Zenon DEF TurnInv, OrderInv
    <3>2. \A i \in 1 .. Len(landed) : landed[i] < frame[1]
      BY <3>1, Zenon DEF Ahead
    <3>3. Len(queue') = 0
      BY <1>1, <3>1, Zenon
    <3> QED
      BY <1>1, <2>3, <2>4, <2>6, <3>1, <3>2, <3>3 DEF OrderInv
  <2>10. CASE ret = "head"
    <3>1. /\ queue # <<>> /\ frame[1] = queue[1] /\ queue \in Seq(Nat) /\ 1 \in 1 .. Len(queue)
          /\ fate[frame[1]] \notin Bad
          /\ \A i \in 1 .. Len(queue) : i # 1 => queue[1] < queue[i]
      BY <1>1, <2>10 DEF TurnInv
    <3>2. \A i \in 1 .. Len(queue) : Ahead(queue[i])
      BY <1>2, Zenon DEF OrderInv
    <3>3. \A i \in 1 .. Len(queue) : i # 1 => Ahead(queue[i])'
      BY <1>1, <2>3, <3>1, <3>2, Zenon DEF Ahead
    <3>4. \A i \in 1 .. Len(landed) : landed[i] < given'[1]
      BY <2>3, <3>1, <3>2, Zenon DEF Ahead
    <3> QED
      BY <1>1, <2>3, <2>4, <2>6, <2>10, <3>1, <3>3, <3>4, Zenon DEF OrderInv
  <2> QED
    BY <2>5, <2>8, <2>9, <2>10, Zenon
<1>4. CASE ~(r_rxlen # 0 /\ rdone = 0 /\ xst = "X_IDLE")
  <2>1. UNCHANGED <<xst, given>>
    BY <1>4, Zenon DEF Commit
  <2> QED
    BY <1>1, <1>2, <2>1, OrderKept, Zenon DEF NoneWorse
<1> QED
  BY <1>3, <1>4, Zenon

LEMMA OrderAnswer ==
  ASSUME FramesInv, GiveInv, StreamInv, TurnInv, OrderInv, Grows, Answer
  PROVE  OrderInv'
<1> USE DEF Fates
<1>0. PICK f : f = frame[1]
  BY Zenon
<1>1. /\ pc = "answer" /\ pc \in Giving /\ pc' \notin Giving
      /\ UNCHANGED <<kind, xst, given, landed, ret>>
  BY Zenon DEF Answer, Giving, Offering, rxVars, history
<1>2. \A g \in Nat : Ahead(g) => Ahead(g)'
  BY <1>1, AheadKept, Zenon
<1>3. CASE NoneWorse /\ queue' = queue /\ ~(ret = "head" /\ Tried)
  BY <1>1, <1>3, OrderKept, Zenon
<1>4. CASE ret \in {"own", "broadcast"}
  <2>1. queue' = queue /\ (fate' = fate \/ Counted(f, "broadcasts_lost") \/ Counted(f, "stored"))
    BY <1>0, <1>4, Zenon DEF Answer
  <2>2. ret = "broadcast" => f \in 1 .. Len(kind)
    BY <1>0, <1>1, Zenon DEF TurnInv
  <2>3. ret = "own" => fate' = fate
    BY Zenon DEF Answer
  <2>4. NoneWorse
    BY <1>4, <2>1, <2>2, <2>3, FateMoves, Zenon DEF NoneWorse, Bad
  <2> QED
    BY <1>3, <1>4, <2>1, <2>4, Zenon
<1>5. CASE ret = "new"
  <2>1. f \in 1 .. Len(kind) /\ queue = <<>> /\ f \in Nat
    BY <1>0, <1>1, <1>5 DEF TurnInv, FramesInv
  <2>2. CASE Counted(f, "stored") /\ queue' = queue
    BY <1>3, <1>5, <2>1, <2>2, FateMoves, Zenon DEF NoneWorse, Bad
  <2>3. CASE refused = 1 /\ Counted(f, "waiting") /\ queue' = <<f>>
    <3>1. NoneWorse
      BY <2>1, <2>3, FateMoves, Zenon DEF NoneWorse, Bad
    <3>2. Ahead(f)
      BY <1>0, <1>1, <1>5, <2>3 DEF OrderInv, Tried
    <3>3. Ahead(f)'
      BY <1>2, <2>1, <3>2, Zenon
    <3>4. Len(queue') = 1 /\ queue'[1] = f
      BY <2>3, Zenon
    <3>5. \A i \in 1 .. Len(queue') : Ahead(queue[i])'
      BY <3>3, <3>4 DEF Ahead
    <3>6. Lands' = Lands /\ (Lands => given[1] \in 1 .. Len(kind))
      <4>1. Lands' = Lands
        BY <1>1, Zenon DEF Lands, Named
      <4> QED
        BY <4>1, LandingFrame, Zenon
    <3> QED
      BY <1>1, <3>1, <3>5, <3>6, Zenon DEF OrderInv, NoneWorse
  <2> QED
    BY <1>0, <1>5, <2>2, <2>3, Zenon DEF Answer
<1>6. CASE ret = "head"
  <2>1. queue # <<>> /\ f = queue[1] /\ queue \in Seq(Nat) /\ f \in 1 .. Len(kind) /\ 1 \in 1 .. Len(queue)
    BY <1>0, <1>1, <1>6 DEF TurnInv
  <2>2. CASE UNCHANGED <<fate, queue>> /\ refused = 1
    BY <1>1, <1>3, <2>2 DEF NoneWorse, Tried
  <2>3. CASE /\ queue' = Tail(queue)
             /\ Counted(f, IF refused = 1 THEN "given_up" ELSE "stored")
    <3>1. /\ Len(queue') = Len(queue) - 1 /\ Len(queue) \in Nat
          /\ \A i \in 1 .. Len(queue') : queue'[i] = queue[i + 1]
      BY <2>1, <2>3, HeadTailProperties
    <3>2. ASSUME NEW i \in 1 .. Len(queue')
          PROVE  Ahead(queue[i])'
      <4>1. i + 1 \in 1 .. Len(queue) /\ i + 1 # 1 /\ queue'[i] = queue[i + 1]
        BY <3>1
      <4>2. Ahead(queue[i + 1]) /\ queue[i + 1] \in Nat
        BY <2>1, <4>1 DEF OrderInv
      <4>3. PICK q \in Nat : q = queue[i + 1]
        BY <4>2, Zenon
      <4>4. Ahead(q)
        BY <4>2, <4>3, Zenon DEF Ahead
      <4>5. Ahead(q)'
        BY <1>2, <4>4, Zenon
      <4> QED
        BY <4>1, <4>3, <4>5, Zenon DEF Ahead
    <3>3. refused = 1 => Ahead(f)
      BY <1>1, <2>1 DEF OrderInv, Tried
    <3>4. \A g \in 1 .. Len(kind) : fate[g] \notin Bad /\ (g = f => refused # 1) => fate'[g] \notin Bad
      <4>1. CASE refused = 1
        BY <2>1, <2>3, <4>1, FateMoves, Zenon DEF Bad
      <4>2. CASE refused # 1
        BY <2>1, <2>3, <4>2, FateMoves, Zenon DEF Bad
      <4> QED
        BY <4>1, <4>2, Zenon
    <3>5. \A i \in 1 .. Len(landed) : landed[i] \in 1 .. Len(kind) /\ fate'[landed[i]] \notin Bad
      <4> TAKE i \in 1 .. Len(landed)
      <4>1. landed[i] \in 1 .. Len(kind) /\ fate[landed[i]] \notin Bad
        BY Zenon DEF OrderInv
      <4>2. refused = 1 => landed[i] # f
        BY <2>1, <3>3, <4>1 DEF Ahead
      <4> QED
        BY <3>4, <4>1, <4>2, Zenon
    <3>6. Lands => given[1] \in 1 .. Len(kind) /\ fate'[given[1]] \notin Bad
      <4> SUFFICES ASSUME Lands PROVE given[1] \in 1 .. Len(kind) /\ fate'[given[1]] \notin Bad
        BY Zenon
      <4>1. given[1] \in 1 .. Len(kind) /\ given[1] \in Nat /\ fate[given[1]] \notin Bad
        BY LandingFrame, Zenon
      <4>2. refused = 1 => given[1] # f
        BY <2>1, <3>3, <4>1 DEF Ahead
      <4> QED
        BY <3>4, <4>1, <4>2, Zenon
    <3>7. Lands' = Lands
      BY <1>1, Zenon DEF Lands, Named
    <3> QED
      BY ZenonT(40), <1>1, <3>2, <3>5, <3>6, <3>7 DEF OrderInv
  <2> QED
    BY <1>0, <1>6, <2>2, <2>3, Zenon DEF Answer
<1> QED
  BY <1>1, <1>4, <1>5, <1>6, Zenon DEF GiveInv

\* A frame that arrives is ahead of everything before it.
LEMMA OrderArrive ==
  ASSUME FramesInv, StreamInv, TurnInv, OrderInv, Grows, Arrive
  PROVE  OrderInv'
<1> USE DEF Giving, Offering, Fates
<1>1. pc = "udp" /\ UNCHANGED <<xst, given, landed, lost, before, refused>>
  BY Arrivals, Zenon
<1>2. CASE UNCHANGED <<kind, fate, queue>> /\ pc' = "pump"
  BY <1>1, <1>2, OrderKept, Zenon DEF NoneWorse
<1>3. ASSUME NEW x \in Kinds, Arrival(x)
      PROVE  OrderInv'
  <2>1. PICK f \in Nat : f = Len(kind) + 1
    BY DEF FramesInv
  <2>2. \E t \in Fates : New(x, t)
    BY <1>3, Zenon DEF Arrival
  <2>3. NoneWorse
    BY <2>2, NewFrame, Zenon DEF NoneWorse
  <2>4. Ahead(f)
    <3>1. Len(kind) \in Nat /\ \A i \in 1 .. Len(landed) : landed[i] \in 1 .. Len(kind)
      BY DEF OrderInv, FramesInv
    <3>2. Lands => given[1] \in 1 .. Len(kind)
      BY LandingFrame, Zenon
    <3> QED
      BY <2>1, <3>1, <3>2 DEF Ahead
  <2>5. Ahead(f)'
    BY <1>1, <2>4, AheadKept, Zenon
  <2>6. CASE queue' = queue /\ ~(pc' \in Giving /\ ret' = "new")
    BY <1>1, <2>3, <2>6, OrderKept, Zenon
  <2>7. /\ landed \in Seq(Nat) /\ OrderInv
        /\ \A i \in 1 .. Len(landed) : landed[i] \in 1 .. Len(kind') /\ fate'[landed[i]] \notin Bad
    <3>1. \A g \in 1 .. Len(kind) : g \in 1 .. Len(kind')
      BY DEF Grows, FramesInv
    <3> QED
      BY ZenonT(40), <2>3, <3>1 DEF OrderInv, NoneWorse
  <2>8. xst' # "X_IDLE" => given'[1] \in 0 .. Len(kind')
    <3>1. xst # "X_IDLE" => given[1] \in 0 .. Len(kind)
      BY Zenon DEF OrderInv
    <3>2. Len(kind) \in Nat /\ Len(kind') \in Nat /\ Len(kind) <= Len(kind')
      BY DEF Grows, FramesInv
    <3> QED
      BY <1>1, <3>1, <3>2
  <2>9. Lands' => /\ fate'[given'[1]] \notin Bad
                  /\ \A i \in 1 .. Len(landed) : landed[i] < given'[1]
    <3>1. Lands' => Lands
      BY <1>1, AheadKept, Zenon
    <3>2. Lands => /\ given[1] \in 1 .. Len(kind) /\ fate[given[1]] \notin Bad
                   /\ \A i \in 1 .. Len(landed) : landed[i] < given[1]
      BY LandingFrame, Zenon
    <3> QED
      BY <1>1, <2>3, <3>1, <3>2, Zenon DEF NoneWorse
  <2>10. \A g \in Nat : Ahead(g) => Ahead(g)'
    BY <1>1, AheadKept, Zenon
  <2>11. CASE pc' = "udp" /\ queue' = Append(queue, f)
    <3>1. /\ Len(queue') = Len(queue) + 1 /\ queue'[Len(queue) + 1] = f /\ Len(queue) \in Nat
          /\ \A i \in 1 .. Len(queue) : queue'[i] = queue[i] /\ queue[i] \in Nat
      <4>1. queue \in Seq(Nat)
        BY Zenon DEF TurnInv
      <4> QED BY <2>11, <4>1, AppendProperties
    <3>2. ASSUME NEW i \in 1 .. Len(queue')
          PROVE  Ahead(queue[i])'
      <4>1. CASE i \in 1 .. Len(queue)
        <5>1. PICK q \in Nat : q = queue[i]
          BY <3>1, <4>1, Zenon
        <5>2. Ahead(queue[i])
          BY <1>1, <4>1, Zenon DEF OrderInv
        <5>3. Ahead(q)
          BY <5>1, <5>2, Zenon DEF Ahead
        <5>4. Ahead(q)'
          BY <2>10, <5>3, Zenon
        <5> QED
          BY <3>1, <4>1, <5>1, <5>4, Zenon DEF Ahead
      <4>2. CASE i = Len(queue) + 1
        BY <2>5, <3>1, <4>2, Zenon DEF Ahead
      <4> QED
        BY <3>1, <4>1, <4>2
    <3> QED
      BY <1>1, <2>7, <2>8, <2>9, <2>11, <3>2, ZenonT(60) DEF OrderInv
  <2>12. CASE pc' = "freed" /\ ret' = "new" /\ frame' = Words(f, x) /\ queue' = queue /\ queue = <<>>
    <3>1. frame'[1] = f
      BY <2>12, WordsAre, Zenon
    <3>2. Ahead(frame[1])'
      BY <2>5, <3>1, Zenon DEF Ahead
    <3>3. \A i \in 1 .. Len(queue') : FALSE
      BY <2>12
    <3>4. landed' = landed
      BY <1>1, Zenon
    <3>5. \A i, j \in 1 .. Len(landed) : i < j => landed[i] < landed[j]
      BY <2>7, Zenon DEF OrderInv
    <3> QED
      BY <1>1, <2>7, <2>8, <2>9, <2>12, <3>2, <3>3, <3>4, <3>5, ZenonT(60) DEF OrderInv
  <2> QED
    BY <1>3, <2>1, <2>6, <2>11, <2>12, Zenon DEF Arrival
<1> QED
  BY <1>2, <1>3, Arrivals, Zenon

LEMMA OrderProgram ==
  ASSUME FramesInv, GiveInv, StreamInv, TurnInv, OrderInv, Grows, Program
  PROVE  OrderInv'
<1> USE DEF Giving, Offering
<1>1. CASE ReadStat \/ ReadLength \/ ReadWord \/ LetGo \/ Waits
  <2>1. /\ UNCHANGED <<fate, queue, landed, xst, given>> /\ pc \notin Giving /\ pc' \notin Giving
    BY <1>1, Zenon DEF ReadStat, ReadLength, ReadWord, LetGo, Waits, rxVars, history
  <2> QED
    BY <2>1, OrderKept, Zenon DEF NoneWorse
<1>2. CASE Carry
  <2>1. /\ UNCHANGED <<fate, queue, landed, xst, given>> /\ pc \notin Giving
        /\ pc' = "let_go" \/ ret' = "own"
    BY <1>2, Zenon DEF Carry, rxVars, history
  <2> QED
    BY <2>1, OrderKept, Zenon DEF NoneWorse
<1>3. CASE WriteFrame
  <2>1. /\ UNCHANGED <<fate, queue, landed, xst, given, ret, frame>> /\ pc \in Giving
        /\ pc \notin {"after", "answer"} /\ pc' # "after" /\ (pc' = "answer" => refused' = 1)
    BY <1>3, Zenon DEF WriteFrame, history
  <2>2. ~Tried /\ ~Tried'
    BY <2>1 DEF Tried
  <2> QED
    BY <2>1, <2>2, OrderKept, Zenon DEF NoneWorse
<1>4. CASE Commit
  BY <1>4, OrderCommit, Zenon
<1>5. CASE ReadLost
  <2>1. /\ UNCHANGED <<fate, queue, landed, xst, given, ret, frame, lost, before>>
        /\ pc = "after" /\ pc' = "answer" /\ refused' = Bit(lost # before)
    BY <1>5, Zenon DEF ReadLost, rxVars, history
  <2>2. Tried' = Tried
    BY <2>1 DEF Tried
  <2> QED
    BY <2>1, <2>2, OrderKept, Zenon DEF NoneWorse
<1>6. CASE Answer
  BY <1>6, OrderAnswer, Zenon
<1>7. CASE Arrive
  BY <1>7, OrderArrive, Zenon
<1>8. CASE Pump \/ Expires \/ ClearFreed
  <2>1. /\ UNCHANGED <<fate, queue, landed, xst, given>> /\ pc \notin {"after", "answer"}
        /\ \/ pc' = "freed" /\ ret' = "head"
           \/ pc' \in {"poll", "turn"}
           \/ pc = "clear_freed" /\ pc' = "give" /\ UNCHANGED <<ret, frame>>
    BY <1>8, Zenon DEF Pump, Expires, ClearFreed, Offer, rxVars, history
  <2> QED
    BY <2>1, OrderKept, Zenon DEF NoneWorse, Tried
<1>9. CASE ReadFreed
  <2>1. /\ UNCHANGED <<fate, queue, landed, xst, given, ret, frame>> /\ pc \notin {"after", "answer"}
        /\ \/ pc = "turn" /\ pc' \in {"clear_turn", "wait"}
           \/ pc = "freed" /\ pc' \in {"clear_freed", "give"}
    BY <1>9, Zenon DEF ReadFreed, rxVars, history
  <2> QED
    BY <2>1, OrderKept, Zenon DEF NoneWorse, Tried
<1> QED
  BY <1>1, <1>2, <1>3, <1>4, <1>5, <1>6, <1>7, <1>8, <1>9, Zenon DEF Program

-----------------------------------------------------------------------------
CableInv == FramesInv /\ SendInv /\ GiveInv /\ StreamInv /\ TurnInv /\ OrderInv

LEMMA CableInit == Init => CableInv
<1> SUFFICES ASSUME Init PROVE CableInv
  BY Zenon
<1>1. FramesInv
  BY DEF Init, FramesInv
<1>2. SendInv
  BY MaxWordsHolds DEF Init, SendInv, HandInv, CaptureInv, DoneMeansGone, SeenInv
<1>3. GiveInv
  BY MaxWordsHolds DEF Init, GiveInv, Giving, Offering
<1>4. StreamInv
  BY DEF Init, StreamInv
<1>5. TurnInv
  BY DEF Init, TurnInv, Giving, Offering
<1>6. OrderInv
  BY DEF Init, OrderInv, Lands, Giving, Offering
<1> QED
  BY <1>1, <1>2, <1>3, <1>4, <1>5, <1>6, Zenon DEF CableInv

LEMMA CableStep == CableInv /\ [Next]_vars => CableInv'
<1>1. ASSUME CableInv, Next PROVE CableInv'
  <2> USE <1>1
  <2>0. FramesInv /\ SendInv /\ GiveInv /\ StreamInv /\ TurnInv /\ OrderInv
    BY Zenon DEF CableInv
  <2>1. Grows
    BY <2>0, FramesStep, Zenon
  <2>2. FramesInv'
    BY <2>1, Zenon DEF Grows
  <2>3. TurnInv'
    BY <2>0, <2>1, TurnStep, Zenon
  <2>4. CASE Machine
    BY <2>0, <2>1, <2>2, <2>3, <2>4, SendMachine, GiveAlone, StreamMachine, OrderMachine, Zenon DEF CableInv
  <2>5. CASE Tick
    BY <2>0, <2>1, <2>2, <2>3, <2>5, SendTick, GiveAlone, StreamTick, OrderTick, Zenon DEF CableInv
  <2>6. CASE Program
    <3>1. StreamInv'
      BY <2>0, <2>6, StreamProgram, StreamCommit, Zenon
    <3> QED
      BY <2>0, <2>1, <2>2, <2>3, <2>6, <3>1, SendProgram, GiveProgram, OrderProgram, Zenon DEF CableInv
  <2> QED
    BY <2>4, <2>5, <2>6, Zenon DEF Next
<1>2. ASSUME CableInv, UNCHANGED vars PROVE CableInv'
  <2> USE <1>2 DEF CableInv, vars, card, txVars, rxVars, program, history
  <2>1. FramesInv'
    BY Zenon DEF FramesInv
  <2>2. SendInv'
    BY ZenonT(40) DEF SendInv, HandInv, CaptureInv, DoneMeansGone, SeenInv, Mine
  <2>3. GiveInv'
    BY Zenon DEF GiveInv
  <2>4. StreamInv'
    BY Zenon DEF StreamInv, Paced
  <2>5. TurnInv'
    BY Zenon DEF TurnInv, Named, Mine
  <2>6. OrderInv'
    BY Zenon DEF OrderInv, Ahead, Lands, Named, Tried
  <2> QED
    BY <2>1, <2>2, <2>3, <2>4, <2>5, <2>6, Zenon
<1> QED
  BY <1>1, <1>2, Zenon

LEMMA CableAlways == Spec => []CableInv
  BY CableInit, CableStep, PTL DEF Spec

\* Transmit Done is never up over a frame that is still being captured or
\* waits to be taken (DoneMeansGone), for every set of frames and however the
\* machine clears or resets its transmitter between the program's accesses.
THEOREM TransmitDoneIsTrue == Spec => []DoneMeansGone
<1>1. CableInv => DoneMeansGone
  BY Zenon DEF CableInv, SendInv
<1> QED
  BY <1>1, CableAlways, PTL

\* The take that drops a waiting frame comes only after the program has read
\* every word of that very frame (TakenWasRead): tx_seen falls with every new
\* capture, so a frame started after a clear is not taken for the one before.
THEOREM OnlyReadIsTaken == Spec => TakenWasRead
<1>1. CableInv /\ [Next]_vars => [LetGo /\ tx_valid = 1 /\ tx_valid' = 0 => hand = tx_buf]_vars
  <2> SUFFICES ASSUME CableInv, LetGo, tx_valid = 1, tx_valid' = 0 PROVE hand = tx_buf
    BY Zenon
  <2>1. pc = "let_go" /\ Takes
    BY DEF LetGo
  <2> QED
    BY <2>1, Zenon DEF Takes, CableInv, SendInv, SeenInv, Giving, Offering
<1> QED
  BY <1>1, CableAlways, PTL DEF Spec, TakenWasRead

\* Receive Done stands over the committed frame, all its words and no others
\* (LandsWhole), for frames of any length: the next give's writes into the
\* window stay behind the stream because an access takes longer than a tick.
THEOREM LandedFramesAreWhole == Spec => []LandsWhole
<1>1. CableInv => LandsWhole
  BY Zenon DEF CableInv, StreamInv, LandsWhole
<1> QED
  BY <1>1, CableAlways, PTL

\* Frames to the machine by name land in the order they arrived, none twice,
\* and none that was counted as given up or as having no room
\* (LandsOnceInOrder), for every length of the queue and number of offers.
THEOREM NamedFramesLandInOrder == Spec => []LandsOnceInOrder
<1>1. CableInv => LandsOnceInOrder
  <2> SUFFICES ASSUME CableInv PROVE LandsOnceInOrder
    BY Zenon
  <2>1. landed \in Seq(Nat) /\ DOMAIN landed = 1 .. Len(landed)
    <3>1. landed \in Seq(Nat)
      BY Zenon DEF CableInv, OrderInv
    <3> QED
      BY <3>1
  <2>2. \A i \in 1 .. Len(landed) : fate[landed[i]] \notin Bad
    BY Zenon DEF CableInv, OrderInv
  <2>3. \A i, j \in 1 .. Len(landed) : i < j => landed[i] < landed[j]
    BY Zenon DEF CableInv, OrderInv
  <2> QED
    BY <2>1, <2>2, <2>3, Zenon DEF LandsOnceInOrder, Bad
<1> QED
  BY <1>1, CableAlways, PTL
=============================================================================
