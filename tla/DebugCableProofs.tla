-------------------------- MODULE DebugCableProofs --------------------------
(***************************************************************************)
(* What cadr_dbg_cable.sv keeps for a frame of any length and any number   *)
(* of events: no four wires are driven from both ends, and a wiring that   *)
(* was found is the ribbon's.                                              *)
(*                                                                         *)
(* The arguments are about time.  A debugger that wants the wires of the   *)
(* answer does so after a flip, and a debuggee that still hears it has     *)
(* been answering since before the flip: its first beat falls into every   *)
(* frame, so that the debugger's receiver counts fewer ticks since it than *)
(* the sender's own place in the frame.  A frame taken whole was begun by  *)
(* a sender that drove at its first beat, and carries the role of then.    *)
(***************************************************************************)
EXTENDS DebugCable, TLAPS

\* The place in the frame at which the silence begins.
BeatsEnd == BEATS * BEAT_T

Bit == {0, 1}

Receivers == [beat : Nat, whole : Bit, idle_t : 0 .. GAP_MIN, act_t : 0 .. ACT_T,
              loss_t : 0 .. LOSS_T, live : Bit, role : Bit]
Wirings   == [crossed : Bit, decided : Bit, found : Bit, ph_t : Nat]
Senders   == [at : 0 .. FRAME_T - 1, role : Bit]

TypeInv ==
    /\ world \in Worlds /\ plugged \in Bit
    /\ wiring \in [Boards -> Ways \cup {"auto"}] /\ connect \in [Boards -> Bit]
    /\ engaged \in [Boards -> Bit]
    /\ wire \in [Boards -> Wirings] /\ tx \in [Boards -> Senders]
    /\ rx \in [Boards -> [Groups -> Receivers]]

\* One step of the clock.  r: the board in reset, if any.
Step(r, bad) ==
    /\ Clock(r, bad) /\ world' = world /\ plugged' \in Bit
    /\ wiring' = [b \in Boards |-> IF b = r THEN "auto" ELSE wiring[b]]
    /\ connect' \in [Boards -> Bit]
    /\ plugged = 0 /\ plugged' = 1 => \A b \in Boards, g \in Groups : rx[b][g] = Unheard

-----------------------------------------------------------------------------
USE DEF Bit, NoBoard

LEMMA Params ==
  /\ BeatsEnd \in Nat /\ 0 < BeatsEnd /\ FRAME_T = BeatsEnd + GAP_T /\ FRAME_T \in Nat /\ 0 < FRAME_T
  /\ ACT_T = 2 * FRAME_T /\ PROBE_T = 8 * FRAME_T /\ RELISTEN_T = 3 * FRAME_T
  /\ DETECT_T = FRAME_T + LOSS_T /\ LOSS_T \in Nat /\ 0 < LOSS_T
  /\ GAP_MIN \in Nat /\ GAP_T \in Nat /\ GAP_MIN < GAP_T
  /\ BEATS \in Nat \ {0} /\ BEAT_T \in Nat \ {0}
<1>1. /\ BEATS \in Nat \ {0} /\ BEAT_T \in Nat \ {0}
      /\ LOSS_T \in Nat /\ 0 < LOSS_T
      /\ GAP_MIN \in Nat /\ GAP_T \in Nat /\ GAP_MIN < GAP_T
  BY DebugCableAssumption
<1>2. BeatsEnd \in Nat /\ 0 < BeatsEnd
  BY <1>1 DEF BeatsEnd
<1>3. FRAME_T = BeatsEnd + GAP_T
  BY Zenon DEF FRAME_T, BeatsEnd
<1>4. FRAME_T \in Nat /\ 0 < FRAME_T
  BY <1>1, <1>2, <1>3
<1>5. ACT_T = 2 * FRAME_T /\ PROBE_T = 8 * FRAME_T /\ RELISTEN_T = 3 * FRAME_T
  BY <1>4 DEF ACT_T, PROBE_T, RELISTEN_T
<1> QED
  BY <1>1, <1>2, <1>3, <1>4, <1>5, Zenon DEF DETECT_T

LEMMA FarBoard ==
  ASSUME NEW b \in Boards
  PROVE  far(b) \in Boards /\ far(far(b)) = b /\ far(b) # b /\ \A c \in Boards : c = b \/ c = far(b)
BY DEF far, Boards

LEMMA EndOf ==
  ASSUME NEW g \in Groups
  PROVE  end_of(g) \in Groups /\ end_of(end_of(g)) = g
BY Zenon DEF end_of, Groups

\* Every tick is a step of the clock.
LEMMA TickIsStep ==
  ASSUME TypeInv, Next
  PROVE  \E r \in Boards \cup {NoBoard}, bad \in SUBSET (Boards \X Groups) : Step(r, bad)
<1> USE DEF TypeInv
<1>1. CASE Tick
  <2>1. Step(NoBoard, {})
    BY <1>1 DEF Tick, Step, Boards
  <2> QED
    BY <2>1, Zenon
<1>2. ASSUME NEW b \in Boards, Tell(b)
      PROVE  Step(NoBoard, {})
  <2>1. connect' \in [Boards -> Bit]
    BY <1>2 DEF Tell
  <2> QED
    BY <1>2, <2>1 DEF Tell, Step, Boards
<1>3. ASSUME NEW b \in Boards, Reset(b)
      PROVE  Step(b, {})
  <2>1. connect' \in [Boards -> Bit]
    BY <1>3, Zenon DEF Reset
  <2>2. wiring' = [c \in Boards |-> IF c = b THEN "auto" ELSE wiring[c]]
    <3>1. wiring = [c \in Boards |-> wiring[c]]
      BY Zenon
    <3>2. wiring' = [wiring EXCEPT ![b] = "auto"]
      BY <1>3, Zenon DEF Reset
    <3> QED
      BY <3>1, <3>2, Zenon
  <2>3. Clock(b, {}) /\ world' = world /\ plugged' = plugged
    BY <1>3, Zenon DEF Reset
  <2> QED
    BY <2>1, <2>2, <2>3 DEF Step
<1>4. ASSUME NEW b \in Boards, NEW g \in Groups, Noise(b, g)
      PROVE  Step(NoBoard, {<<b, g>>})
  BY <1>4 DEF Noise, Step, Boards
<1>5. CASE Hand
  <2>1. plugged' \in Bit
    BY <1>5 DEF Hand
  <2>2. Step(NoBoard, {})
    BY <1>5, <2>1 DEF Hand, Step, Boards
  <2> QED
    BY <2>2, Zenon
<1>6. NoBoard \in Boards \cup {NoBoard} /\ {} \in SUBSET (Boards \X Groups)
  BY Zenon
<1>7. \A b \in Boards, g \in Groups : {<<b, g>>} \in SUBSET (Boards \X Groups)
  OBVIOUS
<1>8. \/ Tick \/ Hand
      \/ \E b \in Boards : Tell(b) \/ Reset(b) \/ \E g \in Groups : Noise(b, g)
  BY Zenon DEF Next
<1> HIDE DEF TypeInv, NoBoard
<1> QED
  BY <1>1, <1>2, <1>3, <1>4, <1>5, <1>6, <1>7, <1>8, Zenon

-----------------------------------------------------------------------------
(* One receiver.  driven: its own board drives the group; heard: the far   *)
(* board does, and the ribbon is in.                                       *)

heard(b, g, r) == plugged = 1 /\ drive(far(b), end_of(g), r)
still(b, g, r) == b # r /\ ~drive(b, g, r)

LEMMA ReceiverStep ==
  ASSUME NEW r, NEW bad, Step(r, bad), NEW b \in Boards, NEW g \in Groups
  PROVE  rx'[b][g] = IF still(b, g, r) THEN Receive(b, g, heard(b, g, r), <<b, g>> \in bad) ELSE Unheard
<1> DEFINE d == [c \in Boards |-> {h \in Groups : drive(c, h, r)}]
<1>1. rx' = [c \in Boards |-> [h \in Groups |->
               IF c = r \/ h \in d[c] THEN Unheard
               ELSE Receive(c, h, plugged = 1 /\ end_of(h) \in d[far(c)], <<c, h>> \in bad)]]
  BY Zenon DEF Step, Clock
<1>2. g \in d[b] <=> drive(b, g, r)
  BY Zenon
<1>3. end_of(g) \in d[far(b)] <=> drive(far(b), end_of(g), r)
  BY FarBoard, EndOf, Zenon
<1>4. rx'[b][g] = IF b = r \/ g \in d[b] THEN Unheard
                  ELSE Receive(b, g, plugged = 1 /\ end_of(g) \in d[far(b)], <<b, g>> \in bad)
  BY <1>1, Zenon
<1> HIDE DEF d
<1>5. (plugged = 1 /\ end_of(g) \in d[far(b)]) = heard(b, g, r)
  BY <1>3, Zenon DEF heard
<1> QED
  BY <1>2, <1>4, <1>5, Zenon DEF still

whole(b, g) ==
    (rx[b][g].beat = 0 \/ rx[b][g].whole = 1) /\ beat_of(far(b)) = rx[b][g].beat

\* A receiver that its own board drives, or that is in reset, knows nothing.
LEMMA Held ==
  ASSUME NEW r, NEW bad, Step(r, bad), NEW b \in Boards, NEW g \in Groups, ~still(b, g, r)
  PROVE  /\ rx'[b][g] = Unheard
         /\ rx'[b][g].beat = 0 /\ rx'[b][g].live = 0 /\ rx'[b][g].act_t = ACT_T
<1>1. rx'[b][g] = Unheard
  BY ReceiverStep, Zenon
<1> QED
  BY <1>1 DEF Unheard

\* A tick without a transition only counts.
LEMMA Quiet ==
  ASSUME NEW r, NEW bad, Step(r, bad), NEW b \in Boards, NEW g \in Groups, still(b, g, r),
         ~(heard(b, g, r) /\ beats(far(b)))
  PROVE  LET x == rx[b][g]  y == rx'[b][g]
         IN /\ y.beat = IF x.idle_t = GAP_MIN THEN 0 ELSE x.beat
            /\ y.whole = x.whole
            /\ y.idle_t = upto(x.idle_t, GAP_MIN)
            /\ y.act_t = upto(x.act_t, ACT_T)
            /\ y.loss_t = upto(x.loss_t, LOSS_T)
            /\ y.live = IF x.loss_t = LOSS_T THEN 0 ELSE x.live
            /\ y.role = IF x.loss_t = LOSS_T THEN 0 ELSE x.role
<1>1. rx'[b][g] = Receive(b, g, heard(b, g, r), <<b, g>> \in bad)
  BY ReceiverStep, Zenon
<1>2. rx'[b][g] =
        [beat   |-> IF rx[b][g].idle_t = GAP_MIN THEN 0 ELSE rx[b][g].beat,
         whole  |-> rx[b][g].whole,
         idle_t |-> upto(rx[b][g].idle_t, GAP_MIN),
         act_t  |-> upto(rx[b][g].act_t, ACT_T),
         loss_t |-> upto(rx[b][g].loss_t, LOSS_T),
         live   |-> IF rx[b][g].loss_t = LOSS_T THEN 0 ELSE rx[b][g].live,
         role   |-> IF rx[b][g].loss_t = LOSS_T THEN 0 ELSE rx[b][g].role]
  BY <1>1, Zenon DEF Receive
<1> QED
  BY <1>2

\* A transition is a beat, and the last of a frame that came whole is taken.
LEMMA Heard ==
  ASSUME NEW r, NEW bad, Step(r, bad), NEW b \in Boards, NEW g \in Groups, still(b, g, r),
         heard(b, g, r), beats(far(b))
  PROVE  LET x == rx[b][g]  y == rx'[b][g]
         IN /\ y.beat = IF x.beat = BEATS - 1 THEN 0 ELSE x.beat + 1
            /\ y.whole = IF whole(b, g) THEN 1 ELSE 0
            /\ y.idle_t = 0 /\ y.act_t = 0
            /\ \/ /\ x.beat = BEATS - 1 /\ whole(b, g)
                  /\ y.loss_t = 0 /\ y.live = 1 /\ y.role = tx[far(b)].role
               \/ /\ y.loss_t = upto(x.loss_t, LOSS_T)
                  /\ y.live = IF x.loss_t = LOSS_T THEN 0 ELSE x.live
                  /\ y.role = IF x.loss_t = LOSS_T THEN 0 ELSE x.role
<1> DEFINE x == rx[b][g]
           good == x.beat = BEATS - 1 /\ whole(b, g) /\ ~(<<b, g>> \in bad)
<1>1. rx'[b][g] = Receive(b, g, heard(b, g, r), <<b, g>> \in bad)
  BY ReceiverStep, Zenon
<1>2. rx'[b][g] =
        [beat   |-> IF x.beat = BEATS - 1 THEN 0 ELSE x.beat + 1,
         whole  |-> IF whole(b, g) THEN 1 ELSE 0,
         idle_t |-> 0,
         act_t  |-> 0,
         loss_t |-> IF good THEN 0 ELSE upto(x.loss_t, LOSS_T),
         live   |-> IF good THEN 1 ELSE IF x.loss_t = LOSS_T THEN 0 ELSE x.live,
         role   |-> IF good THEN tx[far(b)].role ELSE IF x.loss_t = LOSS_T THEN 0 ELSE x.role]
  BY <1>1, Zenon DEF Receive, whole
<1> HIDE DEF x
<1>3. /\ rx'[b][g].beat = IF x.beat = BEATS - 1 THEN 0 ELSE x.beat + 1
      /\ rx'[b][g].whole = IF whole(b, g) THEN 1 ELSE 0
      /\ rx'[b][g].idle_t = 0 /\ rx'[b][g].act_t = 0
      /\ rx'[b][g].loss_t = IF good THEN 0 ELSE upto(x.loss_t, LOSS_T)
      /\ rx'[b][g].live = IF good THEN 1 ELSE IF x.loss_t = LOSS_T THEN 0 ELSE x.live
      /\ rx'[b][g].role = IF good THEN tx[far(b)].role ELSE IF x.loss_t = LOSS_T THEN 0 ELSE x.role
  BY <1>2
<1> QED
  BY <1>3, Zenon DEF x

\* What a receiver takes to be there it has just heard, or took to be there
\* before.
LEMMA LiveStep ==
  ASSUME TypeInv, NEW r, NEW bad, Step(r, bad), NEW b \in Boards, NEW g \in Groups, rx'[b][g].live = 1
  PROVE  /\ still(b, g, r)
         /\ ~heard(b, g, r) => /\ rx[b][g].live = 1 /\ rx[b][g].loss_t # LOSS_T
                               /\ rx'[b][g].role = rx[b][g].role
<1>1. still(b, g, r)
  BY Held
<1>2. CASE heard(b, g, r)
  BY <1>1, <1>2, Zenon
<1>3. CASE ~heard(b, g, r)
  <2>1. /\ rx'[b][g].live = IF rx[b][g].loss_t = LOSS_T THEN 0 ELSE rx[b][g].live
        /\ rx'[b][g].role = IF rx[b][g].loss_t = LOSS_T THEN 0 ELSE rx[b][g].role
    BY <1>1, <1>3, Quiet, Zenon
  <2> QED
    BY <1>1, <2>1
<1> QED
  BY <1>2, <1>3, Zenon

-----------------------------------------------------------------------------
(* One sender and one board's role.                                        *)

LEMMA SenderStep ==
  ASSUME TypeInv, NEW r, NEW bad, Step(r, bad), NEW b \in Boards
  PROVE  /\ b = r => tx'[b].at = BeatsEnd /\ tx'[b].role = 0
         /\ b # r /\ tx[b].at = FRAME_T - 1 => tx'[b].at = 0 /\ tx'[b].role = engaged[b]
         /\ b # r /\ tx[b].at # FRAME_T - 1 => tx'[b].at = tx[b].at + 1 /\ tx'[b].role = tx[b].role
         /\ tx[b].at \in 0 .. FRAME_T - 1 /\ tx[b].at \in Nat
<1>1. tx'[b] = Send(b, r)
  BY Zenon DEF Step, Clock
<1>2. tx[b].at \in 0 .. FRAME_T - 1 /\ tx[b].at \in Nat
  BY Params DEF TypeInv, Senders
<1>3. CASE b = r
  BY <1>1, <1>2, <1>3 DEF Send, BeatsEnd
<1>4. CASE b # r
  <2> DEFINE at == (tx[b].at + 1) % FRAME_T
  <2>1. tx'[b].at = at /\ tx'[b].role = IF at = 0 THEN engaged[b] ELSE tx[b].role
    BY <1>1, <1>4 DEF Send
  <2>2. at = IF tx[b].at = FRAME_T - 1 THEN 0 ELSE tx[b].at + 1
    BY <1>2, Params
  <2> QED
    BY <1>2, <1>4, <2>1, <2>2, Params
<1> QED
  BY <1>3, <1>4, Zenon

\* The ways a board's role and wiring move.
LEMMA RoleStep ==
  ASSUME NEW r, NEW bad, Step(r, bad), NEW b \in Boards
  PROVE  \/ engaged'[b] = 0 /\ wire'[b] = Unwired
         \/ b # r /\ take(b) /\ engaged'[b] = 1 /\ wire'[b] = AtTake(b)
         \/ /\ b # r /\ engaged'[b] = engaged[b]
            /\ \/ wire'[b] = wire[b] /\ (engaged[b] = 0 \/ wiring[b] # "auto" \/ wire[b].found = 1)
               \/ /\ engaged[b] # 0 /\ wiring[b] = "auto" /\ wire[b].found # 1
                  /\ wire'[b] = IF wire[b].decided = 0 THEN Listening(b) ELSE Assuming(b)
<1>1. engaged'[b] = Role(b, r)[1] /\ wire'[b] = Role(b, r)[2]
  BY Zenon DEF Step, Clock
<1> HIDE DEF NoBoard
<1>2. CASE b = r
  BY <1>1, <1>2, Zenon DEF Role
<1>3. CASE b # r /\ take(b)
  BY <1>1, <1>3, Zenon DEF Role
<1>4. CASE b # r /\ ~take(b) /\ drop(b)
  BY <1>1, <1>4, Zenon DEF Role
<1>5. CASE b # r /\ ~take(b) /\ ~drop(b)
  BY <1>1, <1>5, Zenon DEF Role
<1> QED
  BY <1>2, <1>3, <1>4, <1>5, Zenon

LEMMA ListeningStep ==
  ASSUME TypeInv, NEW b \in Boards, NEW w, w = Listening(b)
  PROVE  \/ hears(b, "R", 0) /\ w = Settled(0)
         \/ hears(b, "F", 0) /\ w = Settled(1)
         \/ /\ wire[b].ph_t # 0 /\ w.ph_t = wire[b].ph_t - 1 /\ w.crossed = wire[b].crossed
            /\ w.decided = wire[b].decided /\ w.found = wire[b].found /\ w \in Wirings
         \/ /\ w.ph_t = PROBE_T /\ w.crossed = wire[b].crossed /\ wire[b].ph_t = 0
            /\ w.decided = 1 /\ w.found = 0 /\ w \in Wirings
<1>1. wire[b] \in Wirings
  BY Zenon DEF TypeInv
<1>2. CASE hears(b, "R", 0) \/ hears(b, "F", 0)
  BY <1>2, Zenon DEF Listening
<1>3. CASE ~(hears(b, "R", 0) \/ hears(b, "F", 0)) /\ wire[b].ph_t # 0
  <2>1. w = [wire[b] EXCEPT !.ph_t = @ - 1]
    BY <1>3, Zenon DEF Listening
  <2> QED
    BY <1>1, <1>3, <2>1 DEF Wirings
<1>4. CASE ~(hears(b, "R", 0) \/ hears(b, "F", 0)) /\ wire[b].ph_t = 0
  <2>1. w = [wire[b] EXCEPT !.decided = 1, !.found = 0, !.ph_t = PROBE_T]
    BY <1>4, Zenon DEF Listening
  <2>2. PROBE_T \in Nat
    BY Params
  <2> QED
    BY <1>1, <1>4, <2>1, <2>2, Zenon DEF Wirings
<1> QED
  BY <1>2, <1>3, <1>4, Zenon

LEMMA AssumingStep ==
  ASSUME TypeInv, NEW b \in Boards, NEW w, w = Assuming(b)
  PROVE  \/ lsn_idle(b) /\ w = Settled(wire[b].crossed)
         \/ /\ wire[b].ph_t # 0 /\ w.ph_t = wire[b].ph_t - 1 /\ w.crossed = wire[b].crossed
            /\ w.decided = wire[b].decided /\ w.found = wire[b].found /\ w \in Wirings
         \/ /\ w.ph_t = RELISTEN_T /\ w.crossed = 1 - wire[b].crossed /\ wire[b].ph_t = 0
            /\ w.decided = 0 /\ w.found = wire[b].found /\ w \in Wirings
<1>1. wire[b] \in Wirings
  BY Zenon DEF TypeInv
<1>2. CASE lsn_idle(b)
  BY <1>2, Zenon DEF Assuming
<1>3. CASE ~lsn_idle(b) /\ wire[b].ph_t # 0
  <2>1. w = [wire[b] EXCEPT !.ph_t = @ - 1]
    BY <1>3, Zenon DEF Assuming
  <2> QED
    BY <1>1, <1>3, <2>1 DEF Wirings
<1>4. CASE ~lsn_idle(b) /\ wire[b].ph_t = 0
  <2>1. w = [wire[b] EXCEPT !.crossed = 1 - @, !.decided = 0, !.ph_t = RELISTEN_T]
    BY <1>4, Zenon DEF Assuming
  <2>2. RELISTEN_T \in Nat
    BY Params
  <2>3. wire[b].crossed \in Bit /\ wire[b].decided \in Bit /\ wire[b].found \in Bit
    BY <1>1, Zenon DEF Wirings
  <2>4. 1 - wire[b].crossed \in Bit
    BY <2>3
  <2>5. w = [crossed |-> 1 - wire[b].crossed, decided |-> 0, found |-> wire[b].found, ph_t |-> RELISTEN_T]
    BY <1>1, <2>1, Zenon DEF Wirings
  <2> QED
    BY <1>4, <2>2, <2>3, <2>4, <2>5 DEF Wirings
<1> QED
  BY <1>2, <1>3, <1>4, Zenon

\* Every field of every register keeps its range.
LEMMA TypeStep ==
  ASSUME TypeInv, NEW r, NEW bad, Step(r, bad)
  PROVE  TypeInv'
<1>1. ASSUME NEW b \in Boards, NEW g \in Groups
      PROVE  rx'[b][g] \in Receivers
  <2> DEFINE x == rx[b][g]
  <2>1. /\ x.beat \in Nat /\ x.whole \in Bit /\ x.idle_t \in 0 .. GAP_MIN /\ x.act_t \in 0 .. ACT_T
        /\ x.loss_t \in 0 .. LOSS_T /\ x.live \in Bit /\ x.role \in Bit
    BY DEF TypeInv, Receivers
  <2>2. GAP_MIN \in Nat /\ ACT_T \in Nat /\ LOSS_T \in Nat
    BY Params
  <2>3. CASE ~still(b, g, r)
    <3>1. rx'[b][g] = Unheard
      BY <2>3, Held, Zenon
    <3> QED
      BY <2>2, <3>1 DEF Unheard, Receivers
  <2>4. CASE still(b, g, r)
    <3> DEFINE y == rx'[b][g]
    <3>1. y = Receive(b, g, heard(b, g, r), <<b, g>> \in bad)
      BY <2>4, ReceiverStep, Zenon
    <3>2. tx[far(b)].role \in Bit
      BY FarBoard, Zenon DEF TypeInv, Senders
    <3>3. /\ upto(x.idle_t, GAP_MIN) \in 0 .. GAP_MIN /\ upto(x.act_t, ACT_T) \in 0 .. ACT_T
          /\ upto(x.loss_t, LOSS_T) \in 0 .. LOSS_T /\ x.beat + 1 \in Nat
          /\ 0 \in 0 .. GAP_MIN /\ 0 \in 0 .. ACT_T /\ 0 \in 0 .. LOSS_T
      BY <2>1, <2>2 DEF upto
    <3> HIDE DEF x
    <3>4. CASE heard(b, g, r) /\ beats(far(b))
      <4>1. /\ y.beat = IF x.beat = BEATS - 1 THEN 0 ELSE x.beat + 1
            /\ y.whole = IF whole(b, g) THEN 1 ELSE 0
            /\ y.idle_t = 0 /\ y.act_t = 0
            /\ y.loss_t \in {0, upto(x.loss_t, LOSS_T)} /\ y.live \in {0, 1, x.live}
            /\ y.role \in {0, tx[far(b)].role, x.role}
        BY <2>4, <3>4, Heard, Zenon DEF x
      <4>2. y = [beat |-> y.beat, whole |-> y.whole, idle_t |-> y.idle_t, act_t |-> y.act_t,
                 loss_t |-> y.loss_t, live |-> y.live, role |-> y.role]
        BY <3>1, Zenon DEF Receive
      <4> HIDE DEF y
      <4>3. /\ y.beat \in Nat /\ y.whole \in Bit /\ y.idle_t \in 0 .. GAP_MIN /\ y.act_t \in 0 .. ACT_T
            /\ y.loss_t \in 0 .. LOSS_T /\ y.live \in Bit /\ y.role \in Bit
        BY <2>1, <3>2, <3>3, <4>1
      <4>4. y \in Receivers
        BY <4>2, <4>3, Zenon DEF Receivers
      <4> QED
        BY <4>4, Zenon DEF y
    <3>5. CASE ~(heard(b, g, r) /\ beats(far(b)))
      <4>1. /\ y.beat = IF x.idle_t = GAP_MIN THEN 0 ELSE x.beat
            /\ y.whole = x.whole
            /\ y.idle_t = upto(x.idle_t, GAP_MIN) /\ y.act_t = upto(x.act_t, ACT_T)
            /\ y.loss_t = upto(x.loss_t, LOSS_T) /\ y.live \in {0, x.live} /\ y.role \in {0, x.role}
        BY <2>4, <3>5, Quiet, Zenon DEF x
      <4>2. y = [beat |-> y.beat, whole |-> y.whole, idle_t |-> y.idle_t, act_t |-> y.act_t,
                 loss_t |-> y.loss_t, live |-> y.live, role |-> y.role]
        BY <3>1, Zenon DEF Receive
      <4> HIDE DEF y
      <4>3. /\ y.beat \in Nat /\ y.whole \in Bit /\ y.idle_t \in 0 .. GAP_MIN /\ y.act_t \in 0 .. ACT_T
            /\ y.loss_t \in 0 .. LOSS_T /\ y.live \in Bit /\ y.role \in Bit
        BY <2>1, <3>3, <4>1
      <4>4. y \in Receivers
        BY <4>2, <4>3, Zenon DEF Receivers
      <4> QED
        BY <4>4, Zenon DEF y
    <3> QED
      BY <3>4, <3>5, Zenon
  <2> QED
    BY <2>3, <2>4, Zenon
<1>2. rx' \in [Boards -> [Groups -> Receivers]]
  <2> DEFINE f(b, g) == IF b = r \/ g \in {h \in Groups : drive(b, h, r)} THEN Unheard
                        ELSE Receive(b, g, plugged = 1 /\ end_of(g) \in [c \in Boards |-> {h \in Groups : drive(c, h, r)}][far(b)],
                                     <<b, g>> \in bad)
  <2>1. rx' = [b \in Boards |-> [g \in Groups |-> f(b, g)]]
    BY Zenon DEF Step, Clock
  <2> HIDE DEF f
  <2>2. \A b \in Boards, g \in Groups : f(b, g) \in Receivers
    BY <1>1, <2>1, Zenon
  <2> QED
    BY <2>1, <2>2, Zenon
<1>3. tx' \in [Boards -> Senders]
  <2>1. tx' = [b \in Boards |-> Send(b, r)]
    BY Zenon DEF Step, Clock
  <2>2. ASSUME NEW b \in Boards
        PROVE  Send(b, r) \in Senders
    <3>1. tx'[b] = Send(b, r)
      BY <2>1, Zenon
    <3>2. tx'[b].at \in 0 .. FRAME_T - 1 /\ tx'[b].role \in Bit
      <4>1. engaged[b] \in Bit /\ tx[b].role \in Bit
        BY Zenon DEF TypeInv, Senders
      <4> QED
        BY <4>1, SenderStep, Params
    <3>3. Send(b, r) = [at |-> Send(b, r).at, role |-> Send(b, r).role]
      BY Zenon DEF Send
    <3> QED
      BY <3>1, <3>2, <3>3, Zenon DEF Senders
  <2> QED
    BY <2>1, <2>2, Zenon
<1>4. ASSUME NEW b \in Boards
      PROVE  engaged'[b] \in Bit /\ wire'[b] \in Wirings
  <2>1. wire[b] \in Wirings /\ wire[b].crossed \in Bit /\ engaged[b] \in Bit
    BY Zenon DEF TypeInv, Wirings
  <2>2. Unwired \in Wirings /\ \A c \in Bit : Settled(c) \in Wirings
    BY Zenon DEF Unwired, Settled, Wirings
  <2>3. AtTake(b) \in Wirings
    <3>1. DETECT_T \in Nat
      BY Params
    <3> QED
      BY <3>1, Zenon DEF AtTake, Wirings
  <2>4. wire'[b] = Listening(b) => wire'[b] \in Wirings
    BY <2>2, ListeningStep, Zenon
  <2>5. wire'[b] = Assuming(b) => wire'[b] \in Wirings
    BY <2>1, <2>2, AssumingStep
  <2> QED
    BY <2>1, <2>2, <2>3, <2>4, <2>5, RoleStep, Zenon
<1>5. engaged' \in [Boards -> Bit] /\ wire' \in [Boards -> Wirings]
  <2>1. /\ engaged' = [b \in Boards |-> [c \in Boards |-> Role(c, r)][b][1]]
        /\ wire' = [b \in Boards |-> [c \in Boards |-> Role(c, r)][b][2]]
    BY Zenon DEF Step, Clock
  <2>2. \A b \in Boards : engaged'[b] \in Bit /\ wire'[b] \in Wirings
    BY <1>4, Zenon
  <2>3. engaged' = [b \in Boards |-> engaged'[b]] /\ wire' = [b \in Boards |-> wire'[b]]
    BY <2>1, Zenon
  <2> QED
    BY <2>2, <2>3, Zenon
<1>6. /\ world' \in Worlds /\ plugged' \in Bit
      /\ wiring' \in [Boards -> Ways \cup {"auto"}] /\ connect' \in [Boards -> Bit]
  BY Zenon DEF Step, TypeInv
<1> QED
  BY <1>2, <1>3, <1>5, <1>6, Zenon DEF TypeInv

-----------------------------------------------------------------------------
(* The parts of the invariant.                                             *)

\* Four wires are heard at one end at most: who drives does not listen.
OneHears ==
    \A b \in Boards, g \in Groups :
        ~(rx[b][g].live = 1 /\ rx[far(b)][end_of(g)].live = 1)

OneDebugger == both = 0 => ~(\A b \in Boards : engaged[b] = 1)

\* A board that is set has the setting as its wiring, and the other setting on
\* a straight ribbon never reaches the far board's low four.
AsSet ==
    \A b \in Boards :
        /\ wiring[b] # "auto" => wiring[b] = world.wiring[b]
        /\ engaged[b] = 1 /\ wiring[b] # "auto"
              => wire[b].crossed = (IF wiring[b] = "crossover" THEN 1 ELSE 0)
        /\ world.ribbon = "straight" /\ wiring[b] = "crossover" => rx[far(b)]["F"].live = 0

\* The far high four have been quiet for as long as a right probe runs.
ProbeIsQuiet ==
    \A b \in Boards :
        /\ engaged[b] = 1 /\ right(b) /\ wiring[b] = "auto"
        /\ wire[b].decided = 1 /\ wire[b].found = 0
        => \/ rx[far(b)]["R"].act_t = ACT_T
           \/ rx[far(b)]["R"].act_t + wire[b].ph_t >= PROBE_T

\* Ticks since a sender's first beat.
Since(at) == IF at = 0 THEN FRAME_T ELSE at
since(c) == Since(tx[c].at)

\* What keeps a debugger that wants the answer's wires off them: it still
\* listens, for longer than it takes the far board to lose it; or the far board
\* answers, and its next first beat comes before the listening ends, or its
\* last one was heard.
Guarded(b) ==
    \/ wire[b].decided = 0 /\ rx[far(b)]["F"].loss_t + wire[b].ph_t >= DETECT_T
    \/ /\ rx[far(b)]["R"].act_t = ACT_T
       /\ \/ wire[b].decided = 0 /\ wire[b].ph_t + since(far(b)) > RELISTEN_T
          \/ rx[b][end_of("R")].act_t < since(far(b))

WrongIsGuarded ==
    both = 0 /\ plugged = 1 /\ ~SetAgainst
        => \A b \in Boards :
              engaged[b] = 1 /\ ~right(b) /\ hears(far(b), "F", 1) => Guarded(b)

\* The frames that reach a board on the wires a debuggee listens to, from a far
\* board that looks before it drives: a frame it took is a debugger's, and so
\* is one that has come whole so far.  Between frames the receiver counts none.
FirstBeat(b) ==
    LET c == far(b)
        x == rx[b][end_of("F")]
    IN /\ wiring[c] = "auto"
       /\ engaged[c] = 1 /\ tx[c].at = 0 /\ tx[c].role = 0 => wire[c].decided = 0
       /\ tx[c].at = 0 => x.beat = 0
       /\ tx[c].at >= BeatsEnd => x.beat = 0 \/ x.idle_t >= tx[c].at - BeatsEnd
       /\ x.beat > 0 /\ x.whole = 1 /\ tx[c].at < BeatsEnd => tx[c].role = 1
       /\ x.live = 1 => x.role = 1

FramesAreDebuggers == \A b \in Boards : world.wiring[far(b)] = "auto" => FirstBeat(b)

CableInv ==
    /\ TypeInv /\ OneHears /\ OneDebugger /\ AsSet
    /\ ProbeIsQuiet /\ WrongIsGuarded
    /\ FramesAreDebuggers /\ FoundIsRight

LEMMA WireType ==
  ASSUME TypeInv, NEW b \in Boards
  PROVE  /\ wire[b].crossed \in Bit /\ wire[b].decided \in Bit /\ wire[b].found \in Bit
         /\ wire[b].ph_t \in Nat /\ engaged[b] \in Bit
BY Zenon DEF TypeInv, Wirings

LEMMA ReceiverType ==
  ASSUME TypeInv, NEW b \in Boards, NEW g \in Groups
  PROVE  /\ rx[b][g].beat \in Nat /\ rx[b][g].whole \in Bit /\ rx[b][g].idle_t \in 0 .. GAP_MIN
         /\ rx[b][g].act_t \in 0 .. ACT_T /\ rx[b][g].loss_t \in 0 .. LOSS_T
         /\ rx[b][g].live \in Bit /\ rx[b][g].role \in Bit
BY DEF TypeInv, Receivers

LEMMA TakeAuto ==
  ASSUME NEW b, wiring[b] = "auto"
  PROVE  AtTake(b).decided = 0 /\ AtTake(b).ph_t = DETECT_T
BY Zenon DEF AtTake

LEMMA RibbonType ==
  ASSUME TypeInv
  PROVE  world.ribbon \in Ways
BY DebugCableAssumption, Zenon DEF TypeInv

\* A debugger that has the wiring right leaves the answer's wires alone, and
\* one that has it wrong leaves alone the ones a debuggee listens to.
LEMMA DriveRight ==
  ASSUME TypeInv, NEW r, NEW b \in Boards, engaged[b] = 1, right(b)
  PROVE  ~drive(b, end_of("R"), r)
BY RibbonType DEF drive, want, listens, right, end_of, Ways

LEMMA DriveWrong ==
  ASSUME TypeInv, NEW r, NEW b \in Boards, engaged[b] = 1, ~right(b)
  PROVE  ~drive(b, end_of("F"), r)
<1>1. wire[b].crossed \in Bit
  BY Zenon DEF TypeInv, Wirings
<1> QED
  BY <1>1, RibbonType, Zenon DEF drive, want, listens, right, end_of, Ways

LEMMA OneHearsStep ==
  ASSUME TypeInv, OneHears, NEW r, NEW bad, Step(r, bad)
  PROVE  OneHears'
<1> SUFFICES ASSUME NEW b \in Boards, NEW g \in Groups,
                    rx'[b][g].live = 1, rx'[far(b)][end_of(g)].live = 1
             PROVE  FALSE
  <2>1. world' = world
    BY Zenon DEF Step
  <2> QED
    BY <2>1, Zenon DEF OneHears, far, end_of
<1>1. far(b) \in Boards /\ far(far(b)) = b /\ end_of(g) \in Groups /\ end_of(end_of(g)) = g
  BY FarBoard, EndOf, Zenon
<1>2. still(b, g, r) /\ (~heard(b, g, r) => rx[b][g].live = 1)
  BY LiveStep, Zenon
<1>3. still(far(b), end_of(g), r) /\ (~heard(far(b), end_of(g), r) => rx[far(b)][end_of(g)].live = 1)
  BY <1>1, LiveStep, Zenon
<1>4. ~heard(b, g, r)
  BY <1>3, Zenon DEF still, heard
<1>5. ~heard(far(b), end_of(g), r)
  BY <1>1, <1>2, Zenon DEF still, heard
<1> QED
  BY <1>2, <1>3, <1>4, <1>5, Zenon DEF OneHears

LEMMA OneDebuggerStep ==
  ASSUME OneDebugger, NEW r, NEW bad, Step(r, bad)
  PROVE  OneDebugger' /\ (both' = 0 => both = 0)
<1>1. both' = IF \A b \in Boards : engaged'[b] = 1 THEN 1 ELSE both
  BY Zenon DEF Step, Clock
<1> QED
  BY <1>1 DEF OneDebugger

LEMMA AsSetStep ==
  ASSUME TypeInv, AsSet, NEW r, NEW bad, Step(r, bad)
  PROVE  AsSet'
<1> SUFFICES ASSUME NEW b \in Boards, wiring'[b] # "auto"
             PROVE  /\ wiring'[b] = world.wiring[b]
                    /\ engaged'[b] = 1 => wire'[b].crossed = (IF wiring'[b] = "crossover" THEN 1 ELSE 0)
                    /\ world.ribbon = "straight" /\ wiring'[b] = "crossover" => rx'[far(b)]["F"].live = 0
  <2>1. world' = world
    BY Zenon DEF Step
  <2> QED
    BY <2>1, Zenon DEF AsSet, far
<1>1. b # r /\ wiring'[b] = wiring[b]
  BY Zenon DEF Step
<1>2. /\ wiring[b] = world.wiring[b]
      /\ engaged[b] = 1 => wire[b].crossed = (IF wiring[b] = "crossover" THEN 1 ELSE 0)
      /\ world.ribbon = "straight" /\ wiring[b] = "crossover" => rx[far(b)]["F"].live = 0
  BY <1>1, Zenon DEF AsSet
<1>3. engaged'[b] = 1 => wire'[b].crossed = (IF wiring[b] = "crossover" THEN 1 ELSE 0)
  <2>1. \/ engaged'[b] = 0
        \/ wire'[b] = AtTake(b)
        \/ engaged'[b] = engaged[b] /\ wire'[b] = wire[b]
    BY <1>1, RoleStep, Zenon
  <2>2. AtTake(b).crossed = IF wiring[b] = "crossover" THEN 1 ELSE 0
    BY Zenon DEF AtTake
  <2> QED
    BY <1>2, <2>1, <2>2
<1>4. ASSUME world.ribbon = "straight", wiring[b] = "crossover"
      PROVE  rx'[far(b)]["F"].live = 0
  <2>1. ~drive(b, "F", r)
    BY <1>2, <1>4, Zenon DEF drive, want, listens, TypeInv, Bit
  <2>2. ~heard(far(b), "F", r)
    BY <1>4, <2>1, FarBoard, Zenon DEF heard, end_of
  <2>3. rx'[far(b)]["F"].live # 1
    BY <1>2, <1>4, <2>2, FarBoard, LiveStep DEF Groups
  <2>4. rx'[far(b)]["F"].live \in Bit
    <3>1. TypeInv'
      BY TypeStep, Zenon
    <3> QED
      BY <3>1, FarBoard DEF TypeInv, Receivers, Groups
  <2> QED
    BY <2>3, <2>4, Zenon
<1> QED
  BY <1>1, <1>2, <1>3, <1>4, Zenon

\* What the kept frames of a board say of the wires: the far board is heard
\* where it answers, and a debuggee's answer heard on the other wires is one
\* that nobody else hears.
LEMMA SettledWrong ==
  ASSUME TypeInv, OneHears, NEW b \in Boards, NEW c \in Bit,
         IF c = 0 THEN hears(b, "R", 0) ELSE hears(b, "F", 0),
         c # (IF world.ribbon = "crossover" THEN 1 ELSE 0)
  PROVE  hears(b, end_of("F"), 0) /\ rx[far(b)]["F"].live # 1
<1>1. hears(b, end_of("F"), 0)
  BY RibbonType, Zenon DEF end_of, Ways
<1>2. "F" \in Groups /\ end_of("F") \in Groups /\ end_of(end_of("F")) = "F"
  BY EndOf, Zenon DEF Groups
<1> QED
  BY <1>1, <1>2, Zenon DEF OneHears, hears

(* The arithmetic of the intervals. *)

LEMMA DetectTime ==
  ASSUME NEW loss \in 0 .. LOSS_T, NEW ph \in Nat, loss # LOSS_T, loss + ph >= DETECT_T
  PROVE  ph # 0 /\ \A p \in {ph, ph - 1} : (loss + 1) + p >= DETECT_T
BY Params

LEMMA RelistenTime ==
  ASSUME NEW ph \in Nat, NEW a \in 1 .. FRAME_T, ph + a > RELISTEN_T
  PROVE  ph # 0 /\ \A p \in {ph, ph - 1} : p + (a + 1) > RELISTEN_T
BY Params

LEMMA AnswerTime ==
  ASSUME NEW t \in 0 .. ACT_T, NEW a \in 1 .. FRAME_T, t < a
  PROVE  t # ACT_T /\ upto(t, ACT_T) < a + 1
BY Params DEF upto

LEMMA ProbeTime ==
  ASSUME NEW t \in 0 .. ACT_T, NEW u, NEW ph \in Nat, ph # 0,
         t = ACT_T \/ t + ph >= PROBE_T, u = ACT_T \/ u = upto(t, ACT_T)
  PROVE  u = ACT_T \/ u + (ph - 1) >= PROBE_T
BY Params DEF upto

LEMMA ProbeEnds ==
  ASSUME NEW t \in 0 .. ACT_T, t = ACT_T \/ t + 0 >= PROBE_T
  PROVE  t = ACT_T
BY Params

After(at) == IF at = FRAME_T - 1 THEN 0 ELSE at + 1

LEMMA SincePositive ==
  ASSUME NEW a \in 1 .. FRAME_T
  PROVE  0 < a
BY Params

LEMMA SinceRange ==
  ASSUME NEW at \in 0 .. FRAME_T - 1
  PROVE  Since(at) \in 1 .. FRAME_T
BY Params DEF Since

LEMMA SinceAfter ==
  ASSUME NEW at \in 0 .. FRAME_T - 1
  PROVE  After(at) \in 0 .. FRAME_T - 1 /\ (at # 0 => Since(After(at)) = Since(at) + 1)
BY Params DEF After, Since

LEMMA ProbeIsQuietStep ==
  ASSUME TypeInv, ProbeIsQuiet, NEW r, NEW bad, Step(r, bad)
  PROVE  ProbeIsQuiet'
<1> SUFFICES ASSUME NEW b \in Boards, engaged'[b] = 1, right(b)', wiring'[b] = "auto",
                    wire'[b].decided = 1, wire'[b].found = 0
             PROVE  \/ rx'[far(b)]["R"].act_t = ACT_T
                    \/ rx'[far(b)]["R"].act_t + wire'[b].ph_t >= PROBE_T
  BY Zenon DEF ProbeIsQuiet, far
<1>1. TypeInv'
  BY TypeStep, Zenon
<1>2. far(b) \in Boards /\ "R" \in Groups
  BY FarBoard, Zenon DEF Groups
<1>3. rx'[far(b)]["R"].act_t \in 0 .. ACT_T
  BY <1>1, <1>2 DEF TypeInv, Receivers
<1>4. /\ b # r /\ engaged[b] = 1 /\ wiring[b] = "auto" /\ wire[b].found # 1
      /\ wire'[b] = IF wire[b].decided = 0 THEN Listening(b) ELSE Assuming(b)
  <2>1. b # r => wiring'[b] = wiring[b]
    BY Zenon DEF Step
  <2>2. AtTake(b).decided = 1 => wiring[b] # "auto"
    BY DEF AtTake
  <2>3. Unwired.decided = 0
    BY Zenon DEF Unwired
  <2> QED
    BY <2>1, <2>2, <2>3, RoleStep
<1>5. (\A c : wire'[b] # Settled(c)) /\ wire'[b].decided # 0
  <2>1. \A c : Settled(c).found = 1
    BY Zenon DEF Settled
  <2> QED
    BY <2>1
<1>6. CASE wire[b].decided = 0
  <2>1. wire'[b].ph_t = PROBE_T
    BY <1>4, <1>5, <1>6, ListeningStep, Zenon
  <2>2. \A t \in 0 .. ACT_T : t + PROBE_T >= PROBE_T
    BY Params
  <2> QED
    BY <1>3, <2>1, <2>2, Zenon
<1>7. CASE wire[b].decided # 0
  <2>1. /\ wire[b].ph_t # 0 /\ wire'[b].ph_t = wire[b].ph_t - 1
        /\ wire'[b].crossed = wire[b].crossed
    BY <1>4, <1>5, <1>7, AssumingStep, Zenon
  <2>2. right(b)
    <3>1. world' = world
      BY Zenon DEF Step
    <3> QED
      BY <2>1, <3>1, Zenon DEF right
  <2>3. /\ wire[b].decided = 1 /\ wire[b].found = 0 /\ wire[b].ph_t \in Nat
        /\ rx[far(b)]["R"].act_t \in 0 .. ACT_T
    <3>1. wire[b].decided \in Bit /\ wire[b].found \in Bit /\ wire[b].ph_t \in Nat
      BY WireType, Zenon
    <3>2. rx[far(b)]["R"].act_t \in 0 .. ACT_T
      BY <1>2, ReceiverType, Zenon
    <3> QED
      BY <1>4, <1>7, <3>1, <3>2, Zenon
  <2>4. rx[far(b)]["R"].act_t = ACT_T \/ rx[far(b)]["R"].act_t + wire[b].ph_t >= PROBE_T
    BY <1>4, <2>2, <2>3, Zenon DEF ProbeIsQuiet
  <2>5. ~heard(far(b), "R", r)
    BY <1>4, <2>2, DriveRight, FarBoard, Zenon DEF heard
  <2>6. \/ rx'[far(b)]["R"].act_t = ACT_T
        \/ rx'[far(b)]["R"].act_t = upto(rx[far(b)]["R"].act_t, ACT_T)
    BY <1>2, <2>5, Held, Quiet, Zenon
  <2>7. \/ rx'[far(b)]["R"].act_t = ACT_T
        \/ rx'[far(b)]["R"].act_t + (wire[b].ph_t - 1) >= PROBE_T
    BY <2>1, <2>3, <2>4, <2>6, ProbeTime, Zenon
  <2> QED
    BY <2>1, <2>7, Zenon
<1> QED
  BY <1>6, <1>7, Zenon

\* The wires of the answer, while the far board answers on them.
LEMMA AnswerIsHeard ==
  ASSUME TypeInv, NEW r, NEW bad, Step(r, bad), NEW b \in Boards, plugged = 1,
         far(b) # r, b # r, engaged[far(b)] = 0, hears(far(b), "F", 1), rx[far(b)]["R"].act_t = ACT_T,
         ~drive(b, end_of("R"), r)
  PROVE  /\ rx'[far(b)]["R"].act_t = ACT_T
         /\ since(far(b)) \in 1 .. FRAME_T /\ since(far(b))' \in 1 .. FRAME_T
         /\ \/ rx'[b][end_of("R")].act_t = 0
            \/ /\ rx'[b][end_of("R")].act_t = upto(rx[b][end_of("R")].act_t, ACT_T)
               /\ since(far(b))' = since(far(b)) + 1
<1>1. far(b) \in Boards /\ far(far(b)) = b /\ "R" \in Groups /\ end_of("R") \in Groups /\ end_of(end_of("R")) = "R"
  BY FarBoard, EndOf, Zenon DEF Groups
<1>2. drive(far(b), "R", r)
  BY DEF drive, want, act
<1>3. rx'[far(b)]["R"].act_t = ACT_T
  BY <1>1, <1>2, Held, Zenon DEF still
<1>4. heard(b, end_of("R"), r) /\ still(b, end_of("R"), r)
  BY <1>1, <1>2, Zenon DEF heard, still
<1>5. tx[far(b)].at \in 0 .. FRAME_T - 1
  BY <1>1, SenderStep, Zenon
<1>6. tx'[far(b)].at = After(tx[far(b)].at)
  BY <1>1, SenderStep, Zenon DEF After
<1>7. since(far(b))' = Since(tx'[far(b)].at)
  BY Zenon DEF since, far, Since, FRAME_T
<1>8. since(far(b)) \in 1 .. FRAME_T /\ since(far(b))' \in 1 .. FRAME_T
  BY <1>5, <1>6, <1>7, SinceRange, SinceAfter, Zenon DEF since
<1>9. CASE beats(far(b))
  <2>1. rx'[b][end_of("R")].act_t = 0
    BY <1>1, <1>4, <1>9, Heard, Zenon
  <2> QED
    BY <1>3, <1>8, <2>1, Zenon
<1>10. CASE ~beats(far(b))
  <2>1. rx'[b][end_of("R")].act_t = upto(rx[b][end_of("R")].act_t, ACT_T)
    BY <1>1, <1>4, <1>10, Quiet, Zenon
  <2>2. tx[far(b)].at # 0
    <3>1. 0 % BEAT_T = 0 /\ 0 \div BEAT_T < BEATS
      BY Params
    <3> QED
      BY <1>10, <3>1, Zenon DEF beats
  <2>3. since(far(b))' = since(far(b)) + 1
    BY <1>5, <1>6, <1>7, <2>2, SinceAfter, Zenon DEF since
  <2> QED
    BY <1>3, <1>8, <2>1, <2>3, Zenon
<1> QED
  BY <1>9, <1>10, Zenon

\* A debugger that stays wrong stays guarded.
LEMMA StaysGuarded ==
  ASSUME TypeInv, OneHears, NEW r, NEW bad, Step(r, bad), NEW b \in Boards,
         plugged = 1, b # r, engaged[b] = 1, engaged[far(b)] = 0, wiring[b] = "auto",
         ~right(b), ~right(b)', engaged'[b] = 1, Guarded(b), hears(far(b), "F", 1),
         rx'[far(b)]["F"].live = 1
  PROVE  Guarded(b)'
<1>1. far(b) \in Boards /\ far(far(b)) = b /\ "F" \in Groups /\ "R" \in Groups /\ end_of("R") \in Groups
  BY FarBoard, EndOf, Zenon DEF Groups
<1>2. ~heard(far(b), "F", r)
  BY <1>1, DriveWrong, Zenon DEF heard
<1>3. still(far(b), "F", r) /\ rx[far(b)]["F"].loss_t # LOSS_T
  BY <1>1, <1>2, LiveStep, Zenon
<1>4. rx'[far(b)]["F"].loss_t = rx[far(b)]["F"].loss_t + 1
  BY <1>1, <1>2, <1>3, Quiet, Zenon DEF upto
<1>5. /\ wire[b].ph_t \in Nat /\ rx[far(b)]["F"].loss_t \in 0 .. LOSS_T
      /\ rx[b][end_of("R")].act_t \in 0 .. ACT_T
  BY <1>1, WireType, ReceiverType, Zenon
<1>6. world' = world /\ far(b) # r
  BY <1>3, Zenon DEF Step, still
<1>7. wire[b].decided = 0 /\ wire[b].ph_t # 0
        => wire'[b].decided = 0 /\ wire'[b].ph_t \in {wire[b].ph_t, wire[b].ph_t - 1}
  <2> HAVE wire[b].decided = 0 /\ wire[b].ph_t # 0
  <2>1. \/ wire'[b] = wire[b]
        \/ wire'[b] = Listening(b)
    <3>1. engaged[b] # 0 /\ engaged'[b] # 0
      OBVIOUS
    <3> QED
      BY <3>1, RoleStep, Zenon DEF take
  <2>2. ASSUME NEW c \in Bit, IF c = 0 THEN hears(b, "R", 0) ELSE hears(b, "F", 0), wire'[b] = Settled(c)
        PROVE  FALSE
    <3>1. wire'[b].crossed = c
      BY <2>2 DEF Settled
    <3>2. c # (IF world.ribbon = "crossover" THEN 1 ELSE 0)
      BY <1>6, <3>1, Zenon DEF right
    <3> QED
      BY <2>2, <3>2, SettledWrong, Zenon DEF hears
  <2>3. wire'[b] = Listening(b) =>
          wire'[b].ph_t = wire[b].ph_t - 1 /\ wire'[b].decided = wire[b].decided
    <3>1. ~(hears(b, "R", 0) /\ wire'[b] = Settled(0)) /\ ~(hears(b, "F", 0) /\ wire'[b] = Settled(1))
      <4>1. 0 \in Bit /\ 1 \in Bit /\ 1 # 0
        OBVIOUS
      <4> QED
        BY <2>2, <4>1, Zenon
    <3> QED
      BY <3>1, ListeningStep, Zenon
  <2> QED
    BY <2>1, <2>3, Zenon
<1>8. Guarded(b)' <=>
        \/ wire'[b].decided = 0 /\ rx'[far(b)]["F"].loss_t + wire'[b].ph_t >= DETECT_T
        \/ /\ rx'[far(b)]["R"].act_t = ACT_T
           /\ \/ wire'[b].decided = 0 /\ wire'[b].ph_t + since(far(b))' > RELISTEN_T
              \/ rx'[b][end_of("R")].act_t < since(far(b))'
  BY <1>6, Zenon DEF Guarded, far, end_of, since, Since, DETECT_T, RELISTEN_T, ACT_T, FRAME_T
<1>9. CASE wire[b].decided = 0 /\ rx[far(b)]["F"].loss_t + wire[b].ph_t >= DETECT_T
  <2>1. /\ wire[b].ph_t # 0
        /\ \A p \in {wire[b].ph_t, wire[b].ph_t - 1} : (rx[far(b)]["F"].loss_t + 1) + p >= DETECT_T
    BY <1>3, <1>5, <1>9, DetectTime, Zenon
  <2>2. wire'[b].decided = 0 /\ rx'[far(b)]["F"].loss_t + wire'[b].ph_t >= DETECT_T
    BY <1>4, <1>7, <1>9, <2>1, Zenon
  <2> QED
    BY <1>8, <2>2, Zenon
<1>10. ASSUME rx[far(b)]["R"].act_t = ACT_T,
              wire[b].decided = 0, wire[b].ph_t + since(far(b)) > RELISTEN_T
       PROVE  Guarded(b)'
  <2>1. ~drive(b, end_of("R"), r)
    <3>1. wire[b].decided # 1
      BY <1>10
    <3> QED
      BY <3>1, Zenon DEF drive, want
  <2>2. /\ rx'[far(b)]["R"].act_t = ACT_T
        /\ since(far(b)) \in 1 .. FRAME_T /\ since(far(b))' \in 1 .. FRAME_T
        /\ \/ rx'[b][end_of("R")].act_t = 0
           \/ since(far(b))' = since(far(b)) + 1
    BY <1>6, <1>10, <2>1, AnswerIsHeard, Zenon
  <2>3. /\ wire[b].ph_t # 0
        /\ \A p \in {wire[b].ph_t, wire[b].ph_t - 1} : p + (since(far(b)) + 1) > RELISTEN_T
    BY <1>5, <1>10, <2>2, RelistenTime, Zenon
  <2>4. wire'[b].decided = 0 /\ wire'[b].ph_t \in {wire[b].ph_t, wire[b].ph_t - 1}
    BY <1>7, <1>10, <2>3, Zenon
  <2>5. \/ rx'[b][end_of("R")].act_t < since(far(b))'
        \/ wire'[b].ph_t + since(far(b))' > RELISTEN_T
    <3>1. \A a \in 1 .. FRAME_T : 0 < a
      BY SincePositive, Zenon
    <3> QED
      BY <2>2, <2>3, <2>4, <3>1, Zenon
  <2> QED
    BY <1>8, <2>2, <2>4, <2>5, Zenon
<1>11. ASSUME rx[far(b)]["R"].act_t = ACT_T, rx[b][end_of("R")].act_t < since(far(b))
       PROVE  Guarded(b)'
  <2>1. since(far(b)) \in 1 .. FRAME_T
    <3>1. tx[far(b)].at \in 0 .. FRAME_T - 1
      BY <1>1, SenderStep, Zenon
    <3> QED
      BY <3>1, SinceRange, Zenon DEF since
  <2>2. /\ rx[b][end_of("R")].act_t # ACT_T
        /\ upto(rx[b][end_of("R")].act_t, ACT_T) < since(far(b)) + 1
    BY <1>5, <1>11, <2>1, AnswerTime, Zenon
  <2>3. ~drive(b, end_of("R"), r)
    BY <2>2, Zenon DEF drive, act
  <2>4. /\ rx'[far(b)]["R"].act_t = ACT_T /\ since(far(b))' \in 1 .. FRAME_T
        /\ \/ rx'[b][end_of("R")].act_t = 0
           \/ /\ rx'[b][end_of("R")].act_t = upto(rx[b][end_of("R")].act_t, ACT_T)
              /\ since(far(b))' = since(far(b)) + 1
    BY <1>6, <1>11, <2>3, AnswerIsHeard, Zenon
  <2>5. rx'[b][end_of("R")].act_t < since(far(b))'
    <3>1. \A a \in 1 .. FRAME_T : 0 < a
      BY SincePositive, Zenon
    <3> QED
      BY <2>2, <2>4, <3>1, Zenon
  <2> QED
    BY <1>8, <2>4, <2>5, Zenon
<1> QED
  BY <1>9, <1>10, <1>11, Zenon DEF Guarded

\* A debugger that turns wrong has just flipped, and is guarded.
LEMMA FlipIsGuarded ==
  ASSUME TypeInv, OneHears, ProbeIsQuiet, NEW r, NEW bad, Step(r, bad), NEW b \in Boards,
         b # r, engaged[b] = 1, wiring[b] = "auto",
         right(b), ~right(b)', engaged'[b] = 1, rx'[far(b)]["F"].live = 1
  PROVE  Guarded(b)'
<1>1. far(b) \in Boards /\ far(far(b)) = b /\ "F" \in Groups /\ "R" \in Groups /\ end_of("R") \in Groups
  BY FarBoard, EndOf, Zenon DEF Groups
<1>2. world' = world
  BY Zenon DEF Step
<1>3. wire'[b].crossed # wire[b].crossed
  BY <1>2, Zenon DEF right
<1>4. /\ wire[b].found # 1
      /\ wire'[b] = IF wire[b].decided = 0 THEN Listening(b) ELSE Assuming(b)
  <2>1. engaged[b] # 0 /\ engaged'[b] # 0
    OBVIOUS
  <2> QED
    BY <1>3, <2>1, RoleStep, Zenon DEF take
<1>5. \A c : Settled(c).crossed = c
  BY Zenon DEF Settled
<1>6. wire[b].decided # 0
  <2> SUFFICES ASSUME wire[b].decided = 0
               PROVE  FALSE
    BY Zenon
  <2>1. ~heard(far(b), "F", r)
    BY <1>1 DEF heard, drive, want
  <2>2. rx[far(b)]["F"].live = 1
    BY <1>1, <2>1, LiveStep, Zenon
  <2>3. \E c \in Bit : (IF c = 0 THEN hears(b, "R", 0) ELSE hears(b, "F", 0)) /\ wire'[b] = Settled(c)
    <3>1. 0 \in Bit /\ 1 \in Bit /\ 1 # 0
      OBVIOUS
    <3>2. \/ hears(b, "R", 0) /\ wire'[b] = Settled(0)
          \/ hears(b, "F", 0) /\ wire'[b] = Settled(1)
      BY <1>3, <1>4, ListeningStep, Zenon
    <3> QED
      BY <3>1, <3>2, Zenon
  <2>4. PICK c \in Bit : (IF c = 0 THEN hears(b, "R", 0) ELSE hears(b, "F", 0)) /\ wire'[b] = Settled(c)
    BY <2>3, Zenon
  <2>5. c # (IF world.ribbon = "crossover" THEN 1 ELSE 0)
    BY <1>2, <1>5, <2>4, Zenon DEF right
  <2> QED
    BY <2>2, <2>4, <2>5, SettledWrong, Zenon
<1>7. wire[b].ph_t = 0 /\ wire'[b].ph_t = RELISTEN_T /\ wire'[b].decided = 0
  <2>1. wire'[b] # Settled(wire[b].crossed)
    BY <1>3, <1>5, Zenon
  <2> QED
    BY <1>3, <1>4, <1>6, <2>1, AssumingStep, Zenon
<1>8. wire[b].decided = 1 /\ wire[b].found = 0 /\ rx[far(b)]["R"].act_t \in 0 .. ACT_T
  <2>1. wire[b].decided \in Bit /\ wire[b].found \in Bit
    BY WireType, Zenon
  <2>2. rx[far(b)]["R"].act_t \in 0 .. ACT_T
    BY <1>1, ReceiverType, Zenon
  <2> QED
    BY <1>4, <1>6, <2>1, <2>2, Zenon
<1>9. rx[far(b)]["R"].act_t = ACT_T \/ rx[far(b)]["R"].act_t + wire[b].ph_t >= PROBE_T
  BY <1>8, Zenon DEF ProbeIsQuiet
<1>10. rx[far(b)]["R"].act_t = ACT_T
  BY <1>7, <1>8, <1>9, ProbeEnds, Zenon
<1>11. ~heard(far(b), "R", r)
  BY <1>1, DriveRight, Zenon DEF heard
<1>12. rx'[far(b)]["R"].act_t = ACT_T
  <2>1. CASE ~still(far(b), "R", r)
    BY <1>1, <2>1, Held, Zenon
  <2>2. CASE still(far(b), "R", r)
    <3>1. rx'[far(b)]["R"].act_t = upto(rx[far(b)]["R"].act_t, ACT_T)
      BY <1>1, <1>11, <2>2, Quiet, Zenon
    <3> QED
      BY <1>10, <3>1, Zenon DEF upto
  <2> QED
    BY <2>1, <2>2, Zenon
<1>13. since(far(b))' \in 1 .. FRAME_T
  <2>1. tx'[far(b)].at \in 0 .. FRAME_T - 1
    <3>1. TypeInv'
      BY TypeStep, Zenon
    <3> QED
      BY <1>1, <3>1, Zenon DEF TypeInv, Senders, FRAME_T
  <2>2. since(far(b))' = Since(tx'[far(b)].at)
    BY Zenon DEF since, far, Since, FRAME_T
  <2> QED
    BY <2>1, <2>2, SinceRange, Zenon
<1>14. wire'[b].ph_t + since(far(b))' > RELISTEN_T
  <2>1. \A a \in 1 .. FRAME_T : RELISTEN_T + a > RELISTEN_T
    BY Params
  <2> QED
    BY <1>7, <1>13, <2>1, Zenon
<1> QED
  BY <1>7, <1>12, <1>14, Zenon DEF Guarded, far, ACT_T, RELISTEN_T, FRAME_T

LEMMA WrongIsGuardedStep ==
  ASSUME TypeInv, OneHears, OneDebugger, AsSet, ProbeIsQuiet, WrongIsGuarded,
         NEW r, NEW bad, Step(r, bad)
  PROVE  WrongIsGuarded'
<1>1. world' = world /\ plugged' \in Bit
  BY Zenon DEF Step
<1> SUFFICES ASSUME both' = 0, plugged' = 1, ~SetAgainst, NEW b \in Boards,
                    engaged'[b] = 1, ~right(b)', hears(far(b), "F", 1)'
             PROVE  Guarded(b)'
  BY <1>1, Zenon DEF WrongIsGuarded, SetAgainst
<1>2. far(b) \in Boards /\ far(far(b)) = b /\ "F" \in Groups
  BY FarBoard, Zenon DEF Groups
<1>3. rx'[far(b)]["F"].live = 1 /\ rx'[far(b)]["F"].role = 1
  BY Zenon DEF hears, far
<1>4. both = 0 /\ OneDebugger' /\ AsSet'
  BY OneDebuggerStep, AsSetStep, Zenon
<1>5. plugged = 1
  <2> SUFFICES ASSUME plugged # 1
               PROVE  FALSE
    BY Zenon
  <2>1. rx[far(b)]["F"] = Unheard
    BY <1>2, Zenon DEF Step, TypeInv
  <2>2. rx[far(b)]["F"].live = 0
    BY <2>1 DEF Unheard
  <2>3. ~heard(far(b), "F", r)
    BY Zenon DEF heard
  <2>4. rx[far(b)]["F"].live = 1
    BY <1>2, <1>3, <2>3, LiveStep, Zenon
  <2> QED
    BY <2>2, <2>4
<1>6. wiring'[b] = "auto"
  <2> SUFFICES ASSUME wiring'[b] # "auto"
               PROVE  FALSE
    BY Zenon
  <2>1. /\ wiring'[b] = world.wiring[b]
        /\ wire'[b].crossed = (IF wiring'[b] = "crossover" THEN 1 ELSE 0)
        /\ world.ribbon = "straight" /\ wiring'[b] = "crossover" => rx'[far(b)]["F"].live = 0
    BY <1>1, <1>4, Zenon DEF AsSet, far
  <2>2. wiring'[b] \in Ways
    <3>1. TypeInv'
      BY TypeStep, Zenon
    <3> QED
      BY <3>1, Zenon DEF TypeInv
  <2>3. world.ribbon \in Ways
    BY RibbonType, Zenon
  <2> QED
    BY <1>1, <1>3, <2>1, <2>2, <2>3, Zenon DEF right, Ways, SetAgainst
<1>7. CASE engaged[b] # 1
  <2>1. b # r /\ wire'[b] = AtTake(b)
    <3>1. engaged'[b] # 0
      OBVIOUS
    <3> QED
      BY <1>7, <3>1, RoleStep, Zenon
  <2>2. wiring[b] = "auto"
    BY <1>6, <2>1, Zenon DEF Step
  <2>3. wire'[b].decided = 0 /\ wire'[b].ph_t = DETECT_T
    BY <2>1, <2>2, TakeAuto, Zenon
  <2>4. rx'[far(b)]["F"].loss_t \in Nat
    <3>1. TypeInv'
      BY TypeStep, Zenon
    <3> QED
      BY <1>2, <3>1, Params DEF TypeInv, Receivers
  <2>5. rx'[far(b)]["F"].loss_t + wire'[b].ph_t >= DETECT_T
    BY <2>3, <2>4, Params
  <2> QED
    BY <2>3, <2>5, Zenon DEF Guarded, far, DETECT_T, FRAME_T
<1>8. CASE engaged[b] = 1
  <2>1. b # r
    <3>1. b = r => engaged'[b] = 0
      BY Zenon DEF Step, Clock, Role
    <3> QED
      BY <3>1
  <2>2. wiring[b] = "auto"
    BY <1>6, <2>1, Zenon DEF Step
  <2>3. engaged[far(b)] = 0
    BY <1>2, <1>4, <1>8, FarBoard DEF OneDebugger, TypeInv
  <2>4. CASE right(b)
    BY <1>3, <1>8, <2>1, <2>2, <2>4, FlipIsGuarded, Zenon
  <2>5. CASE ~right(b)
    <3>1. ~heard(far(b), "F", r)
      BY <1>2, <1>8, <2>5, DriveWrong, Zenon DEF heard
    <3>2. hears(far(b), "F", 1)
      BY <1>2, <1>3, <3>1, LiveStep, Zenon DEF hears
    <3>3. Guarded(b)
      BY <1>4, <1>5, <1>8, <2>5, <3>2, Zenon DEF WrongIsGuarded
    <3> QED
      BY <1>3, <1>5, <1>8, <2>1, <2>2, <2>3, <2>5, <3>2, <3>3, StaysGuarded, Zenon
  <2> QED
    BY <2>4, <2>5, Zenon
<1> QED
  BY <1>7, <1>8, Zenon

-----------------------------------------------------------------------------
(* A sender's place in its frame and the beats in it.                      *)

LEMMA BeatPlace ==
  ASSUME NEW at \in Nat
  PROVE  /\ at \div BEAT_T \in Nat
         /\ at = BEAT_T * (at \div BEAT_T) + (at % BEAT_T)
         /\ at % BEAT_T \in 0 .. BEAT_T - 1
BY Params

LEMMA Product ==
  ASSUME NEW m \in Nat, NEW n \in Nat
  PROVE  m * n \in Nat
OBVIOUS

LEMMA BeatsBefore ==
  ASSUME NEW b \in Boards, tx[b].at \in Nat, beats(b)
  PROVE  tx[b].at < BeatsEnd /\ (beat_of(b) = 0 => tx[b].at = 0)
<1> DEFINE at == tx[b].at
           q == at \div BEAT_T
<1>1. q \in Nat /\ at = BEAT_T * q + (at % BEAT_T) /\ at % BEAT_T = 0 /\ q < BEATS /\ q = beat_of(b)
  BY BeatPlace, Zenon DEF beats, beat_of
<1> HIDE DEF at, q
<1>2. at = BEAT_T * q
  <2>1. BEAT_T * q \in Nat
    BY <1>1, Params, Product, Zenon
  <2> QED
    BY <1>1, <2>1
<1>3. BEAT_T * q < BEATS * BEAT_T
  BY <1>1, Params
<1>4. q = 0 => at = 0
  BY <1>2, Params
<1> QED
  BY <1>1, <1>2, <1>3, <1>4, Zenon DEF at, BeatsEnd

LEMMA FirstBeatStep ==
  ASSUME TypeInv, NEW r, NEW bad, Step(r, bad), NEW b \in Boards, FirstBeat(b)
  PROVE  FirstBeat(b)'
<1> DEFINE c == far(b)
           g == end_of("F")
           x == rx[b][g]
           y == rx'[b][g]
           at == tx[c].at
<1>1. c \in Boards /\ far(c) = b /\ g \in Groups /\ end_of(g) = "F" /\ "F" \in Groups
  BY FarBoard, EndOf, Zenon DEF Groups
<1>2. /\ wiring[c] = "auto"
      /\ engaged[c] = 1 /\ at = 0 /\ tx[c].role = 0 => wire[c].decided = 0
      /\ at = 0 => x.beat = 0
      /\ at >= BeatsEnd => x.beat = 0 \/ x.idle_t >= at - BeatsEnd
      /\ x.beat > 0 /\ x.whole = 1 /\ at < BeatsEnd => tx[c].role = 1
      /\ x.live = 1 => x.role = 1
  BY Zenon DEF FirstBeat
<1>3. FirstBeat(b)' <=>
      /\ wiring'[c] = "auto"
      /\ engaged'[c] = 1 /\ tx'[c].at = 0 /\ tx'[c].role = 0 => wire'[c].decided = 0
      /\ tx'[c].at = 0 => y.beat = 0
      /\ tx'[c].at >= BeatsEnd => y.beat = 0 \/ y.idle_t >= tx'[c].at - BeatsEnd
      /\ y.beat > 0 /\ y.whole = 1 /\ tx'[c].at < BeatsEnd => tx'[c].role = 1
      /\ y.live = 1 => y.role = 1
  <2>1. world' = world
    BY Zenon DEF Step
  <2>2. end_of("F")' = g
    BY <2>1, Zenon DEF end_of
  <2> QED
    BY <2>2, Zenon DEF FirstBeat, far, BeatsEnd
<1>4. /\ x.beat \in Nat /\ x.idle_t \in 0 .. GAP_MIN /\ x.whole \in Bit /\ tx[c].role \in Bit
      /\ engaged[c] \in Bit /\ x.live \in Bit
  BY <1>1, Zenon DEF TypeInv, Receivers, Senders
<1>5. y.beat \in Nat /\ y.idle_t \in 0 .. GAP_MIN
  <2>1. TypeInv'
    BY TypeStep, Zenon
  <2> QED
    BY <1>1, <2>1 DEF TypeInv, Receivers
<1>6. /\ c = r => tx'[c].at = BeatsEnd /\ tx'[c].role = 0
      /\ c # r /\ at = FRAME_T - 1 => tx'[c].at = 0 /\ tx'[c].role = engaged[c]
      /\ c # r /\ at # FRAME_T - 1 => tx'[c].at = at + 1 /\ tx'[c].role = tx[c].role
      /\ at \in 0 .. FRAME_T - 1 /\ at \in Nat
  BY <1>1, SenderStep, Zenon
<1>7. wiring'[c] = "auto"
  BY <1>1, <1>2, Zenon DEF Step
<1>8. beats(c) => at < BeatsEnd /\ (beat_of(c) = 0 => at = 0)
  BY <1>1, <1>6, BeatsBefore, Zenon
<1>9. ~still(b, g, r) => y.beat = 0 /\ y.live = 0
  BY <1>1, Held, Zenon
<1>10. heard(b, g, r) => engaged[c] = 1 /\ wire[c].decided = 1
  BY <1>1, Zenon DEF heard, drive, want, hears
<1>11. still(b, g, r) /\ ~(heard(b, g, r) /\ beats(c)) =>
         /\ y.beat = IF x.idle_t = GAP_MIN THEN 0 ELSE x.beat
         /\ y.whole = x.whole
         /\ y.idle_t = upto(x.idle_t, GAP_MIN)
         /\ y.live = 1 => x.live = 1 /\ y.role = x.role
  <2>0. 0 # 1
    OBVIOUS
  <2> HAVE still(b, g, r) /\ ~(heard(b, g, r) /\ beats(c))
  <2>1. /\ y.beat = IF x.idle_t = GAP_MIN THEN 0 ELSE x.beat
        /\ y.whole = x.whole
        /\ y.idle_t = upto(x.idle_t, GAP_MIN)
        /\ y.live = IF x.loss_t = LOSS_T THEN 0 ELSE x.live
        /\ y.role = IF x.loss_t = LOSS_T THEN 0 ELSE x.role
    BY <1>1, Quiet, Zenon
  <2> HIDE DEF x, y
  <2> QED
    BY <2>0, <2>1, Zenon
<1>12. still(b, g, r) /\ heard(b, g, r) /\ beats(c) =>
         /\ y.whole = 1 => whole(b, g)
         /\ y.live = 1 => \/ whole(b, g) /\ y.role = tx[c].role
                          \/ x.live = 1 /\ y.role = x.role
  <2>0. 0 # 1
    OBVIOUS
  <2> HAVE still(b, g, r) /\ heard(b, g, r) /\ beats(c)
  <2>1. /\ y.whole = IF whole(b, g) THEN 1 ELSE 0
        /\ \/ whole(b, g) /\ y.live = 1 /\ y.role = tx[c].role
           \/ /\ y.live = IF x.loss_t = LOSS_T THEN 0 ELSE x.live
              /\ y.role = IF x.loss_t = LOSS_T THEN 0 ELSE x.role
    BY <1>1, Heard, Zenon
  <2> HIDE DEF x, y
  <2> QED
    BY <2>0, <2>1, Zenon
<1>13. heard(b, g, r) /\ beats(c) /\ whole(b, g) => tx[c].role = 1
  <2> HAVE heard(b, g, r) /\ beats(c) /\ whole(b, g)
  <2>1. (x.beat = 0 \/ x.whole = 1) /\ beat_of(c) = x.beat
    BY Zenon DEF whole
  <2> HIDE DEF c, g, x, y, at
  <2>2. CASE x.beat = 0
    <3>1. at = 0 /\ engaged[c] = 1 /\ wire[c].decided = 1
      BY <1>8, <1>10, <2>1, <2>2, Zenon
    <3>2. tx[c].role # 0
      BY <1>2, <3>1
    <3> QED
      BY <1>4, <3>2, Zenon
  <2>3. CASE x.beat # 0
    <3>1. x.beat > 0
      BY <1>4, <2>3
    <3> QED
      BY <1>2, <1>8, <2>1, <2>3, <3>1, Zenon
  <2> QED
    BY <2>2, <2>3, Zenon
<1> HIDE DEF c, g, x, y, at
<1>14. BeatsEnd # 0 /\ \A n \in Nat : n + 1 # 0
  BY Params
<1>15. engaged'[c] = 1 /\ tx'[c].at = 0 /\ tx'[c].role = 0 => wire'[c].decided = 0
  <2> HAVE engaged'[c] = 1 /\ tx'[c].at = 0 /\ tx'[c].role = 0
  <2>1. engaged[c] = 0
    <3>1. c # r /\ at = FRAME_T - 1
      BY <1>6, <1>14, Zenon
    <3> QED
      BY <1>6, <3>1, Zenon
  <2>2. wire'[c] = AtTake(c)
    <3>1. engaged'[c] # 0
      OBVIOUS
    <3> QED
      BY <1>1, <2>1, <3>1, RoleStep, Zenon
  <2> QED
    BY <1>2, <2>2, TakeAuto, Zenon
<1>16. at >= BeatsEnd => y.beat = 0 \/ (y.beat = x.beat /\ x.beat # 0 /\ y.idle_t = x.idle_t + 1 /\ x.idle_t # GAP_MIN)
  <2> HAVE at >= BeatsEnd
  <2>1. ~beats(c)
    <3>1. ~(at < BeatsEnd)
      BY <1>6, Params
    <3> QED
      BY <1>8, <3>1, Zenon
  <2>2. CASE ~still(b, g, r)
    BY <1>9, <2>2, Zenon
  <2>3. CASE still(b, g, r)
    BY <1>11, <2>1, <2>3, Zenon DEF upto
  <2> QED
    BY <2>2, <2>3, Zenon
<1>17. tx'[c].at = 0 => y.beat = 0
  <2> HAVE tx'[c].at = 0
  <2>1. at = FRAME_T - 1
    BY <1>6, <1>14, Zenon
  <2>2. at >= BeatsEnd /\ \A n \in 0 .. GAP_MIN : n >= at - BeatsEnd => n = GAP_MIN
    BY <2>1, Params
  <2> QED
    BY <1>2, <1>4, <1>16, <2>2, Zenon
<1>18. tx'[c].at >= BeatsEnd => y.beat = 0 \/ y.idle_t >= tx'[c].at - BeatsEnd
  <2> HAVE tx'[c].at >= BeatsEnd
  <2>1. CASE c = r
    <3>1. \A n \in 0 .. GAP_MIN : n >= BeatsEnd - BeatsEnd
      BY Params
    <3> QED
      BY <1>5, <1>6, <2>1, <3>1, Zenon
  <2>2. CASE c # r
    <3>1. tx'[c].at = at + 1
      <4>1. ~(0 >= BeatsEnd)
        BY Params
      <4> QED
        BY <1>6, <2>2, <4>1, Zenon
    <3>2. CASE at >= BeatsEnd
      <4>1. \A n \in 0 .. GAP_MIN : n >= at - BeatsEnd => n + 1 >= (at + 1) - BeatsEnd
        BY <1>6, Params
      <4> QED
        BY <1>2, <1>4, <1>16, <3>1, <3>2, <4>1, Zenon
    <3>3. CASE at < BeatsEnd
      <4>1. \A n \in 0 .. GAP_MIN : n >= (at + 1) - BeatsEnd
        BY <1>6, <3>3, Params
      <4> QED
        BY <1>5, <3>1, <4>1, Zenon
    <3> QED
      BY <1>6, <3>2, <3>3, Params
  <2> QED
    BY <2>1, <2>2, Zenon
<1>19. y.beat > 0 /\ y.whole = 1 /\ tx'[c].at < BeatsEnd => tx'[c].role = 1
  <2> HAVE y.beat > 0 /\ y.whole = 1 /\ tx'[c].at < BeatsEnd
  <2>1. tx'[c].at = at + 1 /\ tx'[c].role = tx[c].role /\ at < BeatsEnd
    <3>1. ~(0 > 0) /\ ~(BeatsEnd < BeatsEnd) /\ \A n \in Nat : n + 1 < BeatsEnd => n < BeatsEnd
      BY Params
    <3> QED
      BY <1>6, <1>17, <3>1, Zenon
  <2>2. still(b, g, r)
    <3>1. ~(0 > 0)
      OBVIOUS
    <3> QED
      BY <1>9, <3>1, Zenon
  <2>3. CASE heard(b, g, r) /\ beats(c)
    BY <1>12, <1>13, <2>1, <2>2, <2>3, Zenon
  <2>4. CASE ~(heard(b, g, r) /\ beats(c))
    <3>1. ~(0 > 0)
      OBVIOUS
    <3> QED
      BY <1>2, <1>11, <2>1, <2>2, <2>4, <3>1, Zenon
  <2> QED
    BY <2>3, <2>4, Zenon
<1>20. y.live = 1 => y.role = 1
  <2> HAVE y.live = 1
  <2>1. still(b, g, r)
    <3>1. 0 # 1
      OBVIOUS
    <3> QED
      BY <1>9, <3>1, Zenon
  <2> QED
    BY <1>2, <1>11, <1>12, <1>13, <2>1, Zenon
<1> QED
  BY <1>3, <1>7, <1>15, <1>17, <1>18, <1>19, <1>20, Zenon

LEMMA FramesStep ==
  ASSUME TypeInv, FramesAreDebuggers, NEW r, NEW bad, Step(r, bad)
  PROVE  FramesAreDebuggers'
<1>1. world' = world
  BY Zenon DEF Step
<1> SUFFICES ASSUME NEW b \in Boards, world.wiring[far(b)] = "auto"
             PROVE  FirstBeat(b)'
  BY <1>1, Zenon DEF FramesAreDebuggers, far
<1> QED
  BY FirstBeatStep, Zenon DEF FramesAreDebuggers

\* A wrong wiring would be settled by a debuggee's frame on the wires where
\* only a debugger's are taken.
LEMMA FoundStep ==
  ASSUME TypeInv, FramesAreDebuggers, FoundIsRight, NEW r, NEW bad, Step(r, bad)
  PROVE  FoundIsRight'
<1>1. world' = world
  BY Zenon DEF Step
<1> SUFFICES ASSUME NEW b \in Boards, wire'[b].found = 1, world.wiring[far(b)] = "auto"
             PROVE  wire'[b].crossed = (IF world.ribbon = "crossover" THEN 1 ELSE 0)
  BY <1>1, Zenon DEF FoundIsRight, right, far
<1>2. ~hears(b, end_of("F"), 0)
  <2>1. FirstBeat(b)
    BY Zenon DEF FramesAreDebuggers
  <2>2. rx[b][end_of("F")].live = 1 => rx[b][end_of("F")].role = 1
    BY <2>1, Zenon DEF FirstBeat
  <2>3. 0 # 1
    OBVIOUS
  <2> QED
    BY <2>2, <2>3, Zenon DEF hears
<1>3. world.ribbon \in Ways /\ wire[b].crossed \in Bit
  BY RibbonType, Zenon DEF TypeInv, Wirings
<1>4. wire[b].found = 1 => wire[b].crossed = (IF world.ribbon = "crossover" THEN 1 ELSE 0)
  BY Zenon DEF FoundIsRight, right
<1>5. Unwired.found # 1 /\ AtTake(b).found # 1 /\ \A c : Settled(c).crossed = c
  BY DEF Unwired, AtTake, Settled
<1>6. \/ wire'[b] = wire[b]
      \/ wire[b].found # 1 /\ (wire'[b] = Listening(b) \/ wire'[b] = Assuming(b))
  <2>1. wire'[b] # Unwired /\ wire'[b] # AtTake(b)
    BY <1>5, Zenon
  <2> QED
    BY <2>1, RoleStep, Zenon
<1>7. ASSUME wire'[b] = Listening(b), wire[b].found # 1
      PROVE  wire'[b].crossed = (IF world.ribbon = "crossover" THEN 1 ELSE 0)
  <2>1. \/ hears(b, "R", 0) /\ wire'[b].crossed = 0
        \/ hears(b, "F", 0) /\ wire'[b].crossed = 1
    <3>1. ~(wire'[b].found = wire[b].found) /\ ~(wire'[b].found = 0)
      BY <1>7
    <3> QED
      <4>1. Settled(0).crossed = 0 /\ Settled(1).crossed = 1
        BY <1>5, Zenon
      <4>2. \/ hears(b, "R", 0) /\ wire'[b] = Settled(0)
            \/ hears(b, "F", 0) /\ wire'[b] = Settled(1)
        BY <1>7, <3>1, ListeningStep, Zenon
      <4> QED
        BY <4>1, <4>2, Zenon
  <2> QED
    BY <1>2, <1>3, <2>1, Zenon DEF end_of, Ways
<1>8. ASSUME wire'[b] = Assuming(b), wire[b].found # 1
      PROVE  wire'[b].crossed = (IF world.ribbon = "crossover" THEN 1 ELSE 0)
  <2>1. lsn_idle(b) /\ wire'[b].crossed = wire[b].crossed
    <3>1. ~(wire'[b].found = wire[b].found)
      BY <1>8, Zenon
    <3> QED
      <4>1. lsn_idle(b) /\ wire'[b] = Settled(wire[b].crossed)
        BY <1>8, <3>1, AssumingStep, Zenon
      <4> QED
        BY <1>5, <4>1, Zenon
  <2> QED
    BY <1>2, <1>3, <2>1, Zenon DEF lsn_idle, listens, end_of, Ways
<1> QED
  BY <1>4, <1>6, <1>7, <1>8, Zenon

-----------------------------------------------------------------------------
\* Two boards out of reset have heard nothing and hold no role.
LEMMA CableInit ==
  ASSUME Init
  PROVE  CableInv
<1>1. /\ world \in Worlds /\ wiring = world.wiring /\ connect = world.connect
      /\ plugged = 1 /\ both = 0
      /\ \A b \in Boards : engaged[b] = 0 /\ wire[b] = Unwired
      /\ \A b \in Boards, g \in Groups : rx[b][g] = Unheard
  BY Zenon DEF Init
<1>2. \A b \in Boards, g \in Groups : rx[b][g].live = 0 /\ rx[b][g].beat = 0 /\ rx[b][g].act_t = ACT_T
  <2>1. Unheard.live = 0 /\ Unheard.beat = 0 /\ Unheard.act_t = ACT_T
    BY Zenon DEF Unheard
  <2> QED
    BY <1>1, <2>1, Zenon
<1>3. \A b \in Boards : wire[b].found = 0
  <2>1. Unwired.found = 0
    BY Zenon DEF Unwired
  <2> QED
    BY <1>1, <2>1, Zenon
<1>4. TypeInv
  <2>1. Unheard \in Receivers
    BY Params DEF Unheard, Receivers
  <2>2. Unwired \in Wirings
    BY Zenon DEF Unwired, Wirings
  <2>3. tx \in [Boards -> Senders]
    BY DEF Init, Senders
  <2>4. /\ wire = [b \in Boards |-> Unwired] /\ engaged = [b \in Boards |-> 0]
        /\ rx = [b \in Boards |-> [g \in Groups |-> Unheard]]
    BY Zenon DEF Init
  <2>5. wire \in [Boards -> Wirings] /\ engaged \in [Boards -> Bit]
    BY <2>2, <2>4, Zenon
  <2>6. rx \in [Boards -> [Groups -> Receivers]]
    BY <2>1, <2>4, Zenon
  <2>7. wiring \in [Boards -> Ways \cup {"auto"}] /\ connect \in [Boards -> Bit]
    BY <1>1, DebugCableAssumption, Zenon
  <2> QED
    BY <1>1, <2>3, <2>5, <2>6, <2>7, Zenon DEF TypeInv
<1>5. OneHears
  BY <1>2 DEF OneHears
<1>6. OneDebugger
  BY <1>1 DEF OneDebugger, Boards
<1>7. AsSet
  <2>1. \A b \in Boards : rx[far(b)]["F"].live = 0
    BY <1>2, FarBoard, Zenon DEF Groups
  <2> QED
    BY <1>1, <2>1 DEF AsSet
<1>8. ProbeIsQuiet /\ WrongIsGuarded
  BY <1>1 DEF ProbeIsQuiet, WrongIsGuarded
<1>9. FramesAreDebuggers
  <2> SUFFICES ASSUME NEW b \in Boards, world.wiring[far(b)] = "auto"
               PROVE  FirstBeat(b)
    BY Zenon DEF FramesAreDebuggers
  <2>1. far(b) \in Boards /\ end_of("F") \in Groups
    BY FarBoard, EndOf, Zenon DEF Groups
  <2>2. rx[b][end_of("F")].live = 0 /\ rx[b][end_of("F")].beat = 0 /\ engaged[far(b)] = 0
    BY <1>1, <1>2, <2>1, Zenon
  <2>3. 0 # 1 /\ ~(0 > 0)
    OBVIOUS
  <2> QED
    BY <1>1, <2>2, <2>3, Zenon DEF FirstBeat
<1>10. FoundIsRight
  BY <1>3 DEF FoundIsRight
<1> QED
  BY <1>4, <1>5, <1>6, <1>7, <1>8, <1>9, <1>10, Zenon DEF CableInv

LEMMA CableStep ==
  ASSUME CableInv, [Next]_vars
  PROVE  CableInv'
<1>1. CASE Next
  <2>1. PICK r, bad : Step(r, bad)
    BY <1>1, TickIsStep, Zenon DEF CableInv
  <2>2. /\ TypeInv /\ OneHears /\ OneDebugger /\ AsSet
        /\ ProbeIsQuiet /\ WrongIsGuarded
        /\ FramesAreDebuggers /\ FoundIsRight
    BY Zenon DEF CableInv
  <2>3. TypeInv' /\ OneHears' /\ OneDebugger' /\ AsSet'
    BY <2>1, <2>2, TypeStep, OneHearsStep, OneDebuggerStep, AsSetStep, Zenon
  <2>4. ProbeIsQuiet' /\ WrongIsGuarded'
    BY <2>1, <2>2, ProbeIsQuietStep, WrongIsGuardedStep, Zenon
  <2>5. FramesAreDebuggers' /\ FoundIsRight'
    BY <2>1, <2>2, FramesStep, FoundStep, Zenon
  <2> QED
    BY <2>3, <2>4, <2>5, Zenon DEF CableInv
<1>2. CASE UNCHANGED vars
  <2>1. /\ world' = world /\ plugged' = plugged /\ connect' = connect /\ wiring' = wiring
        /\ engaged' = engaged /\ both' = both /\ wire' = wire /\ tx' = tx /\ rx' = rx
    BY <1>2, Zenon DEF vars
  <2>2. TypeInv' /\ OneHears' /\ OneDebugger' /\ AsSet'
    BY <2>1, Zenon DEF CableInv, TypeInv, OneHears, OneDebugger, AsSet, end_of, far
  <2>3. ProbeIsQuiet'
    BY <2>1, Zenon DEF CableInv, ProbeIsQuiet, right, far
  <2>4. WrongIsGuarded'
    BY <2>1, Zenon DEF CableInv, WrongIsGuarded, Guarded, SetAgainst, Since, since, right, hears, far, end_of
  <2>5. FramesAreDebuggers' /\ FoundIsRight'
    BY <2>1, Zenon DEF CableInv, FramesAreDebuggers, FirstBeat, FoundIsRight, right, far, end_of
  <2> QED
    BY <2>2, <2>3, <2>4, <2>5, Zenon DEF CableInv
<1> QED
  BY <1>1, <1>2, Zenon

\* The registers of two connectors keep to this for every length of a frame
\* and every number of events.
THEOREM CableInvariant == Spec => []CableInv
<1>1. Init => CableInv
  BY CableInit, Zenon
<1>2. CableInv /\ [Next]_vars => CableInv'
  BY CableStep, Zenon
<1> QED
  BY <1>1, <1>2, PTL DEF Spec

\* A debuggee drives while it hears a debugger, and the debugger that has the
\* wiring wrong has heard it.
LEMMA OneDrives ==
  ASSUME CableInv, both = 0, plugged = 1, ~SetAgainst, NEW b \in Boards, NEW g \in Groups,
         engaged[b] = 1, drives(b, g), drives(far(b), end_of(g))
  PROVE  FALSE
<1>1. far(b) \in Boards /\ end_of(g) \in Groups /\ end_of(end_of(g)) = g
  BY FarBoard, EndOf, Zenon
<1>2. TypeInv /\ OneDebugger /\ WrongIsGuarded
  BY Zenon DEF CableInv
<1>3. engaged[far(b)] = 0
  BY <1>1, <1>2, FarBoard DEF OneDebugger, TypeInv
<1>4. end_of(g) = "R" /\ hears(far(b), "F", 1)
  <2>1. 0 # 1
    OBVIOUS
  <2> QED
    BY <1>3, <2>1, Zenon DEF drives, drive, want
<1>5. g = end_of("R")
  BY <1>1, <1>4, Zenon
<1>6. ~right(b)
  BY <1>2, <1>5, DriveRight, Zenon DEF drives
<1>7. Guarded(b)
  BY <1>2, <1>4, <1>6, Zenon DEF WrongIsGuarded
<1>8. wire[b].decided = 1 /\ rx[b][end_of("R")].act_t = ACT_T
  BY <1>5, Zenon DEF drives, drive, want, act
<1>9. ACT_T < since(far(b))
  BY <1>7, <1>8 DEF Guarded
<1>10. tx[far(b)].at \in 0 .. FRAME_T - 1
  BY <1>1, <1>2, Zenon DEF TypeInv, Senders
<1>11. since(far(b)) \in 1 .. FRAME_T
  BY <1>10, SinceRange, Zenon DEF since
<1> QED
  BY <1>9, <1>11, Params

LEMMA CableHolds ==
  ASSUME CableInv
  PROVE  NoContention
<1> SUFFICES ASSUME both = 0, plugged = 1, ~SetAgainst, NEW g \in Groups, drives(0, g), drives(1, end_of(g))
             PROVE  FALSE
  BY Zenon DEF NoContention
<1>1. 0 \in Boards /\ 1 \in Boards /\ far(0) = 1 /\ far(1) = 0
  BY DEF Boards, far
<1>2. end_of(g) \in Groups /\ end_of(end_of(g)) = g
  BY EndOf, Zenon
<1>3. engaged[0] # 1
  BY <1>1, OneDrives, Zenon
<1>4. engaged[1] # 1
  BY <1>1, <1>2, OneDrives, Zenon
<1>5. g = "R" /\ end_of(g) = "R" /\ hears(0, "F", 1) /\ hears(1, "F", 1)
  BY <1>3, <1>4, Zenon DEF drives, drive, want
<1>6. end_of("F") = "F" /\ "F" \in Groups
  BY <1>5, Zenon DEF end_of, Groups
<1> QED
  BY <1>1, <1>5, <1>6, Zenon DEF CableInv, OneHears, hears

\* Nobody drives four wires that the other board drives, for a frame of any
\* length: a debugger that probes the wrong way has heard the answer first
\* (cadr_dbg_cable.sv: act, the probe and the quiet interval of a flip).
THEOREM NobodyContends == Spec => []NoContention
BY CableInvariant, CableHolds, PTL

\* A wiring that is found is the ribbon's, for a frame of any length
\* (cadr_dbg_cable.sv: the wiring settles on an idle frame only, and a debugger
\* that listened before it drove sends none).
THEOREM FoundWiringIsRight == Spec => []FoundIsRight
<1>1. CableInv => FoundIsRight
  BY Zenon DEF CableInv
<1> QED
  BY <1>1, CableInvariant, PTL
=============================================================================
