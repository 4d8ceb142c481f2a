----------------------------- MODULE DebugCable -----------------------------
(***************************************************************************)
(* MIT's debug cable on one Pmod connector, and the two boards at its ends *)
(* (cadr_dbg_cable.sv over cadr_dbg_tx.sv and cadr_dbg_rx.sv).  A board     *)
(* that is told takes the debugger's role, looks for the way the ribbon was *)
(* made, drives one group of four pins and listens to the other; a board    *)
(* that hears a debugger answers it.  Nobody may drive a group somebody     *)
(* else is driving, and what says so is a receiver, some ticks late.        *)
(*                                                                         *)
(* One step is one tick of both boards.  A sender is the place it has       *)
(* reached in its frame and the role the frame carries, a receiver what it  *)
(* counts: the beats of a frame, the ticks since a transition, the ticks    *)
(* since a good frame.  A frame is taken if every beat of it came in its    *)
(* place, which is what marker, parity and gap are for.                     *)
(***************************************************************************)
EXTENDS Naturals

CONSTANTS
    BEATS,       \* beats of a frame
    BEAT_T,      \* ticks of a beat
    GAP_T,       \* ticks of silence between frames
    GAP_MIN,     \* the silence a receiver takes for one
    LOSS_T,      \* ticks without a good frame before the far end is gone
    EventBound,  \* what is told, reset, pulled or refused, in a behaviour
    Worlds       \* [ribbon, wiring, connect]: the cable, and the consoles at first

FRAME_T    == BEATS * BEAT_T + GAP_T
ACT_T      == 2 * FRAME_T
DETECT_T   == FRAME_T + LOSS_T
PROBE_T    == ACT_T + 6 * FRAME_T
RELISTEN_T == ACT_T + FRAME_T

Boards == {0, 1}
Groups == {"F", "R"}             \* the low four pins and the high four
Ways   == {"straight", "crossover"}

ASSUME DebugCableAssumption ==
    /\ BEATS \in Nat \ {0} /\ BEAT_T \in Nat \ {0}
    /\ GAP_MIN \in Nat /\ BEAT_T <= GAP_MIN + 1
    /\ GAP_T \in Nat /\ GAP_MIN < GAP_T
    /\ LOSS_T \in Nat \ {0}
    /\ \A w \in Worlds : /\ w.ribbon \in Ways
                         /\ w.wiring \in [Boards -> Ways \cup {"auto"}]
                         /\ w.connect \in [Boards -> {0, 1}]

VARIABLES
    world,       \* the cable, and what the consoles were set to at first
    plugged, events,
    connect,     \* what each console was told
    wiring,      \* and what it was set to, read at the take
    engaged,     \* who has the role
    both,        \* history: two boards have had it at once
    wire,        \* [crossed, decided, found, ph_t]: the wiring as each sees it
    tx,          \* [at, role]: each sender
    rx           \* [beat, whole, idle_t, act_t, loss_t, live, role]: by board and group

vars == <<world, plugged, events, connect, wiring, engaged, both, wire, tx, rx>>

-----------------------------------------------------------------------------
(* What a connector works out of its registers, within the tick.  r is the  *)
(* board that is held in reset in it, if any.                               *)

far(b) == 1 - b

\* Where the far end of a group's four wires is.
end_of(g) == IF world.ribbon = "straight" THEN g ELSE IF g = "F" THEN "R" ELSE "F"

\* Mutant: the role in the frame is not read.
hears_some(b, g, role) == rx[b][g].live = 1

hears(b, g, role) == rx[b][g].live = 1 /\ rx[b][g].role = role
foreign(b) == \E g \in Groups : hears(b, g, 1)
act(b, g)  == rx[b][g].act_t # ACT_T

\* The group a debugger listens to.
listens(b)  == IF wire[b].crossed = 1 THEN "F" ELSE "R"
lsn_idle(b) == hears(b, listens(b), 0)
out_live(b) == engaged[b] = 1 /\ wire[b].decided = 1 /\ lsn_idle(b)

\* Mutant: a debuggee answers whatever it hears.
want_any(b, g) ==
    IF engaged[b] = 1 THEN wire[b].decided = 1 /\ listens(b) # g
    ELSE g = "R" /\ rx[b]["F"].live = 1

\* A debugger wants the group it does not listen to, a debuggee the high four
\* and only while it hears a debugger on the low four.
want(b, g) ==
    IF engaged[b] = 1 THEN wire[b].decided = 1 /\ listens(b) # g
    ELSE g = "R" /\ hears(b, "F", 1)

drive(b, g, r) == want(b, g) /\ ~act(b, g) /\ b # r

take(b) == connect[b] = 1 /\ engaged[b] = 0 /\ ~foreign(b)
drop(b) == connect[b] = 0 /\ engaged[b] = 1

-----------------------------------------------------------------------------
(* The registers, at the tick's edge.                                       *)

Unheard == [beat |-> 0, whole |-> 0, idle_t |-> GAP_MIN, act_t |-> ACT_T,
            loss_t |-> LOSS_T, live |-> 0, role |-> 0]
Unwired == [crossed |-> 0, decided |-> 0, found |-> 0, ph_t |-> 0]

upto(n, most) == IF n = most THEN most ELSE n + 1

\* The beat a sender puts out in this tick, if it does.
beats(b)   == tx[b].at % BEAT_T = 0 /\ tx[b].at \div BEAT_T < BEATS
beat_of(b) == tx[b].at \div BEAT_T

\* One sender.  The role is taken once, at the first beat.
Send(b, r) ==
    LET at == (tx[b].at + 1) % FRAME_T
    IN IF b = r THEN [at |-> BEATS * BEAT_T, role |-> 0]
       ELSE [at |-> at, role |-> IF at = 0 THEN engaged[b] ELSE tx[b].role]

\* One receiver, while its own board does not drive the group.  heard: the far
\* board drives it, bad: the frame that ends here is refused.
Receive(b, g, heard, bad) ==
    LET x        == rx[b][g]
        change   == heard /\ beats(far(b))
        complete == change /\ x.beat = BEATS - 1
        whole    == (x.beat = 0 \/ x.whole = 1) /\ beat_of(far(b)) = x.beat
        good     == complete /\ whole /\ ~bad
    IN [beat   |-> IF complete THEN 0
                   ELSE IF change THEN x.beat + 1
                   ELSE IF x.idle_t = GAP_MIN THEN 0 ELSE x.beat,
        whole  |-> IF change THEN (IF whole THEN 1 ELSE 0) ELSE x.whole,
        idle_t |-> IF change THEN 0 ELSE upto(x.idle_t, GAP_MIN),
        act_t  |-> IF change THEN 0 ELSE upto(x.act_t, ACT_T),
        loss_t |-> IF good THEN 0 ELSE upto(x.loss_t, LOSS_T),
        live   |-> IF good THEN 1 ELSE IF x.loss_t = LOSS_T THEN 0 ELSE x.live,
        role   |-> IF good THEN tx[far(b)].role
                   ELSE IF x.loss_t = LOSS_T THEN 0 ELSE x.role]

Settled(c) == [crossed |-> c, decided |-> 1, found |-> 1, ph_t |-> 0]

\* A forced setting drives at once, auto listens first.
AtTake(b) ==
    [crossed |-> IF wiring[b] = "crossover" THEN 1 ELSE 0,
     decided |-> IF wiring[b] = "auto" THEN 0 ELSE 1,
     found   |-> 0,
     ph_t    |-> IF wiring[b] = "auto" THEN DETECT_T ELSE 0]

\* Listening, and driving nothing: a debuggee heard says how the ribbon was
\* made, and silence leaves the assumption that stands.
Listening(b) ==
    LET w == wire[b]
    IN IF hears(b, "R", 0) THEN Settled(0)
       ELSE IF hears(b, "F", 0) THEN Settled(1)
       ELSE IF w.ph_t # 0 THEN [w EXCEPT !.ph_t = @ - 1]
       ELSE [w EXCEPT !.decided = 1, !.found = 0, !.ph_t = PROBE_T]

\* Mutant: the flip drives at once, without the quiet interval.
Assuming_loud(b) ==
    LET w == wire[b]
    IN IF lsn_idle(b) THEN Settled(w.crossed)
       ELSE IF w.ph_t # 0 THEN [w EXCEPT !.ph_t = @ - 1]
       ELSE [w EXCEPT !.crossed = 1 - @, !.ph_t = PROBE_T]

\* Mutant: the assumption is never given up.
Assuming_forever(b) ==
    IF lsn_idle(b) THEN Settled(wire[b].crossed) ELSE wire[b]

\* Assuming, and driving: an answer settles it, and a probe without one flips
\* the assumption and goes back to listening.
Assuming(b) ==
    LET w == wire[b]
    IN IF lsn_idle(b) THEN Settled(w.crossed)
       ELSE IF w.ph_t # 0 THEN [w EXCEPT !.ph_t = @ - 1]
       ELSE [w EXCEPT !.crossed = 1 - @, !.decided = 0, !.ph_t = RELISTEN_T]

\* One board's role and wiring.
Role(b, r) ==
    IF b = r THEN <<0, Unwired>>
    ELSE IF take(b) THEN <<1, AtTake(b)>>
    ELSE IF drop(b) THEN <<0, Unwired>>
    ELSE <<engaged[b],
           IF engaged[b] = 0 \/ wiring[b] # "auto" \/ wire[b].found = 1 THEN wire[b]
           ELSE IF wire[b].decided = 0 THEN Listening(b) ELSE Assuming(b)>>

\* Every register of both boards.  A receiver is held in reset while its own
\* board drives the group.  r: the board in reset, bad: the receivers
\* that refuse the frame that ends in this tick.
Clock(r, bad) ==
    LET d    == [b \in Boards |-> {g \in Groups : drive(b, g, r)}]
        role == [b \in Boards |-> Role(b, r)]
    IN /\ tx' = [b \in Boards |-> Send(b, r)]
       /\ rx' = [b \in Boards |-> [g \in Groups |->
                    IF b = r \/ g \in d[b] THEN Unheard
                    ELSE Receive(b, g, plugged = 1 /\ end_of(g) \in d[far(b)],
                                 <<b, g>> \in bad)]]
       /\ engaged' = [b \in Boards |-> role[b][1]]
       /\ both' = IF \A b \in Boards : engaged'[b] = 1 THEN 1 ELSE both
       /\ wire' = [b \in Boards |-> role[b][2]]

-----------------------------------------------------------------------------
(* What happens in a tick: nothing, or one of these.                        *)

NoBoard == 2

Tick ==
    /\ Clock(NoBoard, {})
    /\ UNCHANGED <<world, plugged, events, connect, wiring>>

Event == events < EventBound /\ events' = events + 1

\* A console is written.  A take or a drop that waits for a request to end is
\* the write that much later.
Tell(b) ==
    /\ Event
    /\ connect' = [connect EXCEPT ![b] = 1 - @]
    /\ Clock(NoBoard, {})
    /\ UNCHANGED <<world, plugged, wiring>>

\* A board is reset: it drives nothing in that tick, and its console forgets.
Reset(b) ==
    /\ Event
    /\ connect' = [connect EXCEPT ![b] = 0]
    /\ wiring' = [wiring EXCEPT ![b] = "auto"]
    /\ Clock(b, {})
    /\ UNCHANGED <<world, plugged>>

\* The frame that ends at a receiver in this tick is damaged.
Noise(b, g) ==
    /\ Event
    /\ rx[b][g].beat = BEATS - 1 /\ beats(far(b)) /\ rx[b][g].whole = 1
    /\ Clock(NoBoard, {<<b, g>>})
    /\ UNCHANGED <<world, plugged, connect, wiring>>

\* The ribbon is pulled, or put back: a hand takes longer than a loss.
Hand ==
    /\ Event
    /\ plugged = 0 => \A b \in Boards, g \in Groups : rx[b][g] = Unheard
    /\ plugged' = 1 - plugged
    /\ Clock(NoBoard, {})
    /\ UNCHANGED <<world, connect, wiring>>

\* Two boards out of reset, in the tick a console is first written.
Init ==
    /\ world \in Worlds /\ wiring = world.wiring /\ connect = world.connect
    /\ plugged = 1 /\ events = 0
    /\ engaged = [b \in Boards |-> 0] /\ both = 0
    /\ wire = [b \in Boards |-> Unwired]
    /\ \E at \in [Boards -> 0 .. FRAME_T - 1] :
          tx = [b \in Boards |-> [at |-> at[b], role |-> 0]]
    /\ rx = [b \in Boards |-> [g \in Groups |-> Unheard]]

Next ==
    \/ Tick
    \/ \E b \in Boards : Tell(b) \/ Reset(b) \/ \E g \in Groups : Noise(b, g)
    \/ Hand

\* The clock runs: every step is a tick of it, and moves both senders.
Spec == Init /\ [][Next]_vars /\ []<><<tx' # tx>>_tx

-----------------------------------------------------------------------------
drives(b, g) == drive(b, g, NoBoard)

\* A board was set to straight, and the ribbon is crossed over: as a debugger
\* it drives at once the four wires that a debuggee answers on.
SetAgainst ==
    world.ribbon = "crossover" /\ \E b \in Boards : world.wiring[b] = "straight"

\* No four wires are driven from both ends, on either ribbon and through
\* resets and pulled cables, unless two boards have been debuggers at once or
\* a board was set against a crossed ribbon (cadr_dbg_cable.sv: a group's own
\* receiver, two frames of silence and the quiet interval of a flip are what
\* says a group is free).
NoContention ==
    both = 0 /\ plugged = 1 /\ ~SetAgainst
        => \A g \in Groups : ~(drives(0, g) /\ drives(1, end_of(g)))

right(b) == wire[b].crossed = (IF world.ribbon = "crossover" THEN 1 ELSE 0)

\* The wiring that the console reads as found is the ribbon's own, if the far
\* board looks before it drives: what a receiver hears is never this board's
\* own frames, nor a debugger's taken for a debuggee's.
FoundIsRight ==
    \A b \in Boards :
        wire[b].found = 1 /\ world.wiring[far(b)] = "auto" => right(b)

\* A board that could have a debugger's cable: the far board is none, the
\* ribbon is in, and nobody has set this board to the other kind.
Could(b) ==
    /\ engaged[b] = 1 /\ engaged[far(b)] = 0 /\ plugged = 1
    /\ wiring[b] \in {"auto", world.ribbon}
    /\ wire[b].found = 1 => right(b)

\* A debugger whose cable can come up finds the wiring and hears its debuggee,
\* whatever the two boards did before: no probe flips away from an answer for
\* ever, and no group looks driven for ever.
ComesUp == []<>(\A b \in Boards : Could(b) => out_live(b))

\* Once nobody is a debugger nobody drives: two idle boards do not hold each
\* other up with their own answers.
GoesQuiet ==
    []<>((\A b \in Boards : engaged[b] = 0) =>
            \A b \in Boards, g \in Groups : ~drives(b, g))
=============================================================================
