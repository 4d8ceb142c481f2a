--------------------------- MODULE MemoryService ----------------------------
(***************************************************************************)
(* What main memory promises its masters, whatever is between them and the *)
(* port: a cycle reaches the memory at most once, unless the port is reset *)
(* under it, one cycle at a time and none ahead of what a cycle that was   *)
(* given up has left behind; and it is answered only after that, with its  *)
(* own word.  A master may give its cycle up at any time.                  *)
(***************************************************************************)
EXTENDS Integers

CONSTANT Masters

VARIABLES
  up,       \* the port takes accesses
  phase,    \* of each master: "idle", "asking", "answered"
  made,     \* how often its cycle has reached the memory
  word,     \* the answer's: the master whose it is, or "none"
  stray     \* a cycle given up has still to reach the memory

vars == <<up, phase, made, word, stray>>

Init ==
  /\ up = TRUE /\ stray = FALSE
  /\ phase = [m \in Masters |-> "idle"]
  /\ made = [m \in Masters |-> 0]
  /\ word = [m \in Masters |-> "none"]

Becomes(m, p, n, w) == phase'[m] = p /\ made'[m] = n /\ word'[m] = w

Ask(m) == phase[m] = "idle" /\ Becomes(m, "asking", 0, "none")

Access(m) ==
  /\ phase[m] = "asking" /\ made[m] = 0 /\ up /\ ~stray
  /\ Becomes(m, "asking", 1, "none")

\* The port's reset takes the access with it.
Lose(m) == phase[m] = "asking" /\ made[m] = 1 /\ ~up /\ Becomes(m, "asking", 0, "none")

Answer(m) == phase[m] = "asking" /\ made[m] = 1 /\ Becomes(m, "answered", 1, m)

\* The end of the cycle, answered or not.
Leave(m) == phase[m] # "idle" /\ Becomes(m, "idle", 0, "none")

Keep(m) == Becomes(m, phase[m], made[m], word[m])

\* A tick: each master takes a step of its own or none, one reaches the
\* memory at most, and what strays has been given up in it or before.
Next ==
  /\ \A m \in Masters : Ask(m) \/ Access(m) \/ Lose(m) \/ Answer(m) \/ Leave(m) \/ Keep(m)
  /\ \A m, n \in Masters : made'[m] > made[m] /\ made'[n] > made[n] => m = n
  /\ stray' /\ ~stray => \E m \in Masters : phase[m] = "asking" /\ made[m] = 0 /\ phase'[m] = "idle"

Spec == Init /\ [][Next]_vars
=============================================================================
