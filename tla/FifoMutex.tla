----------------------------- MODULE FifoMutex -----------------------------
(***************************************************************************)
(* What the connection gate promises: a lock whose callers enter one at a  *)
(* time, in the order in which they asked for it.                          *)
(***************************************************************************)
EXTENDS Naturals

CONSTANT Callers

VARIABLES
  phase,    \* where each call stands
  ticket,   \* when it asked: the first call has ticket 1; 0 before it asks
  issued    \* the number of tickets given

Phases == {"idle", "waiting", "inside", "left"}

Init ==
  /\ phase = [c \in Callers |-> "idle"]
  /\ ticket = [c \in Callers |-> 0]
  /\ issued = 0

Ask(c) ==
  /\ phase[c] = "idle"
  /\ phase' = [phase EXCEPT ![c] = "waiting"]
  /\ ticket' = [ticket EXCEPT ![c] = issued + 1]
  /\ issued' = issued + 1

\* Nobody who asked earlier is still waiting or inside, and nobody is inside.
Enter(c) ==
  /\ phase[c] = "waiting"
  /\ \A d \in Callers \ {c} :
       /\ phase[d] # "inside"
       /\ phase[d] = "waiting" => ticket[c] < ticket[d]
  /\ phase' = [phase EXCEPT ![c] = "inside"]
  /\ UNCHANGED <<ticket, issued>>

Depart(c) ==
  /\ phase[c] = "inside"
  /\ phase' = [phase EXCEPT ![c] = "left"]
  /\ UNCHANGED <<ticket, issued>>

Next == \E c \in Callers : Ask(c) \/ Enter(c) \/ Depart(c)

Spec == Init /\ [][Next]_<<phase, ticket, issued>>
=============================================================================
