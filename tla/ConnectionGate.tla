--------------------------- MODULE ConnectionGate ---------------------------
(***************************************************************************)
(* The gate in front of a database connection: a chain of promises.  Every *)
(* call of run() replaces the tail by a promise of its own and awaits the  *)
(* one it replaced; it resolves its promise when its work has settled,     *)
(* whether the work returned or threw.                                     *)
(*                                                                         *)
(* Two steps of the code are apart here because other callbacks run        *)
(* between them: the await of the previous promise, and the await of the   *)
(* work itself.  The lines before the first await run without interruption. *)
(***************************************************************************)
EXTENDS Naturals

CONSTANTS
  Callers,    \* the calls of run(), each a call of its own
  Resolved    \* Promise.resolve(), the tail of a new gate

ASSUME GateAssumption == Resolved \notin Callers

VARIABLES
  tail,       \* whose promise is the tail
  previous,   \* the promise each call awaits
  settled,    \* the calls that have resolved their promise
  stage,      \* where each call stands
  order,      \* history: when each call came, from 1; 0 before it comes
  arrived     \* history: the number of calls that came

gateVars == <<tail, previous, settled, stage, order, arrived>>

GateInit ==
  /\ tail = Resolved
  /\ previous = [c \in Callers |-> Resolved]
  /\ settled = {}
  /\ stage = [c \in Callers |-> "idle"]
  /\ order = [c \in Callers |-> 0]
  /\ arrived = 0

\* Mutant: a call that finds the gate free does not take its place in the
\* chain, so the next one does not wait for it.
MutLateTail(c) ==
  /\ stage[c] = "idle"
  /\ previous' = [previous EXCEPT ![c] = tail]
  /\ tail' = IF tail \in settled \cup {Resolved} THEN tail ELSE c
  /\ stage' = [stage EXCEPT ![c] = "waiting"]
  /\ order' = [order EXCEPT ![c] = arrived + 1]
  /\ arrived' = arrived + 1
  /\ UNCHANGED settled

\* run(): the tail is read and replaced in one go.
Run(c) ==
  /\ stage[c] = "idle"
  /\ previous' = [previous EXCEPT ![c] = tail]
  /\ tail' = c
  /\ stage' = [stage EXCEPT ![c] = "waiting"]
  /\ order' = [order EXCEPT ![c] = arrived + 1]
  /\ arrived' = arrived + 1
  /\ UNCHANGED settled

\* The awaited promise is resolved: the continuation starts the work.
Start(c) ==
  /\ stage[c] = "waiting"
  /\ previous[c] \in settled \cup {Resolved}
  /\ stage' = [stage EXCEPT ![c] = "working"]
  /\ UNCHANGED <<tail, previous, settled, order, arrived>>

Settle(c, how) ==
  /\ stage[c] = "working"
  /\ stage' = [stage EXCEPT ![c] = how]
  /\ settled' = settled \cup {c}
  /\ UNCHANGED <<tail, previous, order, arrived>>

Return(c) == Settle(c, "returned")

\* Mutant: release() is not in a finally block.
MutThrowKeepsGate(c) ==
  /\ stage[c] = "working"
  /\ stage' = [stage EXCEPT ![c] = "threw"]
  /\ UNCHANGED <<tail, previous, settled, order, arrived>>

Throw(c) == Settle(c, "threw")

Over == {"returned", "threw"}

\* No further call comes.
AllServed == (\A c \in Callers : stage[c] \in Over) /\ UNCHANGED gateVars

GateNext ==
  \/ \E c \in Callers : Run(c) \/ Start(c) \/ Return(c) \/ Throw(c)
  \/ AllServed

\* The event loop runs every continuation, and a driver call always settles.
GateFairness == \A c \in Callers : WF_gateVars(Start(c)) /\ WF_gateVars(Return(c) \/ Throw(c))

GateSpec == GateInit /\ [][GateNext]_gateVars /\ GateFairness

-----------------------------------------------------------------------------
(* Properties *)

\* Every variable has its type.
TypeOK ==
  /\ tail \in Callers \cup {Resolved}
  /\ previous \in [Callers -> Callers \cup {Resolved}]
  /\ settled \subseteq Callers
  /\ stage \in [Callers -> {"idle", "waiting", "working"} \cup Over]
  /\ order \in [Callers -> Nat] /\ arrived \in Nat

\* The chain links every call to the one that came just before it, and a call
\* has begun to work only if all calls that came before it have settled: two
\* units never have the connection at once.
Came(c) == stage[c] # "idle"

ChainInOrder ==
  /\ settled = {c \in Callers : stage[c] \in Over}
  /\ tail = Resolved <=> arrived = 0
  /\ tail # Resolved => Came(tail) /\ order[tail] = arrived
  /\ \A c \in Callers :
       /\ order[c] <= arrived
       /\ Came(c) <=> order[c] # 0
       /\ Came(c) => IF previous[c] = Resolved
                       THEN order[c] = 1
                       ELSE Came(previous[c]) /\ order[c] = order[previous[c]] + 1
       /\ \A d \in Callers \ {c} : Came(c) => order[d] # order[c]
       /\ \A d \in Callers :
            Came(d) /\ order[d] < order[c] /\ stage[c] # "waiting" => stage[d] \in Over

\* The chain of promises behaves as a lock granted in the order of arrival:
\* nobody overtakes, nobody enters while another unit is open, a call that
\* threw lets the next one in like a call that returned.
PhaseOf(step) ==
  IF step \in Over THEN "left" ELSE IF step = "working" THEN "inside" ELSE step

Mutex == INSTANCE FifoMutex WITH
  phase  <- [c \in Callers |-> PhaseOf(stage[c])],
  ticket <- order,
  issued <- arrived

ImplementsFifoMutex == Mutex!Spec

\* Every call that came is served, whatever the calls before it did: no error
\* of a unit can leave the connection closed to the units behind it.  A call
\* comes once, so this says that there comes a time when none is left.
Unserved(c) == stage[c] \in {"waiting", "working"}

EveryCallServed == (\E c \in Callers : Unserved(c)) ~> (\A c \in Callers : ~Unserved(c))
=============================================================================
