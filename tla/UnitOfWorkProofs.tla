-------------------------- MODULE UnitOfWorkProofs --------------------------
(***************************************************************************)
(* Proofs about the gates and the units of work, for any processes, any    *)
(* tree of calls and any number of calls at a gate.                        *)
(* Part 1: the gate of ConnectionGate is a first-come-first-served lock.   *)
(* Part 2: UnitOfWork, whose gates are such locks.                         *)
(*                                                                         *)
(* Of the invariants of UnitOfWork none is inductive by itself.  That a    *)
(* unit is all or nothing needs what the connections hold (the writes that *)
(* succeeded within units that still work or were released into one that   *)
(* does) and what the savepoints hold (all of that but the unit's own      *)
(* writes), and both need that the units that work are nested in one       *)
(* another: of two units beside each other each would undo the writes of   *)
(* the other.  The gates see to that within a process, the lock between    *)
(* processes.                                                              *)
(***************************************************************************)
EXTENDS ConnectionGate, UnitOfWork, TLAPS

-----------------------------------------------------------------------------
(* Part 1.  The gate: the chain of promises is in order, and implements    *)
(* FifoMutex.                                                              *)

ChainInv == TypeOK /\ ChainInOrder

LEMMA InitChain == GateInit => ChainInv
  BY GateAssumption DEF GateInit, ChainInv, TypeOK, ChainInOrder, Came, Over

\* A new call is linked to the call that was the tail, the latest to come.
LEMMA RunKeepsChain ==
  ASSUME ChainInv, NEW c \in Callers, Run(c)
  PROVE  ChainInv'
<1> USE GateAssumption DEF Run, ChainInv, Came, Over
<1>1. TypeOK'
  BY DEF TypeOK
<1>2. ChainInOrder'
  BY DEF TypeOK, ChainInOrder
<1> QED BY <1>1, <1>2

\* The call that starts comes just after one that has settled, so all calls
\* before it have settled.
LEMMA StartKeepsChain ==
  ASSUME ChainInv, NEW c \in Callers, Start(c)
  PROVE  ChainInv'
<1> USE GateAssumption DEF Start, ChainInv, Came, Over
<1>1. TypeOK'
  BY DEF TypeOK
<1>2. ASSUME NEW d \in Callers, Came(d), order[d] < order[c]
      PROVE  stage[d] \in Over
  BY <1>2 DEF TypeOK, ChainInOrder
<1>3. ChainInOrder'
  BY <1>2 DEF TypeOK, ChainInOrder
<1> QED BY <1>1, <1>3

LEMMA SettleKeepsChain ==
  ASSUME ChainInv, NEW c \in Callers, NEW how \in Over, Settle(c, how)
  PROVE  ChainInv'
<1> USE GateAssumption DEF Settle, ChainInv, Came, Over
<1>1. TypeOK'
  BY DEF TypeOK
<1>2. ChainInOrder'
  BY DEF TypeOK, ChainInOrder
<1> QED BY <1>1, <1>2

LEMMA StepKeepsChain == ChainInv /\ [GateNext]_gateVars => ChainInv'
<1> SUFFICES ASSUME ChainInv, [GateNext]_gateVars PROVE ChainInv'
  OBVIOUS
<1>1. ASSUME NEW c \in Callers, Run(c) PROVE ChainInv'
  BY <1>1, RunKeepsChain
<1>2. ASSUME NEW c \in Callers, Start(c) PROVE ChainInv'
  BY <1>2, StartKeepsChain
<1>3. ASSUME NEW c \in Callers, Return(c) \/ Throw(c) PROVE ChainInv'
  BY <1>3, SettleKeepsChain DEF Return, Throw, Over
<1>4. CASE UNCHANGED gateVars
  BY <1>4 DEF gateVars, ChainInv, TypeOK, ChainInOrder, Came, Over
<1> QED BY <1>1, <1>2, <1>3, <1>4 DEF GateNext, AllServed

LEMMA ChainAlways == GateSpec => []ChainInv
  BY InitChain, StepKeepsChain, PTL DEF GateSpec

\* The variables of the gate always have their types.
THEOREM GateTypeCorrect == GateSpec => []TypeOK
  BY ChainAlways, PTL DEF ChainInv

\* The promises are linked in the order of arrival and a call works only after
\* all earlier ones have settled, for every number of calls.
THEOREM ChainStaysInOrder == GateSpec => []ChainInOrder
  BY ChainAlways, PTL DEF ChainInv

\* Two calls never work at once: of two, the one that came later waits.
THEOREM OneAtATime ==
  GateSpec => [](\A c, d \in Callers : stage[c] = "working" /\ stage[d] = "working" => c = d)
<1>1. ChainInv => \A c, d \in Callers : stage[c] = "working" /\ stage[d] = "working" => c = d
  BY DEF ChainInv, TypeOK, ChainInOrder, Came, Over
<1> QED BY <1>1, ChainAlways, PTL

-----------------------------------------------------------------------------
(* Refinement of the abstract lock *)

PhaseMap == [c \in Callers |-> PhaseOf(stage[c])]

LEMMA PhaseCases ==
  /\ PhaseOf("idle") = "idle" /\ PhaseOf("waiting") = "waiting"
  /\ PhaseOf("working") = "inside"
  /\ PhaseOf("returned") = "left" /\ PhaseOf("threw") = "left"
  BY DEF PhaseOf, Over

LEMMA PhaseFollows ==
  ASSUME TypeOK, NEW c \in Callers, NEW step, stage' = [stage EXCEPT ![c] = step]
  PROVE  PhaseMap' = [PhaseMap EXCEPT ![c] = PhaseOf(step)]
  BY DEF TypeOK, PhaseMap

\* Every step of the gate is a step of the lock or leaves it unchanged.
LEMMA GateStepIsMutexStep ==
  ChainInv /\ [GateNext]_gateVars => [Mutex!Next]_<<PhaseMap, order, arrived>>
<1> SUFFICES ASSUME ChainInv, GateNext \/ UNCHANGED gateVars
             PROVE  Mutex!Next \/ UNCHANGED <<PhaseMap, order, arrived>>
  OBVIOUS
<1> USE DEF ChainInv
<1>1. ASSUME NEW c \in Callers, Run(c) PROVE Mutex!Ask(c)
  <2>1. PhaseMap' = [PhaseMap EXCEPT ![c] = "waiting"]
    BY <1>1, PhaseFollows, PhaseCases DEF Run
  <2>2. PhaseMap[c] = "idle"
    BY <1>1, PhaseCases DEF Run, PhaseMap
  <2> QED BY <1>1, <2>1, <2>2 DEF Run, Mutex!Ask, PhaseMap
<1>2. ASSUME NEW c \in Callers, Start(c) PROVE Mutex!Enter(c)
  <2>1. PhaseMap' = [PhaseMap EXCEPT ![c] = "inside"]
    BY <1>2, PhaseFollows, PhaseCases DEF Start
  <2>2. PhaseMap[c] = "waiting"
    BY <1>2, PhaseCases DEF Start, PhaseMap
  <2>3. ASSUME NEW d \in Callers \ {c}
        PROVE  /\ PhaseMap[d] # "inside"
               /\ PhaseMap[d] = "waiting" => order[c] < order[d]
    <3>1. ~(stage[d] = "working") /\ (stage[d] = "waiting" => order[c] < order[d])
      <4>1. \A e \in Callers : Came(e) /\ order[e] < order[c] => stage[e] \in Over
        BY <1>2, GateAssumption DEF Start, TypeOK, ChainInOrder, Came, Over
      <4>2. Came(d) => order[d] # order[c] /\ order[d] \in Nat /\ order[c] \in Nat
        BY <1>2, <2>3 DEF Start, TypeOK, ChainInOrder, Came
      <4>3. stage[d] = "working" => ~(order[c] < order[d])
        BY <1>2, <2>3 DEF Start, TypeOK, ChainInOrder, Came, Over
      <4> QED BY <4>1, <4>2, <4>3, <2>3 DEF Came, Over
    <3>2. stage[d] \in {"idle", "waiting", "working"} \cup Over
      BY <2>3 DEF TypeOK
    <3> QED BY <3>1, <3>2, <2>3, PhaseCases DEF PhaseMap, Over
  <2> QED BY <1>2, <2>1, <2>2, <2>3 DEF Start, Mutex!Enter, PhaseMap
<1>3. ASSUME NEW c \in Callers, Return(c) \/ Throw(c) PROVE Mutex!Depart(c)
  <2>1. PhaseMap' = [PhaseMap EXCEPT ![c] = "left"]
    BY <1>3, PhaseFollows, PhaseCases DEF Return, Throw, Settle
  <2>2. PhaseMap[c] = "inside"
    BY <1>3, PhaseCases DEF Return, Throw, Settle, PhaseMap
  <2> QED BY <1>3, <2>1, <2>2 DEF Return, Throw, Settle, Mutex!Depart, PhaseMap
<1>4. CASE UNCHANGED gateVars
  BY <1>4 DEF gateVars, PhaseMap
<1> QED BY <1>1, <1>2, <1>3, <1>4 DEF GateNext, AllServed, Mutex!Next

\* The chain of promises implements the first-come-first-served lock, for any
\* set of calls and whichever of them throw.
THEOREM GateImplementsFifoMutex == GateSpec => ImplementsFifoMutex
<1>1. GateInit => Mutex!Init
  BY PhaseCases DEF GateInit, Mutex!Init
<1>2. GateSpec => []ChainInv
  BY ChainAlways
<1> QED BY <1>1, <1>2, GateStepIsMutexStep, PTL
        DEF GateSpec, ImplementsFifoMutex, Mutex!Spec, PhaseMap

-----------------------------------------------------------------------------
(* Part 2.  Units of work                                                  *)

Working == {"open", "closing", "throwing"}

WellTyped ==
  /\ disk \subseteq Leaves
  /\ conn \in [Processes -> SUBSET Leaves]
  /\ lock \in Processes \cup {Free}
  /\ gate \in [Stores -> Seq(Calls)]
  /\ pc \in [Calls -> {"idle"} \cup InFlight \cup Answered]
  /\ \A c \in Leaves : pc[c] \notin Working
  /\ saved \in [Units -> SUBSET Leaves] /\ seen \in [Units -> SUBSET Leaves]

\* What is issued is issued on the store of a unit that has begun.
BeganBefore ==
  \A c \in Calls : pc[c] # "idle" => \A u \in Enclosing[c] : pc[u] \notin {"idle", "queued"}

\* A unit that works has its gate and the lock, and works inside units that
\* wait for it, up to one on a root store.
WorksInside ==
  \A u \in Units : pc[u] \in Working =>
    /\ gate[Parent[u]] # <<>> /\ Head(gate[Parent[u]]) = u
    /\ lock = Home[u]
    /\ \A v \in Enclosing[u] : pc[v] = "open"
    /\ OnRoot(u) \/ \E v \in Enclosing[u] : OnRoot(v)

\* Of two units that work one is inside the other.
InOneLine ==
  \A u, v \in Units : pc[u] \in Working /\ pc[v] \in Working =>
    u = v \/ u \in Enclosing[v] \/ v \in Enclosing[u]

\* A write that succeeded and waits for a unit around it to commit.
Pending(c) ==
  /\ pc[c] = "ok"
  /\ \A u \in Enclosing[c] : pc[u] \in Working \cup {"ok"}
  /\ \E u \in Enclosing[c] : pc[u] \in Working

ConnHoldsPending ==
  \A p \in Processes : conn[p] = {c \in Leaves : Home[c] = p /\ Pending(c)}

SavedIsWithoutOwn ==
  \A u \in Units : pc[u] \in Working =>
    saved[u] = {c \in conn[Home[u]] : u \notin Enclosing[c]}

IInv ==
  /\ WellTyped /\ BeganBefore /\ WorksInside /\ InOneLine
  /\ DiskHoldsCommittedUnits /\ ConnHoldsPending /\ SavedIsWithoutOwn
  /\ PrechecksHold

-----------------------------------------------------------------------------
(* The tree of calls *)

LEMMA ParentStores ==
  ASSUME NEW c \in Calls
  PROVE  /\ Home[c] \in Processes
         /\ OnRoot(c) => Parent[c] = Home[c]
         /\ ~OnRoot(c) => Parent[c] \in Units /\ Home[Parent[c]] = Home[c]
  BY UnitAssumption DEF OnRoot, Stores, Calls

LEMMA EnclosingLeast ==
  ASSUME NEW c \in Calls
  PROVE  /\ Enclosing[c] \in ClosedOver(c)
         /\ \A S \in ClosedOver(c) : Enclosing[c] \subseteq S
<1>1. Enclosing[c] = {u \in Units : \A S \in ClosedOver(c) : u \in S}
  BY DEF Enclosing
<1>2. ASSUME NEW d \in Enclosing[c] \cup {c}, ~OnRoot(d) PROVE Parent[d] \in Enclosing[c]
  <2>1. Parent[d] \in Units
    BY <1>1, <1>2, ParentStores DEF Calls
  <2>2. \A S \in ClosedOver(c) : Parent[d] \in S
    BY <1>1, <1>2 DEF ClosedOver
  <2> QED BY <1>1, <2>1, <2>2
<1> QED BY <1>1, <1>2 DEF ClosedOver

LEMMA EnclosingRoot ==
  ASSUME NEW c \in Calls, OnRoot(c)
  PROVE  Enclosing[c] = {}
<1>1. {} \in ClosedOver(c)
  BY DEF ClosedOver
<1> QED BY <1>1, EnclosingLeast

LEMMA EnclosingTransitive ==
  ASSUME NEW c \in Calls, NEW u \in Enclosing[c]
  PROVE  /\ u \in Units /\ u \in Calls
         /\ Enclosing[u] \subseteq Enclosing[c]
         /\ Home[u] = Home[c]
<1>1. Enclosing[c] \in ClosedOver(c)
  BY EnclosingLeast
<1>2. u \in Units /\ u \in Calls
  BY <1>1 DEF ClosedOver, Calls
<1>3. Enclosing[c] \in ClosedOver(u)
  BY <1>1 DEF ClosedOver
<1>4. {v \in Units : Home[v] = Home[c]} \in ClosedOver(c)
  BY ParentStores DEF ClosedOver, Calls
<1>5. Enclosing[u] \subseteq Enclosing[c]
  BY <1>2, <1>3, EnclosingLeast
<1>6. Home[u] = Home[c]
  BY <1>4, EnclosingLeast
<1> QED BY <1>2, <1>5, <1>6

LEMMA EnclosingParent ==
  ASSUME NEW c \in Calls, ~OnRoot(c)
  PROVE  Enclosing[c] = {Parent[c]} \cup Enclosing[Parent[c]]
<1>1. Parent[c] \in Units /\ Parent[c] \in Calls
  BY ParentStores DEF Calls
<1>2. Parent[c] \in Enclosing[c]
  BY EnclosingLeast DEF ClosedOver
<1>3. Enclosing[Parent[c]] \subseteq Enclosing[c]
  BY <1>2, EnclosingTransitive
<1>4. {Parent[c]} \cup Enclosing[Parent[c]] \in ClosedOver(c)
  <2>1. Enclosing[Parent[c]] \in ClosedOver(Parent[c])
    BY <1>1, EnclosingLeast
  <2> QED BY <1>1, <2>1 DEF ClosedOver
<1> QED BY <1>2, <1>3, <1>4, EnclosingLeast

\* Between a call and a unit around it is a child of the unit.
LEMMA ChildBetween ==
  ASSUME NEW c \in Calls, NEW u \in Enclosing[c]
  PROVE  \E d \in Enclosing[c] \cup {c} : ~OnRoot(d) /\ Parent[d] = u
<1> DEFINE S == {v \in Enclosing[c] : \E d \in Enclosing[c] \cup {c} : ~OnRoot(d) /\ Parent[d] = v}
<1>1. S \in ClosedOver(c)
  BY EnclosingLeast DEF ClosedOver
<1> QED BY <1>1, EnclosingLeast
-----------------------------------------------------------------------------
(* Who works *)

\* While a unit inside u works, a child of u works.
LEMMA ChildWorks ==
  ASSUME WorksInside, NEW v \in Units, pc[v] \in Working, NEW u \in Enclosing[v]
  PROVE  \E d \in Enclosing[v] \cup {v} :
           d \in Units /\ Parent[d] = u /\ ~OnRoot(d) /\ pc[d] \in Working
<1>1. v \in Calls
  BY DEF Calls
<1>2. PICK d \in Enclosing[v] \cup {v} : ~OnRoot(d) /\ Parent[d] = u
  BY <1>1, ChildBetween
<1>3. d \in Units
  BY <1>1, <1>2, EnclosingTransitive
<1>4. pc[d] \in Working
  BY <1>2 DEF WorksInside, Working
<1> QED BY <1>2, <1>3, <1>4

\* When a call's turn has come on an active store, the units of its process
\* that work are those around it.
LEMMA TurnIsWithin ==
  ASSUME IInv, NEW c \in Calls, Turn(c), Active(c),
         NEW u \in Units, pc[u] \in Working, Home[u] = Home[c]
  PROVE  u \in Enclosing[c]
<1>1. u \in Calls /\ u # c
  BY DEF Calls, Turn, Working
<1>2. CASE OnRoot(c)
  <2>1. PICK r \in Enclosing[u] \cup {u} : OnRoot(r)
    BY DEF IInv, WorksInside
  <2>2. r \in Units /\ r \in Calls /\ Home[r] = Home[u] /\ pc[r] \in Working
    BY <1>1, EnclosingTransitive DEF IInv, WorksInside, Working
  <2>3. Parent[r] = Parent[c]
    BY <1>2, <2>1, <2>2, ParentStores
  <2>4. r = c
    BY <2>2, <2>3 DEF IInv, WorksInside, Turn, GateOf
  <2> QED BY <2>2, <2>4 DEF Turn, Working
<1>3. CASE ~OnRoot(c)
  <2>1. Parent[c] \in Units /\ pc[Parent[c]] = "open"
    BY <1>3, ParentStores DEF Active
  <2>2. Parent[c] \notin Enclosing[u]
    <3>1. SUFFICES ASSUME Parent[c] \in Enclosing[u] PROVE FALSE
      OBVIOUS
    <3>2. PICK d \in Enclosing[u] \cup {u} :
            d \in Units /\ Parent[d] = Parent[c] /\ pc[d] \in Working
      BY <3>1, ChildWorks DEF IInv
    <3>3. d = c
      BY <3>2 DEF IInv, WorksInside, Turn, GateOf
    <3> QED BY <3>2, <3>3 DEF Turn, Working
  <2>3. u = Parent[c] \/ u \in Enclosing[Parent[c]]
    BY <2>1, <2>2 DEF IInv, InOneLine, Working
  <2> QED BY <1>3, <2>3, EnclosingParent
<1> QED BY <1>2, <1>3

\* A unit whose work is over is the innermost of those that work.
LEMMA EndsInside ==
  ASSUME IInv, NEW u \in Units, pc[u] \in {"closing", "throwing"},
         NEW v \in Units, pc[v] \in Working, v # u
  PROVE  /\ u \notin Enclosing[v]
         /\ v \in Enclosing[u]
         /\ ~OnRoot(u) /\ pc[Parent[u]] = "open"
<1>1. u \in Calls
  BY DEF Calls
<1>2. u \notin Enclosing[v]
  BY DEF IInv, WorksInside
<1>3. v \in Enclosing[u]
  BY <1>2 DEF IInv, InOneLine, Working
<1>4. ~OnRoot(u)
  BY <1>1, <1>3, EnclosingRoot
<1>5. Parent[u] \in Enclosing[u]
  BY <1>1, <1>4, EnclosingParent
<1> QED BY <1>2, <1>3, <1>4, <1>5 DEF IInv, WorksInside, Working

-----------------------------------------------------------------------------
(* Steps *)

\* A step after which no other units work than before, each at the head of
\* its gate and inside the same open units.
LEMMA SameUnitsWork ==
  ASSUME WorksInside, InOneLine,
         \A u \in Units : pc'[u] \in Working =>
           /\ pc[u] \in Working
           /\ gate'[Parent[u]] # <<>> /\ Head(gate'[Parent[u]]) = Head(gate[Parent[u]])
           /\ lock' = lock
           /\ \A v \in Enclosing[u] : pc'[v] = pc[v]
  PROVE  WorksInside' /\ InOneLine'
<1>1. WorksInside'
  BY DEF WorksInside
<1>2. InOneLine'
  BY DEF InOneLine
<1> QED BY <1>1, <1>2

\* A step that writes nothing and ends no unit.
LEMMA NothingWritten ==
  ASSUME DiskHoldsCommittedUnits, ConnHoldsPending, SavedIsWithoutOwn,
         UNCHANGED <<disk, conn>>,
         \A c \in Leaves : pc'[c] = "ok" <=> pc[c] = "ok",
         \A c \in Leaves : pc[c] = "ok" =>
           \A u \in Enclosing[c] :
             (pc'[u] = "ok" <=> pc[u] = "ok") /\ (pc'[u] \in Working <=> pc[u] \in Working)
  PROVE  /\ DiskHoldsCommittedUnits' /\ ConnHoldsPending'
         /\ (\A u \in Units : pc'[u] \in Working => pc[u] \in Working /\ saved'[u] = saved[u])
              => SavedIsWithoutOwn'
<1>1. DiskHoldsCommittedUnits'
  BY DEF DiskHoldsCommittedUnits, SucceededWithin
<1>2. \A c \in Leaves : Pending(c)' <=> Pending(c)
  BY DEF Pending
<1>3. ConnHoldsPending'
  BY <1>2 DEF ConnHoldsPending
<1> QED BY <1>1, <1>3 DEF SavedIsWithoutOwn

\* Before a call begins, nothing inside it was issued.
LEMMA NothingInside ==
  ASSUME BeganBefore, NEW c \in Calls, NEW u \in Enclosing[c], pc[u] \in {"idle", "queued"}
  PROVE  pc[c] = "idle"
  BY DEF BeganBefore

\* An answer to a call whose turn has come takes nothing from the units that
\* work.
LEMMA AnswerInTurn ==
  ASSUME IInv, NEW c \in Calls, Turn(c), NEW how \in Answered, Answer(c, how), UNCHANGED lock
  PROVE  /\ WellTyped => pc' \in [Calls -> {"idle"} \cup InFlight \cup Answered]
                         /\ gate' \in [Stores -> Seq(Calls)]
         /\ pc'[c] = how /\ \A d \in Calls \ {c} : pc'[d] = pc[d]
         /\ BeganBefore' /\ WorksInside' /\ InOneLine'
<1>1. pc'[c] = how /\ \A d \in Calls \ {c} : pc'[d] = pc[d]
  BY DEF IInv, WellTyped, Answer
<1>2. Parent[c] \in Stores
  BY UnitAssumption
<1>3. /\ pc' \in [Calls -> {"idle"} \cup InFlight \cup Answered]
      /\ gate' \in [Stores -> Seq(Calls)]
  <2>1. gate[Parent[c]] \in Seq(Calls) /\ gate[Parent[c]] # <<>>
    BY <1>2 DEF IInv, WellTyped, Turn, GateOf
  <2>2. Tail(gate[Parent[c]]) \in Seq(Calls)
    BY <2>1
  <2> QED BY <2>2 DEF IInv, WellTyped, Answer, GateOf
<1>4. \A d \in Calls : pc'[d] \in {"idle", "queued"} => pc'[d] = pc[d]
  BY <1>1 DEF Answered
<1>5. BeganBefore'
  <2> SUFFICES ASSUME NEW d \in Calls, pc'[d] # "idle", NEW u \in Enclosing[d]
               PROVE  pc'[u] \notin {"idle", "queued"}
    BY DEF BeganBefore
  <2>1. u \in Calls
    BY EnclosingTransitive
  <2>2. pc[d] # "idle"
    BY <1>1 DEF Turn
  <2>3. pc[u] \notin {"idle", "queued"}
    BY <2>2 DEF IInv, BeganBefore
  <2> QED BY <1>4, <2>1, <2>3
<1>6. ASSUME NEW u \in Units, pc'[u] \in Working
      PROVE  /\ pc[u] \in Working
             /\ gate'[Parent[u]] # <<>> /\ Head(gate'[Parent[u]]) = Head(gate[Parent[u]])
             /\ \A v \in Enclosing[u] : pc'[v] = pc[v]
  <2>1. u \in Calls /\ u # c
    BY <1>1, <1>6 DEF Calls, Working, Answered
  <2>2. pc[u] \in Working
    BY <1>1, <1>6, <2>1
  <2>3. gate[Parent[u]] # <<>> /\ Head(gate[Parent[u]]) = u
    BY <2>2 DEF IInv, WorksInside
  <2>4. Parent[u] # Parent[c]
    BY <2>1, <2>3 DEF Turn, GateOf
  <2>5. gate'[Parent[u]] = gate[Parent[u]]
    BY <2>1, <2>4, UnitAssumption DEF IInv, WellTyped, Answer, GateOf
  <2>6. ASSUME NEW v \in Enclosing[u] PROVE v \in Calls /\ pc[v] = "open"
    BY <2>1, <2>2, EnclosingTransitive DEF IInv, WorksInside
  <2>7. \A v \in Enclosing[u] : v # c
    BY <2>6 DEF Turn
  <2> QED BY <1>1, <2>2, <2>3, <2>5, <2>6, <2>7
<1>7. WorksInside' /\ InOneLine'
  BY <1>6, SameUnitsWork DEF IInv
<1> QED BY <1>1, <1>3, <1>5, <1>7
-----------------------------------------------------------------------------
(* Each action keeps the invariant *)

LEMMA InitHolds == Init => IInv
<1> SUFFICES ASSUME Init PROVE IInv
  OBVIOUS
<1>1. \A c \in Calls : pc[c] = "idle"
  BY DEF Init
<1>2. WellTyped
  BY DEF Init, WellTyped, Working, InFlight, Answered, Calls
<1>3. BeganBefore
  BY <1>1 DEF BeganBefore
<1>4. \A u \in Units : pc[u] = "idle"
  BY <1>1 DEF Calls
<1>5. WorksInside /\ InOneLine /\ SavedIsWithoutOwn /\ PrechecksHold
  BY <1>4 DEF WorksInside, InOneLine, SavedIsWithoutOwn, PrechecksHold, Working
<1>6. DiskHoldsCommittedUnits /\ ConnHoldsPending
  BY <1>1 DEF DiskHoldsCommittedUnits, SucceededWithin, ConnHoldsPending, Pending, Init, Calls
<1> QED BY <1>2, <1>3, <1>5, <1>6 DEF IInv

LEMMA IssueHolds == ASSUME IInv, NEW c \in Calls, Issue(c) PROVE IInv'
<1>1. pc[c] = "idle" /\ pc'[c] = "queued" /\ \A d \in Calls \ {c} : pc'[d] = pc[d]
  BY DEF Issue, IInv, WellTyped
<1>2. Parent[c] \in Stores /\ gate[Parent[c]] \in Seq(Calls)
  BY UnitAssumption DEF IInv, WellTyped
<1>3. /\ pc' \in [Calls -> {"idle"} \cup InFlight \cup Answered]
      /\ gate' \in [Stores -> Seq(Calls)]
  BY <1>2 DEF Issue, IInv, WellTyped, GateOf, InFlight
<1>4. WellTyped'
  BY <1>1, <1>3 DEF Issue, IInv, WellTyped, Working, Calls
<1>5. \A d \in Calls : \A u \in Enclosing[d] : u \in Calls
  BY EnclosingTransitive
<1>6. BeganBefore'
  <2>1. \A u \in Enclosing[c] : pc[u] \notin {"idle", "queued"}
    <3>1. CASE OnRoot(c)
      BY <3>1, EnclosingRoot
    <3>2. CASE ~OnRoot(c)
      <4>1. Parent[c] \in Calls /\ pc[Parent[c]] \notin {"idle", "queued"}
        BY <3>2, ParentStores DEF Issue, Calls
      <4> QED BY <3>2, <4>1, EnclosingParent DEF IInv, BeganBefore
    <3> QED BY <3>1, <3>2
  <2>2. c \notin Enclosing[c]
    BY <1>1, <2>1
  <2>3. ASSUME NEW d \in Calls \ {c}, pc[d] # "idle", NEW u \in Enclosing[d]
        PROVE  pc'[u] \notin {"idle", "queued"}
    BY <1>1, <1>5, <2>3 DEF IInv, BeganBefore
  <2> QED BY <1>1, <1>5, <2>1, <2>2, <2>3 DEF BeganBefore
<1>7. ASSUME NEW u \in Units, pc'[u] \in Working
      PROVE  /\ pc[u] \in Working
             /\ gate'[Parent[u]] # <<>> /\ Head(gate'[Parent[u]]) = Head(gate[Parent[u]])
             /\ \A v \in Enclosing[u] : pc'[v] = pc[v]
  <2>1. u \in Calls /\ pc[u] \in Working
    BY <1>1, <1>7 DEF Calls, Working
  <2>2. gate[Parent[u]] # <<>> /\ \A v \in Enclosing[u] : pc[v] = "open"
    BY <2>1 DEF IInv, WorksInside
  <2>3. Parent[u] \in Stores /\ gate[Parent[u]] \in Seq(Calls)
    BY <2>1, UnitAssumption DEF IInv, WellTyped
  <2>4. gate'[Parent[u]] = gate[Parent[u]] \/ gate'[Parent[u]] = Append(gate[Parent[u]], c)
    BY <2>3 DEF Issue, GateOf, IInv, WellTyped
  <2>5. gate'[Parent[u]] # <<>> /\ Head(gate'[Parent[u]]) = Head(gate[Parent[u]])
    BY <2>2, <2>3, <2>4
  <2> QED BY <1>1, <1>5, <2>1, <2>2, <2>5
<1>8. WorksInside' /\ InOneLine'
  BY <1>7, SameUnitsWork DEF IInv, Issue
<1>9. DiskHoldsCommittedUnits' /\ ConnHoldsPending' /\ SavedIsWithoutOwn'
  <2>1. \A d \in Calls : (pc'[d] = "ok" <=> pc[d] = "ok") /\ (pc'[d] \in Working <=> pc[d] \in Working)
    BY <1>1 DEF Working
  <2> QED BY <1>5, <2>1, NothingWritten DEF IInv, Issue, Calls
<1>10. PrechecksHold'
  BY <1>1 DEF IInv, Issue, PrechecksHold, Calls
<1> QED BY <1>4, <1>6, <1>8, <1>9, <1>10 DEF IInv

\* A call that is refused or fails.
LEMMA UnansweredHolds ==
  ASSUME IInv, NEW c \in Calls, Turn(c), NEW how \in {"rejected", "failed"}, Answer(c, how),
         UNCHANGED <<disk, conn, lock, saved, seen>>
  PROVE  IInv'
<1>1. /\ pc' \in [Calls -> {"idle"} \cup InFlight \cup Answered]
      /\ gate' \in [Stores -> Seq(Calls)]
      /\ pc'[c] = how /\ \A d \in Calls \ {c} : pc'[d] = pc[d]
      /\ BeganBefore' /\ WorksInside' /\ InOneLine'
  BY AnswerInTurn DEF IInv, Answered
<1>2. pc[c] = "queued"
  BY DEF Turn
<1>3. WellTyped'
  BY <1>1 DEF IInv, WellTyped, Working, Calls
<1>4. \A d \in Calls : (pc'[d] = "ok" <=> pc[d] = "ok") /\ (pc'[d] \in Working <=> pc[d] \in Working)
  BY <1>1, <1>2 DEF Working
<1>5. DiskHoldsCommittedUnits' /\ ConnHoldsPending' /\ SavedIsWithoutOwn'
  BY <1>4, EnclosingTransitive, NothingWritten DEF IInv, Calls
<1>6. PrechecksHold'
  BY <1>1, <1>2 DEF IInv, PrechecksHold, Calls
<1> QED BY <1>1, <1>3, <1>5, <1>6 DEF IInv
LEMMA WriteHolds == ASSUME IInv, NEW c \in Leaves, Write(c) PROVE IInv'
<1>1. c \in Calls /\ Turn(c) /\ Active(c) /\ Answer(c, "ok") /\ UNCHANGED <<lock, saved, seen>>
  BY DEF Write, Calls
<1>2. /\ pc' \in [Calls -> {"idle"} \cup InFlight \cup Answered]
      /\ gate' \in [Stores -> Seq(Calls)]
      /\ pc'[c] = "ok" /\ \A d \in Calls \ {c} : pc'[d] = pc[d]
      /\ BeganBefore' /\ WorksInside' /\ InOneLine'
  BY <1>1, AnswerInTurn DEF IInv, Answered
<1>3. pc[c] = "queued" /\ c \notin Units /\ Home[c] \in Processes
  BY <1>1, UnitAssumption DEF Turn
<1>4. WellTyped'
  BY <1>1, <1>2, <1>3 DEF IInv, WellTyped, Working, Calls, Write
<1>5. \A u \in Units : pc'[u] = pc[u]
  BY <1>2, <1>3 DEF Calls
<1>6. \A d \in Leaves : Enclosing[d] \subseteq Units
  BY EnclosingTransitive DEF Calls
<1>7. \A d \in Leaves \ {c} : Pending(d)' <=> Pending(d)
  BY <1>2, <1>5, <1>6 DEF Pending, Calls
<1>8. ~Pending(c)
  BY <1>3 DEF Pending
<1>9. ASSUME OnRoot(c) PROVE IInv'
  <2>1. disk' = disk \cup {c} /\ conn' = conn /\ Enclosing[c] = {}
    BY <1>1, <1>9, EnclosingRoot DEF Write
  <2>2. DiskHoldsCommittedUnits'
    BY <1>2, <1>3, <1>5, <1>6, <2>1 DEF IInv, DiskHoldsCommittedUnits, SucceededWithin, Calls
  <2>3. ~Pending(c)'
    BY <2>1 DEF Pending
  <2>4. ConnHoldsPending'
    BY <1>7, <1>8, <2>1, <2>3 DEF IInv, ConnHoldsPending
  <2>5. SavedIsWithoutOwn'
    BY <1>1, <1>5, <2>1 DEF IInv, SavedIsWithoutOwn
  <2>6. PrechecksHold'
    BY <1>1, <1>5, <1>9, <2>1 DEF IInv, PrechecksHold, WrittenInUnits
  <2> QED BY <1>2, <1>4, <2>2, <2>4, <2>5, <2>6 DEF IInv
<1>10. ASSUME ~OnRoot(c) PROVE IInv'
  <2>1. /\ disk' = disk /\ conn' = [conn EXCEPT ![Home[c]] = @ \cup {c}]
        /\ Parent[c] \in Enclosing[c] /\ Parent[c] \in Units /\ pc[Parent[c]] = "open"
    BY <1>1, <1>10, EnclosingParent, ParentStores DEF Write, Active
  <2>2. /\ conn'[Home[c]] = conn[Home[c]] \cup {c}
        /\ \A p \in Processes \ {Home[c]} : conn'[p] = conn[p]
    BY <1>3, <2>1 DEF IInv, WellTyped
  <2>3. \A u \in Enclosing[c] : pc[u] = "open"
    BY <1>1, <1>10, <2>1, EnclosingParent DEF IInv, WorksInside, Working
  <2>4. Pending(c)'
    BY <1>2, <1>5, <1>6, <2>1, <2>3 DEF Pending, Working
  <2>5. ConnHoldsPending'
    BY <1>3, <1>7, <2>2, <2>4 DEF IInv, ConnHoldsPending
  <2>6. DiskHoldsCommittedUnits'
    BY <1>2, <1>3, <1>5, <1>6, <2>1, <2>3 DEF IInv, DiskHoldsCommittedUnits, SucceededWithin, Calls
  <2>7. SavedIsWithoutOwn'
    <3> SUFFICES ASSUME NEW u \in Units, pc[u] \in Working
                 PROVE  saved[u] = {d \in conn'[Home[u]] : u \notin Enclosing[d]}
      BY <1>1, <1>5 DEF SavedIsWithoutOwn
    <3>1. saved[u] = {d \in conn[Home[u]] : u \notin Enclosing[d]}
      BY DEF IInv, SavedIsWithoutOwn
    <3>2. Home[u] = Home[c] => u \in Enclosing[c]
      BY <1>1, TurnIsWithin
    <3>3. Home[u] \in Processes
      BY ParentStores DEF Calls
    <3> QED BY <2>2, <3>1, <3>2, <3>3
  <2>8. PrechecksHold'
    BY <1>1, <1>5, <2>1 DEF IInv, PrechecksHold
  <2> QED BY <1>2, <1>4, <2>5, <2>6, <2>7, <2>8 DEF IInv
<1> QED BY <1>9, <1>10

LEMMA BeginHolds == ASSUME IInv, NEW c \in Units, Begin(c) PROVE IInv'
<1>1. /\ c \in Calls /\ Turn(c) /\ Active(c) /\ pc[c] = "queued"
      /\ UNCHANGED <<disk, conn, gate>>
  BY DEF Begin, Turn, Calls
<1>2. /\ pc'[c] = "open" /\ \A d \in Calls \ {c} : pc'[d] = pc[d]
      /\ saved'[c] = conn[Home[c]] /\ \A u \in Units \ {c} : saved'[u] = saved[u]
      /\ seen'[c] = disk /\ \A u \in Units \ {c} : seen'[u] = seen[u]
  BY <1>1 DEF Begin, IInv, WellTyped
<1>3. Home[c] \in Processes
  BY <1>1, ParentStores
<1>4. c \notin Leaves
  BY UnitAssumption
<1>5. WellTyped'
  BY <1>1, <1>2, <1>3, <1>4 DEF Begin, IInv, WellTyped, InFlight, Working, Calls
<1>6. \A d \in Calls : \A u \in Enclosing[d] : u \in Calls /\ u \in Units
  BY EnclosingTransitive
<1>7. \A d \in Calls : c \in Enclosing[d] => pc[d] = "idle"
  BY <1>1, NothingInside DEF IInv
<1>8. BeganBefore'
  BY <1>1, <1>2, <1>6 DEF IInv, BeganBefore
<1>9. ASSUME NEW u \in Units, pc[u] \in Working
      PROVE  /\ u \in Enclosing[c] /\ lock' = lock /\ lock = Home[u]
             /\ u # c /\ c \notin Enclosing[u]
  <2>1. u \in Calls /\ u # c /\ lock = Home[u] /\ lock \in Processes
    BY <1>1, <1>9, ParentStores DEF IInv, WorksInside, Working, Calls
  <2>2. ~OnRoot(c)
    BY <2>1, UnitAssumption DEF Begin
  <2>3. Parent[c] \in Units /\ pc[Parent[c]] = "open" /\ Home[Parent[c]] = Home[c]
    BY <1>1, <2>2, ParentStores DEF Active
  <2>4. lock = Home[c]
    BY <2>3 DEF IInv, WorksInside, Working
  <2>5. u \in Enclosing[c]
    BY <1>1, <1>9, <2>1, <2>4, TurnIsWithin
  <2>6. c \notin Enclosing[u]
    BY <1>7, <1>9, <2>1 DEF Working
  <2> QED BY <2>1, <2>2, <2>5, <2>6 DEF Begin
<1>10. WorksInside'
  <2>1. ASSUME NEW u \in Units, u # c, pc'[u] \in Working
        PROVE  /\ gate'[Parent[u]] # <<>> /\ Head(gate'[Parent[u]]) = u
               /\ lock' = Home[u]
               /\ \A v \in Enclosing[u] : pc'[v] = "open"
               /\ OnRoot(u) \/ \E v \in Enclosing[u] : OnRoot(v)
    <3>1. u \in Calls /\ pc[u] \in Working
      BY <1>2, <2>1 DEF Calls
    <3> QED BY <1>1, <1>2, <1>6, <1>9, <3>1 DEF IInv, WorksInside
  <2>2. gate'[Parent[c]] # <<>> /\ Head(gate'[Parent[c]]) = c
    BY <1>1 DEF Turn, GateOf
  <2>3. CASE OnRoot(c)
    <3>1. lock' = Home[c] /\ Enclosing[c] = {}
      BY <1>1, <2>3, EnclosingRoot DEF Begin
    <3> QED BY <2>1, <2>2, <2>3, <3>1 DEF WorksInside
  <2>4. CASE ~OnRoot(c)
    <3>1. /\ Parent[c] \in Units /\ pc[Parent[c]] = "open" /\ Home[Parent[c]] = Home[c]
          /\ Enclosing[c] = {Parent[c]} \cup Enclosing[Parent[c]]
      BY <1>1, <2>4, ParentStores, EnclosingParent DEF Active
    <3>2. /\ lock = Home[Parent[c]] /\ \A v \in Enclosing[Parent[c]] : pc[v] = "open"
          /\ OnRoot(Parent[c]) \/ \E v \in Enclosing[Parent[c]] : OnRoot(v)
      BY <3>1 DEF IInv, WorksInside, Working
    <3>3. lock' = Home[c]
      BY <2>4, <3>1, <3>2 DEF Begin
    <3>4. \A v \in Enclosing[c] : pc'[v] = "open"
      BY <1>1, <1>2, <1>6, <3>1, <3>2
    <3>5. \E v \in Enclosing[c] : OnRoot(v)
      BY <3>1, <3>2
    <3> QED BY <2>1, <2>2, <3>3, <3>4, <3>5 DEF WorksInside
  <2> QED BY <2>3, <2>4
<1>11. InOneLine'
  <2>1. \A u \in Units \ {c} : pc'[u] = pc[u]
    BY <1>2 DEF Calls
  <2> QED BY <1>9, <2>1 DEF IInv, InOneLine
<1>12. \A d \in Leaves : d \in Calls /\ pc'[d] = pc[d]
  BY <1>2, <1>4 DEF Calls
<1>13. \A d \in Leaves : pc[d] = "ok" => \A u \in Enclosing[d] : pc'[u] = pc[u]
  BY <1>2, <1>6, <1>7, <1>12
<1>14. DiskHoldsCommittedUnits' /\ ConnHoldsPending'
  BY <1>1, <1>12, <1>13, NothingWritten DEF IInv
<1>15. SavedIsWithoutOwn'
  <2>1. \A d \in conn[Home[c]] : d \in Leaves /\ pc[d] = "ok"
    BY <1>3 DEF IInv, ConnHoldsPending, Pending
  <2>2. \A d \in conn[Home[c]] : c \notin Enclosing[d]
    BY <1>7, <1>12, <2>1
  <2>3. \A u \in Units \ {c} : pc'[u] = pc[u]
    BY <1>2 DEF Calls
  <2> QED BY <1>1, <1>2, <2>2, <2>3 DEF IInv, SavedIsWithoutOwn
<1>16. PrechecksHold'
  BY <1>1, <1>2 DEF IInv, PrechecksHold, Calls
<1> QED BY <1>5, <1>8, <1>10, <1>11, <1>14, <1>15, <1>16 DEF IInv
LEMMA WorkEndsHolds ==
  ASSUME IInv, NEW u \in Units, WorkReturns(u) \/ WorkThrows(u)
  PROVE  IInv'
<1>1. /\ u \in Calls /\ pc[u] = "open" /\ pc'[u] \in {"closing", "throwing"}
      /\ \A c \in Calls \ {u} : pc'[c] = pc[c]
      /\ UNCHANGED <<disk, conn, lock, gate, saved, seen>>
  BY DEF WorkReturns, WorkThrows, IInv, WellTyped, Calls
<1>2. \A c \in Units : Parent[c] = u => pc[c] \notin Working
  BY DEF WorkReturns, WorkThrows, Children, InFlight, Working, Calls
<1>3. \A c \in Calls : (pc'[c] = "ok" <=> pc[c] = "ok") /\ (pc'[c] \in Working <=> pc[c] \in Working)
  BY <1>1 DEF Working
<1>4. \A c \in Calls : \A v \in Enclosing[c] : v \in Calls
  BY EnclosingTransitive
<1>5. WellTyped'
  <2>1. pc' \in [Calls -> {"idle"} \cup InFlight \cup Answered]
    BY DEF WorkReturns, WorkThrows, IInv, WellTyped, InFlight
  <2> QED BY <1>1, <1>3, <2>1 DEF IInv, WellTyped, Calls
<1>6. BeganBefore'
  BY <1>1, <1>4 DEF IInv, BeganBefore
<1>7. ASSUME NEW v \in Units, pc[v] \in Working PROVE u \notin Enclosing[v]
  BY <1>2, <1>7, ChildWorks DEF IInv
<1>8. WorksInside' /\ InOneLine'
  <2>1. \A v \in Units : pc'[v] \in Working =>
          /\ pc[v] \in Working
          /\ gate'[Parent[v]] # <<>>
          /\ \A w \in Enclosing[v] : pc'[w] = pc[w]
    BY <1>1, <1>3, <1>4, <1>7 DEF IInv, WorksInside, Calls
  <2> QED BY <1>1, <2>1, SameUnitsWork DEF IInv
<1>9. DiskHoldsCommittedUnits' /\ ConnHoldsPending' /\ SavedIsWithoutOwn'
  BY <1>1, <1>3, <1>4, NothingWritten DEF IInv, Calls
<1>10. PrechecksHold'
  BY <1>1 DEF IInv, PrechecksHold, Calls
<1> QED BY <1>5, <1>6, <1>8, <1>9, <1>10 DEF IInv

\* What the end of a unit does to the units around it.
LEMMA EndOfUnit ==
  ASSUME IInv, NEW u \in Units, pc[u] \in {"closing", "throwing"},
         NEW how \in {"ok", "failed"}, Answer(u, how), Unlock(u)
  PROVE  /\ pc' \in [Calls -> {"idle"} \cup InFlight \cup Answered]
         /\ gate' \in [Stores -> Seq(Calls)]
         /\ lock' \in Processes \cup {Free}
         /\ pc'[u] = how /\ \A c \in Calls \ {u} : pc'[c] = pc[c]
         /\ BeganBefore' /\ WorksInside' /\ InOneLine'
<1>1. u \in Calls /\ pc'[u] = how /\ \A c \in Calls \ {u} : pc'[c] = pc[c]
  BY DEF IInv, WellTyped, Answer, Calls
<1>2. gate[Parent[u]] # <<>> /\ Head(gate[Parent[u]]) = u
  BY DEF IInv, WorksInside, Working
<1>3. /\ pc' \in [Calls -> {"idle"} \cup InFlight \cup Answered]
      /\ gate' \in [Stores -> Seq(Calls)]
  <2>1. Parent[u] \in Stores /\ gate[Parent[u]] \in Seq(Calls)
    BY <1>1, UnitAssumption DEF IInv, WellTyped
  <2>2. Tail(gate[Parent[u]]) \in Seq(Calls)
    BY <1>2, <2>1
  <2> QED BY <2>2 DEF IInv, WellTyped, Answer, GateOf, Answered
<1>4. lock' \in Processes \cup {Free}
  BY DEF Unlock, IInv, WellTyped
<1>5. \A c \in Calls : \A v \in Enclosing[c] : v \in Calls
  BY EnclosingTransitive
<1>6. BeganBefore'
  BY <1>1, <1>5 DEF IInv, BeganBefore
<1>7. ASSUME NEW v \in Units, pc'[v] \in Working
      PROVE  /\ pc[v] \in Working
             /\ gate'[Parent[v]] # <<>> /\ Head(gate'[Parent[v]]) = Head(gate[Parent[v]])
             /\ lock' = lock
             /\ \A w \in Enclosing[v] : pc'[w] = pc[w]
  <2>1. v \in Calls /\ v # u /\ pc[v] \in Working
    BY <1>1, <1>7 DEF Calls, Working
  <2>2. u \notin Enclosing[v] /\ ~OnRoot(u)
    BY <2>1, EndsInside
  <2>3. gate[Parent[v]] # <<>> /\ Head(gate[Parent[v]]) = v
    BY <2>1 DEF IInv, WorksInside
  <2>4. gate'[Parent[v]] = gate[Parent[v]]
    BY <1>2, <2>1, <2>3, UnitAssumption DEF IInv, WellTyped, Answer, GateOf
  <2> QED BY <1>1, <1>5, <2>1, <2>2, <2>3, <2>4 DEF Unlock
<1>8. WorksInside' /\ InOneLine'
  BY <1>7, SameUnitsWork DEF IInv
<1> QED BY <1>1, <1>3, <1>4, <1>6, <1>8

LEMMA CommitHolds == ASSUME IInv, NEW u \in Units, Commit(u) PROVE IInv'
<1>1. /\ u \in Calls /\ pc[u] = "closing" /\ Answer(u, "ok") /\ Unlock(u)
      /\ UNCHANGED <<saved, seen>>
  BY DEF Commit, Calls
<1>2. /\ pc' \in [Calls -> {"idle"} \cup InFlight \cup Answered]
      /\ gate' \in [Stores -> Seq(Calls)]
      /\ lock' \in Processes \cup {Free}
      /\ pc'[u] = "ok" /\ \A c \in Calls \ {u} : pc'[c] = pc[c]
      /\ BeganBefore' /\ WorksInside' /\ InOneLine'
  BY <1>1, EndOfUnit DEF IInv
<1>3. Home[u] \in Processes /\ u \notin Leaves
  BY <1>1, ParentStores, UnitAssumption
<1>4. \A c \in Leaves : c \in Calls /\ pc'[c] = pc[c]
  BY <1>2, <1>3 DEF Calls
<1>5. \A c \in Calls : \A v \in Enclosing[c] : v \in Calls /\ v \in Units
  BY EnclosingTransitive
<1>6. ASSUME ~OnRoot(u) PROVE IInv'
  <2>1. disk' = disk /\ conn' = conn
    BY <1>6 DEF Commit
  <2>2. /\ Parent[u] \in Units /\ Parent[u] # u /\ pc[Parent[u]] = "open"
        /\ Enclosing[u] = {Parent[u]} \cup Enclosing[Parent[u]]
    BY <1>1, <1>6, EnclosingParent, ParentStores DEF IInv, WorksInside, Working
  <2>3. \A c \in Calls : u \in Enclosing[c] => Parent[u] \in Enclosing[c]
    BY <2>2, EnclosingTransitive
  <2>4. pc'[Parent[u]] = "open"
    BY <1>2, <2>2 DEF Calls
  <2>5. WellTyped'
    BY <1>1, <1>2, <1>4, <2>1 DEF IInv, WellTyped
  <2>6. DiskHoldsCommittedUnits'
    BY <1>1, <1>2, <1>4, <1>5, <2>1, <2>2, <2>3, <2>4
    DEF IInv, DiskHoldsCommittedUnits, SucceededWithin
  <2>7. \A c \in Leaves : Pending(c)' <=> Pending(c)
    <3> SUFFICES ASSUME NEW c \in Leaves PROVE Pending(c)' <=> Pending(c)
      OBVIOUS
    <3>1. c \in Calls /\ pc'[c] = pc[c]
      BY <1>4
    <3>2. \A v \in Enclosing[c] : pc'[v] \in Working \cup {"ok"} <=> pc[v] \in Working \cup {"ok"}
      BY <1>1, <1>2, <1>5, <3>1 DEF Working
    <3>3. (\E v \in Enclosing[c] : pc'[v] \in Working) <=> \E v \in Enclosing[c] : pc[v] \in Working
      BY <1>1, <1>2, <1>5, <2>2, <2>3, <2>4, <3>1 DEF Working
    <3> QED BY <3>1, <3>2, <3>3 DEF Pending
  <2>8. ConnHoldsPending'
    BY <2>1, <2>7 DEF IInv, ConnHoldsPending
  <2>9. \A v \in Units : pc'[v] \in Working => pc[v] \in Working
    BY <1>2 DEF Working, Calls
  <2>10. SavedIsWithoutOwn'
    BY <1>1, <2>1, <2>9 DEF IInv, SavedIsWithoutOwn
  <2>11. PrechecksHold'
    BY <1>1, <1>2, <2>1 DEF IInv, PrechecksHold, Calls
  <2> QED BY <1>2, <2>5, <2>6, <2>8, <2>10, <2>11 DEF IInv
<1>7. ASSUME OnRoot(u) PROVE IInv'
  <2>1. disk' = disk \cup conn[Home[u]] /\ conn' = [conn EXCEPT ![Home[u]] = {}]
    BY <1>7 DEF Commit
  <2>2. \A v \in Units : pc[v] \in Working => v = u
    BY <1>1, <1>7, EndsInside
  <2>3. \A v \in Units : pc'[v] \notin Working
    BY <1>2, <2>2 DEF Working, Calls
  <2>4. WellTyped'
    BY <1>1, <1>2, <1>3, <1>4, <2>1 DEF IInv, WellTyped
  <2>5. \A c \in Leaves : ~Pending(c)'
    BY <1>5, <2>3 DEF Pending, Calls
  <2>6. \A c \in Leaves : Pending(c) => u \in Enclosing[c] /\ Home[c] = Home[u]
    BY <1>5, <2>2, EnclosingTransitive DEF Pending, Calls
  <2>7. ConnHoldsPending'
    <3>1. \A p \in Processes \ {Home[u]} : conn[p] = {}
      BY <2>6 DEF IInv, ConnHoldsPending
    <3>2. \A p \in Processes : conn'[p] = {}
      BY <2>1, <3>1 DEF IInv, WellTyped
    <3> QED BY <2>5, <3>2 DEF ConnHoldsPending
  <2>8. ASSUME NEW c \in Leaves
        PROVE  c \in SucceededWithin({"ok"})' <=> c \in SucceededWithin({"ok"}) \/ Pending(c)
    <3>1. c \in Calls /\ pc'[c] = pc[c]
      BY <1>4
    <3>2. \A v \in Enclosing[c] : pc'[v] = "ok" <=> pc[v] \in Working \cup {"ok"}
      <4> SUFFICES ASSUME NEW v \in Enclosing[c]
                   PROVE  pc'[v] = "ok" <=> pc[v] \in Working \cup {"ok"}
        OBVIOUS
      <4>1. v \in Units /\ v \in Calls
        BY <1>5, <3>1
      <4> QED BY <1>1, <1>2, <2>2, <4>1 DEF Working
    <3>3. (\A v \in Enclosing[c] : pc'[v] = "ok")
            <=> (\A v \in Enclosing[c] : pc[v] \in Working \cup {"ok"})
      BY <3>2
    <3>4. (\A v \in Enclosing[c] : pc[v] \in Working \cup {"ok"})
            <=> \/ \A v \in Enclosing[c] : pc[v] = "ok"
                \/ /\ \A v \in Enclosing[c] : pc[v] \in Working \cup {"ok"}
                   /\ \E v \in Enclosing[c] : pc[v] \in Working
      BY DEF Working
    <3> QED BY <3>1, <3>3, <3>4 DEF SucceededWithin, Pending
  <2>9. conn[Home[u]] = {c \in Leaves : Pending(c)}
    BY <1>3, <2>6 DEF IInv, ConnHoldsPending
  <2>10. disk' = SucceededWithin({"ok"})'
    <3>1. disk = SucceededWithin({"ok"})
      BY DEF IInv, DiskHoldsCommittedUnits
    <3>2. SucceededWithin({"ok"}) \subseteq Leaves /\ SucceededWithin({"ok"})' \subseteq Leaves
      BY DEF SucceededWithin
    <3> QED BY <2>1, <2>8, <2>9, <3>1, <3>2
  <2>11. DiskHoldsCommittedUnits'
    BY <2>10 DEF DiskHoldsCommittedUnits
  <2>12. SavedIsWithoutOwn' /\ PrechecksHold'
    BY <2>3 DEF SavedIsWithoutOwn, PrechecksHold, Working
  <2> QED BY <1>2, <2>4, <2>7, <2>11, <2>12 DEF IInv
<1> QED BY <1>6, <1>7
LEMMA UndoHolds == ASSUME IInv, NEW u \in Units, Undo(u) PROVE IInv'
<1>1. /\ u \in Calls /\ pc[u] \in {"closing", "throwing"} /\ Answer(u, "failed") /\ Unlock(u)
      /\ conn' = [conn EXCEPT ![Home[u]] = saved[u]]
      /\ UNCHANGED <<disk, saved, seen>>
  BY DEF Undo, Calls
<1>2. /\ pc' \in [Calls -> {"idle"} \cup InFlight \cup Answered]
      /\ gate' \in [Stores -> Seq(Calls)]
      /\ lock' \in Processes \cup {Free}
      /\ pc'[u] = "failed" /\ \A c \in Calls \ {u} : pc'[c] = pc[c]
      /\ BeganBefore' /\ WorksInside' /\ InOneLine'
  BY <1>1, EndOfUnit DEF IInv
<1>3. Home[u] \in Processes /\ u \notin Leaves
  BY <1>1, ParentStores, UnitAssumption
<1>4. \A c \in Leaves : c \in Calls /\ pc'[c] = pc[c]
  BY <1>2, <1>3 DEF Calls
<1>5. \A c \in Calls : \A v \in Enclosing[c] : v \in Calls /\ v \in Units
  BY EnclosingTransitive
<1>6. saved[u] = {c \in conn[Home[u]] : u \notin Enclosing[c]}
  BY <1>1 DEF IInv, SavedIsWithoutOwn, Working
<1>7. /\ conn'[Home[u]] = {c \in conn[Home[u]] : u \notin Enclosing[c]}
      /\ \A p \in Processes \ {Home[u]} : conn'[p] = conn[p]
  BY <1>1, <1>3, <1>6 DEF IInv, WellTyped
<1>8. WellTyped'
  BY <1>1, <1>2, <1>3, <1>4, <1>6 DEF IInv, WellTyped
<1>9. DiskHoldsCommittedUnits'
  BY <1>1, <1>2, <1>4, <1>5 DEF IInv, DiskHoldsCommittedUnits, SucceededWithin
<1>10. ASSUME NEW c \in Leaves PROVE Pending(c)' <=> Pending(c) /\ u \notin Enclosing[c]
  <2>1. c \in Calls /\ pc'[c] = pc[c]
    BY <1>4
  <2>2. CASE u \in Enclosing[c]
    BY <1>2, <2>2 DEF Pending, Working
  <2>3. CASE u \notin Enclosing[c]
    <3>1. \A v \in Enclosing[c] : pc'[v] = pc[v]
      BY <1>2, <1>5, <2>1, <2>3
    <3> QED BY <2>1, <2>3, <3>1 DEF Pending
  <2> QED BY <2>2, <2>3
<1>11. \A c \in Leaves : u \in Enclosing[c] => Home[c] = Home[u]
  BY EnclosingTransitive DEF Calls
<1>12. ConnHoldsPending'
  BY <1>3, <1>7, <1>10, <1>11 DEF IInv, ConnHoldsPending
<1>13. SavedIsWithoutOwn'
  <2> SUFFICES ASSUME NEW v \in Units, pc'[v] \in Working
               PROVE  saved[v] = {c \in conn'[Home[v]] : v \notin Enclosing[c]}
    BY <1>1 DEF SavedIsWithoutOwn
  <2>1. v # u /\ pc[v] \in Working
    BY <1>2 DEF Calls, Working
  <2>2. v \in Enclosing[u]
    BY <1>1, <2>1, EndsInside
  <2>3. Home[v] = Home[u]
    BY <1>1, <2>2, EnclosingTransitive
  <2>4. saved[v] = {c \in conn[Home[u]] : v \notin Enclosing[c]}
    BY <2>1, <2>3 DEF IInv, SavedIsWithoutOwn
  <2>5. \A c \in conn[Home[u]] : c \in Calls
    BY <1>3 DEF IInv, WellTyped, Calls
  <2>6. \A c \in conn[Home[u]] : u \in Enclosing[c] => v \in Enclosing[c]
    BY <2>2, <2>5, EnclosingTransitive
  <2> QED BY <1>7, <2>3, <2>4, <2>6
<1>14. PrechecksHold'
  BY <1>1, <1>2 DEF IInv, PrechecksHold, Calls
<1> QED BY <1>2, <1>8, <1>9, <1>12, <1>13, <1>14 DEF IInv

LEMMA CrashHolds == ASSUME IInv, NEW p \in Processes, Crash(p) PROVE IInv'
<1> DEFINE Lost(c) == Home[c] = p /\ pc[c] \in InFlight
<1>1. /\ \A c \in Calls : pc'[c] = IF Lost(c) THEN "dead" ELSE pc[c]
      /\ \A q \in Processes : conn'[q] = IF q = p THEN {} ELSE conn[q]
      /\ UNCHANGED <<disk, saved, seen>>
  BY DEF Crash, IInv, WellTyped
<1>2. WellTyped'
  <2>1. pc' \in [Calls -> {"idle"} \cup InFlight \cup Answered]
    BY DEF Crash, IInv, WellTyped, Answered
  <2>2. gate' \in [Stores -> Seq(Calls)]
    BY DEF Crash, IInv, WellTyped
  <2>3. conn' \in [Processes -> SUBSET Leaves] /\ lock' \in Processes \cup {Free}
    BY DEF Crash, IInv, WellTyped
  <2>4. \A c \in Leaves : pc'[c] \notin Working
    BY <1>1 DEF IInv, WellTyped, Working, Calls
  <2> QED BY <1>1, <2>1, <2>2, <2>3, <2>4 DEF IInv, WellTyped
<1>3. \A c \in Calls : \A u \in Enclosing[c] : u \in Calls /\ u \in Units /\ Home[u] = Home[c]
  BY EnclosingTransitive
<1>4. BeganBefore'
  <2>1. \A c \in Calls : /\ pc'[c] # "idle" => pc[c] # "idle"
                         /\ pc'[c] \in {"idle", "queued"} => pc'[c] = pc[c]
    BY <1>1 DEF InFlight
  <2> QED BY <1>3, <2>1 DEF IInv, BeganBefore
<1>5. ASSUME NEW u \in Units, pc'[u] \in Working
      PROVE  pc[u] \in Working /\ pc'[u] = pc[u] /\ Home[u] # p
  BY <1>1, <1>5 DEF Calls, Working, InFlight
<1>6. WorksInside' /\ InOneLine'
  <2>1. ASSUME NEW u \in Units, pc'[u] \in Working
        PROVE  /\ pc[u] \in Working
               /\ gate'[Parent[u]] # <<>> /\ Head(gate'[Parent[u]]) = Head(gate[Parent[u]])
               /\ lock' = lock
               /\ \A v \in Enclosing[u] : pc'[v] = pc[v]
    <3>1. u \in Calls /\ pc[u] \in Working /\ Home[u] # p
      BY <1>5, <2>1 DEF Calls
    <3>2. gate[Parent[u]] # <<>> /\ lock = Home[u]
      BY <3>1 DEF IInv, WorksInside
    <3>3. Parent[u] # p /\ (Parent[u] \in Units => Home[Parent[u]] # p) /\ Parent[u] \in Stores
      BY <3>1, UnitAssumption DEF Calls
    <3>4. gate'[Parent[u]] = gate[Parent[u]]
      BY <3>3 DEF Crash
    <3>5. lock' = lock
      BY <3>1, <3>2 DEF Crash
    <3> QED BY <1>1, <1>3, <3>1, <3>2, <3>4, <3>5
  <2> QED BY <2>1, SameUnitsWork DEF IInv
<1>7. ASSUME NEW c \in Leaves
      PROVE  /\ c \in Calls /\ (pc'[c] = "ok" <=> pc[c] = "ok")
             /\ \A u \in Enclosing[c] : pc'[u] = "ok" <=> pc[u] = "ok"
             /\ Home[c] # p => \A u \in Enclosing[c] : pc'[u] = pc[u]
             /\ Home[c] = p => \A u \in Enclosing[c] : pc'[u] \notin Working
  <2>1. c \in Calls
    BY DEF Calls
  <2>2. \A d \in Calls : pc'[d] = "ok" <=> pc[d] = "ok"
    BY <1>1 DEF InFlight
  <2> QED BY <1>1, <1>3, <1>5, <2>1, <2>2
<1>8. DiskHoldsCommittedUnits'
  BY <1>1, <1>7 DEF IInv, DiskHoldsCommittedUnits, SucceededWithin
<1>9. \A c \in Leaves : Pending(c)' <=> Pending(c) /\ Home[c] # p
  BY <1>7 DEF Pending
<1>10. ConnHoldsPending'
  BY <1>1, <1>9 DEF IInv, ConnHoldsPending
<1>11. SavedIsWithoutOwn'
  <2>1. \A u \in Units : Home[u] \in Processes
    BY ParentStores DEF Calls
  <2> QED BY <1>1, <1>5, <2>1 DEF IInv, SavedIsWithoutOwn
<1>12. PrechecksHold'
  BY <1>1, <1>5 DEF IInv, PrechecksHold, Working
<1> QED BY <1>2, <1>4, <1>6, <1>8, <1>10, <1>11, <1>12 DEF IInv

LEMMA StepHolds == IInv /\ [Next]_vars => IInv'
<1> SUFFICES ASSUME IInv, [Next]_vars PROVE IInv'
  OBVIOUS
<1>1. ASSUME NEW c \in Calls, Issue(c) PROVE IInv'
  BY <1>1, IssueHolds
<1>2. ASSUME NEW c \in Calls, Reject(c) \/ (c \in Leaves /\ Fail(c)) PROVE IInv'
  BY <1>2, UnansweredHolds DEF Reject, Fail
<1>3. ASSUME NEW c \in Leaves, Write(c) PROVE IInv'
  BY <1>3, WriteHolds
<1>4. ASSUME NEW u \in Units, Begin(u) PROVE IInv'
  BY <1>4, BeginHolds
<1>5. ASSUME NEW u \in Units, WorkReturns(u) \/ WorkThrows(u) PROVE IInv'
  BY <1>5, WorkEndsHolds
<1>6. ASSUME NEW u \in Units, Commit(u) PROVE IInv'
  BY <1>6, CommitHolds
<1>7. ASSUME NEW u \in Units, Undo(u) PROVE IInv'
  BY <1>7, UndoHolds
<1>8. ASSUME NEW p \in Processes, Crash(p) PROVE IInv'
  BY <1>8, CrashHolds
<1>9. CASE UNCHANGED vars
  <2>1. UNCHANGED <<disk, conn, lock, gate, pc, saved, seen>>
    BY <1>9 DEF vars
  <2>2. WellTyped' /\ BeganBefore' /\ WorksInside' /\ InOneLine'
    BY <2>1 DEF IInv, WellTyped, BeganBefore, WorksInside, InOneLine
  <2>3. DiskHoldsCommittedUnits' /\ ConnHoldsPending' /\ SavedIsWithoutOwn' /\ PrechecksHold'
    BY <2>1 DEF IInv, DiskHoldsCommittedUnits, SucceededWithin, ConnHoldsPending, Pending,
       SavedIsWithoutOwn, PrechecksHold
  <2> QED BY <2>2, <2>3 DEF IInv
<1>10. \A c \in Leaves : c \in Calls
  BY DEF Calls
<1> QED BY <1>1, <1>2, <1>3, <1>4, <1>5, <1>6, <1>7, <1>8, <1>9, <1>10 DEF Next, Quiet

-----------------------------------------------------------------------------
(* Theorems *)

\* A unit is all or nothing, at every depth of nesting and with any number of
\* processes: what the database holds is exactly what was written in units
\* that have all committed (withTransaction of both stores).
THEOREM UnitsAreAllOrNothing == Spec => []DiskHoldsCommittedUnits
<1>1. IInv => DiskHoldsCommittedUnits
  BY DEF IInv
<1> QED BY <1>1, InitHolds, StepHolds, PTL DEF Spec

\* What a root unit read when it began stays what is committed in units until
\* it ends: checks made in a unit hold at its commit (mutation_locks, BEGIN
\* IMMEDIATE).
THEOREM ChecksHoldUntilCommit == Spec => []PrechecksHold
<1>1. IInv => PrechecksHold
  BY DEF IInv
<1> QED BY <1>1, InitHolds, StepHolds, PTL DEF Spec

\* A call on a root store waits for the units of its process: it neither sees
\* nor joins what they have not committed (the gate in front of the root
\* store).
THEOREM CallsStayOutOfUnits == Spec => NeverJoinsOpenUnit
<1> DEFINE Joins(c) == OnRoot(c) /\ pc[c] = "queued" /\ pc'[c] \in {"ok", "failed", "open"}
<1>1. ASSUME IInv, NEW c \in Calls, Turn(c), Active(c), OnRoot(c) PROVE conn[Home[c]] = {}
  <2> SUFFICES ASSUME NEW d \in conn[Home[c]] PROVE FALSE
    OBVIOUS
  <2>1. d \in Leaves /\ d \in Calls /\ Home[d] = Home[c] /\ Pending(d)
    BY <1>1, ParentStores DEF IInv, ConnHoldsPending, Calls
  <2>2. PICK u \in Enclosing[d] : pc[u] \in Working
    BY <2>1 DEF Pending
  <2>3. u \in Units /\ Home[u] = Home[c]
    BY <2>1, EnclosingTransitive
  <2>4. u \in Enclosing[c]
    BY <1>1, <2>2, <2>3, TurnIsWithin
  <2> QED BY <1>1, <2>4, EnclosingRoot
<1>2. ASSUME IInv, [Next]_vars, NEW c \in Calls, Joins(c) PROVE Turn(c) /\ Active(c)
  <2>1. CASE \E d \in Calls : Issue(d) \/ Reject(d)
    BY <1>2, <2>1 DEF Issue, Reject, Answer, IInv, WellTyped
  <2>2. CASE \E d \in Leaves : Write(d) \/ Fail(d)
    BY <1>2, <2>2 DEF Write, Fail, Answer, IInv, WellTyped, Calls
  <2>3. CASE \E u \in Units : Begin(u) \/ WorkReturns(u) \/ WorkThrows(u) \/ Commit(u) \/ Undo(u)
    BY <1>2, <2>3 DEF Begin, WorkReturns, WorkThrows, Commit, Undo, Answer, IInv, WellTyped, Calls
  <2>4. CASE \E p \in Processes : Crash(p)
    BY <1>2, <2>4 DEF Crash, IInv, WellTyped
  <2>5. CASE UNCHANGED vars
    BY <1>2, <2>5 DEF vars
  <2> QED BY <1>2, <2>1, <2>2, <2>3, <2>4, <2>5 DEF Next, Quiet
<1>3. IInv /\ [Next]_vars => [\A c \in Calls : Joins(c) => conn[Home[c]] = {}]_vars
  BY <1>1, <1>2
<1> QED BY <1>3, InitHolds, StepHolds, PTL DEF Spec, NeverJoinsOpenUnit
=============================================================================
