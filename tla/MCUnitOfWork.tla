---------------------------- MODULE MCUnitOfWork ----------------------------
(***************************************************************************)
(* A small instance of UnitOfWork for TLC: process p1 has a unit u1 with a *)
(* leaf and a nested unit n1, in which a unit n2 of one leaf is nested, and *)
(* beside u1 a plain call; process p2 has a unit u2 with one leaf.         *)
(*                                                                         *)
(* Beside it, the gate that UnitOfWork takes for a queue.  The two share   *)
(* nothing: a behaviour is one of the units or one of a gate, while the    *)
(* other has not begun, so that their states add up and do not multiply.   *)
(***************************************************************************)
EXTENDS UnitOfWork, ConnectionGate

CONSTANTS p1, p2, u1, n1, n2, u2, inU1, inN2, inU2, plain

MCParent ==
  [c \in Calls |->
     CASE c \in {u1, plain} -> p1
       [] c = u2            -> p2
       [] c \in {n1, inU1}  -> u1
       [] c = n2            -> n1
       [] c = inN2          -> n2
       [] c = inU2          -> u2]

MCHome == [c \in Calls |-> IF c \in {u2, inU2} THEN p2 ELSE p1]

GateUnused == arrived = 0
UnitsUnused == \A c \in Calls : pc[c] = "idle"

MCNext ==
  \/ Next /\ GateUnused /\ UNCHANGED gateVars
  \/ GateNext /\ UnitsUnused /\ UNCHANGED vars

MCInit == Init /\ GateInit

MCSpec ==
  /\ MCInit
  /\ [][MCNext]_<<vars, gateVars>>
  /\ Fairness /\ GateFairness
=============================================================================
