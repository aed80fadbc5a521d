--------------------------- MODULE TimeOrderedIds ---------------------------
(***************************************************************************)
(* The ids of events and rows: the time of the last id and a sequence      *)
(* number within it.  Their random part is left out.                       *)
(***************************************************************************)
EXTENDS Naturals

CONSTANT MaxSeq    \* the greatest sequence number, 0xffff

ASSUME IdsAssumption == MaxSeq \in Nat

VARIABLES lastMs, seq

idVars == <<lastMs, seq>>

IdsInit == lastMs = 0 /\ seq = 0

\* Mutant: the time of the id is the clock's.
MutTimeOf(clock) == clock

\* Math.max(Date.now(), lastMs)
TimeOf(clock) == IF clock > lastMs THEN clock ELSE lastMs

\* timeOrderedId, at a time of the clock
NextId(clock) ==
  LET now == TimeOf(clock)
  IN  IF now # lastMs THEN lastMs' = now /\ seq' = 0
      ELSE IF seq < MaxSeq THEN seq' = seq + 1 /\ UNCHANGED lastMs
      ELSE lastMs' = now + 1 /\ seq' = 0

\* Ids increase within one process, "including clock rollback and
\* same-millisecond bursts".
IdsIncrease ==
  [][lastMs' > lastMs \/ (lastMs' = lastMs /\ seq' > seq)]_idVars
=============================================================================
