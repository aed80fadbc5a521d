--------------------------- MODULE ProcessProofs ---------------------------
(***************************************************************************)
(* The end of a process, its ids and its limit on login attempts, for any  *)
(* requests, clients, windows and bounds.                                  *)
(* That no sweep uses the store when it is closed is a fact about the      *)
(* queue at the gate: the closing call is never followed by a sweep.       *)
(* That the limit holds is one about windows: those of a client follow     *)
(* each other by their length, whatever happens to the clock.              *)
(***************************************************************************)
EXTENDS Process, FiniteSetTheorems, TLAPS

LEMMA Given ==
  /\ Sweep \notin Requests /\ Main \notin Requests /\ Sweep # Main
  /\ CallsOfRequest \in Nat /\ MaxSeq \in Nat
  /\ MaxElapsed \in Nat /\ MaxSetBack \in Nat /\ MaxIds \in Nat
BY LifecycleAssumption, IdsAssumption, ProcessAssumption
   DEF LifecycleAssumption, IdsAssumption, ProcessAssumption

-----------------------------------------------------------------------------
(* The inductive invariant *)

Callers == Requests \cup {Sweep, Main}

Stops == {"serving", "draining", "sweeping", "closing", "closed", "exited"}

\* Types
LifecycleTypes ==
  /\ request \in [Requests -> {"new", "active", "queued", "answered", "error"}]
  /\ calls \in [Requests -> Nat]
  /\ gate \in Seq(Callers)
  /\ store \in {"open", "closed"} /\ timer \in BOOLEAN /\ sweep \in BOOLEAN
  /\ stop \in Stops /\ deadline \in {"off", "set", "passed"}

\* Who waits at the gate
GateInv ==
  /\ \A i, j \in DOMAIN gate : gate[i] \in Requests /\ gate[i] = gate[j] => i = j
  /\ \A i \in DOMAIN gate : gate[i] \in Requests => request[gate[i]] = "queued"
  /\ sweep => \E i \in DOMAIN gate : gate[i] = Sweep
  /\ \A i, j \in DOMAIN gate : gate[i] = Main /\ i < j => gate[j] # Sweep
  /\ \A i \in DOMAIN gate : gate[i] = Main => stop \in {"closing", "closed", "exited"}
  /\ \A r \in Requests : request[r] = "queued" => calls[r] > 0

\* How far the shutdown is
StopInv ==
  /\ timer <=> stop = "serving"
  /\ stop = "serving" => deadline = "off"
  /\ store = "closed" => stop \in {"closed", "exited"}
  /\ stop = "sweeping" => Active = {}

IInv == LifecycleTypes /\ GateInv /\ StopInv /\ ClosedAfterWork

-----------------------------------------------------------------------------
(* The queue *)

\* What Append and Tail do to the places of a queue
LEMMA QueueFacts ==
  ASSUME NEW q \in Seq(Callers), NEW c \in Callers
  PROVE  /\ Append(q, c) \in Seq(Callers)
         /\ DOMAIN q = 1..Len(q) /\ Len(q) \in Nat
         /\ DOMAIN Append(q, c) = 1..(Len(q) + 1)
         /\ \A i \in 1..Len(q) : Append(q, c)[i] = q[i] /\ q[i] \in Callers
         /\ Append(q, c)[Len(q) + 1] = c
         /\ q # << >> =>
              /\ Tail(q) \in Seq(Callers) /\ Head(q) = q[1] /\ Len(q) >= 1
              /\ DOMAIN Tail(q) = 1..(Len(q) - 1)
              /\ \A i \in 1..(Len(q) - 1) : Tail(q)[i] = q[i + 1]
OBVIOUS

-----------------------------------------------------------------------------
(* The steps *)

LEMMA InitEstablishes == Init => IInv
<1> SUFFICES ASSUME LifecycleInit PROVE IInv
  BY DEF Init
<1>1. gate \in Seq(Callers) /\ DOMAIN gate = {}
  BY DEF LifecycleInit
<1>2. LifecycleTypes
  BY <1>1 DEF LifecycleInit, LifecycleTypes, Stops
<1>3. GateInv
  BY <1>1 DEF LifecycleInit, GateInv
<1>4. StopInv /\ ClosedAfterWork
  BY DEF LifecycleInit, StopInv, ClosedAfterWork
<1> QED
  BY <1>2, <1>3, <1>4 DEF IInv

\* A step that leaves the gate as it is, and lets nobody become active who
\* was not, except while the process serves.
LEMMA AdmitKeeps ==
  ASSUME IInv, NEW r \in Requests, Admit(r)
  PROVE  IInv'
<1>1. LifecycleTypes'
  BY Given DEF IInv, LifecycleTypes, Admit
<1>2. GateInv'
  BY DEF IInv, LifecycleTypes, GateInv, Admit
<1>3. StopInv'
  BY DEF IInv, StopInv, Admit
<1>4. ClosedAfterWork'
  BY DEF IInv, LifecycleTypes, ClosedAfterWork, Admit, StopInv
<1> QED
  BY <1>1, <1>2, <1>3, <1>4 DEF IInv

LEMMA CallKeeps ==
  ASSUME IInv, NEW r \in Requests, Call(r)
  PROVE  IInv'
<1>1. /\ \A i \in DOMAIN gate : gate[i] # r
      /\ \A q \in Requests : request'[q] = IF q = r THEN "queued" ELSE request[q]
  BY DEF IInv, LifecycleTypes, GateInv, Call
<1>2. /\ gate' \in Seq(Callers) /\ DOMAIN gate = 1..Len(gate) /\ Len(gate) \in Nat
      /\ DOMAIN gate' = 1..(Len(gate) + 1)
      /\ \A i \in 1..Len(gate) : gate'[i] = gate[i]
      /\ gate'[Len(gate) + 1] = r
  BY QueueFacts DEF IInv, LifecycleTypes, Call, Callers
<1>3. LifecycleTypes'
  BY <1>2 DEF IInv, LifecycleTypes, Call
<1>4. GateInv'
  BY <1>1, <1>2, Given DEF IInv, GateInv, Call
<1>5. Active' = Active
  BY <1>1 DEF Active, Call
<1>6. StopInv'
  BY <1>5 DEF IInv, StopInv, Call
<1>7. ClosedAfterWork'
  BY <1>1, <1>5 DEF IInv, ClosedAfterWork, Call
<1> QED
  BY <1>3, <1>4, <1>6, <1>7 DEF IInv

LEMMA RespondKeeps ==
  ASSUME IInv, NEW r \in Requests, Respond(r)
  PROVE  IInv'
<1>1. \A q \in Requests : request'[q] = IF q = r THEN "answered" ELSE request[q]
  BY DEF IInv, LifecycleTypes, Respond
<1>2. LifecycleTypes'
  BY DEF IInv, LifecycleTypes, Respond
<1>3. GateInv'
  BY <1>1 DEF IInv, GateInv, Respond
<1>4. Active' \subseteq Active
  BY <1>1 DEF Active
<1>5. StopInv' /\ ClosedAfterWork'
  BY <1>1, <1>4 DEF IInv, StopInv, ClosedAfterWork, Respond
<1> QED
  BY <1>2, <1>3, <1>5 DEF IInv

LEMMA SweepTickKeeps == IInv /\ SweepTick => IInv'
<1> SUFFICES ASSUME IInv, SweepTick PROVE IInv'
  OBVIOUS
<1>1. stop = "serving" /\ \A i \in DOMAIN gate : gate[i] # Main
  BY DEF IInv, StopInv, GateInv, SweepTick
<1>2. /\ gate' \in Seq(Callers) /\ DOMAIN gate = 1..Len(gate) /\ Len(gate) \in Nat
      /\ DOMAIN gate' = 1..(Len(gate) + 1)
      /\ \A i \in 1..Len(gate) : gate'[i] = gate[i]
      /\ gate'[Len(gate) + 1] = Sweep
  BY QueueFacts DEF IInv, LifecycleTypes, SweepTick, Callers
<1>3. LifecycleTypes'
  BY <1>2 DEF IInv, LifecycleTypes, SweepTick
<1>4. GateInv'
  BY <1>1, <1>2, Given DEF IInv, GateInv, SweepTick
<1>5. Active' = Active
  BY DEF Active, SweepTick
<1>6. StopInv' /\ ClosedAfterWork'
  BY <1>1, <1>5 DEF IInv, StopInv, ClosedAfterWork, SweepTick
<1> QED
  BY <1>3, <1>4, <1>6 DEF IInv

\* Steps of the shutdown that leave requests, gate and sweep alone
LEMMA ShutdownKeeps ==
  ASSUME IInv, Signal \/ Drained \/ Deadline \/ Exit
  PROVE  IInv'
<1>1. UNCHANGED <<request, calls, gate, sweep, store>>
  BY DEF Signal, Drained, Deadline, Exit
<1>2. Active' = Active
  BY <1>1 DEF Active
<1>3. LifecycleTypes'
  BY <1>1 DEF IInv, LifecycleTypes, Signal, Drained, Deadline, Exit, Stops
<1>4. GateInv'
  BY <1>1 DEF IInv, GateInv, Signal, Drained, Deadline, Exit, Draining
<1>5. StopInv'
  BY <1>1, <1>2 DEF IInv, StopInv, Signal, Drained, Deadline, Exit, Draining
<1>6. ClosedAfterWork'
  BY <1>1, <1>2 DEF IInv, StopInv, ClosedAfterWork, Signal, Drained, Deadline, Exit, Draining
<1> QED
  BY <1>3, <1>4, <1>5, <1>6 DEF IInv

LEMMA CloseKeeps ==
  ASSUME IInv, Swept \/ StopForced
  PROVE  IInv'
<1>1. Close /\ Draining
  BY DEF Swept, StopForced, Draining
<1>2. Active' = Active
  BY <1>1 DEF Active, Close
<1>3. /\ gate' \in Seq(Callers) /\ DOMAIN gate = 1..Len(gate) /\ Len(gate) \in Nat
      /\ DOMAIN gate' = 1..(Len(gate) + 1)
      /\ \A i \in 1..Len(gate) : gate'[i] = gate[i]
      /\ gate'[Len(gate) + 1] = Main
  BY <1>1, QueueFacts DEF IInv, LifecycleTypes, Close, Callers
<1>4. LifecycleTypes'
  BY <1>1, <1>3 DEF IInv, LifecycleTypes, Close, Stops
<1>5. \A i \in DOMAIN gate : gate[i] # Main
  BY <1>1 DEF IInv, GateInv, Draining
<1>6. GateInv'
  BY <1>1, <1>3, <1>5, Given DEF IInv, GateInv, Close
<1>7. StopInv'
  BY <1>1 DEF IInv, StopInv, Close, Draining
<1>8. /\ stop' = "closing" /\ UNCHANGED <<request, store, sweep>> /\ store = "open"
      /\ deadline = "passed" => deadline' = "passed"
  BY <1>1 DEF IInv, LifecycleTypes, StopInv, Close, Draining
<1>9. deadline = "passed" \/ (Active = {} /\ ~sweep)
  <2>1. CASE Swept
    BY <2>1 DEF Swept, IInv, StopInv
  <2>2. CASE StopForced
    BY <2>2 DEF StopForced
  <2> QED
    BY <2>1, <2>2
<1>10. ClosedAfterWork'
  BY <1>2, <1>8, <1>9 DEF IInv, ClosedAfterWork
<1> QED
  BY <1>4, <1>6, <1>7, <1>10 DEF IInv

LEMMA ServeKeeps == IInv /\ Serve => IInv'
<1> SUFFICES ASSUME IInv, Serve PROVE IInv'
  OBVIOUS
<1> DEFINE who == Head(gate)
<1>1. /\ gate' \in Seq(Callers) /\ DOMAIN gate = 1..Len(gate) /\ Len(gate) \in Nat
      /\ Len(gate) >= 1 /\ who = gate[1] /\ who \in Callers
      /\ DOMAIN gate' = 1..(Len(gate) - 1)
      /\ \A i \in 1..(Len(gate) - 1) : gate'[i] = gate[i + 1]
  BY QueueFacts DEF IInv, LifecycleTypes, Serve
<1> HIDE DEF who
<1>5. /\ 1 \in DOMAIN gate
      /\ \A i \in DOMAIN gate' : i \in Nat /\ i + 1 \in DOMAIN gate /\ gate'[i] = gate[i + 1]
      /\ \A i \in DOMAIN gate : i # 1 => \E j \in DOMAIN gate' : j + 1 = i /\ gate'[j] = gate[i]
  <2>1. ASSUME NEW i \in DOMAIN gate, i # 1
        PROVE  \E j \in DOMAIN gate' : j + 1 = i /\ gate'[j] = gate[i]
    <3>1. i - 1 \in DOMAIN gate' /\ (i - 1) + 1 = i
      BY <1>1, <2>1
    <3> QED
      BY <1>1, <3>1
  <2> QED
    BY <1>1, <2>1
\* The rest of the queue stands as it stood.
<1>6. /\ \A i, j \in DOMAIN gate' : gate'[i] \in Requests /\ gate'[i] = gate'[j] => i = j
      /\ \A i, j \in DOMAIN gate' : gate'[i] = Main /\ i < j => gate'[j] # Sweep
      /\ \A i \in DOMAIN gate' : gate'[i] \in Requests => request[gate'[i]] = "queued"
      /\ \A i \in DOMAIN gate' : gate'[i] = Main => stop \in {"closing", "closed", "exited"}
  BY <1>5 DEF IInv, GateInv
<1>2. CASE who = Main
  <2>1. /\ store' = "closed" /\ stop' = "closed"
        /\ UNCHANGED <<request, calls, sweep, timer, deadline>>
    BY <1>2 DEF Serve, who
  <2>2. ~sweep /\ stop \in {"closing", "closed", "exited"}
    <3>1. \A i \in DOMAIN gate : gate[i] # Sweep
      <4>1. gate[1] = Main /\ \A i \in DOMAIN gate : i # 1 => 1 < i
        BY <1>1, <1>2
      <4> QED
        BY <1>5, <4>1, Given DEF IInv, GateInv
    <3> QED
      BY <1>1, <1>2, <1>5, <3>1 DEF IInv, GateInv
  <2>3. Active' = Active
    BY <2>1 DEF Active
  <2>4. LifecycleTypes'
    BY <1>1, <2>1 DEF IInv, LifecycleTypes, Stops
  <2>5. GateInv'
    BY <1>6, <2>1, <2>2 DEF IInv, GateInv
  <2>6. StopInv' /\ ClosedAfterWork'
    BY <2>1, <2>2, <2>3 DEF IInv, StopInv, ClosedAfterWork
  <2> QED
    BY <2>4, <2>5, <2>6 DEF IInv
<1>3. CASE who = Sweep
  <2>1. sweep' = FALSE /\ UNCHANGED <<request, calls, store, stop, timer, deadline>>
    BY <1>3, Given DEF Serve, who
  <2>2. Active' = Active
    BY <2>1 DEF Active
  <2>3. LifecycleTypes'
    BY <1>1, <2>1 DEF IInv, LifecycleTypes
  <2>4. GateInv'
    BY <1>6, <2>1 DEF IInv, GateInv
  <2>5. StopInv' /\ ClosedAfterWork'
    BY <2>1, <2>2 DEF IInv, StopInv, ClosedAfterWork
  <2> QED
    BY <2>3, <2>4, <2>5 DEF IInv
<1>4. CASE who \in Requests
  <2>1. /\ IF store = "open"
           THEN /\ request' = [request EXCEPT ![who] = "active"]
                /\ calls' = [calls EXCEPT ![who] = @ - 1]
           ELSE request' = [request EXCEPT ![who] = "error"] /\ UNCHANGED calls
        /\ UNCHANGED <<store, stop, sweep, timer, deadline>>
    BY <1>4, Given DEF Serve, who
  <2>2. request[who] = "queued" /\ \A i \in DOMAIN gate' : gate'[i] # who
    BY <1>1, <1>4, <1>5 DEF IInv, GateInv
  <2>3. \A q \in Requests : request'[q] = IF q = who THEN request'[who] ELSE request[q]
    BY <1>4, <2>1 DEF IInv, LifecycleTypes
  <2>4. who \in Active /\ Active' \subseteq Active
    BY <1>4, <2>2, <2>3 DEF Active
  <2>5. store = "closed" => deadline = "passed"
    BY <2>4 DEF IInv, StopInv, ClosedAfterWork
  <2>6. calls[who] > 0
    BY <1>4, <2>2 DEF IInv, GateInv
  <2>7. LifecycleTypes'
    <3>1. calls[who] - 1 \in Nat
      BY <1>4, <2>6 DEF IInv, LifecycleTypes
    <3>2. calls' \in [Requests -> Nat]
      BY <2>1, <3>1 DEF IInv, LifecycleTypes
    <3>3. request' \in [Requests -> {"new", "active", "queued", "answered", "error"}]
      BY <2>1 DEF IInv, LifecycleTypes
    <3> QED
      BY <1>1, <2>1, <3>2, <3>3 DEF IInv, LifecycleTypes
  <2>8. GateInv'
    <3>1. sweep => \E i \in DOMAIN gate' : gate'[i] = Sweep
      BY <1>1, <1>4, <1>5, Given DEF IInv, GateInv
    <3>2. \A i \in DOMAIN gate' : gate'[i] \in Requests => request'[gate'[i]] = "queued"
      BY <1>6, <2>2, <2>3
    <3>3. \A q \in Requests : request'[q] = "queued" => calls'[q] > 0
      BY <1>4, <2>1, <2>3 DEF IInv, LifecycleTypes, GateInv
    <3> QED
      BY <1>6, <2>1, <3>1, <3>2, <3>3 DEF GateInv
  <2>9. request'[who] = "error" => deadline = "passed"
    BY <1>4, <2>1, <2>5 DEF IInv, LifecycleTypes
  <2>10. StopInv'
    BY <2>1, <2>4 DEF IInv, StopInv
  <2>11. ClosedAfterWork'
    BY <2>1, <2>3, <2>4, <2>9 DEF IInv, ClosedAfterWork
  <2> QED
    BY <2>7, <2>8, <2>10, <2>11 DEF IInv
<1> QED
  BY <1>1, <1>2, <1>3, <1>4 DEF Callers

\* Steps of the limiter, the clock and the ids
LEMMA OthersKeep == IInv /\ UNCHANGED lifecycleVars => IInv'
BY DEF lifecycleVars, IInv, LifecycleTypes, GateInv, StopInv, ClosedAfterWork, Active

LEMMA NextKeeps == IInv /\ [Next]_vars => IInv'
<1> SUFFICES ASSUME IInv, [Next]_vars PROVE IInv'
  OBVIOUS
<1>1. CASE UNCHANGED lifecycleVars
  BY <1>1, OthersKeep
<1>2. CASE UNCHANGED vars
  BY <1>1, <1>2 DEF vars
<1>3. CASE Tick \/ SetBack \/ DrawId
  BY <1>1, <1>3 DEF Tick, SetBack, DrawId
<1>4. ASSUME NEW r \in Requests, NEW client \in Addresses,
             NEW arrival \in Arrivals(client), Login(r, client, arrival)
      PROVE  IInv'
  BY <1>1, <1>4, AdmitKeeps DEF Login
<1>5. CASE LifecycleStep
  BY <1>5, CallKeeps, RespondKeeps, SweepTickKeeps, ShutdownKeeps, CloseKeeps, ServeKeeps
     DEF LifecycleStep
<1> QED
  BY <1>2, <1>3, <1>4, <1>5 DEF Next

\* The store is closed after the work, or after the deadline, and never under
\* a sweep.
THEOREM StoreClosesAfterWork == Spec => []ClosedAfterWork
<1>1. IInv => ClosedAfterWork
  BY DEF IInv
<1> QED
  BY <1>1, InitEstablishes, NextKeeps, PTL DEF Spec

-----------------------------------------------------------------------------
(* Ids *)

\* The clock, set back or not, is a number.
ClockInv ==
  /\ elapsed \in Nat /\ setBack \in 0..MaxSetBack /\ elapsed >= MaxSetBack
  /\ lastMs \in Nat /\ seq \in Nat

LEMMA ClockInvariant == Spec => []ClockInv
<1>1. Init => ClockInv
  BY Given DEF Init, IdsInit, ClockInv
<1>2. ClockInv /\ [Next]_vars => ClockInv'
  <2> SUFFICES ASSUME ClockInv, [Next]_vars PROVE ClockInv'
    OBVIOUS
  <2>1. CASE UNCHANGED <<clockVars, idVars>>
    BY <2>1 DEF ClockInv, clockVars, idVars
  <2>2. CASE Tick \/ SetBack
    BY <2>2, Given DEF Tick, SetBack, ClockInv, idVars
  <2>3. CASE DrawId
    <3>1. NextId(Now) /\ Now \in Nat /\ UNCHANGED clockVars
      BY <2>3, Given DEF DrawId, Now, ClockInv
    <3> QED
      BY <3>1 DEF NextId, TimeOf, ClockInv, clockVars
  <2>4. ASSUME NEW r \in Requests, NEW client \in Addresses,
             NEW arrival \in Arrivals(client), Login(r, client, arrival)
        PROVE  ClockInv'
    BY <2>1, <2>4 DEF Login
  <2>5. CASE UNCHANGED Rest
    BY <2>1, <2>5 DEF Rest
  <2> QED
    BY <2>1, <2>2, <2>3, <2>4, <2>5 DEF Next, vars
<1> QED
  BY <1>1, <1>2, PTL DEF Spec

\* Every id is greater than the one before it, also after a rollback of the
\* clock and within a millisecond.
THEOREM IdsAlwaysIncrease == Spec => IdsIncrease
<1> DEFINE Greater == lastMs' > lastMs \/ (lastMs' = lastMs /\ seq' > seq)
<1>1. ClockInv /\ [Next]_vars => [Greater]_idVars
  <2> SUFFICES ASSUME ClockInv, [Next]_vars, ~UNCHANGED idVars PROVE Greater
    OBVIOUS
  <2>1. DrawId
    BY DEF Next, vars, Tick, SetBack, Login, Rest
  <2>2. NextId(Now) /\ Now \in Nat
    BY <2>1, Given DEF DrawId, Now, ClockInv
  <2> QED
    BY <2>2 DEF NextId, TimeOf, ClockInv
<1> QED
  BY <1>1, ClockInvariant, PTL DEF Spec, IdsIncrease

-----------------------------------------------------------------------------
(* The limiter.  Windows of a client follow each other by at least their   *)
(* length in time that really passes, because the clock is only ever set   *)
(* back; an attempt that was admitted belongs to the window of its client  *)
(* that is open, or to one that is over, and the attempt that opened a     *)
(* window was admitted.                                                    *)

Window == [count : Nat, resetAt : Int, since : Nat]
Admission == [by : Addresses, at : Nat, window : Nat]

\* The admissions of client c in window w, by their places in sequence s.
InWindowOf(s, c, w) == {i \in DOMAIN s : s[i].by = c /\ s[i].window = w}

\* The attempt that opened window w of client c is among the admissions.
Opened(s, c, w) == \E i \in DOMAIN s : s[i].by = c /\ s[i].window = w /\ s[i].at = w

LimiterTypes ==
  /\ elapsed \in Nat /\ setBack \in Nat /\ nextPruneAt \in Int
  /\ DOMAIN windows \subseteq Addresses /\ IsFiniteSet(DOMAIN windows)
  /\ \A c \in DOMAIN windows : windows[c] \in Window
  /\ admitted \in Seq(Admission)
  /\ scans \in Seq(Nat)

\* A window was opened in the past, and is not over before its time.
WindowsInv ==
  /\ Cardinality(DOMAIN windows) <= MaxEntries
  /\ \A c \in DOMAIN windows :
       /\ windows[c].since <= elapsed
       /\ windows[c].since + WindowMs <= windows[c].resetAt + setBack
       /\ Cardinality(InWindowOf(admitted, c, windows[c].since)) <= windows[c].count
       /\ Opened(admitted, c, windows[c].since)

\* The window of an admission is the open one of its client, or is over.
Closed(x) ==
  IF x.by \in DOMAIN windows
  THEN x.window = windows[x.by].since
       \/ (x.window + WindowMs <= windows[x.by].since /\ x.at <= windows[x.by].since)
  ELSE x.window + WindowMs <= elapsed

AdmissionsInv ==
  /\ \A i \in DOMAIN admitted :
       /\ admitted[i].window <= admitted[i].at /\ admitted[i].at <= elapsed
       /\ Closed(admitted[i])
       /\ Opened(admitted, admitted[i].by, admitted[i].window)
  /\ \A i, j \in DOMAIN admitted :
       admitted[i].by = admitted[j].by /\ admitted[i].window < admitted[j].window =>
         /\ admitted[i].window + WindowMs <= admitted[j].window
         /\ admitted[i].at <= admitted[j].window
  /\ \A c \in Addresses, w \in Nat : Cardinality(InWindowOf(admitted, c, w)) <= MaxAttempts

ScansInv ==
  /\ \A k \in DOMAIN scans : scans[k] + PruneMs <= nextPruneAt + setBack
  /\ \A i, j \in DOMAIN scans : i < j => scans[j] >= scans[i] + PruneMs

LimiterInv == LimiterTypes /\ WindowsInv /\ AdmissionsInv /\ ScansInv

LEMMA LimiterConstants ==
  /\ Addresses \cap Proxies = {}
  /\ WindowMs \in Nat \ {0} /\ MaxAttempts \in Nat \ {0}
  /\ MaxEntries \in Nat \ {0} /\ PruneMs \in Nat \ {0}
BY RateLimiterAssumption DEF RateLimiterAssumption

\* However an attempt arrives, it is counted for the client that made it.
LEMMA ClientIsKnown ==
  ASSUME NEW client \in Addresses, NEW arrival \in Arrivals(client)
  PROVE  ClientIp(arrival) = client
<1> DEFINE claims == {<< >>} \cup {<<a>> : a \in Addresses}
<1>1. CASE arrival \in [peer : {client}, hops : claims]
  <2>1. arrival.peer = client /\ client \notin Proxies
    BY <1>1, LimiterConstants
  <2> QED
    BY <2>1 DEF ClientIp
<1>2. CASE arrival \in [peer : Proxies, hops : {Append(h, client) : h \in claims}]
  <2>1. PICK h \in claims : arrival.hops = Append(h, client)
    BY <1>2
  <2>2. arrival.peer \in Proxies
    BY <1>2
  <2>3. h \in Seq(Addresses)
    <3>1. CASE h = << >>
      BY <3>1
    <3>2. CASE h \in {<<a>> : a \in Addresses}
      BY <3>2
    <3> QED
      BY <2>1, <3>1, <3>2
  <2>4. arrival.hops # << >> /\ arrival.hops[Len(arrival.hops)] = client
    BY <2>1, <2>3
  <2> QED
    BY <2>2, <2>4 DEF ClientIp
<1> QED
  BY <1>1, <1>2 DEF Arrivals

\* One more admission is counted in its own window only.
LEMMA OneMoreAdmission ==
  ASSUME NEW s \in Seq(Admission), NEW x \in Admission, NEW c, NEW w
  PROVE  /\ IsFiniteSet(InWindowOf(s, c, w))
         /\ Cardinality(InWindowOf(s, c, w)) \in Nat
         /\ Cardinality(InWindowOf(Append(s, x), c, w)) =
              IF x.by = c /\ x.window = w THEN Cardinality(InWindowOf(s, c, w)) + 1
              ELSE Cardinality(InWindowOf(s, c, w))
<1>1. /\ DOMAIN s = 1 .. Len(s) /\ Len(s) \in Nat
      /\ DOMAIN Append(s, x) = DOMAIN s \cup {Len(s) + 1}
      /\ \A i \in DOMAIN s : Append(s, x)[i] = s[i]
      /\ Append(s, x)[Len(s) + 1] = x
      /\ Len(s) + 1 \notin DOMAIN s
  OBVIOUS
<1>2. IsFiniteSet(InWindowOf(s, c, w)) /\ Cardinality(InWindowOf(s, c, w)) \in Nat
  <2>1. IsFiniteSet(1 .. Len(s))
    BY <1>1, FS_Interval
  <2>2. InWindowOf(s, c, w) \in SUBSET (1 .. Len(s))
    BY <1>1 DEF InWindowOf
  <2> QED
    BY <2>1, <2>2, FS_Subset, FS_CardinalityType
<1>3. InWindowOf(Append(s, x), c, w) =
        IF x.by = c /\ x.window = w THEN InWindowOf(s, c, w) \cup {Len(s) + 1}
        ELSE InWindowOf(s, c, w)
  BY <1>1 DEF InWindowOf
<1>4. Len(s) + 1 \notin InWindowOf(s, c, w)
  BY <1>1 DEF InWindowOf
<1>5. Cardinality(InWindowOf(s, c, w) \cup {Len(s) + 1}) = Cardinality(InWindowOf(s, c, w)) + 1
  BY <1>2, <1>4, FS_AddElement
<1> QED
  BY <1>2, <1>3, <1>5

\* Appending to a sequence, index by index
LEMMA Appended ==
  ASSUME NEW S, NEW s \in Seq(S), NEW x \in S
  PROVE  /\ Append(s, x) \in Seq(S)
         /\ DOMAIN s = 1 .. Len(s) /\ Len(s) \in Nat
         /\ DOMAIN Append(s, x) = DOMAIN s \cup {Len(s) + 1}
         /\ \A i \in DOMAIN s : Append(s, x)[i] = s[i] /\ s[i] \in S
         /\ Append(s, x)[Len(s) + 1] = x
OBVIOUS

LEMMA LimiterStarts == Init => LimiterInv
<1> SUFFICES ASSUME Init PROVE LimiterInv
  OBVIOUS
<1>1. /\ windows = << >> /\ nextPruneAt = 0 /\ admitted = << >> /\ scans = << >>
      /\ elapsed = MaxSetBack /\ setBack = 0
  BY DEF Init, LimiterInit
<1>2. DOMAIN windows = {} /\ DOMAIN admitted = {} /\ DOMAIN scans = {}
  BY <1>1
<1>3. LimiterTypes
  BY <1>1, <1>2, Given, FS_EmptySet DEF LimiterTypes
<1>4. WindowsInv
  BY <1>2, FS_EmptySet, LimiterConstants DEF WindowsInv
<1>5. AdmissionsInv
  <2>1. \A c, w : InWindowOf(admitted, c, w) = {}
    BY <1>2 DEF InWindowOf
  <2>2. Cardinality({}) <= MaxAttempts
    BY FS_EmptySet, LimiterConstants
  <2>3. \A c \in Addresses, w \in Nat : Cardinality(InWindowOf(admitted, c, w)) <= MaxAttempts
    BY <2>1, <2>2
  <2> QED
    BY <1>2, <2>3 DEF AdmissionsInv
<1>6. ScansInv
  BY <1>2 DEF ScansInv
<1> QED
  BY <1>3, <1>4, <1>5, <1>6 DEF LimiterInv

\* Time passes, or the clock is set back.
LEMMA ClockKeepsLimiter ==
  ASSUME LimiterInv, UNCHANGED limiterVars,
         elapsed' \in Nat, setBack' \in Nat, elapsed' >= elapsed, setBack' >= setBack
  PROVE  LimiterInv'
<1>1. UNCHANGED <<windows, nextPruneAt, admitted, scans>>
  BY DEF limiterVars
<1>2. LimiterTypes'
  BY <1>1 DEF LimiterInv, LimiterTypes
<1>3. \A c \in DOMAIN windows : windows[c].resetAt \in Int /\ windows[c].since \in Nat
  BY DEF LimiterInv, LimiterTypes, Window
<1>4. WindowsInv'
  BY <1>1, <1>3, LimiterConstants DEF LimiterInv, LimiterTypes, WindowsInv
<1>5. AdmissionsInv'
  <2>1. \A i \in DOMAIN admitted : admitted[i].window \in Nat /\ admitted[i].at \in Nat
    <3>1. \A i \in DOMAIN admitted : admitted[i] \in Admission
      BY DEF LimiterInv, LimiterTypes
    <3> QED
      BY <3>1 DEF Admission
  <2>2. \A i \in DOMAIN admitted : Closed(admitted[i])'
    BY <1>1, <2>1, LimiterConstants DEF LimiterInv, LimiterTypes, AdmissionsInv, Closed
  <2>3. \A i \in DOMAIN admitted : admitted[i].at <= elapsed'
    BY <2>1 DEF LimiterInv, LimiterTypes, AdmissionsInv
  <2> QED
    BY <1>1, <2>2, <2>3 DEF LimiterInv, AdmissionsInv
<1>6. ScansInv'
  <2>1. \A k \in DOMAIN scans : scans[k] \in Nat
    BY DEF LimiterInv, LimiterTypes
  <2> QED
    BY <1>1, <2>1, LimiterConstants DEF LimiterInv, LimiterTypes, ScansInv
<1> QED
  BY <1>2, <1>4, <1>5, <1>6 DEF LimiterInv

\* A window that is over by the clock has had its length in time.
LEMMA OverIsOver ==
  ASSUME LimiterInv, NEW c \in DOMAIN windows, Over(windows[c])
  PROVE  windows[c].since + WindowMs <= elapsed
<1>1. windows[c].resetAt \in Int /\ windows[c].since \in Nat /\ elapsed \in Nat /\ setBack \in Nat
  BY DEF LimiterInv, LimiterTypes, Window
<1>2. windows[c].since + WindowMs <= windows[c].resetAt + setBack
  BY DEF LimiterInv, WindowsInv
<1>3. elapsed - setBack >= windows[c].resetAt
  BY DEF Over, Now
<1> QED
  BY <1>1, <1>2, <1>3, LimiterConstants

\* An attempt of a client, counted for that client.
LEMMA AttemptKeeps ==
  ASSUME LimiterInv, NEW client \in Addresses, Attempt(client, client), UNCHANGED clockVars
  PROVE  LimiterInv'
<1> DEFINE e == Counted(client)
           x == [by |-> client, at |-> elapsed, window |-> e.since]
           running == client \in Kept /\ ~Over(windows[client])
\* What is known before
<1>1. /\ elapsed \in Nat /\ setBack \in Nat /\ nextPruneAt \in Int
      /\ elapsed' = elapsed /\ setBack' = setBack
      /\ DOMAIN windows \subseteq Addresses /\ IsFiniteSet(DOMAIN windows)
      /\ admitted \in Seq(Admission) /\ scans \in Seq(Nat)
      /\ WindowMs \in Nat \ {0} /\ MaxAttempts \in Nat \ {0}
      /\ MaxEntries \in Nat \ {0} /\ PruneMs \in Nat \ {0}
  BY LimiterConstants DEF LimiterInv, LimiterTypes, clockVars
<1>2. \A c \in DOMAIN windows :
        /\ windows[c] \in Window
        /\ windows[c].since \in Nat /\ windows[c].count \in Nat /\ windows[c].resetAt \in Int
        /\ windows[c].since <= elapsed
        /\ windows[c].since + WindowMs <= windows[c].resetAt + setBack
        /\ Cardinality(InWindowOf(admitted, c, windows[c].since)) <= windows[c].count
        /\ Opened(admitted, c, windows[c].since)
  BY DEF LimiterInv, LimiterTypes, WindowsInv, Window
<1>3. \A i \in DOMAIN admitted :
        /\ admitted[i].by \in Addresses /\ admitted[i].at \in Nat /\ admitted[i].window \in Nat
        /\ admitted[i].window <= admitted[i].at /\ admitted[i].at <= elapsed
        /\ Closed(admitted[i])
        /\ Opened(admitted, admitted[i].by, admitted[i].window)
  <2>1. \A i \in DOMAIN admitted : admitted[i] \in Admission
    BY <1>1
  <2> QED
    BY <2>1 DEF Admission, LimiterInv, AdmissionsInv
\* What the step does
<1>4. Kept \subseteq DOMAIN windows
      /\ \A c \in DOMAIN windows \ Kept : windows[c].since + WindowMs <= elapsed
  BY OverIsOver DEF Kept
<1>5. /\ DOMAIN windows' = Kept \cup (IF client \in Kept \/ Passes(client) THEN {client} ELSE {})
      /\ client \in DOMAIN windows' => windows'[client] = e
      /\ \A c \in DOMAIN windows' : c # client => c \in Kept /\ windows'[c] = windows[c]
      /\ admitted' = IF Passes(client) THEN Append(admitted, x) ELSE admitted
  BY DEF Attempt
<1>6. running => /\ e \in Window /\ e.count = windows[client].count + 1
                 /\ e.since = windows[client].since /\ e.resetAt = windows[client].resetAt
                 /\ Passes(client) => windows[client].count < MaxAttempts
                 /\ client \in DOMAIN windows
  BY <1>2, <1>4 DEF Counted, Window, Passes
<1>7. ~running => e \in Window /\ e.count = 1 /\ e.since = elapsed /\ e.resetAt = elapsed - setBack + WindowMs
  BY <1>1 DEF Counted, Entry, Window, Now
<1>8. e \in Window /\ e.since \in Nat /\ e.since <= elapsed
  BY <1>1, <1>2, <1>6, <1>7 DEF Window
<1>9. client \in Kept /\ ~running => Passes(client)
  BY DEF Passes
<1> HIDE DEF e
<1>10. x \in Admission /\ x.by = client /\ x.at = elapsed /\ x.window = e.since
  BY <1>1, <1>8 DEF Admission
<1> HIDE DEF x
\* When a window opens, those before it are over.
<1>11. ~running => \A i \in DOMAIN admitted : admitted[i].by = client =>
                     admitted[i].window + WindowMs <= elapsed
  <2> SUFFICES ASSUME ~running, NEW i \in DOMAIN admitted, admitted[i].by = client
               PROVE  admitted[i].window + WindowMs <= elapsed
    OBVIOUS
  <2>1. CASE client \in DOMAIN windows
    <3>1. windows[client].since + WindowMs <= elapsed
      BY <1>4, <2>1, OverIsOver
    <3>2. /\ admitted[i].window \in Nat /\ windows[client].since \in Nat
          /\ \/ admitted[i].window = windows[client].since
             \/ admitted[i].window + WindowMs <= windows[client].since
      BY <1>2, <1>3, <2>1 DEF Closed
    <3> QED
      BY <1>1, <3>1, <3>2
  <2>2. CASE client \notin DOMAIN windows
    BY <1>3, <2>2 DEF Closed
  <2> QED
    BY <2>1, <2>2
\* Types
<1>12. LimiterTypes'
  <2>1. DOMAIN windows' \subseteq Addresses /\ \A c \in DOMAIN windows' : windows'[c] \in Window
    BY <1>1, <1>2, <1>4, <1>5, <1>8
  <2>2. IsFiniteSet(Kept) /\ IsFiniteSet(DOMAIN windows')
    <3>1. IsFiniteSet(Kept)
      BY <1>1, <1>4, FS_Subset
    <3> QED
      BY <1>5, <3>1, FS_AddElement
  <2>3. admitted' \in Seq(Admission)
    BY <1>1, <1>5, <1>10, Appended
  <2>4. nextPruneAt' \in Int /\ scans' \in Seq(Nat)
    BY <1>1, Appended DEF Attempt, Now
  <2> QED
    BY <1>1, <2>1, <2>2, <2>3, <2>4 DEF LimiterTypes
\* The map
<1>13. Cardinality(DOMAIN windows') <= MaxEntries
  <2>1. /\ IsFiniteSet(Kept) /\ Cardinality(Kept) <= Cardinality(DOMAIN windows)
        /\ Cardinality(Kept) \in Nat /\ Cardinality(DOMAIN windows) \in Nat
    BY <1>1, <1>4, FS_Subset, FS_CardinalityType
  <2>2. Cardinality(Kept) <= MaxEntries
    BY <1>1, <2>1 DEF LimiterInv, WindowsInv
  <2>3. CASE client \in Kept
    <3>1. DOMAIN windows' = Kept
      BY <1>5, <2>3
    <3> QED
      BY <2>2, <3>1
  <2>4. CASE client \notin Kept /\ Passes(client)
    <3>1. Cardinality(Kept) < MaxEntries
      BY <2>4 DEF Passes
    <3>2. DOMAIN windows' = Kept \cup {client}
      BY <1>5, <2>4
    <3>3. Cardinality(Kept \cup {client}) = Cardinality(Kept) + 1
      BY <2>1, <2>4, FS_AddElement
    <3> QED
      BY <1>1, <2>1, <3>1, <3>2, <3>3
  <2>5. CASE client \notin Kept /\ ~Passes(client)
    <3>1. DOMAIN windows' = Kept
      BY <1>5, <2>5
    <3> QED
      BY <2>2, <3>1
  <2> QED
    BY <2>3, <2>4, <2>5
\* The counts of admissions
<1>14. \A c, w : /\ Cardinality(InWindowOf(admitted, c, w)) \in Nat
                 /\ Cardinality(InWindowOf(admitted', c, w)) =
                      IF Passes(client) /\ c = client /\ w = e.since
                      THEN Cardinality(InWindowOf(admitted, c, w)) + 1
                      ELSE Cardinality(InWindowOf(admitted, c, w))
  <2> TAKE c, w
  <2>1. /\ Cardinality(InWindowOf(admitted, c, w)) \in Nat
        /\ Cardinality(InWindowOf(Append(admitted, x), c, w)) =
             IF x.by = c /\ x.window = w THEN Cardinality(InWindowOf(admitted, c, w)) + 1
             ELSE Cardinality(InWindowOf(admitted, c, w))
    BY <1>1, <1>10, OneMoreAdmission
  <2> QED
    BY <1>5, <1>10, <2>1
<1>15. ~running => Cardinality(InWindowOf(admitted, client, e.since)) = 0
  <2> SUFFICES ASSUME ~running PROVE InWindowOf(admitted, client, e.since) = {}
    BY FS_EmptySet
  <2>1. \A i \in DOMAIN admitted : admitted[i].by = client => admitted[i].window # e.since
    BY <1>1, <1>3, <1>7, <1>11
  <2> QED
    BY <2>1 DEF InWindowOf
\* The history of admissions
<1>16. /\ DOMAIN admitted \subseteq DOMAIN admitted'
       /\ \A i \in DOMAIN admitted : admitted'[i] = admitted[i]
       /\ \A i \in DOMAIN admitted' \ DOMAIN admitted : Passes(client) /\ admitted'[i] = x
       /\ \A i, j \in DOMAIN admitted' \ DOMAIN admitted : i = j
  <2>1. CASE Passes(client)
    <3>1. admitted' = Append(admitted, x)
      BY <1>5, <2>1
    <3>2. /\ DOMAIN Append(admitted, x) = DOMAIN admitted \cup {Len(admitted) + 1}
          /\ \A i \in DOMAIN admitted : Append(admitted, x)[i] = admitted[i]
          /\ Append(admitted, x)[Len(admitted) + 1] = x
      BY <1>1, <1>10, Appended
    <3> QED
      BY <2>1, <3>1, <3>2
  <2>2. CASE ~Passes(client)
    BY <1>5, <2>2
  <2> QED
    BY <2>1, <2>2
\* What was opened stays so, and an attempt that opens a window is admitted.
<1>17. \A c, w : Opened(admitted, c, w) => Opened(admitted', c, w)
  BY <1>16 DEF Opened
<1>18. ~running /\ Passes(client) => Opened(admitted', client, e.since)
  <2> SUFFICES ASSUME ~running, Passes(client) PROVE Opened(admitted', client, e.since)
    OBVIOUS
  <2>1. /\ admitted' = Append(admitted, x)
        /\ Len(admitted) + 1 \in DOMAIN Append(admitted, x)
        /\ Append(admitted, x)[Len(admitted) + 1] = x
    BY <1>1, <1>5, <1>10, Appended
  <2> QED
    BY <1>7, <1>10, <2>1 DEF Opened
\* Windows
<1>19. WindowsInv'
  <2> SUFFICES ASSUME NEW c \in DOMAIN windows'
               PROVE  /\ windows'[c].since <= elapsed
                      /\ windows'[c].since + WindowMs <= windows'[c].resetAt + setBack
                      /\ Cardinality(InWindowOf(admitted', c, windows'[c].since)) <= windows'[c].count
                      /\ Opened(admitted', c, windows'[c].since)
    BY <1>1, <1>13 DEF WindowsInv, InWindowOf, Opened
  <2>1. CASE c # client
    BY <1>2, <1>4, <1>5, <1>14, <1>17, <2>1
  <2>2. CASE c = client /\ running
    <3>1. windows'[c] = e
      BY <1>5, <2>2
    <3>2. Cardinality(InWindowOf(admitted, client, e.since)) <= windows[client].count
      BY <1>2, <1>6, <2>2
    <3>3. Cardinality(InWindowOf(admitted', client, e.since)) <= e.count
      BY <1>2, <1>6, <1>14, <2>2, <3>2
    <3> QED
      BY <1>2, <1>6, <1>17, <2>2, <3>1, <3>3
  <2>3. CASE c = client /\ ~running
    <3>1. windows'[c] = e
      BY <1>5, <2>3
    <3>2. Cardinality(InWindowOf(admitted', client, e.since)) <= 1
      BY <1>14, <1>15, <2>3
    <3>3. Passes(client)
      BY <1>5, <1>9, <2>3
    <3> QED
      BY <1>1, <1>7, <1>18, <2>3, <3>1, <3>2, <3>3
  <2> QED
    BY <2>1, <2>2, <2>3
\* Admissions
<1>20. ASSUME NEW i \in DOMAIN admitted
       PROVE   IF admitted[i].by \in DOMAIN windows'
               THEN \/ admitted[i].window = windows'[admitted[i].by].since
                    \/ /\ admitted[i].window + WindowMs <= windows'[admitted[i].by].since
                       /\ admitted[i].at <= windows'[admitted[i].by].since
               ELSE admitted[i].window + WindowMs <= elapsed
  <2> DEFINE c == admitted[i].by
  <2>1. CASE c \in DOMAIN windows' /\ c # client
    BY <1>3, <1>4, <1>5, <2>1 DEF Closed
  <2>2. CASE c \in DOMAIN windows' /\ c = client
    <3>1. CASE running
      BY <1>3, <1>5, <1>6, <2>2, <3>1 DEF Closed
    <3>2. CASE ~running
      BY <1>3, <1>5, <1>7, <1>11, <2>2, <3>2
    <3> QED
      BY <3>1, <3>2
  <2>3. CASE c \notin DOMAIN windows' /\ c \in DOMAIN windows
    <3>1. windows[c].since + WindowMs <= elapsed
      BY <1>4, <1>5, <2>3
    <3>2. /\ admitted[i].window \in Nat /\ windows[c].since \in Nat
          /\ \/ admitted[i].window = windows[c].since
             \/ admitted[i].window + WindowMs <= windows[c].since
      BY <1>2, <1>3, <2>3 DEF Closed
    <3> QED
      BY <1>1, <2>3, <3>1, <3>2
  <2>4. CASE c \notin DOMAIN windows' /\ c \notin DOMAIN windows
    BY <1>3, <2>4 DEF Closed
  <2> QED
    BY <2>1, <2>2, <2>3, <2>4
\* The new admission against those before it
<1>21. ASSUME Passes(client), NEW i \in DOMAIN admitted, admitted[i].by = client
       PROVE  \/ admitted[i].window = e.since
              \/ admitted[i].window + WindowMs <= e.since /\ admitted[i].at <= e.since
  <2>1. CASE running
    BY <1>3, <1>6, <1>21, <2>1 DEF Closed
  <2>2. CASE ~running
    BY <1>3, <1>7, <1>11, <1>21, <2>2
  <2> QED
    BY <2>1, <2>2
<1>22. AdmissionsInv'
  <2>1. ASSUME NEW i \in DOMAIN admitted', NEW y, y = admitted'[i]
        PROVE  y.window <= y.at /\ y.at <= elapsed' /\ Closed(y)'
    <3>1. CASE i \in DOMAIN admitted
      <4>1. y = admitted[i]
        BY <1>16, <2>1, <3>1
      <4>2. IF y.by \in DOMAIN windows'
            THEN \/ y.window = windows'[y.by].since
                 \/ /\ y.window + WindowMs <= windows'[y.by].since
                    /\ y.at <= windows'[y.by].since
            ELSE y.window + WindowMs <= elapsed
        BY <1>20, <3>1, <4>1
      <4> QED
        BY <1>1, <1>3, <3>1, <4>1, <4>2 DEF Closed
    <3>2. CASE i \notin DOMAIN admitted
      <4>1. y = x /\ client \in DOMAIN windows' /\ windows'[client] = e
        BY <1>5, <1>16, <2>1, <3>2
      <4> QED
        BY <1>1, <1>8, <1>10, <4>1 DEF Closed
    <3> QED
      BY <3>1, <3>2
  <2>2. ASSUME NEW i \in DOMAIN admitted', NEW j \in DOMAIN admitted',
               admitted'[i].by = admitted'[j].by, admitted'[i].window < admitted'[j].window
        PROVE  /\ admitted'[i].window + WindowMs <= admitted'[j].window
               /\ admitted'[i].at <= admitted'[j].window
    <3>1. CASE i \in DOMAIN admitted /\ j \in DOMAIN admitted
      BY <1>16, <2>2, <3>1 DEF LimiterInv, AdmissionsInv
    <3>2. CASE i \in DOMAIN admitted /\ j \notin DOMAIN admitted
      BY <1>3, <1>8, <1>10, <1>16, <1>21, <2>2, <3>2
    <3>3. CASE i \notin DOMAIN admitted /\ j \in DOMAIN admitted
      BY <1>1, <1>3, <1>8, <1>10, <1>16, <1>21, <2>2, <3>3
    <3>4. CASE i \notin DOMAIN admitted /\ j \notin DOMAIN admitted
      BY <1>8, <1>10, <1>16, <2>2, <3>4
    <3> QED
      BY <3>1, <3>2, <3>3, <3>4
  <2>3. ASSUME NEW c \in Addresses, NEW w \in Nat
        PROVE  Cardinality(InWindowOf(admitted', c, w)) <= MaxAttempts
    <3>1. Cardinality(InWindowOf(admitted, c, w)) <= MaxAttempts
      BY DEF LimiterInv, AdmissionsInv
    <3>2. CASE Passes(client) /\ c = client /\ w = e.since
      <4>1. CASE running
        <5>1. Cardinality(InWindowOf(admitted, client, e.since)) <= windows[client].count
          BY <1>2, <1>6, <4>1
        <5> QED
          BY <1>1, <1>2, <1>6, <1>14, <3>2, <4>1, <5>1
      <4>2. CASE ~running
        BY <1>1, <1>14, <1>15, <3>2, <4>2
      <4> QED
        BY <4>1, <4>2
    <3>3. CASE ~(Passes(client) /\ c = client /\ w = e.since)
      BY <1>14, <3>1, <3>3
    <3> QED
      BY <3>2, <3>3
  <2>4. ASSUME NEW i \in DOMAIN admitted'
        PROVE  Opened(admitted', admitted'[i].by, admitted'[i].window)
    <3>1. CASE i \in DOMAIN admitted
      BY <1>3, <1>16, <1>17, <3>1
    <3>2. CASE i \notin DOMAIN admitted /\ running
      BY <1>2, <1>6, <1>10, <1>16, <1>17, <3>2
    <3>3. CASE i \notin DOMAIN admitted /\ ~running
      BY <1>10, <1>16, <1>18, <3>3
    <3> QED
      BY <3>1, <3>2, <3>3
  <2>5. \A i \in DOMAIN admitted' :
          admitted'[i].window <= admitted'[i].at /\ admitted'[i].at <= elapsed'
    BY <2>1
  <2>6. (\A i \in DOMAIN admitted : Closed(admitted[i]))'
    BY <2>1 DEF Closed
  <2> QED
    BY <2>2, <2>3, <2>5, <2>6, <2>4 DEF AdmissionsInv, InWindowOf, Opened
\* Scans
<1>23. ScansInv'
  <2>1. CASE PruneNow
    <3>1. /\ scans' = Append(scans, elapsed) /\ nextPruneAt' = elapsed - setBack + PruneMs
          /\ elapsed - setBack >= nextPruneAt
      BY <2>1 DEF Attempt, PruneNow, Now
    <3>2. /\ DOMAIN scans' = DOMAIN scans \cup {Len(scans) + 1}
          /\ DOMAIN scans = 1 .. Len(scans) /\ Len(scans) \in Nat
          /\ \A k \in DOMAIN scans : scans'[k] = scans[k] /\ scans[k] \in Nat
          /\ scans'[Len(scans) + 1] = elapsed
      BY <1>1, <3>1, Appended
    <3>3. \A k \in DOMAIN scans : scans[k] + PruneMs <= elapsed
      BY <1>1, <3>1, <3>2 DEF LimiterInv, ScansInv
    <3>4. \A k \in DOMAIN scans' : scans'[k] + PruneMs <= nextPruneAt' + setBack'
      BY <1>1, <3>1, <3>2, <3>3
    <3>5. \A i, j \in DOMAIN scans' : i < j => scans'[j] >= scans'[i] + PruneMs
      BY <1>1, <3>2, <3>3 DEF LimiterInv, ScansInv
    <3> QED
      BY <3>4, <3>5 DEF ScansInv
  <2>2. CASE ~PruneNow
    <3>1. UNCHANGED <<scans, nextPruneAt>>
      BY <2>2 DEF Attempt
    <3> QED
      BY <1>1, <3>1 DEF LimiterInv, ScansInv
  <2> QED
    BY <2>1, <2>2
<1> QED
  BY <1>12, <1>19, <1>22, <1>23 DEF LimiterInv

LEMMA NextKeepsLimiter == LimiterInv /\ [Next]_vars => LimiterInv'
<1> SUFFICES ASSUME LimiterInv, [Next]_vars PROVE LimiterInv'
  OBVIOUS
<1>1. elapsed \in Nat /\ setBack \in Nat
  BY DEF LimiterInv, LimiterTypes
<1>2. CASE UNCHANGED <<clockVars, limiterVars>>
  BY <1>1, <1>2, ClockKeepsLimiter DEF clockVars
<1>3. CASE Tick
  BY <1>1, <1>3, ClockKeepsLimiter DEF Tick
<1>4. CASE SetBack
  BY <1>1, <1>4, ClockKeepsLimiter DEF SetBack
<1>5. ASSUME NEW r \in Requests, NEW client \in Addresses, NEW arrival \in Arrivals(client),
             Login(r, client, arrival)
      PROVE  LimiterInv'
  <2>1. ClientIp(arrival) = client
    BY ClientIsKnown
  <2>2. Attempt(client, client) /\ UNCHANGED clockVars
    BY <1>5, <2>1 DEF Login
  <2> QED
    BY <2>2, AttemptKeeps
<1>6. CASE DrawId
  BY <1>2, <1>6 DEF DrawId
<1>7. CASE LifecycleStep /\ UNCHANGED Rest
  BY <1>2, <1>7 DEF Rest
<1>8. CASE UNCHANGED vars
  BY <1>2, <1>8 DEF vars
<1> QED
  BY <1>3, <1>4, <1>5, <1>6, <1>7, <1>8 DEF Next

\* Of three windows of a client one is too far from the others for a stretch
\* of time of their length to meet them all.
LEMMA TwoWindows ==
  ASSUME LimiterInv,
         NEW start \in Nat, NEW c,
         NEW i \in DOMAIN admitted, NEW j \in DOMAIN admitted, NEW k \in DOMAIN admitted,
         admitted[i].by = c, admitted[j].by = c, admitted[k].by = c,
         admitted[i].at \in start .. start + WindowMs - 1,
         admitted[k].at \in start .. start + WindowMs - 1,
         admitted[i].window < admitted[j].window, admitted[j].window < admitted[k].window
  PROVE  FALSE
<1>1. \A n \in {i, j, k} : /\ admitted[n].at \in Nat /\ admitted[n].window \in Nat
                           /\ admitted[n].window <= admitted[n].at
  <2>1. \A n \in {i, j, k} : admitted[n] \in Admission
    BY DEF LimiterInv, LimiterTypes
  <2> QED
    BY <2>1 DEF Admission, LimiterInv, AdmissionsInv
<1>2. /\ admitted[i].at <= admitted[j].window
      /\ admitted[j].window + WindowMs <= admitted[k].window
  BY DEF LimiterInv, AdmissionsInv
<1> QED
  BY <1>1, <1>2, LimiterConstants

\* A stretch of time as long as a window meets one window of a client, or
\* two, but then not the attempt that opened the first.
LEMMA StretchBounded ==
  ASSUME LimiterInv, NEW c \in Addresses, NEW start \in Nat
  PROVE  Cardinality(AdmittedWithin(c, start)) <= 2 * MaxAttempts - 1
<1> DEFINE near == AdmittedWithin(c, start)
           of(w) == AdmittedIn(c, w)
<1>1. /\ DOMAIN admitted = 1 .. Len(admitted) /\ Len(admitted) \in Nat
      /\ \A i \in DOMAIN admitted : admitted[i].at \in Nat /\ admitted[i].window \in Nat
  <2>1. admitted \in Seq(Admission)
    BY DEF LimiterInv, LimiterTypes
  <2>2. \A i \in DOMAIN admitted : admitted[i] \in Admission
    BY <2>1
  <2> QED
    BY <2>1, <2>2 DEF Admission
<1>2. /\ near \subseteq DOMAIN admitted
      /\ \A i \in near : /\ admitted[i].by = c /\ admitted[i].at \in start .. start + WindowMs - 1
                         /\ admitted[i].at \in Nat /\ admitted[i].window \in Nat
                         /\ admitted[i].window <= admitted[i].at
  BY <1>1 DEF AdmittedWithin, LimiterInv, AdmissionsInv
<1>3. ASSUME NEW w \in Nat
      PROVE  /\ IsFiniteSet(of(w)) /\ Cardinality(of(w)) \in Nat
             /\ Cardinality(of(w)) <= MaxAttempts
  <2>1. of(w) = InWindowOf(admitted, c, w)
    BY DEF AdmittedIn, InWindowOf
  <2>2. of(w) \subseteq DOMAIN admitted /\ IsFiniteSet(DOMAIN admitted)
    BY <1>1, FS_Interval DEF AdmittedIn
  <2>3. IsFiniteSet(of(w)) /\ Cardinality(of(w)) \in Nat
    BY <2>2, FS_Subset, FS_CardinalityType
  <2> QED
    BY <2>1, <2>3 DEF LimiterInv, AdmissionsInv
<1>4. CASE \E i, j \in near : admitted[i].window < admitted[j].window
  <2>1. PICK i \in near, j \in near : admitted[i].window < admitted[j].window
    BY <1>4
  <2> DEFINE first == admitted[i].window
             second == admitted[j].window
  <2>2. first \in Nat /\ second \in Nat /\ first + WindowMs <= second
    BY <1>2, <2>1 DEF LimiterInv, AdmissionsInv
  <2>3. PICK o \in of(first) : admitted[o].at = first
    <3>1. Opened(admitted, c, first)
      BY <1>2 DEF LimiterInv, AdmissionsInv
    <3> QED
      BY <3>1 DEF Opened, AdmittedIn
  <2>4. o \notin near
    BY <1>2, <2>1, <2>2, <2>3, LimiterConstants
  <2>5. ASSUME NEW k \in near
        PROVE  admitted[k].window \in {first, second}
    <3> HIDE DEF near
    <3>1. ASSUME NEW l \in {i, j, k}, NEW m \in {i, j, k}, NEW n \in {i, j, k},
                 admitted[l].window < admitted[m].window,
                 admitted[m].window < admitted[n].window
          PROVE  FALSE
      <4>1. l \in near /\ m \in near /\ n \in near
        BY <2>1, <2>5
      <4> QED
        BY <1>2, <3>1, <4>1, TwoWindows
    <3> QED
      BY <1>2, <2>1, <2>5, <3>1
  <2> DEFINE rest == of(first) \ {o}
  <2>6. near \subseteq rest \cup of(second)
    BY <1>2, <2>4, <2>5 DEF AdmittedIn
  <2> HIDE DEF near, of, first, second
  <2>7. /\ IsFiniteSet(of(first)) /\ Cardinality(of(first)) \in Nat
        /\ Cardinality(of(first)) <= MaxAttempts
        /\ IsFiniteSet(of(second)) /\ Cardinality(of(second)) \in Nat
        /\ Cardinality(of(second)) <= MaxAttempts
    BY <1>3, <2>2
  <2>8. IsFiniteSet(rest) /\ Cardinality(rest) = Cardinality(of(first)) - 1
    BY <2>3, <2>7, FS_RemoveElement
  <2> HIDE DEF rest
  <2>9. /\ IsFiniteSet(rest \cup of(second))
        /\ Cardinality(rest \cup of(second)) =
             Cardinality(rest) + Cardinality(of(second)) - Cardinality(rest \cap of(second))
    BY <2>7, <2>8, FS_Union
  <2>10. Cardinality(rest \cap of(second)) \in Nat
    BY <2>8, FS_Subset, FS_CardinalityType
  <2>11. Cardinality(near) \in Nat /\ Cardinality(near) <= Cardinality(rest \cup of(second))
    BY <2>6, <2>9, FS_Subset, FS_CardinalityType
  <2> QED
    BY <2>7, <2>8, <2>9, <2>10, <2>11, LimiterConstants DEF near
<1>5. CASE ~ \E i, j \in near : admitted[i].window < admitted[j].window
  <2>1. CASE near = {}
    BY <2>1, FS_EmptySet, LimiterConstants
  <2>2. CASE near # {}
    <3>1. PICK i \in near : TRUE
      BY <2>2
    <3>2. near \subseteq of(admitted[i].window)
      BY <1>2, <1>5, <3>1 DEF AdmittedIn
    <3> HIDE DEF near, of
    <3>3. Cardinality(near) \in Nat /\ Cardinality(near) <= MaxAttempts
      <4>1. /\ IsFiniteSet(of(admitted[i].window))
            /\ Cardinality(of(admitted[i].window)) \in Nat
            /\ Cardinality(of(admitted[i].window)) <= MaxAttempts
        BY <1>2, <1>3, <3>1
      <4>2. /\ IsFiniteSet(near) /\ Cardinality(near) \in Nat
            /\ Cardinality(near) <= Cardinality(of(admitted[i].window))
        BY <3>2, <4>1, FS_Subset, FS_CardinalityType
      <4> QED
        BY <4>1, <4>2, LimiterConstants
    <3> QED
      BY <3>3, LimiterConstants DEF near
  <2> QED
    BY <2>1, <2>2
<1> QED
  BY <1>4, <1>5

LEMMA LimiterInvBounds == LimiterInv => AdmissionBounded
<1> SUFFICES ASSUME LimiterInv PROVE AdmissionBounded
  OBVIOUS
<1>1. ASSUME NEW i \in DOMAIN admitted
      PROVE  /\ admitted[i].by \in Addresses
             /\ admitted[i].at \in Nat /\ admitted[i].window \in Nat
  <2>1. admitted[i] \in Admission
    BY DEF LimiterInv, LimiterTypes
  <2> QED
    BY <2>1 DEF Admission
<1>2. \A i \in DOMAIN admitted :
        Cardinality(AdmittedIn(admitted[i].by, admitted[i].window)) <= MaxAttempts
  <2>1. \A c, w : AdmittedIn(c, w) = InWindowOf(admitted, c, w)
    BY DEF AdmittedIn, InWindowOf
  <2> QED
    BY <1>1, <2>1 DEF LimiterInv, AdmissionsInv
<1>3. \A i \in DOMAIN admitted :
        Cardinality(AdmittedWithin(admitted[i].by, admitted[i].at)) <= 2 * MaxAttempts - 1
  BY <1>1, StretchBounded
<1>4. Cardinality(DOMAIN windows) <= MaxEntries
      /\ \A i, j \in DOMAIN scans : i < j => scans[j] >= scans[i] + PruneMs
  BY DEF LimiterInv, WindowsInv, ScansInv
<1> QED
  BY <1>2, <1>3, <1>4 DEF AdmissionBounded

\* No order of attempts, prunings and settings of the clock lets a client
\* through more often than its allowance in a window, or than twice that less
\* one in any stretch of time as long, lets the map grow past its size, or has
\* it scanned with every attempt (server/middleware/rate-limit.ts).
THEOREM AdmissionsAreBounded == Spec => []AdmissionBounded
<1>1. Spec => []LimiterInv
  BY LimiterStarts, NextKeepsLimiter, PTL DEF Spec
<1> QED
  BY <1>1, LimiterInvBounds, PTL
=============================================================================
