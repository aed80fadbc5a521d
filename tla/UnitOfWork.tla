----------------------------- MODULE UnitOfWork -----------------------------
(***************************************************************************)
(* Atomic units: Store.transaction, its nested units and the plain store   *)
(* calls beside them, for server processes that share one database.        *)
(*                                                                         *)
(* A store is the root store of a process or the store handed to the work  *)
(* of a unit; each has a gate of its own, modelled by what ConnectionGate  *)
(* is shown to implement: a queue.  A call is a plain store call (a leaf)  *)
(* or a unit, whose work issues the calls that have it as their parent, in *)
(* any order and also at the same time.  A root unit holds the application *)
(* lock of the database; a nested one is a savepoint.                      *)
(*                                                                         *)
(* The database is abstracted to the set of leaves whose write it holds.   *)
(* A call may be issued on the store of a unit that is already over (an    *)
(* escaped store).  The work of a unit uses the store it was given, not    *)
(* the stores around it, and never ends while a nested unit is open: the   *)
(* callers of the repository await the nested units they start.            *)
(***************************************************************************)
EXTENDS Naturals, Sequences

CONSTANTS
  Processes,   \* the server processes; also their root stores
  Units,       \* the calls of transaction(); also the stores they hand out
  Leaves,      \* the plain store calls
  Parent,      \* the store each call is made on
  Home,        \* the process each call is made in
  Free         \* the application lock is not held

Calls == Units \cup Leaves
Stores == Processes \cup Units

ASSUME UnitAssumption ==
  /\ Units \cap Leaves = {} /\ Processes \cap Calls = {} /\ Free \notin Processes
  /\ Parent \in [Calls -> Stores] /\ Home \in [Calls -> Processes]
  /\ \A c \in Calls :
       Home[c] = IF Parent[c] \in Processes THEN Parent[c] ELSE Home[Parent[c]]

VARIABLES
  disk,     \* the committed writes
  conn,     \* the uncommitted writes on the connection of each process
  lock,     \* the process whose root unit holds the application lock
  gate,     \* the calls at the gate of each store; the head has passed it
  pc,       \* where each call stands
  saved,    \* what was uncommitted when a unit began: BEGIN or SAVEPOINT
  seen      \* history: what was committed when a unit began

vars == <<disk, conn, lock, gate, pc, saved, seen>>

-----------------------------------------------------------------------------
(* The tree of calls *)

OnRoot(c) == Parent[c] \in Processes

\* Sets of units that hold the parent of c, and the parent of each member.
ClosedOver(c) == {S \in SUBSET Units : \A d \in S \cup {c} : OnRoot(d) \/ Parent[d] \in S}

\* The units around a call: the least of those sets.
Enclosing == [c \in Calls |-> {u \in Units : \A S \in ClosedOver(c) : u \in S}]

Children(u) == {c \in Calls : Parent[c] = u}

\* A unit's work runs while it is "open"; its store is no longer active from
\* "closing" (the work returned) or "throwing" on.
InFlight == {"queued", "open", "closing", "throwing"}
Answered == {"ok", "failed", "rejected", "dead"}

-----------------------------------------------------------------------------
(* The gate *)

\* Mutant: a unit's store waits at the gate of the root store.
MutSharedGate(c) == Home[c]

\* buildStore(connection, lifecycle, child) makes a gate for every store.
GateOf(c) == Parent[c]

\* Mutant: a plain call on the root store does not go through the gate.
MutPlainCallsPass(c) ==
  pc[c] = "queued" /\ (Head(gate[GateOf(c)]) = c \/ (OnRoot(c) /\ c \in Leaves))

\* gate.run reached the work of call c.
Turn(c) == pc[c] = "queued" /\ gate[GateOf(c)] # <<>> /\ Head(gate[GateOf(c)]) = c

\* context.active of the store the call is made on.
Active(c) == ~OnRoot(c) => pc[Parent[c]] = "open"

\* The call is answered and lets go of the gate, which it was at the head of.
Answer(c, how) ==
  /\ pc' = [pc EXCEPT ![c] = how]
  /\ gate' = [gate EXCEPT ![GateOf(c)] = Tail(@)]

Issue(c) ==
  /\ pc[c] = "idle"
  /\ ~OnRoot(c) => pc[Parent[c]] \in {"open", "closing", "throwing", "ok", "failed"}
  /\ pc' = [pc EXCEPT ![c] = "queued"]
  /\ gate' = [gate EXCEPT ![GateOf(c)] = Append(@, c)]
  /\ UNCHANGED <<disk, conn, lock, saved, seen>>

\* Mutant: the check is made outside the part that lets the gate go.
MutRejectKeepsGate(c) ==
  /\ Turn(c) /\ ~Active(c)
  /\ pc' = [pc EXCEPT ![c] = "rejected"]
  /\ UNCHANGED <<disk, conn, lock, gate, saved, seen>>

\* "Transaction store is no longer active".
Reject(c) ==
  /\ Turn(c) /\ ~Active(c)
  /\ Answer(c, "rejected")
  /\ UNCHANGED <<disk, conn, lock, saved, seen>>

-----------------------------------------------------------------------------
(* Plain store calls *)

\* Mutant: the store of a unit is never deactivated.
MutEscapedWrite(c) ==
  /\ Turn(c)
  /\ IF OnRoot(c) \/ lock # Home[c]
       THEN disk' = disk \cup {c} /\ UNCHANGED conn
       ELSE conn' = [conn EXCEPT ![Home[c]] = @ \cup {c}] /\ UNCHANGED disk
  /\ Answer(c, "ok")
  /\ UNCHANGED <<lock, saved, seen>>

\* A call on the root store commits by itself.
Write(c) ==
  /\ Turn(c)
  /\ Active(c)
  /\ IF OnRoot(c)
       THEN disk' = disk \cup {c} /\ UNCHANGED conn
       ELSE conn' = [conn EXCEPT ![Home[c]] = @ \cup {c}] /\ UNCHANGED disk
  /\ Answer(c, "ok")
  /\ UNCHANGED <<lock, saved, seen>>

\* A constraint violation or a driver error.
Fail(c) ==
  /\ Turn(c)
  /\ Active(c)
  /\ Answer(c, "failed")
  /\ UNCHANGED <<disk, conn, lock, saved, seen>>

-----------------------------------------------------------------------------
(* Units *)

\* Mutant: BEGIN without the application lock.
MutBeginUnlocked(c) ==
  /\ Turn(c)
  /\ Active(c)
  /\ lock' = IF OnRoot(c) THEN Home[c] ELSE lock
  /\ saved' = [saved EXCEPT ![c] = conn[Home[c]]]
  /\ seen' = [seen EXCEPT ![c] = disk]
  /\ pc' = [pc EXCEPT ![c] = "open"]
  /\ UNCHANGED <<disk, conn, gate>>

\* A root unit waits for the lock before its work starts: the row of
\* mutation_locks in PostgreSQL, BEGIN IMMEDIATE in SQLite.
Begin(c) ==
  /\ Turn(c)
  /\ Active(c)
  /\ OnRoot(c) => lock = Free
  /\ lock' = IF OnRoot(c) THEN Home[c] ELSE lock
  /\ saved' = [saved EXCEPT ![c] = conn[Home[c]]]
  /\ seen' = [seen EXCEPT ![c] = disk]
  /\ pc' = [pc EXCEPT ![c] = "open"]
  /\ UNCHANGED <<disk, conn, gate>>

\* The work returns when what it awaited is answered.
WorkReturns(u) ==
  /\ pc[u] = "open"
  /\ \A c \in Children(u) : pc[c] \notin InFlight
  /\ pc' = [pc EXCEPT ![u] = "closing"]
  /\ UNCHANGED <<disk, conn, lock, gate, saved, seen>>

\* The work throws; plain calls it issued may still wait at the unit's gate.
WorkThrows(u) ==
  /\ pc[u] = "open"
  /\ \A c \in Children(u) \cap Units : pc[c] \notin InFlight
  /\ pc' = [pc EXCEPT ![u] = "throwing"]
  /\ UNCHANGED <<disk, conn, lock, gate, saved, seen>>

Unlock(u) == lock' = IF OnRoot(u) THEN Free ELSE lock

\* COMMIT, or RELEASE SAVEPOINT.
Commit(u) ==
  /\ pc[u] = "closing"
  /\ IF OnRoot(u)
       THEN disk' = disk \cup conn[Home[u]] /\ conn' = [conn EXCEPT ![Home[u]] = {}]
       ELSE UNCHANGED <<disk, conn>>
  /\ Unlock(u)
  /\ Answer(u, "ok")
  /\ UNCHANGED <<saved, seen>>

\* ROLLBACK, or ROLLBACK TO SAVEPOINT: the work threw or the commit failed.
Undo(u) ==
  /\ pc[u] \in {"closing", "throwing"}
  /\ conn' = [conn EXCEPT ![Home[u]] = saved[u]]
  /\ Unlock(u)
  /\ Answer(u, "failed")
  /\ UNCHANGED <<disk, saved, seen>>

\* A process dies or loses its connection: the database rolls its open unit
\* back and frees the lock; the restarted process has an empty gate.
Crash(p) ==
  /\ \E c \in Calls : Home[c] = p /\ pc[c] \in InFlight
  /\ pc' = [c \in Calls |-> IF Home[c] = p /\ pc[c] \in InFlight THEN "dead" ELSE pc[c]]
  /\ gate' = [s \in Stores |->
                IF s = p \/ (s \in Units /\ Home[s] = p) THEN <<>> ELSE gate[s]]
  /\ conn' = [conn EXCEPT ![p] = {}]
  /\ lock' = IF lock = p THEN Free ELSE lock
  /\ UNCHANGED <<disk, saved, seen>>

-----------------------------------------------------------------------------
Init ==
  /\ disk = {} /\ conn = [p \in Processes |-> {}] /\ lock = Free
  /\ gate = [s \in Stores |-> <<>>]
  /\ pc = [c \in Calls |-> "idle"]
  /\ saved = [u \in Units |-> {}] /\ seen = [u \in Units |-> {}]

Quiet == (\A c \in Calls : pc[c] \notin InFlight) /\ UNCHANGED vars

Next ==
  \/ \E c \in Calls : Issue(c) \/ Reject(c)
  \/ \E c \in Leaves : Write(c) \/ Fail(c)
  \/ \E u \in Units : Begin(u) \/ WorkReturns(u) \/ WorkThrows(u) \/ Commit(u) \/ Undo(u)
  \/ \E p \in Processes : Crash(p)
  \/ Quiet

\* Every call makes progress once it can: the drivers answer, the work of a
\* unit ends, the lock goes to one of those who wait for it.
Fairness ==
  /\ \A c \in Calls : WF_vars(Reject(c))
  /\ \A c \in Leaves : WF_vars(Write(c) \/ Fail(c))
  /\ \A u \in Units :
       /\ WF_vars(Begin(u))
       /\ WF_vars(WorkReturns(u) \/ WorkThrows(u))
       /\ WF_vars(Commit(u) \/ Undo(u))

Spec == Init /\ [][Next]_vars /\ Fairness

-----------------------------------------------------------------------------
(* Properties *)

\* A unit is all or nothing, at every depth: the database holds exactly the
\* writes that succeeded and whose enclosing units have all committed.  A
\* nested unit that rolls back takes only its own writes with it, a write on
\* an escaped store leaves no trace, a crash loses open units whole.
SucceededWithin(steps) ==
  {c \in Leaves : pc[c] = "ok" /\ \A u \in Enclosing[c] : pc[u] \in steps}

DiskHoldsCommittedUnits == disk = SucceededWithin({"ok"})

\* A call on the root store never reads or writes in the middle of another
\* caller's unit.
NeverJoinsOpenUnit ==
  [][\A c \in Calls :
       OnRoot(c) /\ pc[c] = "queued" /\ pc'[c] \in {"ok", "failed", "open"}
         => conn[Home[c]] = {}]_vars

\* "Two server processes cannot both pass last-admin, hierarchy, or identity
\* invariants": while a root unit is open, no other unit commits anything, so
\* what it has checked stays true until it commits.
WrittenInUnits == {c \in Leaves : ~OnRoot(c)}

PrechecksHold ==
  \A u \in Units : OnRoot(u) /\ pc[u] \in {"open", "closing"}
    => disk \cap WrittenInUnits = seen[u] \cap WrittenInUnits

\* Every call that was issued is answered: the gates and the lock never leave
\* callers waiting for one another.
EveryCallAnswered == \A c \in Calls : pc[c] = "queued" ~> pc[c] \in Answered
=============================================================================
