----------------------------- MODULE Lifecycle -----------------------------
(***************************************************************************)
(* The end of a server process: it stops to accept requests, waits for     *)
(* those that are active and for the sweep of sessions, or for a deadline, *)
(* and closes the store.  Every call of the store, the closing as well,    *)
(* passes the gate of its connection (see ConnectionGate, FifoMutex), as   *)
(* with SQLite.  server.stop is external and taken not to fail.            *)
(***************************************************************************)
EXTENDS Naturals, Sequences

CONSTANTS
  Requests,
  Sweep, Main,     \* the timer's sweep and the shutdown, as callers of the store
  CallsOfRequest,  \* bound: store calls of a request
  Calling          \* bound: the requests that call the store

ASSUME LifecycleAssumption ==
  /\ Sweep \notin Requests /\ Main \notin Requests /\ Sweep # Main
  /\ CallsOfRequest \in Nat \ {0} /\ Calling \subseteq Requests

VARIABLES
  request,     \* "new", "active", "queued", "answered", "error"
  calls,       \* store calls that a request has yet to make
  gate,        \* the calls at the gate, the first at work
  store,       \* "open" or "closed"
  timer,       \* the interval of the sweep is set
  sweep,       \* a sweep is under way
  stop,        \* "serving", "draining", "sweeping", "closing", "closed", "exited"
  deadline     \* "off", "set", "passed"

lifecycleVars == <<request, calls, gate, store, timer, sweep, stop, deadline>>

Active == {r \in Requests : request[r] \in {"active", "queued"}}
Draining == stop \in {"draining", "sweeping"}

\* A request is admitted while the server listens.  Some call no store: the
\* start of a single sign-on passes a limiter and redirects.
Admit(r) ==
  /\ request[r] = "new" /\ stop = "serving"
  /\ request' = [request EXCEPT ![r] = "active"]
  /\ calls' = [calls EXCEPT ![r] = IF r \in Calling THEN CallsOfRequest ELSE 0]
  /\ UNCHANGED <<gate, store, timer, sweep, stop, deadline>>

Call(r) ==
  /\ request[r] = "active" /\ calls[r] > 0
  /\ request' = [request EXCEPT ![r] = "queued"]
  /\ gate' = Append(gate, r)
  /\ UNCHANGED <<calls, store, timer, sweep, stop, deadline>>

Respond(r) ==
  /\ request[r] = "active" /\ calls[r] = 0
  /\ request' = [request EXCEPT ![r] = "answered"]
  /\ UNCHANGED <<calls, gate, store, timer, sweep, stop, deadline>>

\* The interval of the sweep: it is skipped while the last one runs.
SweepTick ==
  /\ timer /\ ~sweep
  /\ sweep' = TRUE
  /\ gate' = Append(gate, Sweep)
  /\ UNCHANGED <<request, calls, store, timer, stop, deadline>>

\* SIGINT or SIGTERM, the first one: the shutdown begins.
Signal ==
  /\ stop = "serving"
  /\ stop' = "draining" /\ timer' = FALSE /\ deadline' = "set"
  /\ UNCHANGED <<request, calls, gate, store, sweep>>

\* The race is decided; clearTimeout, and the call of store.close.
Close ==
  /\ stop' = "closing"
  /\ deadline' = IF deadline = "set" THEN "off" ELSE deadline
  /\ gate' = Append(gate, Main)
  /\ UNCHANGED <<request, calls, store, timer, sweep>>

\* server.stop(false) has ended: no request is active.
Drained ==
  /\ stop = "draining" /\ Active = {}
  /\ stop' = "sweeping"
  /\ UNCHANGED <<request, calls, gate, store, timer, sweep, deadline>>

\* Mutant: requests are waited for, the sweep is not.
MutSwept == stop = "sweeping" /\ Close

\* await sweep
Swept == stop = "sweeping" /\ ~sweep /\ Close

\* Mutant: server.stop(true) only follows if the requests have ended.
MutStopForced == Draining /\ deadline = "passed" /\ Active = {} /\ Close

\* The deadline passes, and server.stop(true) ends without waiting for anybody.
Deadline ==
  /\ Draining /\ deadline = "set"
  /\ deadline' = "passed"
  /\ UNCHANGED <<request, calls, gate, store, timer, sweep, stop>>

StopForced == Draining /\ deadline = "passed" /\ Close

\* A call is at work when it comes first at the gate.  The store that was
\* closed refuses it.
Serve ==
  /\ gate # << >>
  /\ gate' = Tail(gate)
  /\ LET who == Head(gate)
     IN  IF who = Main
         THEN /\ store' = "closed" /\ stop' = "closed"
              /\ UNCHANGED <<request, calls, sweep>>
         ELSE IF who = Sweep
         THEN sweep' = FALSE /\ UNCHANGED <<request, calls, store, stop>>
         ELSE /\ IF store = "open"
                 THEN /\ request' = [request EXCEPT ![who] = "active"]
                      /\ calls' = [calls EXCEPT ![who] = @ - 1]
                 ELSE request' = [request EXCEPT ![who] = "error"] /\ UNCHANGED calls
              /\ UNCHANGED <<store, stop, sweep>>
  /\ UNCHANGED <<timer, deadline>>

\* The cleanup, and process.exit; whatever runs is gone.
Exit ==
  /\ stop = "closed"
  /\ stop' = "exited"
  /\ UNCHANGED <<request, calls, gate, store, timer, sweep, deadline>>

LifecycleInit ==
  /\ request = [r \in Requests |-> "new"]
  /\ calls = [r \in Requests |-> 0]
  /\ gate = << >> /\ store = "open"
  /\ timer = TRUE /\ sweep = FALSE
  /\ stop = "serving" /\ deadline = "off"

Running == stop # "exited"

-----------------------------------------------------------------------------
(* Properties *)

\* The store is closed when no sweep uses it, not even after the deadline;
\* requests have ended, or the deadline has passed; and only then may a
\* request find the store closed ("finish active requests and sweeps, then
\* close the DB").
ClosedAfterWork ==
  /\ store = "closed" => ~sweep
  /\ stop \in {"closing", "closed", "exited"} => Active = {} \/ deadline = "passed"
  /\ \A r \in Requests : request[r] = "error" => deadline = "passed"
  /\ stop = "closing" /\ deadline # "passed" => ~sweep
=============================================================================
