------------------------------ MODULE Process ------------------------------
(***************************************************************************)
(* A server process: login attempts pass the limiter and become requests,  *)
(* their rows get ids, sessions are swept, and a signal ends it all.       *)
(***************************************************************************)
EXTENDS RateLimiter, TimeOrderedIds, Lifecycle

CONSTANTS
  MaxElapsed, MaxSetBack,   \* bounds: time, and by how much the clock is set back
  MaxIds                    \* bound: ids

ASSUME ProcessAssumption ==
  {MaxElapsed, MaxSetBack, MaxIds} \cup Addresses \cup Requests \subseteq Nat

VARIABLES
  refused,    \* requests that the limiter answered with 429
  drawn       \* number of ids drawn

clockVars == <<elapsed, setBack>>
vars == <<clockVars, limiterVars, idVars, lifecycleVars, refused, drawn>>

Init ==
  /\ elapsed = MaxSetBack /\ setBack = 0
  /\ LimiterInit /\ IdsInit /\ LifecycleInit
  /\ refused = {} /\ drawn = 0

Tick ==
  /\ elapsed < MaxElapsed /\ elapsed' = elapsed + 1
  /\ UNCHANGED <<setBack, limiterVars, idVars, lifecycleVars, refused, drawn>>

SetBack ==
  /\ setBack < MaxSetBack /\ setBack' = setBack + 1
  /\ UNCHANGED <<elapsed, limiterVars, idVars, lifecycleVars, refused, drawn>>

\* The requests are alike: the first that has not come comes next.
NextRequest(r) ==
  /\ request[r] = "new" /\ r \notin refused
  /\ \A q \in Requests : q < r => request[q] # "new" \/ q \in refused

\* So are the clients: of those that were never admitted the first comes.
NextClient(client) ==
  \A a \in Addresses : a < client => \E i \in DOMAIN admitted : admitted[i].by = a

\* A login attempt, which the limiter lets pass or refuses
Login(r, client, arrival) ==
  /\ NextRequest(r) /\ NextClient(client)
  /\ Attempt(client, ClientIp(arrival))
  /\ IF Passes(ClientIp(arrival)) THEN Admit(r) /\ UNCHANGED refused
     ELSE stop = "serving" /\ refused' = refused \cup {r} /\ UNCHANGED lifecycleVars
  /\ UNCHANGED <<clockVars, idVars, drawn>>

\* The store call at work builds a row.
DrawId ==
  /\ store = "open" /\ gate # << >> /\ Head(gate) \in Requests
  /\ drawn < MaxIds
  /\ drawn' = drawn + 1
  /\ NextId(Now)
  /\ UNCHANGED <<clockVars, limiterVars, lifecycleVars, refused>>

LifecycleStep ==
  \/ \E r \in Requests : Call(r) \/ Respond(r)
  \/ SweepTick \/ Signal \/ Drained \/ Swept \/ Deadline \/ StopForced \/ Serve \/ Exit

Rest == <<clockVars, limiterVars, idVars, refused, drawn>>

Next ==
  /\ Running
  /\ \/ Tick \/ SetBack \/ DrawId
     \/ \E r \in Requests, client \in Addresses :
          \E arrival \in Arrivals(client) : Login(r, client, arrival)
     \/ LifecycleStep /\ UNCHANGED Rest

\* The timer of the deadline fires, store calls end, the shutdown goes on.
\* Nothing is assumed of requests: their clients may never let them end.
Fairness ==
  /\ WF_vars(Running /\ Serve /\ UNCHANGED Rest)
  /\ WF_vars(Running /\ (Deadline \/ StopForced \/ Exit) /\ UNCHANGED Rest)

Spec == Init /\ [][Next]_vars /\ Fairness

-----------------------------------------------------------------------------
(* Properties *)

\* A process that was told to stop does stop, whatever its requests do
\* (the drain deadline).
StopEnds == stop # "serving" ~> stop = "exited"
=============================================================================
