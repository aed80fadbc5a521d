---------------------------- MODULE RateLimiter ----------------------------
(***************************************************************************)
(* The limit on login attempts: a window of fixed length per client        *)
(* address, in a map of bounded size.  The clock is Date.now(), which may  *)
(* be set back; "elapsed" is the time that really passed.                  *)
(***************************************************************************)
EXTENDS Integers, Sequences, FiniteSets

CONSTANTS
  Addresses,                           \* of clients
  Proxies,                             \* trustedProxies; empty without trustProxy
  WindowMs, MaxAttempts, MaxEntries,   \* the options windowMs, max, maxEntries
  PruneMs                              \* Math.min(windowMs, 1000)

ASSUME RateLimiterAssumption ==
  /\ Addresses \cap Proxies = {}
  /\ {WindowMs, MaxAttempts, MaxEntries, PruneMs} \subseteq Nat \ {0}
  /\ PruneMs <= WindowMs

VARIABLES
  elapsed, setBack,   \* time, and by how much the clock was set back since
  windows,            \* the map: from some addresses to their entries
  nextPruneAt,
  admitted,           \* history: the attempts that passed
  scans               \* history: when the map was scanned

limiterVars == <<windows, nextPruneAt, admitted, scans>>

Now == elapsed - setBack

\* How an attempt arrives: from the client itself, with any X-Forwarded-For
\* header, or through a proxy, which appends the address of the client to it.
Arrivals(client) ==
  LET claims == {<< >>} \cup {<<a>> : a \in Addresses}
  IN  [peer : {client}, hops : claims]
        \cup [peer : Proxies, hops : {Append(h, client) : h \in claims}]

\* Mutant: the first hop is the client.
MutClientIp(arrival) ==
  IF arrival.peer \in Proxies /\ arrival.hops # << >> THEN Head(arrival.hops) ELSE arrival.peer

\* Of a trusted proxy the last hop counts, of anybody else the socket.
ClientIp(arrival) ==
  IF arrival.peer \in Proxies /\ arrival.hops # << >>
  THEN arrival.hops[Len(arrival.hops)]
  ELSE arrival.peer

\* A new window; "since" is history and tells windows apart.
Entry == [count |-> 1, resetAt |-> Now + WindowMs, since |-> elapsed]

\* Mutant: a window is over at once.
MutOver(entry) == TRUE

Over(entry) == Now >= entry.resetAt

\* A full map is pruned, but not with every request.
PruneNow == Cardinality(DOMAIN windows) >= MaxEntries /\ Now >= nextPruneAt

Kept ==
  IF PruneNow THEN {a \in DOMAIN windows : ~Over(windows[a])} ELSE DOMAIN windows

\* Mutant: the count is compared before it counts this attempt.
MutPasses(a) ==
  IF a \in Kept
  THEN Over(windows[a]) \/ windows[a].count <= MaxAttempts
  ELSE Cardinality(Kept) < MaxEntries

Passes(a) ==
  IF a \in Kept
  THEN Over(windows[a]) \/ windows[a].count < MaxAttempts
  ELSE Cardinality(Kept) < MaxEntries

\* The entry of the address after an attempt
Counted(a) ==
  IF a \in Kept /\ ~Over(windows[a])
  THEN [windows[a] EXCEPT !.count = @ + 1]
  ELSE Entry

\* An attempt of a client, counted for the address a.  The one that finds no
\* room in the map leaves no entry.
Attempt(client, a) ==
  /\ nextPruneAt' = IF PruneNow THEN Now + PruneMs ELSE nextPruneAt
  /\ scans' = IF PruneNow THEN Append(scans, elapsed) ELSE scans
  /\ windows' = [b \in Kept \cup (IF a \in Kept \/ Passes(a) THEN {a} ELSE {}) |->
                   IF b = a THEN Counted(a) ELSE windows[b]]
  /\ admitted' = IF Passes(a)
                 THEN Append(admitted, [by |-> client, at |-> elapsed,
                                        window |-> Counted(a).since])
                 ELSE admitted

LimiterInit ==
  /\ windows = << >> /\ nextPruneAt = 0
  /\ admitted = << >> /\ scans = << >>

-----------------------------------------------------------------------------
(* Properties *)

\* The places in the history of a client's admissions in one of its windows,
\* and of those in the stretch of time as long as a window that begins at start.
AdmittedIn(client, window) ==
  {i \in DOMAIN admitted : admitted[i].by = client /\ admitted[i].window = window}

AdmittedWithin(client, start) ==
  {i \in DOMAIN admitted :
     admitted[i].by = client /\ admitted[i].at \in start .. start + WindowMs - 1}

\* What the limiter does keep, whatever the order of attempts, prunings and
\* settings of the clock: no window of a client admits more than its
\* allowance, and no stretch of time of that length more than one less than
\* twice as many, a burst on either side of the edge of two windows without
\* the attempt that opened the first; the map stays within its size, and is
\* not scanned with every attempt it refuses ("Full maps must not turn every
\* rejected request into a linear scan").
AdmissionBounded ==
  /\ \A i \in DOMAIN admitted :
       LET x == admitted[i] IN
       /\ Cardinality(AdmittedIn(x.by, x.window)) <= MaxAttempts
       /\ Cardinality(AdmittedWithin(x.by, x.at)) <= 2 * MaxAttempts - 1
  /\ Cardinality(DOMAIN windows) <= MaxEntries
  /\ \A i, j \in DOMAIN scans : i < j => scans[j] >= scans[i] + PruneMs

\* What is promised ("Contract: max 10 login attempts per 60s per client IP",
\* server/routes/auth.ts): no stretch of time as long as a window admits a
\* client more often than its allowance.  The code does not keep it.
LoginContract ==
  \A i \in DOMAIN admitted :
    Cardinality(AdmittedWithin(admitted[i].by, admitted[i].at)) <= MaxAttempts
=============================================================================
