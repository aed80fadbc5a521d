--------------------------- MODULE ExceptionsPage ---------------------------
(***************************************************************************)
(* The page on which exceptions are listed and decided, in one browser.    *)
(* An effect of the page loads the list for the filter and the offset, and *)
(* runs again when they change or a reload is asked for; running again     *)
(* cancels the load before it, but its answer still arrives, late or out   *)
(* of order.  The server counts after it has listed, and other people      *)
(* decide exceptions at any time.                                          *)
(*                                                                         *)
(* The lists of assets, locations, imports and audit records are loaded    *)
(* the same way; this page also steps back from a page that has emptied    *)
(* and lets its user decide.  A page here has one exception (PAGE_SIZE);   *)
(* offsets are page numbers.                                               *)
(***************************************************************************)
EXTENDS Browser

CONSTANT Count   \* number of exceptions, newest first

ASSUME ExceptionsPageAssumption == Count \in Nat

VARIABLES
  decided,     \* exceptions decided, on the server
  deps,        \* the state the effect depends on: filter, page, nonce
  ran,         \* the same, of the last effect that ran
  list,        \* what the page shows: an answer, Loading or Failed
  total,       \* the total that the pager shows
  loads,       \* requests of the list on their way, with the effect's "cancelled"
  reviewing,   \* the exception in the dialog, or 0
  busy,        \* a decision was submitted
  posts,       \* decisions on their way
  acked        \* history: decisions that this page was told are made

pageVars == <<deps, ran, list, total, loads, reviewing, busy, posts, acked>>
exceptionsVars == <<decided, pageVars>>

Ids == 1 .. Count
Filters == {"open", "all"}
Offsets == 0 .. Count

Mounted == [filter |-> "open", page |-> 0, nonce |-> 0]
NotRun == [filter |-> "none", page |-> 0, nonce |-> 0]
Loading == [kind |-> "loading"]
Failed == [kind |-> "failed"]

-----------------------------------------------------------------------------
(* The server *)

Matching(filter) == IF filter = "open" THEN Ids \ decided ELSE Ids

\* The exception on a page, and none past the end.
OnPage(filter, page) ==
  {e \in Matching(filter) : Cardinality({d \in Matching(filter) : d < e}) = page}

\* listExceptions reads the page, and then counts: two calls on the store.
ServeList(c) ==
  /\ c.stage = "sent"
  /\ loads' = (loads \ {c}) \cup
       {IF session
        THEN [c EXCEPT !.stage = "listed", !.items = OnPage(c.filter, c.page),
                       !.knew = decided]
        ELSE Unauthorized(c)}
  /\ UNCHANGED <<decided, session, deps, ran, list, total, reviewing, busy,
                 posts, acked, clicks>>

ServeCount(c) ==
  /\ c.stage = "listed"
  /\ loads' = (loads \ {c}) \cup
       {[c EXCEPT !.stage = "answer", !.total = Cardinality(Matching(c.filter))]}
  /\ UNCHANGED <<decided, session, deps, ran, list, total, reviewing, busy,
                 posts, acked, clicks>>

\* resolveException, in the unit of its request
ServeDecision(p) ==
  /\ p.stage = "sent"
  /\ IF session
     THEN /\ posts' = (posts \ {p}) \cup
               {[p EXCEPT !.stage = IF p.exception \in decided THEN "409" ELSE "ok"]}
          /\ decided' = decided \cup {p.exception}
     ELSE /\ posts' = (posts \ {p}) \cup {Unauthorized(p)}
          /\ UNCHANGED decided
  /\ UNCHANGED <<session, deps, ran, list, total, loads, reviewing, busy, acked, clicks>>

OtherDecides(e) ==
  /\ e \notin decided
  /\ decided' = decided \cup {e}
  /\ UNCHANGED <<session, clicks, pageVars>>

-----------------------------------------------------------------------------
(* The page *)

\* While the dialog is open, what is behind it is inert.
Modal == reviewing # 0

\* The controls show the state of the last render, "ran", and are there once
\* the effect of the first render has run.
SetFilter(filter) ==
  /\ Click
  /\ ~Modal /\ ran # NotRun /\ ran.filter # filter
  /\ deps' = [deps EXCEPT !.filter = filter, !.page = 0]
  /\ UNCHANGED <<decided, session, ran, list, total, loads, reviewing, busy, posts, acked>>

\* The buttons of the pager
TurnPage(page) ==
  /\ Click
  /\ ~Modal
  /\ \/ page = ran.page + 1 /\ page < total
     \/ page + 1 = ran.page
  /\ deps' = [deps EXCEPT !.page = page]
  /\ UNCHANGED <<decided, session, ran, list, total, loads, reviewing, busy, posts, acked>>

Retry ==
  /\ Click
  /\ list = Failed /\ ~Modal
  /\ deps' = [deps EXCEPT !.nonce = @ + 1]
  /\ UNCHANGED <<decided, session, ran, list, total, loads, reviewing, busy, posts, acked>>

\* Mutant: the effect has no cleanup.
MutCancelled(c) == c

\* The cleanup of the effect that ran before
Cancelled(c) == [c EXCEPT !.live = FALSE]

\* React runs the effect of a render whose dependencies have changed.
Effect ==
  /\ deps # ran
  /\ ran' = deps
  /\ list' = Loading
  /\ loads' = {Cancelled(c) : c \in loads} \cup
       {[filter |-> deps.filter, page |-> deps.page, nonce |-> deps.nonce,
         live |-> TRUE, stage |-> "sent", items |-> {}, total |-> 0, knew |-> {}]}
  /\ UNCHANGED <<decided, session, deps, total, reviewing, busy, posts, acked, clicks>>

\* Mutant: back to where it is.
MutPageBefore(c) == c.page

\* setOffset(Math.max(0, offset - PAGE_SIZE))
PageBefore(c) == c.page - 1

\* The answer of a list: dropped if cancelled; if the page has emptied it goes
\* a page back, and shows nothing until that is loaded.
Answered(c) ==
  /\ c.stage = "answer"
  /\ loads' = loads \ {c}
  /\ IF ~c.live
     THEN UNCHANGED <<deps, list, total>>
     ELSE IF c.items = {} /\ c.page > 0 /\ c.total > 0
     THEN deps' = [deps EXCEPT !.page = PageBefore(c)] /\ UNCHANGED <<list, total>>
     ELSE /\ list' = [kind |-> "answer", filter |-> c.filter, page |-> c.page,
                      items |-> c.items, knew |-> c.knew]
          /\ total' = c.total
          /\ UNCHANGED deps
  /\ UNCHANGED <<decided, session, ran, reviewing, busy, posts, acked, clicks>>

\* The request fails on its way.
LoadFails(c) ==
  /\ Click
  /\ c.stage \in {"sent", "listed", "answer"}
  /\ loads' = loads \ {c}
  /\ list' = IF c.live THEN Failed ELSE list
  /\ UNCHANGED <<decided, session, deps, ran, total, reviewing, busy, posts, acked>>

\* The button of a row that shows as open
Review(e) ==
  /\ list.kind = "answer" /\ ~Modal
  /\ e \in list.items \ list.knew
  /\ reviewing' = e
  /\ UNCHANGED <<decided, session, deps, ran, list, total, loads, busy, posts, acked, clicks>>

CloseDialog ==
  /\ Modal /\ ~busy
  /\ reviewing' = 0
  /\ UNCHANGED <<decided, session, deps, ran, list, total, loads, busy, posts, acked, clicks>>

\* submitDecision
Submit ==
  /\ Modal /\ ~busy
  /\ Click
  /\ busy' = TRUE
  /\ posts' = posts \cup {[exception |-> reviewing, live |-> TRUE, stage |-> "sent"]}
  /\ UNCHANGED <<decided, session, deps, ran, list, total, loads, reviewing, acked>>

\* Mutant: the dialog closes, and the list stays as it is.
MutReload(d) == d

\* setNonce
Reload(d) == [d EXCEPT !.nonce = @ + 1]

\* The answer of a decision.  That of a page that was left sets no state.
Told(p) ==
  /\ p.stage \in {"ok", "409"}
  /\ posts' = posts \ {p}
  /\ IF ~p.live
     THEN UNCHANGED <<deps, reviewing, busy, acked>>
     ELSE /\ busy' = FALSE
          /\ IF p.stage = "ok"
             THEN reviewing' = 0 /\ deps' = Reload(deps) /\ acked' = acked \cup {p.exception}
             ELSE UNCHANGED <<reviewing, deps, acked>>
  /\ UNCHANGED <<decided, session, ran, list, total, loads, clicks>>

\* The state of a page that was just rendered, its requests abandoned.
Remounted ==
  /\ deps' = Mounted /\ ran' = NotRun
  /\ list' = Loading /\ total' = 0
  /\ reviewing' = 0 /\ busy' = FALSE /\ acked' = {}

ExceptionsInit ==
  /\ decided = {}
  /\ deps = Mounted /\ ran = NotRun
  /\ list = Loading /\ total = 0
  /\ loads = {} /\ posts = {}
  /\ reviewing = 0 /\ busy = FALSE /\ acked = {}

\* What the user does
ExceptionsUser ==
  \/ \E filter \in Filters : SetFilter(filter)
  \/ \E page \in Offsets : TurnPage(page)
  \/ \E e \in Ids : Review(e)
  \/ Retry \/ CloseDialog \/ Submit

\* What the server and the network do without being asked again
LoadGoesOn == \E c \in loads : ServeList(c) \/ ServeCount(c) \/ Answered(c)
DecisionGoesOn == \E p \in posts : ServeDecision(p) \/ Told(p)

-----------------------------------------------------------------------------
(* Properties *)

\* Once the effect ran for what is chosen, an answer that shows is the answer
\* to just that, and knows each decision that this page was told is made,
\* whatever order the answers of the network come in (the effect's "cancelled").
ListIsCurrent ==
  list.kind = "answer" /\ deps = ran =>
    /\ list.filter = deps.filter /\ list.page = deps.page
    /\ acked \subseteq list.knew
=============================================================================
