----------------------------- MODULE WebClient -----------------------------
(***************************************************************************)
(* The browser: the router shows one page at a time and mounts it anew     *)
(* when it is entered; a request that is answered with 401 says so to the  *)
(* guard of the protected pages, which leaves for the login.  Requests are *)
(* served and answered whatever is on display.  Other people decide and    *)
(* change what is on display: of the rest the browser would not know.      *)
(***************************************************************************)
EXTENDS ExceptionsPage, ImportPage, AssetPage

CONSTANTS
  MaxSessions,     \* bound: sessions that expire
  FirstPages,      \* bound: the pages that are open at first
  FirstAssets      \* bound: the assets whose page is entered from another page

ASSUME WebClientAssumption == MaxSessions \in Nat

VARIABLES
  view,        \* the page in the address
  login,       \* the login is on display in its place, and will return to it
  late,        \* stages of the reads that pages which were left had asked for
  sessions     \* sessions expired so far

\* "assets" stands for the pages that are not modelled.
Pages == {"exceptions", "import", "asset", "assets"}

ASSUME FirstPagesAssumption == FirstPages \subseteq Pages
ASSUME FirstAssetsAssumption == FirstAssets \subseteq AssetIds

vars == <<session, clicks, exceptionsVars, importVars, assetVars, view, login, late, sessions>>

\* The asset in the address of a page
Shows(page) == IF page = "asset" THEN FirstAssets ELSE {NoAsset}

Init ==
  /\ view \in FirstPages
  /\ ExceptionsInit /\ ImportInit
  /\ \E a \in Shows(view) : AssetInit(a)
  /\ session = TRUE /\ clicks = 0
  /\ login = FALSE /\ late = {} /\ sessions = 0

On(page) == view = page /\ ~login /\ UNCHANGED <<view, login, late, sessions>>

OnExceptions ==
  /\ On("exceptions")
  /\ \/ ExceptionsUser \/ Effect
     \/ \E c \in loads : LoadFails(c)
     \/ \E e \in Ids : OtherDecides(e)
  /\ UNCHANGED <<importVars, assetVars>>

OnImport ==
  On("import") /\ ImportStep /\ UNCHANGED <<session, clicks, exceptionsVars, assetVars>>

OnAsset ==
  /\ On("asset")
  /\ \/ AssetUser \/ AssetEffects
     \/ \E f \in fetches : FetchFails(f)
     \/ \E a \in AssetIds, action \in Actions : OthersChange(a, action)
  /\ UNCHANGED <<exceptionsVars, importVars>>

ExceptionsGoOn ==
  /\ LoadGoesOn \/ DecisionGoesOn
  /\ UNCHANGED <<importVars, assetVars, view, login, late, sessions>>

AssetsGoOn ==
  /\ FetchGoesOn \/ SaveGoesOn
  /\ UNCHANGED <<exceptionsVars, importVars, view, login, late, sessions>>

\* The session expires on the server, or an administrator ends it.
Expire ==
  /\ session /\ sessions < MaxSessions
  /\ sessions' = sessions + 1
  /\ session' = FALSE
  /\ UNCHANGED <<clicks, exceptionsVars, importVars, assetVars, view, login, late>>

\* The page on display is left, and its state gone.  Of the reads it asked for
\* nothing will show but that the session has expired; mutations go on.
Leave(a, P, S) ==
  /\ Remounted /\ loads' = {}
  /\ posts' = {[p EXCEPT !.live = FALSE] : p \in P}
  /\ ImportLeft
  /\ AssetMounted(a)
  /\ fetches' = {}
  /\ saves' = {[s EXCEPT !.mounted = FALSE, !.form = FALSE] : s \in S}
  /\ UNCHANGED <<decided, stored>>

Stages(requests) == {c.stage : c \in requests} \cap {"sent", "401"}

Navigate(page, a) ==
  /\ ~login /\ page # view
  /\ Click
  /\ view' = page
  /\ Leave(a, posts, saves)
  /\ late' = late \cup Stages(loads \cup fetches)
  /\ UNCHANGED <<session, login, sessions>>

ServeLate ==
  /\ "sent" \in late
  /\ late' = (late \ {"sent"}) \cup IF session THEN {} ELSE {"401"}
  /\ UNCHANGED <<session, clicks, exceptionsVars, importVars, assetVars, view, login, sessions>>

\* An asset is deleted: to the list of assets, wherever the user is by then.
Deleted(s) ==
  /\ s.action = "delete" /\ s.stage = "ok"
  /\ view' = "assets"
  /\ Leave(NoAsset, posts, saves \ {s})
  /\ late' = late \cup Stages(loads \cup fetches)
  /\ login' = (login /\ ~session)
  /\ UNCHANGED <<session, clicks, sessions>>

\* reportUnauthorized, of any request: also of one that was cancelled, or that
\* was sent in the session before.
SessionExpired ==
  /\ login' = TRUE
  /\ \/ \E c \in loads \cup fetches :
          /\ c.stage = "401"
          /\ Leave(want.id, posts, saves)
          /\ late' = late \cup Stages((loads \cup fetches) \ {c})
     \/ /\ "401" \in late
        /\ Leave(want.id, posts, saves)
        /\ late' = (late \ {"401"}) \cup Stages(loads \cup fetches)
     \/ \E p \in posts :
          /\ p.stage = "401"
          /\ Leave(want.id, posts \ {p}, saves)
          /\ late' = late \cup Stages(loads \cup fetches)
     \/ \E s \in saves :
          /\ s.stage = "401"
          /\ Leave(want.id, posts, saves \ {s})
          /\ late' = late \cup Stages(loads \cup fetches)
  /\ UNCHANGED <<session, clicks, view, sessions>>

\* The login returns to the page that was asked for.
SignIn ==
  /\ login /\ login' = FALSE
  /\ session' = TRUE
  /\ UNCHANGED <<clicks, exceptionsVars, importVars, assetVars, view, late, sessions>>

Next ==
  \/ OnExceptions \/ OnImport \/ OnAsset \/ ExceptionsGoOn \/ AssetsGoOn
  \/ Expire \/ SessionExpired \/ SignIn \/ ServeLate
  \/ \E page \in Pages : \E a \in Shows(page) : Navigate(page, a)
  \/ \E s \in saves : Deleted(s)

\* React runs the effects of a render; requests are served and answered.
Fairness ==
  /\ WF_vars(On("exceptions") /\ Effect /\ UNCHANGED <<importVars, assetVars>>)
  /\ WF_vars(On("asset") /\ AssetEffects /\ UNCHANGED <<exceptionsVars, importVars>>)
  /\ WF_vars(LoadGoesOn /\ UNCHANGED <<importVars, assetVars, view, login, late, sessions>>)
  /\ WF_vars(FetchGoesOn /\ UNCHANGED <<exceptionsVars, importVars, view, login, late, sessions>>)
  /\ WF_vars(SessionExpired)

Spec == Init /\ [][Next]_vars /\ Fairness

-----------------------------------------------------------------------------
(* Properties *)

\* What a page shows is current, as far as this browser was told
\* (the effects' "cancelled").
ShownIsCurrent == ListIsCurrent /\ AssetIsCurrent

\* No page stays at "Loading...": not when a decision empties the page of the
\* list, not when the total was counted before others decided, not when the
\* address changes or the asset is deleted while it loads, not when the
\* session ends meanwhile (the step back of the effect, the guard's event).
ShowsLoading ==
  /\ ~login
  /\ \/ view = "exceptions" /\ list = Loading
     \/ view = "asset" /\ problem = {} /\ (detail = Null \/ history = Null)

PageSettles == ShowsLoading ~> ~ShowsLoading
=============================================================================
