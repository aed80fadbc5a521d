---------------------------- MODULE AssetReports ----------------------------
(***************************************************************************)
(* Custody together with a reader that produces the reports the API serves *)
(* from several store calls: the asset list (no unit around its calls), the *)
(* CSV export and the dashboard (each in one unit).  The reader and the    *)
(* requests of Custody share the store and the application unit.           *)
(*                                                                         *)
(* A page holds every match: the limit is taken to be large enough.        *)
(***************************************************************************)
EXTENDS Custody, FiniteSets

CONSTANT Reader   \* the reading request, as the owner of a unit

ASSUME ReaderAssumption == Reader \notin Requests \cup {Nobody}

VARIABLES
  report,   \* which report is being produced and which call comes next
  page,     \* the rows read so far, by asset
  total,    \* the number of matches the store counted
  holders,  \* the assets of the page for which the store found a holder
  counts    \* the dashboard's counters that were read so far

reportVars == <<report, page, total, holders, counts>>
allVars == <<vars, reportVars>>

\* A status, or Keep for no filter.
Filters == Statuses \cup {Keep}

Matches(s, f) == {a \in Assets : Exists(s, a) /\ (f = Keep \/ s.row[a].status = f)}

\* store.listAssets, countAssets and getCurrentCustodyForAssets on state s.
Page(s, f) == [a \in Matches(s, f) |-> s.row[a]]
Count(s, f) == Cardinality(Matches(s, f))
HeldAmong(s, ids) == {a \in ids : Held(s.ledger[a])}

NoReport == [kind |-> "none", step |-> "none", filter |-> Keep]

Step(kind, step) == report.kind = kind /\ report.step = step

GoOn(step) == report' = [report EXCEPT !.step = step]

-----------------------------------------------------------------------------
(* GET /api/v1/assets: three calls on the root store *)

ListPage(f) ==
  /\ report = NoReport
  /\ page' = Page(db, f)
  /\ report' = [kind |-> "list", step |-> "total", filter |-> f]
  /\ UNCHANGED <<vars, total, holders, counts>>

ListTotal ==
  /\ Step("list", "total")
  /\ total' = Count(db, report.filter)
  /\ GoOn("holders")
  /\ UNCHANGED <<vars, page, holders, counts>>

ListHolders ==
  /\ Step("list", "holders")
  /\ holders' = HeldAmong(db, DOMAIN page)
  /\ GoOn("done")
  /\ UNCHANGED <<vars, page, total, counts>>

-----------------------------------------------------------------------------
(* Reports inside one unit *)

\* Mutant: the calls of the report are made on the root store.
MutReportWithoutUnit == UNCHANGED vars

\* store.transaction around a report: the unit sees what is committed.
OpenReportUnit ==
  /\ owner = Nobody
  /\ owner' = Reader
  /\ UNCHANGED <<db, work, pc, input, outcome, unused>>

ExportTotal(f) ==
  /\ report = NoReport
  /\ OpenReportUnit
  /\ total' = Count(db, f)
  /\ report' = [kind |-> "export", step |-> "page", filter |-> f]
  /\ UNCHANGED <<page, holders, counts>>

ExportPage ==
  /\ Step("export", "page")
  /\ page' = Page(db, report.filter)
  /\ GoOn("holders")
  /\ UNCHANGED <<vars, total, holders, counts>>

ExportHolders ==
  /\ Step("export", "holders")
  /\ holders' = HeldAmong(db, DOMAIN page)
  /\ GoOn("done")
  /\ UNCHANGED <<vars, page, total, counts>>

\* The dashboard issues its counting calls together; the unit's own gate runs
\* them one at a time, in any order.
DashboardOpen ==
  /\ report = NoReport
  /\ OpenReportUnit
  /\ report' = [kind |-> "dashboard", step |-> "counting", filter |-> Keep]
  /\ UNCHANGED <<page, total, holders, counts>>

DashboardCount(f) ==
  /\ Step("dashboard", "counting")
  /\ f \notin DOMAIN counts
  /\ counts' = [g \in DOMAIN counts \cup {f} |-> IF g = f THEN Count(db, f) ELSE counts[g]]
  /\ GoOn(IF DOMAIN counts' = Filters THEN "done" ELSE "counting")
  /\ UNCHANGED <<vars, page, total, holders>>

\* The response is sent, or the request dies; an open unit ends.
EndReport ==
  /\ report # NoReport
  /\ owner' = IF owner = Reader THEN Nobody ELSE owner
  /\ report' = NoReport
  /\ page' = [a \in {} |-> Gone] /\ total' = 0 /\ holders' = {}
  /\ counts' = [f \in {} |-> 0]
  /\ UNCHANGED <<db, work, pc, input, outcome, unused>>

-----------------------------------------------------------------------------
ReportsInit ==
  /\ Init
  /\ report = NoReport
  /\ page = [a \in {} |-> Gone] /\ total = 0 /\ holders = {}
  /\ counts = [f \in {} |-> 0]

ReadNext ==
  \/ \E f \in Filters : ListPage(f) \/ ExportTotal(f) \/ DashboardCount(f)
  \/ ListTotal \/ ListHolders
  \/ ExportPage \/ ExportHolders
  \/ DashboardOpen
  \/ EndReport

ReportsNext == (Next /\ UNCHANGED reportVars) \/ ReadNext

ReportsSpec == ReportsInit /\ [][ReportsNext]_allVars

-----------------------------------------------------------------------------
(* Properties *)

Finished(kind) == report.kind = kind /\ report.step = "done"

\* The export agrees with itself although it is built from several calls: its
\* row count is the counted total, and a row has a current holder if and only
\* if its status is deployed.
ExportConsistent ==
  Finished("export") =>
    /\ total = Cardinality(DOMAIN page)
    /\ \A a \in DOMAIN page : page[a].status = "deployed" <=> a \in holders

\* The dashboard's counters add up: the total is the sum over the statuses.
DashboardAddsUp ==
  Finished("dashboard") =>
    counts[Keep] = counts["in_stock"] + counts["deployed"] +
                   counts["in_repair"] + counts["retired"]

\* What is made in one unit of several calls agrees with itself
\* (exportAssetsCsv, the dashboard handler).
ReportsConsistent == ExportConsistent /\ DashboardAddsUp

\* "Same filters, so total stays consistent with the page contents": the
\* comment in listAssets says it of a page that holds every match.
ListTotalConsistent ==
  Finished("list") => total = Cardinality(DOMAIN page)
=============================================================================
