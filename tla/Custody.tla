------------------------------ MODULE Custody ------------------------------
(***************************************************************************)
(* Custody and asset mutations of the HTTP API, as concurrent requests.    *)
(* Every request is a process that makes a chain of awaited store calls:   *)
(* pre-checks, one write, a read-back, one audit record.  Other requests   *)
(* run between any two of them, unless the request holds the application   *)
(* unit.                                                                   *)
(*                                                                         *)
(* A request behind the middleware atomicMutation runs in that unit: it    *)
(* sees and changes "work", the uncommitted state of the one open unit,    *)
(* and "db", the committed state, changes only when the unit commits.  A   *)
(* request in Direct is a caller that hands the services the root store    *)
(* (no middleware): each of its store calls is a unit of its own, which    *)
(* waits at the connection gate while another unit is open.                *)
(***************************************************************************)
EXTENDS AssetStore

CONSTANTS
  Direct,      \* the requests that run outside atomicMutation
  Nobody       \* the owner of the unit while none is open

ASSUME CustodyAssumption ==
  /\ Direct \subseteq Requests
  /\ Nobody \notin Requests

VARIABLES
  db,          \* the committed store state
  work,        \* the store state inside the open unit (db while none is open)
  owner,       \* the request whose unit is open, or Nobody
  pc,          \* where each request stands
  input,       \* what each request asks for
  outcome,     \* what each request has learned for its audit record
  unused       \* the ids that were never given to an asset

vars == <<db, work, owner, pc, input, outcome, unused>>

-----------------------------------------------------------------------------
(* Requests *)

CustodyInputs ==
  [op: {"check_out", "check_in"}, asset: Assets, status: {Keep},
   location: Locations \cup {Keep}]

UpdateInputs ==
  [op: {"update"}, asset: Assets, status: Statuses \cup {Keep},
   location: Locations \cup {NoLocation, Keep}]

CreateInputs ==
  [op: {"create"}, asset: Assets, status: Statuses,
   location: Locations \cup {NoLocation}]

DeleteInputs ==
  [op: {"delete"}, asset: Assets, status: {Keep}, location: {Keep}]

Inputs == CustodyInputs \cup UpdateInputs \cup CreateInputs \cup DeleteInputs

NoInput == [op |-> "none", asset |-> Keep, status |-> Keep, location |-> Keep]

Outcome ==
  [before: Row \cup {Gone}, after: Row \cup {Gone}, event: Nat,
   ledger: Seq(CustodyEvent)]

NoOutcome == [before |-> Gone, after |-> Gone, event |-> 0, ledger |-> <<>>]

\* "start" .. "audit" are the store calls still to come, "commit" and "fail"
\* a response already decided, "ok" and "error" what the client was told.
Steps == {"start", "write", "reread", "audit", "commit", "fail"}

PcValues == {"idle", "ok", "error"} \cup Steps

-----------------------------------------------------------------------------
(* The unit *)

\* The state a store call of request r sees.
View(r) == IF r \in Direct THEN db ELSE work

\* A store call can run: r holds the unit, or r waits at no open unit's gate.
MayCall(r) == owner = IF r \in Direct THEN Nobody ELSE r

\* A store call of r leaves state s behind: inside the unit, or at once.
Leave(r, s) ==
  /\ work' = s
  /\ db' = IF r \in Direct THEN s ELSE db
  /\ UNCHANGED owner

NoWrite == UNCHANGED <<db, work, owner>>

Goto(r, step) == pc' = [pc EXCEPT ![r] = step]

\* The request r stands at this step of one of these operations and may go on.
At(r, step, ops) == pc[r] = step /\ input[r].op \in ops /\ MayCall(r)

\* The handler goes on to its next call, having learned what the audit record
\* will say.
Learn(r, step, before, after, event, ledger) ==
  /\ outcome' = [outcome EXCEPT ![r] =
       [before |-> before, after |-> after, event |-> event, ledger |-> ledger]]
  /\ Goto(r, step)
  /\ UNCHANGED <<input, unused>>

Proceed(r, step) == Goto(r, step) /\ NoWrite /\ UNCHANGED <<input, outcome, unused>>

\* The handler is over; what it was asked and has learned is forgotten.
Return(r, result) ==
  /\ Goto(r, result)
  /\ input' = [input EXCEPT ![r] = NoInput]
  /\ outcome' = [outcome EXCEPT ![r] = NoOutcome]
  /\ UNCHANGED unused

\* An early return with an error status: this call wrote nothing.
Refuse(r) == Return(r, "fail") /\ NoWrite

-----------------------------------------------------------------------------
(* Arrival *)

\* The request starts.  Behind atomicMutation it opens the unit first:
\* store.transaction waits for the gate and the application lock, and sees
\* what is committed when it has them.  A create brings an unused id.
Arrive(r) ==
  /\ pc[r] = "idle" /\ owner = Nobody
  /\ \E i \in Inputs :
       /\ i.op = "create" => i.asset \in unused
       /\ input' = [input EXCEPT ![r] = i]
       /\ unused' = IF i.op = "create" THEN unused \ {i.asset} ELSE unused
  /\ owner' = IF r \in Direct THEN Nobody ELSE r
  /\ Goto(r, "start")
  /\ UNCHANGED <<db, work, outcome>>

\* A holder, location, identity key or field that does not validate: the
\* request ends with 400 or 409 before it writes anything.
RejectInput(r) ==
  /\ At(r, "start", {"check_out", "check_in", "update", "create"})
  /\ Refuse(r)

-----------------------------------------------------------------------------
(* Check-out and check-in *)

CheckOutPrecheck(r) ==
  /\ At(r, "start", {"check_out"})
  /\ IF View(r).row[input[r].asset].status \in {"gone", "retired", "in_repair"}
       THEN Refuse(r)
       ELSE Proceed(r, "write")

CheckInPrecheck(r) ==
  /\ At(r, "start", {"check_in"})
  /\ IF Exists(View(r), input[r].asset) THEN Proceed(r, "write") ELSE Refuse(r)

\* The shared part of both appends: the refused call changes nothing, the
\* accepted one returns the event and the row before and after it.
AppendStep(r, type, newStatus, requireStatus) ==
  LET a == input[r].asset
      s == View(r)
      e == NewEvent(s, a, type, newStatus, input[r].location, r)
  IN  IF CustodyRefused(s, a, type, requireStatus)
        THEN Refuse(r)
        ELSE /\ Leave(r, AppendCustodyEvent(s, a, type, newStatus, input[r].location, r))
             /\ Learn(r, "reread", e.from, e.to, e.sequence, <<>>)

CheckOutAppend(r) ==
  /\ At(r, "write", {"check_out"})
  /\ AppendStep(r, "check_out", "deployed", "in_stock")

\* Mutant: check-in does not return the asset to stock.
MutCheckInKeepsStatus(r) ==
  At(r, "write", {"check_in"}) /\ AppendStep(r, "check_in", Keep, Keep)

CheckInAppend(r) ==
  /\ At(r, "write", {"check_in"})
  /\ AppendStep(r, "check_in", "in_stock", Keep)

\* Mutant: the audited "after" is the row read back, not the one the append
\* returned.
MutAuditReadBack(r) ==
  LET row == View(r).row[input[r].asset]
  IN  /\ At(r, "reread", {"check_out", "check_in"})
      /\ IF row = Gone
           THEN Refuse(r)
           ELSE Learn(r, "audit", outcome[r].before, row, outcome[r].event, <<>>) /\ NoWrite

\* The asset is read again for the response; if it is gone by now the client
\* gets 404 although the event was appended.
ReadBack(r) ==
  /\ At(r, "reread", {"check_out", "check_in"})
  /\ IF Exists(View(r), input[r].asset) THEN Proceed(r, "audit") ELSE Refuse(r)

-----------------------------------------------------------------------------
(* Asset mutations *)

UpdatePrecheck(r) ==
  LET existing == View(r).row[input[r].asset]
      status   == input[r].status
  IN  /\ At(r, "start", {"update"})
      /\ IF \/ existing = Gone
            \/ status = "deployed"
            \/ status # Keep /\ existing.status = "deployed"
           THEN Refuse(r)
           ELSE /\ Learn(r, "write", existing, Gone, 0, <<>>)
                /\ NoWrite

UpdateWrite(r) ==
  LET a == input[r].asset
      s == View(r)
      t == UpdateAssetRow(s, a, input[r].status, input[r].location)
  IN  /\ At(r, "write", {"update"})
      /\ IF UpdateRefused(s, a, input[r].status)
           THEN Refuse(r)
           ELSE /\ Leave(r, t)
                /\ Learn(r, "audit", outcome[r].before, t.row[a], 0, <<>>)

CreateWrite(r) ==
  LET a   == input[r].asset
      row == [status |-> input[r].status, location |-> input[r].location]
  IN  /\ At(r, "start", {"create"})
      /\ IF row.status = "deployed"
           THEN Refuse(r)
           ELSE /\ Leave(r, CreateAssetRow(View(r), a, row))
                /\ Learn(r, "audit", Gone, row, 0, <<>>)

\* Mutant: only the row is remembered, not the ledger.
MutDeleteForgetsLedger(r) ==
  LET a == input[r].asset
      s == View(r)
  IN  /\ At(r, "start", {"delete"})
      /\ IF ~Exists(s, a)
           THEN Refuse(r)
           ELSE Leave(r, DeleteAssetRow(s, a)) /\ Learn(r, "audit", s.row[a], Gone, 0, <<>>)

\* deleteAsset runs in a transaction of its own (a savepoint inside the unit):
\* the whole ledger is read page by page, then the row is deleted.
DeleteWrite(r) ==
  LET a == input[r].asset
      s == View(r)
  IN  /\ At(r, "start", {"delete"})
      /\ IF ~Exists(s, a)
           THEN Refuse(r)
           ELSE /\ Leave(r, DeleteAssetRow(s, a))
                /\ Learn(r, "audit", s.row[a], Gone, 0, s.ledger[a])

-----------------------------------------------------------------------------
(* The audit record, built from what the request has learned *)

WriteAudit(r, action) ==
  LET o == outcome[r]
      entry == [action |-> action, by |-> r, before |-> o.before,
                after |-> o.after, event |-> o.event, ledger |-> o.ledger]
  IN  /\ Leave(r, AppendAudit(View(r), input[r].asset, entry))
      /\ Return(r, "commit")

AuditCustody(r) ==
  /\ At(r, "audit", {"check_out", "check_in"})
  /\ WriteAudit(r, IF input[r].op = "check_out" THEN "custody.check_out"
                                                ELSE "custody.check_in")

AuditCreate(r) == At(r, "audit", {"create"}) /\ WriteAudit(r, "asset.create")

AuditUpdate(r) == At(r, "audit", {"update"}) /\ WriteAudit(r, "asset.update")

AuditDelete(r) == At(r, "audit", {"delete"}) /\ WriteAudit(r, "asset.delete")

-----------------------------------------------------------------------------
(* The end of a request *)

\* Mutant: the client is answered although COMMIT was never carried out.
MutAnsweredUncommitted(r) ==
  /\ pc[r] = "commit" /\ (r \in Direct \/ owner = r)
  /\ work' = db /\ owner' = Nobody /\ UNCHANGED db
  /\ Return(r, "ok")

\* A response below 400: the unit commits, then the client is answered.
Commit(r) ==
  /\ pc[r] = "commit" /\ (r \in Direct \/ owner = r)
  /\ IF r \in Direct
       THEN NoWrite
       ELSE db' = work /\ owner' = Nobody /\ UNCHANGED work
  /\ Return(r, "ok")

\* Mutant: a unit that throws is committed.
MutDiscardCommits(r) ==
  /\ owner' = (IF owner = r THEN Nobody ELSE owner)
  /\ db' = (IF owner = r THEN work ELSE db) /\ UNCHANGED work

\* The unit is discarded; what a request outside a unit wrote stays.
Discard(r) ==
  IF owner = r
    THEN work' = db /\ owner' = Nobody /\ UNCHANGED db
    ELSE NoWrite

\* A response of 400 or more: ResponseRollback.
Rollback(r) ==
  /\ pc[r] = "fail" /\ (r \in Direct \/ owner = r)
  /\ Discard(r)
  /\ Return(r, "error")

\* The process stops, the connection is lost, COMMIT fails or a call throws.
Crash(r) ==
  /\ pc[r] \in Steps
  /\ Discard(r)
  /\ Return(r, "error")

-----------------------------------------------------------------------------
Init ==
  /\ db \in InitialStores
  /\ work = db
  /\ owner = Nobody
  /\ pc = [r \in Requests |-> "idle"]
  /\ input = [r \in Requests |-> NoInput]
  /\ outcome = [r \in Requests |-> NoOutcome]
  /\ unused = {a \in Assets : ~Exists(db, a)}

Service(r) ==
  \/ CheckOutPrecheck(r) \/ CheckOutAppend(r)
  \/ CheckInPrecheck(r) \/ CheckInAppend(r)
  \/ ReadBack(r)
  \/ UpdatePrecheck(r) \/ UpdateWrite(r)
  \/ CreateWrite(r) \/ DeleteWrite(r)

Route(r) == AuditCustody(r) \/ AuditCreate(r) \/ AuditUpdate(r) \/ AuditDelete(r)

Unit(r) == Commit(r) \/ Rollback(r) \/ Crash(r)

AllAnswered == (\A r \in Requests : pc[r] \in {"ok", "error"}) /\ UNCHANGED vars

Next ==
  \/ \E r \in Requests : Arrive(r) \/ RejectInput(r) \/ Service(r) \/ Route(r) \/ Unit(r)
  \/ AllAnswered

Spec == Init /\ [][Next]_vars

-----------------------------------------------------------------------------
(* Properties *)

\* Every variable has its type; while no unit is open nothing is uncommitted.
TypeOK ==
  /\ db \in StoreState /\ work \in StoreState
  /\ owner \in (Requests \ Direct) \cup {Nobody}
  /\ pc \in [Requests -> PcValues]
  /\ input \in [Requests -> Inputs \cup {NoInput}]
  /\ outcome \in [Requests -> Outcome]
  /\ unused \subseteq Assets
  /\ owner = Nobody => work = db

\* The coupling rule of the custody service: at every moment, inside an open
\* unit or outside, an asset is deployed if and only if its ledger ends in a
\* check-out.  A PATCH racing a check-out, a check-in of a retired asset or a
\* delete between two calls could break it.
DeployedIffHeld == Coupled(db) /\ Coupled(work)

\* Ledgers stay well formed: numbered without gaps from 1, alternating, and
\* every event made the transition its type stands for.
LedgersWellFormed == WellFormed(db) /\ WellFormed(work)

\* "Check-out is the only path to deployed, only from in_stock": an asset
\* whose committed status becomes deployed was in stock, and the same commit
\* added the check-out event.  An asset retired between a pre-check and the
\* append is never deployed.
BecomesDeployed(a) ==
  db.row[a].status # "deployed" /\ db'.row[a].status = "deployed"

DeployedOnlyFromStock ==
  [][\A a \in Assets : BecomesDeployed(a) =>
       /\ db.row[a].status = "in_stock"
       /\ Len(db'.ledger[a]) = Len(db.ledger[a]) + 1
       /\ Held(db'.ledger[a])]_vars

\* The ledger is append-only: committed events are never changed, reordered or
\* dropped while the asset exists; audit records are never lost at all.
IsExtension(new, old) ==
  /\ Len(new) >= Len(old)
  /\ \A i \in 1..Len(old) : new[i] = old[i]

HistoryKept ==
  [][\A a \in Assets :
       /\ IsExtension(db'.ledger[a], db.ledger[a]) \/ ~Exists(db', a)
       /\ IsExtension(db'.audit[a], db.audit[a])]_vars

\* Every committed change of a row or a ledger comes in the same commit as
\* exactly one audit record, which states the row before and after it
\* correctly; the record of a deletion holds the complete ledger that the
\* cascade destroyed, the record of a custody action the new event's number.
\* (Requests behind atomicMutation.)
ChangedAsset(a) ==
  db'.row[a] # db.row[a] \/ db'.ledger[a] # db.ledger[a]

AuditTells(a, entry) ==
  /\ entry.before = db.row[a] /\ entry.after = db'.row[a]
  /\ IF Exists(db', a)
       THEN entry.event = IF db'.ledger[a] = db.ledger[a]
                            THEN 0 ELSE LastOf(db'.ledger[a]).sequence
       ELSE entry.ledger = db.ledger[a]

EveryChangeAudited ==
  [][\A a \in Assets : ChangedAsset(a) =>
       /\ Len(db'.audit[a]) = Len(db.audit[a]) + 1
       /\ AuditTells(a, LastOf(db'.audit[a]))]_vars

\* A request that was answered with success has exactly one committed audit
\* record; if that is the record of a custody action, exactly the event it
\* names is in the asset's ledger, or in the ledger kept by the record of the
\* asset's deletion.
KeptLedger(s, a) ==
  IF Exists(s, a) \/ s.audit[a] = <<>> THEN s.ledger[a] ELSE LastOf(s.audit[a]).ledger

RecordsOf(r) ==
  UNION {{<<a, i>> : i \in {j \in 1..Len(db.audit[a]) : db.audit[a][j].by = r}} : a \in Assets}

EventsOf(r, a) ==
  {i \in 1..Len(KeptLedger(db, a)) : KeptLedger(db, a)[i].by = r}

SuccessIsDurable ==
  \A r \in Requests \ Direct : pc[r] = "ok" =>
    \E a \in Assets : \E i \in 1..Len(db.audit[a]) :
      /\ RecordsOf(r) = {<<a, i>>}
      /\ EventsOf(r, a) = {db.audit[a][i].event} \ {0}

\* "Audit records built from these can never misstate the transition under
\* concurrency": even for callers without a unit around the whole request,
\* the record of a custody action agrees with the event of that number.
CustodyAuditTruthful ==
  \A a \in Assets : \A i \in 1..Len(db.audit[a]) :
    LET entry == db.audit[a][i]
        n     == entry.event
    IN  n # 0 /\ n <= Len(db.ledger[a]) =>
          /\ db.ledger[a][n].by = entry.by
          /\ db.ledger[a][n].from = entry.before
          /\ db.ledger[a][n].to = entry.after

\* Requests behind atomicMutation are serializable: whatever they interleave,
\* each looks as if it were carried out at once when its unit commits, on what
\* is committed by then, or not at all.
Atomic == INSTANCE AtomicCustody WITH
  answer <- [r \in Requests |-> IF pc[r] \in {"ok", "error"} THEN pc[r] ELSE "none"]

ImplementsAtomicCustody == Atomic!Spec
=============================================================================
