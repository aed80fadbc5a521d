----------------------------- MODULE AssetStore -----------------------------
(***************************************************************************)
(* The part of the Store contract that custody depends on: asset rows,     *)
(* their custody ledgers and the audit log, as a value (a store state) and *)
(* the store calls as functions from one store state to the next.  The     *)
(* PostgreSQL and the SQLite store implement the same calls; each operator *)
(* here is one call, which either store runs as one unit of its own.       *)
(*                                                                         *)
(* Identities, names, interfaces, notes and timestamps are left out: none  *)
(* of the properties tells them apart.  A custody event carries two ghost  *)
(* fields, "from" and "to": the row it actually changed, against which the *)
(* audit records and the responses are judged.                             *)
(***************************************************************************)
EXTENDS Naturals, Sequences

CONSTANTS
  Assets,      \* asset ids; an id is a random UUID and is never used twice
  Locations,   \* location ids
  NoLocation,  \* the null location
  Keep,        \* an optional argument that was left undefined
  Requests,    \* the requests clients send; each is carried out once
  Founder      \* the actor of whatever happened before the initial state

ASSUME ConstantsAssumption ==
  /\ NoLocation \notin Locations
  /\ Keep \notin Locations \cup {NoLocation}
  /\ Keep \notin {"in_stock", "deployed", "in_repair", "retired"}
  /\ Founder \notin Requests

-----------------------------------------------------------------------------
(* Values *)

Statuses == {"in_stock", "deployed", "in_repair", "retired"}

\* The statuses an asset can be given without a custody event.
FreeStatuses == Statuses \ {"deployed"}

Row == [status: Statuses, location: Locations \cup {NoLocation}]

\* What is read for an id that has no row.
Gone == [status |-> "gone", location |-> NoLocation]

Actors == Requests \cup {Founder}

CustodyEvent ==
  [type: {"check_out", "check_in"}, sequence: Nat \ {0},
   location: Locations \cup {Keep}, by: Actors, from: Row, to: Row]

AuditActions ==
  {"asset.create", "asset.update", "asset.delete",
   "custody.check_out", "custody.check_in"}

AuditEntry ==
  [action: AuditActions, by: Actors, before: Row \cup {Gone},
   after: Row \cup {Gone}, event: Nat, ledger: Seq(CustodyEvent)]

StoreState ==
  [row: [Assets -> Row \cup {Gone}],
   ledger: [Assets -> Seq(CustodyEvent)],
   audit: [Assets -> Seq(AuditEntry)]]

-----------------------------------------------------------------------------
(* Reads *)

Exists(s, a) == s.row[a] # Gone

LastOf(seq) == seq[Len(seq)]

\* The latest event of a ledger is a check-out.  A ledger is kept in the
\* order of its sequence numbers, so "order by sequence desc limit 1" is its
\* last element.
Held(ledger) == ledger # <<>> /\ LastOf(ledger).type = "check_out"

\* Mutant: the first event of an asset gets number 0.
MutSequenceFromZero(ledger) == Len(ledger)

\* sequence = (latest?.sequence ?? 0) + 1
NextSequence(ledger) ==
  IF ledger = <<>> THEN 1 ELSE LastOf(ledger).sequence + 1

Patched(row, status, location) ==
  [status   |-> IF status = Keep THEN row.status ELSE status,
   location |-> IF location = Keep THEN row.location ELSE location]

-----------------------------------------------------------------------------
(* Writes *)

\* Mutant: the alternation check is left out.
MutNoAlternation(s, a, type, requireStatus) ==
  ~Exists(s, a) \/ (requireStatus # Keep /\ s.row[a].status # requireStatus)

\* appendCustodyEvent refuses: the row is missing, it does not have the
\* required status, or the event would not alternate with the latest one.
CustodyRefused(s, a, type, requireStatus) ==
  \/ ~Exists(s, a)
  \/ requireStatus # Keep /\ s.row[a].status # requireStatus
  \/ type = "check_out" /\ Held(s.ledger[a])
  \/ type = "check_in" /\ ~Held(s.ledger[a])

NewEvent(s, a, type, status, location, by) ==
  [type |-> type, sequence |-> NextSequence(s.ledger[a]),
   location |-> location, by |-> by,
   from |-> s.row[a], to |-> Patched(s.row[a], status, location)]

\* appendCustodyEvent, when it does not refuse: the event and the row change
\* in one transaction that holds the asset's row lock.
AppendCustodyEvent(s, a, type, status, location, by) ==
  [s EXCEPT !.row[a] = Patched(@, status, location),
            !.ledger[a] = Append(@, NewEvent(s, a, type, status, location, by))]

\* Mutant: the UPDATE has no status guard.
MutUpdateUnguarded(s, a, status) == ~Exists(s, a)

\* UPDATE assets ... WHERE id = ? AND status <> 'deployed' matches no row: the
\* guard is there exactly when the patch has a status.
UpdateRefused(s, a, status) ==
  \/ ~Exists(s, a)
  \/ status # Keep /\ s.row[a].status = "deployed"

UpdateAssetRow(s, a, status, location) ==
  [s EXCEPT !.row[a] = Patched(@, status, location)]

\* Mutant: the audit records of an asset cascade away with it.
MutDeleteCascadesAudit(s, a) ==
  [s EXCEPT !.row[a] = Gone, !.ledger[a] = <<>>, !.audit[a] = <<>>]

\* The foreign key of custody_events cascades: the ledger goes with the row.
DeleteAssetRow(s, a) == [s EXCEPT !.row[a] = Gone, !.ledger[a] = <<>>]

CreateAssetRow(s, a, row) == [s EXCEPT !.row[a] = row]

AppendAudit(s, a, entry) == [s EXCEPT !.audit[a] = Append(@, entry)]

\* Before the first request: assets that were created and never checked out,
\* and ids that are still unused.
Created(row) ==
  [action |-> "asset.create", by |-> Founder, before |-> Gone, after |-> row,
   event |-> 0, ledger |-> <<>>]

InitialStores ==
  {[row    |-> row0,
    ledger |-> [a \in Assets |-> <<>>],
    audit  |-> [a \in Assets |-> IF row0[a] = Gone THEN <<>> ELSE <<Created(row0[a])>>]] :
     row0 \in [Assets -> {row \in Row : row.status # "deployed"} \cup {Gone}]}

-----------------------------------------------------------------------------
(* What the store promises about one store state *)

\* An asset is deployed exactly when the latest event of its ledger is a
\* check-out.
Coupled(s) == \A a \in Assets : s.row[a].status = "deployed" <=> Held(s.ledger[a])

\* The sequence numbers of a ledger are 1, 2, 3, ...: check-outs are odd and
\* check-ins even, so they alternate and the first is a check-out.
LedgerInOrder(ledger) ==
  \A i \in 1..Len(ledger) :
    /\ ledger[i].sequence = i
    /\ ledger[i].type = "check_out" <=> i % 2 = 1

\* Every check-out found the asset in stock and deployed it, every check-in
\* returned it to stock.
LedgerTransitions(ledger) ==
  \A i \in 1..Len(ledger) :
    IF ledger[i].type = "check_out"
      THEN ledger[i].from.status = "in_stock" /\ ledger[i].to.status = "deployed"
      ELSE ledger[i].from.status = "deployed" /\ ledger[i].to.status = "in_stock"

WellFormed(s) ==
  \A a \in Assets :
    /\ LedgerInOrder(s.ledger[a])
    /\ LedgerTransitions(s.ledger[a])
    /\ ~Exists(s, a) => s.ledger[a] = <<>>
=============================================================================
