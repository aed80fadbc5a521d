--------------------------- MODULE AtomicCustody ---------------------------
(***************************************************************************)
(* What the API promises about custody and asset mutations: each request   *)
(* is one atomic operation on the store.  It either does what it was asked *)
(* and writes the one audit record that says so, or it does nothing.       *)
(***************************************************************************)
EXTENDS AssetStore

VARIABLES
  db,       \* the store
  answer    \* what each client was told: "none" so far, "ok" or "error"

avars == <<db, answer>>

Init == db \in InitialStores /\ answer = [r \in Requests |-> "none"]

\* The operation of request r changes the row or the ledger of asset a, with
\* which the store becomes s, and is put on record.
Put(r, action, s, a, event, ledger) ==
  /\ db' = AppendAudit(s, a,
             [action |-> action, by |-> r, before |-> db.row[a], after |-> s.row[a],
              event |-> event, ledger |-> ledger])
  /\ answer' = [answer EXCEPT ![r] = "ok"]

\* Only an asset in stock is checked out, and is deployed by it.
CheckOut(r, a, location) ==
  /\ db.row[a].status = "in_stock" /\ ~Held(db.ledger[a])
  /\ Put(r, "custody.check_out",
         AppendCustodyEvent(db, a, "check_out", "deployed", location, r),
         a, NextSequence(db.ledger[a]), <<>>)

\* Only a held asset is checked in, and returns to stock.
CheckIn(r, a, location) ==
  /\ Exists(db, a) /\ Held(db.ledger[a])
  /\ Put(r, "custody.check_in",
         AppendCustodyEvent(db, a, "check_in", "in_stock", location, r),
         a, NextSequence(db.ledger[a]), <<>>)

\* A patch neither deploys an asset nor changes the status of a deployed one.
Update(r, a, status, location) ==
  /\ Exists(db, a)
  /\ status # Keep => db.row[a].status # "deployed"
  /\ Put(r, "asset.update", UpdateAssetRow(db, a, status, location), a, 0, <<>>)

\* A new asset gets an id that no audit record knows.
Create(r, a, row) ==
  /\ ~Exists(db, a) /\ db.audit[a] = <<>>
  /\ Put(r, "asset.create", CreateAssetRow(db, a, row), a, 0, <<>>)

\* The record of a deletion keeps the ledger that is deleted.
Delete(r, a) ==
  /\ Exists(db, a)
  /\ Put(r, "asset.delete", DeleteAssetRow(db, a), a, 0, db.ledger[a])

Perform(r) ==
  \E a \in Assets :
    \/ \E location \in Locations \cup {Keep} : CheckOut(r, a, location) \/ CheckIn(r, a, location)
    \/ \E status \in FreeStatuses \cup {Keep}, location \in Locations \cup {NoLocation, Keep} :
         Update(r, a, status, location)
    \/ \E status \in FreeStatuses, location \in Locations \cup {NoLocation} :
         Create(r, a, [status |-> status, location |-> location])
    \/ Delete(r, a)

Fail(r) == answer' = [answer EXCEPT ![r] = "error"] /\ UNCHANGED db

Next == \E r \in Requests : answer[r] = "none" /\ (Perform(r) \/ Fail(r))

Spec == Init /\ [][Next]_avars
=============================================================================
