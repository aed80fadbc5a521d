---------------------------- MODULE CustodyProofs ----------------------------
(***************************************************************************)
(* Proofs about Custody, for any sets of assets, locations and requests.   *)
(* Part 1: what each store call of AssetStore preserves, for any store     *)
(* state.  Part 2: the invariants, inside and outside the application      *)
(* unit.  Part 3: requests behind atomicMutation implement AtomicCustody,  *)
(* when no request runs outside the unit.  Part 4: the reports, with the   *)
(* readers of AssetReports beside the requests.  Part 5: what the audit    *)
(* says of a check-out is true, in the unit and outside it.  Part 6: what  *)
(* was answered with success stays on record.                              *)
(*                                                                         *)
(* Neither WellTyped nor the coupling of status and ledger is inductive by *)
(* itself: a create must not bring an id that has a row or that another    *)
(* pending create brought, and an update that reached its write must have  *)
(* passed the check that it does not ask for "deployed".  The types are    *)
(* those of AssetReports, where a reader may hold the unit: Custody alone  *)
(* never has one, so that what is proved of its steps serves both.         *)
(***************************************************************************)
EXTENDS AssetReports, FiniteSetTheorems, TLAPS

-----------------------------------------------------------------------------
(* Part 1.  Store calls: types, coupling of status and ledger, and the     *)
(* ledgers' form.                                                          *)

Sound(s) == s \in StoreState /\ Coupled(s) /\ WellFormed(s)

LEMMA RowTypes ==
  ASSUME NEW s \in StoreState, NEW a \in Assets
  PROVE  /\ s.row[a] \in Row \cup {Gone}
         /\ s.ledger[a] \in Seq(CustodyEvent)
         /\ s.audit[a] \in Seq(AuditEntry)
         /\ Exists(s, a) => s.row[a] \in Row
         /\ s.row[a].status \in Statuses <=> Exists(s, a)
  BY DEF StoreState, Row, Gone, Exists, Statuses

LEMMA PatchedType ==
  ASSUME NEW row \in Row, NEW status \in Statuses \cup {Keep},
         NEW location \in Locations \cup {NoLocation, Keep}
  PROVE  /\ Patched(row, status, location) \in Row
         /\ Patched(row, status, location) # Gone
         /\ status = Keep => Patched(row, status, location).status = row.status
         /\ status # Keep => Patched(row, status, location).status = status
  BY DEF Patched, Row, Gone, Statuses

LEMMA RowIsNotGone == \A row \in Row : row # Gone
  BY DEF Row, Gone, Statuses

-----------------------------------------------------------------------------
(* Ledgers *)

LEMMA Parity == \A n \in Nat : (n + 1) % 2 = 1 <=> ~(n % 2 = 1)
  BY SMT

LEMMA LastAppended ==
  ASSUME NEW S, NEW seq \in Seq(S), NEW e
  PROVE  /\ Len(Append(seq, e)) = Len(seq) + 1
         /\ LastOf(Append(seq, e)) = e
         /\ Append(seq, e) # <<>>
<1> seq \in Seq(S \cup {e})
  OBVIOUS
<1> QED BY DEF LastOf

\* In an orderly ledger the next event has the next number, and the ledger is
\* held exactly when the number of its events is odd.
LEMMA OrderlyLedger ==
  ASSUME NEW ledger \in Seq(CustodyEvent), LedgerInOrder(ledger)
  PROVE  /\ NextSequence(ledger) = Len(ledger) + 1
         /\ Held(ledger) <=> Len(ledger) % 2 = 1
<1>1. Len(ledger) \in Nat /\ (ledger = <<>> <=> Len(ledger) = 0)
  OBVIOUS
<1>2. CASE ledger = <<>>
  BY <1>1, <1>2 DEF NextSequence, Held
<1>3. CASE ledger # <<>>
  <2>1. Len(ledger) \in 1..Len(ledger)
    BY <1>1, <1>3
  <2> QED BY <1>1, <1>3, <2>1 DEF LedgerInOrder, NextSequence, Held, LastOf
<1> QED BY <1>2, <1>3

\* An event that alternates with the latest one, carries the next number and
\* made the transition of its type keeps a ledger in form.
LEMMA AppendedLedger ==
  ASSUME NEW ledger \in Seq(CustodyEvent), LedgerInOrder(ledger), LedgerTransitions(ledger),
         NEW e \in CustodyEvent, e.sequence = NextSequence(ledger),
         e.type = "check_out" <=> ~Held(ledger),
         IF e.type = "check_out"
           THEN e.from.status = "in_stock" /\ e.to.status = "deployed"
           ELSE e.from.status = "deployed" /\ e.to.status = "in_stock"
  PROVE  /\ LedgerInOrder(Append(ledger, e))
         /\ LedgerTransitions(Append(ledger, e))
         /\ Held(Append(ledger, e)) <=> e.type = "check_out"
         /\ Append(ledger, e) \in Seq(CustodyEvent)
         /\ Append(ledger, e) # <<>>
<1> DEFINE n == Len(ledger)
           new == Append(ledger, e)
<1>1. n \in Nat /\ Len(new) = n + 1 /\ new \in Seq(CustodyEvent) /\ new # <<>>
  OBVIOUS
<1>2. \A i \in 1..n : new[i] = ledger[i]
  OBVIOUS
<1>3. new[n + 1] = e
  OBVIOUS
<1>4. e.sequence = n + 1 /\ (e.type = "check_out" <=> (n + 1) % 2 = 1)
  BY <1>1, OrderlyLedger, Parity
<1>5. \A i \in 1..Len(new) : i \in 1..n \/ i = n + 1
  BY <1>1
<1>6. LedgerInOrder(new)
  BY <1>2, <1>3, <1>4, <1>5 DEF LedgerInOrder
<1>7. LedgerTransitions(new)
  BY <1>2, <1>3, <1>5 DEF LedgerTransitions
<1>8. Held(new) <=> e.type = "check_out"
  BY <1>1, <1>3 DEF Held, LastOf
<1> QED BY <1>1, <1>6, <1>7, <1>8

LEMMA EmptyLedger ==
  /\ LedgerInOrder(<<>>) /\ LedgerTransitions(<<>>) /\ ~Held(<<>>)
  /\ <<>> \in Seq(CustodyEvent)
  BY DEF LedgerInOrder, LedgerTransitions, Held

-----------------------------------------------------------------------------
(* Store calls *)

\* One asset gets a row and a ledger that fit each other; the rest stays.
LEMMA ReplacedAsset ==
  ASSUME NEW s, Sound(s), NEW a \in Assets, NEW t \in StoreState,
         NEW row, NEW ledger,
         t.row = [s.row EXCEPT ![a] = row],
         t.ledger = [s.ledger EXCEPT ![a] = ledger],
         row.status = "deployed" <=> Held(ledger),
         LedgerInOrder(ledger), LedgerTransitions(ledger),
         row = Gone => ledger = <<>>
  PROVE  Sound(t)
<1>1. s.row \in [Assets -> Row \cup {Gone}] /\ s.ledger \in [Assets -> Seq(CustodyEvent)]
  BY DEF Sound, StoreState
<1>2. /\ t.row[a] = row /\ t.ledger[a] = ledger
      /\ \A b \in Assets \ {a} : t.row[b] = s.row[b] /\ t.ledger[b] = s.ledger[b]
  BY <1>1
<1>3. Coupled(t)
  BY <1>2 DEF Sound, Coupled
<1>4. WellFormed(t)
  BY <1>2 DEF Sound, WellFormed, Exists
<1> QED BY <1>3, <1>4 DEF Sound

\* An accepted custody event keeps the store sound, if its caller names the
\* statuses of the transition.
LEMMA AppendCustodyEventSound ==
  ASSUME NEW s, Sound(s), NEW a \in Assets, NEW by \in Actors,
         NEW type \in {"check_out", "check_in"}, NEW status \in Statuses,
         NEW requireStatus, NEW location \in Locations \cup {Keep},
         type = "check_out" => status = "deployed" /\ requireStatus = "in_stock",
         type = "check_in" => status = "in_stock",
         ~CustodyRefused(s, a, type, requireStatus)
  PROVE  /\ Sound(AppendCustodyEvent(s, a, type, status, location, by))
         /\ NewEvent(s, a, type, status, location, by) \in CustodyEvent
<1> DEFINE e == NewEvent(s, a, type, status, location, by)
           t == AppendCustodyEvent(s, a, type, status, location, by)
           row == Patched(s.row[a], status, location)
           ledger == Append(s.ledger[a], e)
<1>1. s \in StoreState /\ LedgerInOrder(s.ledger[a]) /\ LedgerTransitions(s.ledger[a])
  BY DEF Sound, WellFormed
<1>2. s.row[a] \in Row /\ s.ledger[a] \in Seq(CustodyEvent)
  BY <1>1, RowTypes DEF CustodyRefused
<1>3. status # Keep /\ requireStatus = "in_stock" => requireStatus # Keep
  BY ConstantsAssumption DEF Statuses
<1>4. row \in Row /\ row # Gone /\ row.status = status
  BY <1>2, <1>3, PatchedType, ConstantsAssumption DEF Statuses
<1>5. NextSequence(s.ledger[a]) \in Nat \ {0}
  BY <1>1, <1>2, OrderlyLedger
<1>6. e \in CustodyEvent
  BY <1>2, <1>4, <1>5 DEF NewEvent, CustodyEvent
<1>7. e.type = "check_out" <=> ~Held(s.ledger[a])
  BY DEF CustodyRefused, NewEvent
<1>8. s.row[a].status = "deployed" <=> Held(s.ledger[a])
  BY DEF Sound, Coupled
<1>9. IF e.type = "check_out"
        THEN e.from.status = "in_stock" /\ e.to.status = "deployed"
        ELSE e.from.status = "deployed" /\ e.to.status = "in_stock"
  <2>1. CASE type = "check_out"
    <3>1. s.row[a].status = "in_stock"
      BY <2>1, ConstantsAssumption DEF CustodyRefused
    <3> QED BY <2>1, <3>1, <1>4 DEF NewEvent
  <2>2. CASE type = "check_in"
    BY <2>2, <1>4, <1>7, <1>8 DEF NewEvent
  <2> QED BY <2>1, <2>2
<1>10. e.sequence = NextSequence(s.ledger[a]) /\ e.type = type
  BY DEF NewEvent
<1>11. /\ LedgerInOrder(ledger) /\ LedgerTransitions(ledger)
       /\ Held(ledger) <=> type = "check_out"
       /\ ledger \in Seq(CustodyEvent)
  <2> HIDE DEF e
  <2> QED BY <1>1, <1>2, <1>6, <1>7, <1>9, <1>10, AppendedLedger
<1>12. /\ t.row = [s.row EXCEPT ![a] = row]
       /\ t.ledger = [s.ledger EXCEPT ![a] = ledger]
       /\ t \in StoreState
  <2>1. t = [s EXCEPT !.row = [s.row EXCEPT ![a] = row],
                      !.ledger = [s.ledger EXCEPT ![a] = ledger]]
    BY <1>1 DEF AppendCustodyEvent, StoreState
  <2> HIDE DEF t, row, ledger
  <2> QED BY <2>1, <1>1, <1>4, <1>11 DEF StoreState
<1>13. row.status = "deployed" <=> Held(ledger)
  BY <1>4, <1>11
<1> HIDE DEF t, row, ledger, e
<1>14. Sound(t)
  BY <1>4, <1>11, <1>12, <1>13, ReplacedAsset
<1> QED BY <1>6, <1>14 DEF t, e

\* An update that is not refused and does not ask for "deployed".
LEMMA UpdateAssetRowSound ==
  ASSUME NEW s, Sound(s), NEW a \in Assets,
         NEW status \in (Statuses \ {"deployed"}) \cup {Keep},
         NEW location \in Locations \cup {NoLocation, Keep},
         ~UpdateRefused(s, a, status)
  PROVE  /\ Sound(UpdateAssetRow(s, a, status, location))
         /\ UpdateAssetRow(s, a, status, location).row[a] \in Row
<1> DEFINE t == UpdateAssetRow(s, a, status, location)
           row == Patched(s.row[a], status, location)
<1>1. s \in StoreState /\ s.row[a] \in Row /\ s.ledger[a] \in Seq(CustodyEvent)
  BY RowTypes DEF Sound, UpdateRefused
<1>2. /\ row \in Row /\ row # Gone
      /\ status = Keep => row.status = s.row[a].status
      /\ status # Keep => row.status = status
  BY <1>1, PatchedType
<1>3. row.status = "deployed" <=> s.row[a].status = "deployed"
  BY <1>2 DEF UpdateRefused
<1>4. t.row = [s.row EXCEPT ![a] = row] /\ t.ledger = s.ledger /\ t \in StoreState
  <2>1. t = [s EXCEPT !.row = [s.row EXCEPT ![a] = row]]
    BY <1>1 DEF UpdateAssetRow, StoreState
  <2> HIDE DEF t, row
  <2> QED BY <2>1, <1>1, <1>2 DEF StoreState
<1>5. s.ledger = [s.ledger EXCEPT ![a] = s.ledger[a]]
  BY <1>1 DEF StoreState
<1>6. /\ row.status = "deployed" <=> Held(s.ledger[a])
      /\ LedgerInOrder(s.ledger[a]) /\ LedgerTransitions(s.ledger[a])
  BY <1>3 DEF Sound, Coupled, WellFormed
<1>7. t.row[a] = row
  BY <1>1, <1>4 DEF StoreState
<1> HIDE DEF t, row
<1>8. Sound(t)
  BY <1>2, <1>4, <1>5, <1>6, ReplacedAsset
<1> QED BY <1>2, <1>7, <1>8 DEF t

\* A deletion takes the ledger with it.
LEMMA DeleteAssetRowSound ==
  ASSUME NEW s, Sound(s), NEW a \in Assets
  PROVE  Sound(DeleteAssetRow(s, a))
<1> DEFINE t == DeleteAssetRow(s, a)
<1>1. /\ t.row = [s.row EXCEPT ![a] = Gone] /\ t.ledger = [s.ledger EXCEPT ![a] = <<>>]
      /\ t \in StoreState
  BY EmptyLedger DEF Sound, StoreState, DeleteAssetRow
<1>2. Gone.status # "deployed"
  BY DEF Gone
<1> HIDE DEF t
<1>3. Sound(t)
  BY <1>1, <1>2, EmptyLedger, ReplacedAsset
<1> QED BY <1>3 DEF t

\* An asset is created with an id that has no row, and not as deployed.
LEMMA CreateAssetRowSound ==
  ASSUME NEW s, Sound(s), NEW a \in Assets, ~Exists(s, a),
         NEW row \in Row, row.status # "deployed"
  PROVE  Sound(CreateAssetRow(s, a, row))
<1> DEFINE t == CreateAssetRow(s, a, row)
<1>1. /\ t.row = [s.row EXCEPT ![a] = row] /\ t.ledger = s.ledger /\ t \in StoreState
  BY DEF Sound, StoreState, CreateAssetRow
<1>2. s.ledger[a] = <<>> /\ s.ledger = [s.ledger EXCEPT ![a] = <<>>]
  BY DEF Sound, StoreState, WellFormed
<1> HIDE DEF t
<1>3. Sound(t)
  BY <1>1, <1>2, EmptyLedger, RowIsNotGone, ReplacedAsset
<1> QED BY <1>3 DEF t

LEMMA AppendAuditSound ==
  ASSUME NEW s, Sound(s), NEW a \in Assets, NEW entry \in AuditEntry
  PROVE  /\ Sound(AppendAudit(s, a, entry))
         /\ AppendAudit(s, a, entry).row = s.row
         /\ AppendAudit(s, a, entry).ledger = s.ledger
<1> DEFINE t == AppendAudit(s, a, entry)
<1>1. s \in StoreState /\ s.audit[a] \in Seq(AuditEntry)
  BY RowTypes DEF Sound
<1>2. Append(s.audit[a], entry) \in Seq(AuditEntry)
  BY <1>1
<1>3. t \in StoreState /\ t.row = s.row /\ t.ledger = s.ledger
  BY <1>1, <1>2 DEF StoreState, AppendAudit
<1>4. Coupled(t) /\ WellFormed(t)
  BY <1>3 DEF Sound, Coupled, WellFormed, Exists
<1> QED BY <1>3, <1>4 DEF Sound

-----------------------------------------------------------------------------
(* Part 2.  The invariants of Custody                                      *)

Absent(a) == ~Exists(db, a) /\ ~Exists(work, a)

Creating(r) == pc[r] = "start" /\ input[r].op = "create"

FreshIds ==
  /\ \A a \in unused : Absent(a)
  /\ \A r \in Requests : Creating(r) =>
       /\ input[r].asset \notin unused
       /\ Absent(input[r].asset)
       /\ \A q \in Requests : Creating(q) /\ input[q].asset = input[r].asset => q = r

UpdatesChecked ==
  \A r \in Requests :
    pc[r] = "write" /\ input[r].op = "update" => input[r].status # "deployed"

\* Types, as in TypeOK, but that a reader may be the owner of the unit.
WellTyped ==
  /\ db \in StoreState /\ work \in StoreState
  /\ owner \in (Requests \ Direct) \cup {Nobody, Reader}
  /\ pc \in [Requests -> PcValues]
  /\ input \in [Requests -> Inputs \cup {NoInput}]
  /\ outcome \in [Requests -> Outcome]
  /\ unused \subseteq Assets
  /\ owner \in {Nobody, Reader} => work = db

IInv ==
  /\ WellTyped
  /\ Sound(db) /\ Sound(work)
  /\ FreshIds
  /\ UpdatesChecked

-----------------------------------------------------------------------------
(* What a request is asked for *)

LEMMA InputShapes ==
  ASSUME WellTyped, NEW r \in Requests
  PROVE  /\ input[r].op \in {"check_out", "check_in"} => input[r] \in CustodyInputs
         /\ input[r].op = "update" => input[r] \in UpdateInputs
         /\ input[r].op = "create" => input[r] \in CreateInputs
         /\ input[r].op = "delete" => input[r] \in DeleteInputs
  BY DEF WellTyped, Inputs, NoInput, CustodyInputs, UpdateInputs, CreateInputs, DeleteInputs

LEMMA AskedAsset ==
  ASSUME WellTyped, NEW r \in Requests,
         input[r].op \in {"check_out", "check_in", "update", "create", "delete"}
  PROVE  input[r].asset \in Assets
  BY InputShapes DEF CustodyInputs, UpdateInputs, CreateInputs, DeleteInputs

LEMMA ViewSound ==
  ASSUME IInv, NEW r \in Requests
  PROVE  Sound(View(r)) /\ View(r) \in StoreState
  BY DEF IInv, View, Sound

LEMMA NothingTypes ==
  /\ NoOutcome \in Outcome /\ NoInput.op = "none"
  /\ Gone \in Row \cup {Gone} /\ <<>> \in Seq(CustodyEvent)
  BY DEF NoOutcome, Outcome, NoInput

-----------------------------------------------------------------------------
(* One step of one request *)

\* The types of the variables that stand for the database.
StoresOK ==
  /\ db \in StoreState /\ work \in StoreState
  /\ owner \in (Requests \ Direct) \cup {Nobody, Reader}
  /\ owner \in {Nobody, Reader} => work = db

\* A step of request r keeps the invariant when it leaves sound stores behind
\* and gives a row to no id but the one it was itself asked to create.
LEMMA RequestStep ==
  ASSUME IInv, NEW r \in Requests,
         StoresOK', Sound(db'), Sound(work'),
         UNCHANGED unused,
         pc' \in [Requests -> PcValues],
         input' \in [Requests -> Inputs \cup {NoInput}],
         outcome' \in [Requests -> Outcome],
         \A q \in Requests \ {r} : pc'[q] = pc[q] /\ input'[q] = input[q],
         pc'[r] # "start",
         pc'[r] = "write" /\ input'[r].op = "update" => input'[r].status # "deployed",
         \A a \in Assets :
           Absent(a) /\ ~(Creating(r) /\ input[r].asset = a) => Absent(a)'
  PROVE  IInv'
<1>1. WellTyped'
  BY DEF IInv, WellTyped, StoresOK
<1>2. ASSUME NEW a \in unused PROVE Absent(a)'
  <2>1. a \in Assets /\ Absent(a)
    BY <1>2 DEF IInv, WellTyped, FreshIds
  <2>2. ~(Creating(r) /\ input[r].asset = a)
    BY <1>2 DEF IInv, FreshIds
  <2> QED BY <2>1, <2>2
<1>3. ASSUME NEW q \in Requests, Creating(q)'
      PROVE  /\ input'[q].asset \notin unused'
             /\ Absent(input[q].asset)'
             /\ \A p \in Requests : Creating(p)' /\ input'[p].asset = input'[q].asset => p = q
  <2>1. q # r
    BY <1>3 DEF Creating
  <2>2. Creating(q) /\ input'[q] = input[q] /\ input[q].asset \in Assets
    BY <1>3, <2>1, AskedAsset DEF Creating, IInv
  <2>3. /\ input[q].asset \notin unused /\ Absent(input[q].asset)
        /\ \A p \in Requests : Creating(p) /\ input[p].asset = input[q].asset => p = q
    BY <2>2 DEF IInv, FreshIds
  <2>4. ~(Creating(r) /\ input[r].asset = input[q].asset)
    BY <2>1, <2>3
  <2>5. Absent(input[q].asset)'
    BY <2>2, <2>3, <2>4
  <2>6. \A p \in Requests : Creating(p)' => Creating(p) /\ input'[p] = input[p]
    BY DEF Creating
  <2> QED BY <2>2, <2>3, <2>5, <2>6
<1>4. FreshIds'
  BY <1>2, <1>3 DEF FreshIds
<1>5. UpdatesChecked'
  BY DEF IInv, UpdatesChecked
<1> QED BY <1>1, <1>4, <1>5 DEF IInv

LEMMA SameStores ==
  ASSUME IInv, NoWrite
  PROVE  /\ StoresOK' /\ Sound(db') /\ Sound(work')
         /\ \A a \in Assets : Absent(a) => Absent(a)'
  BY DEF IInv, WellTyped, NoWrite, StoresOK, Absent

\* A store call that leaves a sound state behind, inside the unit or outside.
LEMMA LeftStores ==
  ASSUME IInv, NEW r \in Requests, MayCall(r), NEW s, Sound(s), Leave(r, s)
  PROVE  /\ StoresOK' /\ Sound(db') /\ Sound(work')
         /\ \A a \in Assets : Absent(a) /\ ~Exists(s, a) => Absent(a)'
<1>1. s \in StoreState
  BY DEF Sound
<1>2. Sound(db') /\ Sound(work')
  BY DEF Leave, IInv
<1>3. StoresOK'
  <2>1. owner' \in {Nobody, Reader} => r \in Direct
    BY CustodyAssumption, ReaderAssumption DEF Leave, MayCall
  <2> QED BY <1>1, <2>1 DEF Leave, StoresOK, IInv, WellTyped
<1>4. \A a \in Assets : Absent(a) /\ ~Exists(s, a) => Absent(a)'
  BY DEF Leave, Absent, Exists
<1> QED BY <1>2, <1>3, <1>4

LEMMA Returned ==
  ASSUME IInv, NEW r \in Requests, NEW result \in PcValues, Return(r, result)
  PROVE  /\ UNCHANGED unused
         /\ pc' \in [Requests -> PcValues] /\ pc'[r] = result
         /\ input' \in [Requests -> Inputs \cup {NoInput}] /\ input'[r] = NoInput
         /\ outcome' \in [Requests -> Outcome]
         /\ \A q \in Requests \ {r} : pc'[q] = pc[q] /\ input'[q] = input[q]
  BY NothingTypes DEF IInv, WellTyped, Return, Goto

LEMMA Learned ==
  ASSUME IInv, NEW r \in Requests, NEW step \in PcValues,
         NEW before \in Row \cup {Gone}, NEW after \in Row \cup {Gone},
         NEW event \in Nat, NEW ledger \in Seq(CustodyEvent),
         Learn(r, step, before, after, event, ledger)
  PROVE  /\ UNCHANGED <<input, unused>>
         /\ pc' \in [Requests -> PcValues] /\ pc'[r] = step
         /\ input' \in [Requests -> Inputs \cup {NoInput}]
         /\ outcome' \in [Requests -> Outcome]
         /\ \A q \in Requests \ {r} : pc'[q] = pc[q] /\ input'[q] = input[q]
<1>1. [before |-> before, after |-> after, event |-> event, ledger |-> ledger] \in Outcome
  BY DEF Outcome
<1> QED BY <1>1 DEF IInv, WellTyped, Learn, Goto

LEMMA StepNames ==
  {"start", "write", "reread", "audit", "commit", "fail", "ok", "error"} \subseteq PcValues
  BY DEF PcValues, Steps

LEMMA RefuseKeeps ==
  ASSUME IInv, NEW r \in Requests, Refuse(r)
  PROVE  IInv'
  BY SameStores, Returned, StepNames, NothingTypes, RequestStep DEF Refuse

LEMMA ProceedKeeps ==
  ASSUME IInv, NEW r \in Requests, NEW step \in {"write", "audit"}, Proceed(r, step),
         input[r].op # "update"
  PROVE  IInv'
<1>1. /\ UNCHANGED <<input, outcome, unused>> /\ pc' = [pc EXCEPT ![r] = step]
  BY DEF Proceed, Goto
<1>2. pc' \in [Requests -> PcValues] /\ pc'[r] = step
  BY <1>1, StepNames DEF IInv, WellTyped
<1>3. \A q \in Requests \ {r} : pc'[q] = pc[q] /\ input'[q] = input[q]
  BY <1>1 DEF IInv, WellTyped
<1>4. input' \in [Requests -> Inputs \cup {NoInput}] /\ outcome' \in [Requests -> Outcome]
  BY <1>1 DEF IInv, WellTyped
<1>5. NoWrite
  BY DEF Proceed
<1> QED BY <1>1, <1>2, <1>3, <1>4, <1>5, SameStores, RequestStep

-----------------------------------------------------------------------------
(* The actions *)

LEMMA ArriveKeeps ==
  ASSUME IInv, NEW r \in Requests, Arrive(r)
  PROVE  IInv'
<1> PICK i \in Inputs :
      /\ i.op = "create" => i.asset \in unused
      /\ input' = [input EXCEPT ![r] = i]
      /\ unused' = IF i.op = "create" THEN unused \ {i.asset} ELSE unused
  BY DEF Arrive
<1>1. /\ pc' = [pc EXCEPT ![r] = "start"] /\ UNCHANGED <<db, work, outcome>>
      /\ owner' = IF r \in Direct THEN Nobody ELSE r
      /\ pc[r] = "idle" /\ owner = Nobody
  BY DEF Arrive, Goto
<1>2. WellTyped'
  BY <1>1, StepNames DEF IInv, WellTyped
<1>3. pc'[r] = "start" /\ input'[r] = i
  BY <1>1 DEF IInv, WellTyped
<1>4. \A q \in Requests \ {r} : pc'[q] = pc[q] /\ input'[q] = input[q]
  BY <1>1 DEF IInv, WellTyped
<1>5. \A a \in unused' : Absent(a)'
  BY <1>1 DEF IInv, FreshIds, Absent
<1>6. Creating(r)' => i.op = "create" /\ i.asset \in unused /\ i.asset \notin unused'
  BY <1>3 DEF Creating
<1>7. \A q \in Requests \ {r} : Creating(q)' => Creating(q) /\ input'[q] = input[q]
  BY <1>4 DEF Creating
<1>8. ASSUME NEW q \in Requests, Creating(q)'
      PROVE  /\ input'[q].asset \notin unused'
             /\ Absent(input[q].asset)'
             /\ \A p \in Requests : Creating(p)' /\ input'[p].asset = input'[q].asset => p = q
  <2>1. CASE q = r
    <3>1. Absent(i.asset)' /\ i.asset \notin unused' /\ i.asset \in unused
      BY <1>1, <1>6, <1>8, <2>1 DEF IInv, FreshIds, Absent
    <3>2. \A p \in Requests \ {r} : Creating(p)' => input'[p].asset # i.asset
      BY <3>1, <1>7 DEF IInv, FreshIds
    <3> QED BY <2>1, <3>1, <3>2, <1>3
  <2>2. CASE q # r
    <3>1. Creating(q) /\ input'[q] = input[q]
      BY <1>7, <1>8, <2>2
    <3>2. /\ input[q].asset \notin unused /\ Absent(input[q].asset)
          /\ \A p \in Requests : Creating(p) /\ input[p].asset = input[q].asset => p = q
      BY <3>1 DEF IInv, FreshIds
    <3>3. Absent(input[q].asset)'
      BY <3>1, <3>2, <1>1 DEF Absent
    <3>4. Creating(r)' => input'[r].asset # input[q].asset
      BY <3>2, <1>3, <1>6
    <3> QED BY <3>1, <3>2, <3>3, <3>4, <1>7
  <2> QED BY <2>1, <2>2
<1>9. FreshIds'
  BY <1>5, <1>8 DEF FreshIds
<1>10. UpdatesChecked'
  BY <1>3, <1>4 DEF IInv, UpdatesChecked
<1> QED BY <1>1, <1>2, <1>9, <1>10 DEF IInv

\* Both appends: the caller names the statuses of the transition.
LEMMA AppendKeeps ==
  ASSUME IInv, NEW r \in Requests, NEW type \in {"check_out", "check_in"},
         NEW newStatus \in Statuses, NEW requireStatus,
         type = "check_out" => newStatus = "deployed" /\ requireStatus = "in_stock",
         type = "check_in" => newStatus = "in_stock",
         At(r, "write", {type}), AppendStep(r, type, newStatus, requireStatus)
  PROVE  IInv'
<1> DEFINE a == input[r].asset
           s == View(r)
           location == input[r].location
           e == NewEvent(s, a, type, newStatus, location, r)
<1>1. /\ a \in Assets /\ location \in Locations \cup {Keep} /\ MayCall(r)
      /\ input[r].op = type /\ r \in Actors /\ Sound(s)
  BY InputShapes, ViewSound DEF At, IInv, CustodyInputs, Actors
<1>2. CASE CustodyRefused(s, a, type, requireStatus)
  BY <1>2, RefuseKeeps DEF AppendStep
<1>3. CASE ~CustodyRefused(s, a, type, requireStatus)
  <2> DEFINE t == AppendCustodyEvent(s, a, type, newStatus, location, r)
  <2>1. Leave(r, t) /\ Learn(r, "reread", e.from, e.to, e.sequence, <<>>)
    BY <1>3 DEF AppendStep
  <2>2. Sound(t) /\ e \in CustodyEvent
    BY <1>1, <1>3, AppendCustodyEventSound
  <2>3. \A b \in Assets : ~Exists(s, b) => ~Exists(t, b)
    <3>1. Exists(s, a)
      BY <1>3 DEF CustodyRefused
    <3>2. s \in StoreState
      BY <1>1 DEF Sound
    <3>3. \A b \in Assets \ {a} : t.row[b] = s.row[b]
      BY <3>2 DEF AppendCustodyEvent, StoreState
    <3> QED BY <3>1, <3>3 DEF Exists
  <2>4. \A b \in Assets : Absent(b) => ~Exists(s, b)
    BY DEF Absent, View
  <2>5. e.from \in Row \cup {Gone} /\ e.to \in Row \cup {Gone} /\ e.sequence \in Nat
    BY <2>2 DEF CustodyEvent
  <2> HIDE DEF t, e, s
  <2>6. /\ StoresOK' /\ Sound(db') /\ Sound(work')
        /\ \A b \in Assets : Absent(b) => Absent(b)'
    BY <1>1, <2>1, <2>2, <2>3, <2>4, LeftStores
  <2>7. /\ UNCHANGED <<input, unused>>
        /\ pc' \in [Requests -> PcValues] /\ pc'[r] = "reread"
        /\ input' \in [Requests -> Inputs \cup {NoInput}]
        /\ outcome' \in [Requests -> Outcome]
        /\ \A q \in Requests \ {r} : pc'[q] = pc[q] /\ input'[q] = input[q]
    BY <2>1, <2>5, StepNames, NothingTypes, Learned
  <2> QED BY <2>6, <2>7, RequestStep
<1> QED BY <1>2, <1>3

LEMMA PrecheckKeeps ==
  ASSUME IInv, NEW r \in Requests, CheckOutPrecheck(r) \/ CheckInPrecheck(r) \/ ReadBack(r)
  PROVE  IInv'
<1>1. input[r].op # "update"
  BY DEF CheckOutPrecheck, CheckInPrecheck, ReadBack, At
<1>2. Refuse(r) \/ Proceed(r, "write") \/ Proceed(r, "audit")
  BY DEF CheckOutPrecheck, CheckInPrecheck, ReadBack
<1> QED BY <1>1, <1>2, RefuseKeeps, ProceedKeeps

LEMMA CheckOutAppendKeeps ==
  ASSUME IInv, NEW r \in Requests, CheckOutAppend(r)
  PROVE  IInv'
  BY AppendKeeps DEF CheckOutAppend, Statuses

LEMMA CheckInAppendKeeps ==
  ASSUME IInv, NEW r \in Requests, CheckInAppend(r)
  PROVE  IInv'
  BY AppendKeeps DEF CheckInAppend, Statuses

LEMMA UpdatePrecheckKeeps ==
  ASSUME IInv, NEW r \in Requests, UpdatePrecheck(r)
  PROVE  IInv'
<1> DEFINE existing == View(r).row[input[r].asset]
<1>1. At(r, "start", {"update"}) /\ input[r].asset \in Assets
  BY AskedAsset DEF UpdatePrecheck, At, IInv
<1>2. existing \in Row \cup {Gone}
  BY <1>1, ViewSound, RowTypes
<1>3. CASE Refuse(r)
  BY <1>3, RefuseKeeps
<1>4. CASE ~Refuse(r)
  <2>1. /\ input[r].status # "deployed" /\ NoWrite
        /\ Learn(r, "write", existing, Gone, 0, <<>>)
    BY <1>4 DEF UpdatePrecheck
  <2> HIDE DEF existing
  <2>2. /\ UNCHANGED <<input, unused>>
        /\ pc' \in [Requests -> PcValues] /\ pc'[r] = "write"
        /\ input' \in [Requests -> Inputs \cup {NoInput}]
        /\ outcome' \in [Requests -> Outcome]
        /\ \A q \in Requests \ {r} : pc'[q] = pc[q] /\ input'[q] = input[q]
    BY <1>2, <2>1, StepNames, NothingTypes, Learned
  <2> QED BY <2>1, <2>2, SameStores, RequestStep
<1> QED BY <1>3, <1>4

LEMMA UpdateWriteKeeps ==
  ASSUME IInv, NEW r \in Requests, UpdateWrite(r)
  PROVE  IInv'
<1> DEFINE a == input[r].asset
           s == View(r)
           t == UpdateAssetRow(s, a, input[r].status, input[r].location)
<1>1. /\ a \in Assets /\ MayCall(r) /\ Sound(s)
      /\ input[r].location \in Locations \cup {NoLocation, Keep}
      /\ input[r].status \in Statuses \cup {Keep}
      /\ pc[r] = "write" /\ input[r].op = "update"
  BY InputShapes, ViewSound DEF UpdateWrite, At, IInv, UpdateInputs
<1>2. input[r].status \in (Statuses \ {"deployed"}) \cup {Keep}
  BY <1>1 DEF IInv, UpdatesChecked
<1>3. CASE UpdateRefused(s, a, input[r].status)
  BY <1>3, RefuseKeeps DEF UpdateWrite
<1>4. CASE ~UpdateRefused(s, a, input[r].status)
  <2>1. Leave(r, t) /\ Learn(r, "audit", outcome[r].before, t.row[a], 0, <<>>)
    BY <1>4 DEF UpdateWrite
  <2>2. Sound(t) /\ t.row[a] \in Row
    BY <1>1, <1>2, <1>4, UpdateAssetRowSound
  <2>3. \A b \in Assets : ~Exists(s, b) => ~Exists(t, b)
    <3>1. Exists(s, a) /\ s \in StoreState
      BY <1>1, <1>4 DEF UpdateRefused, Sound
    <3>2. \A b \in Assets \ {a} : t.row[b] = s.row[b]
      BY <3>1 DEF UpdateAssetRow, StoreState
    <3> QED BY <3>1, <3>2 DEF Exists
  <2>4. \A b \in Assets : Absent(b) => ~Exists(s, b)
    BY DEF Absent, View
  <2>5. outcome[r].before \in Row \cup {Gone}
    BY DEF IInv, WellTyped, Outcome
  <2> HIDE DEF t, s
  <2>6. /\ StoresOK' /\ Sound(db') /\ Sound(work')
        /\ \A b \in Assets : Absent(b) => Absent(b)'
    BY <1>1, <2>1, <2>2, <2>3, <2>4, LeftStores
  <2>7. /\ UNCHANGED <<input, unused>>
        /\ pc' \in [Requests -> PcValues] /\ pc'[r] = "audit"
        /\ input' \in [Requests -> Inputs \cup {NoInput}]
        /\ outcome' \in [Requests -> Outcome]
        /\ \A q \in Requests \ {r} : pc'[q] = pc[q] /\ input'[q] = input[q]
    BY <2>1, <2>2, <2>5, StepNames, NothingTypes, Learned
  <2> QED BY <2>6, <2>7, RequestStep
<1> QED BY <1>3, <1>4

LEMMA CreateWriteKeeps ==
  ASSUME IInv, NEW r \in Requests, CreateWrite(r)
  PROVE  IInv'
<1> DEFINE a == input[r].asset
           s == View(r)
           row == [status |-> input[r].status, location |-> input[r].location]
           t == CreateAssetRow(s, a, row)
<1>1. /\ a \in Assets /\ MayCall(r) /\ Sound(s) /\ row \in Row
      /\ Creating(r)
  BY InputShapes, ViewSound DEF CreateWrite, At, IInv, CreateInputs, Row, Creating
<1>2. CASE row.status = "deployed"
  BY <1>2, RefuseKeeps DEF CreateWrite
<1>3. CASE row.status # "deployed"
  <2>1. Leave(r, t) /\ Learn(r, "audit", Gone, row, 0, <<>>)
    BY <1>3 DEF CreateWrite
  <2>2. ~Exists(s, a)
    BY <1>1 DEF IInv, FreshIds, Absent, View
  <2>3. Sound(t)
    BY <1>1, <1>3, <2>2, CreateAssetRowSound
  <2>4. \A b \in Assets \ {a} : ~Exists(s, b) => ~Exists(t, b)
    BY <1>1 DEF CreateAssetRow, StoreState, Exists, Sound
  <2>5. \A b \in Assets : Absent(b) => ~Exists(s, b)
    BY DEF Absent, View
  <2>6. /\ StoresOK' /\ Sound(db') /\ Sound(work')
        /\ \A b \in Assets : Absent(b) /\ ~Exists(t, b) => Absent(b)'
    <3> HIDE DEF t, s
    <3> QED BY <1>1, <2>1, <2>3, LeftStores
  <2>7. \A b \in Assets : Absent(b) /\ ~(Creating(r) /\ input[r].asset = b) => Absent(b)'
    BY <1>1, <2>4, <2>5, <2>6
  <2>8. /\ UNCHANGED <<input, unused>>
        /\ pc' \in [Requests -> PcValues] /\ pc'[r] = "audit"
        /\ input' \in [Requests -> Inputs \cup {NoInput}]
        /\ outcome' \in [Requests -> Outcome]
        /\ \A q \in Requests \ {r} : pc'[q] = pc[q] /\ input'[q] = input[q]
    <3> HIDE DEF row, t, s
    <3> QED BY <1>1, <2>1, StepNames, NothingTypes, Learned
  <2> QED BY <2>6, <2>7, <2>8, RequestStep
<1> QED BY <1>2, <1>3

LEMMA DeleteWriteKeeps ==
  ASSUME IInv, NEW r \in Requests, DeleteWrite(r)
  PROVE  IInv'
<1> DEFINE a == input[r].asset
           s == View(r)
           t == DeleteAssetRow(s, a)
<1>1. /\ a \in Assets /\ MayCall(r) /\ Sound(s) /\ s \in StoreState
  BY AskedAsset, ViewSound DEF DeleteWrite, At, IInv
<1>2. CASE ~Exists(s, a)
  BY <1>2, RefuseKeeps DEF DeleteWrite
<1>3. CASE Exists(s, a)
  <2>1. Leave(r, t) /\ Learn(r, "audit", s.row[a], Gone, 0, s.ledger[a])
    BY <1>3 DEF DeleteWrite
  <2>2. Sound(t)
    BY <1>1, DeleteAssetRowSound
  <2>3. \A b \in Assets : ~Exists(s, b) => ~Exists(t, b)
    BY <1>1 DEF DeleteAssetRow, StoreState, Exists
  <2>4. \A b \in Assets : Absent(b) => ~Exists(s, b)
    BY DEF Absent, View
  <2>5. s.row[a] \in Row \cup {Gone} /\ s.ledger[a] \in Seq(CustodyEvent)
    BY <1>1, RowTypes
  <2> HIDE DEF t, s
  <2>6. /\ StoresOK' /\ Sound(db') /\ Sound(work')
        /\ \A b \in Assets : Absent(b) => Absent(b)'
    BY <1>1, <2>1, <2>2, <2>3, <2>4, LeftStores
  <2>7. /\ UNCHANGED <<input, unused>>
        /\ pc' \in [Requests -> PcValues] /\ pc'[r] = "audit"
        /\ input' \in [Requests -> Inputs \cup {NoInput}]
        /\ outcome' \in [Requests -> Outcome]
        /\ \A q \in Requests \ {r} : pc'[q] = pc[q] /\ input'[q] = input[q]
    BY <2>1, <2>5, StepNames, NothingTypes, Learned
  <2> QED BY <2>6, <2>7, RequestStep
<1> QED BY <1>2, <1>3

\* The audit record of any operation.
LEMMA WriteAuditKeeps ==
  ASSUME IInv, NEW r \in Requests, NEW ops, At(r, "audit", ops),
         ops \subseteq {"check_out", "check_in", "update", "create", "delete"},
         NEW action \in AuditActions, WriteAudit(r, action)
  PROVE  IInv'
<1> DEFINE a == input[r].asset
           o == outcome[r]
           s == View(r)
           entry == [action |-> action, by |-> r, before |-> o.before,
                     after |-> o.after, event |-> o.event, ledger |-> o.ledger]
           t == AppendAudit(s, a, entry)
<1>1. a \in Assets /\ MayCall(r) /\ Sound(s) /\ Leave(r, t) /\ Return(r, "commit")
  BY AskedAsset, ViewSound DEF At, IInv, WriteAudit
<1>2. entry \in AuditEntry
  BY DEF IInv, WellTyped, Outcome, AuditEntry, Actors
<1>3. Sound(t) /\ t.row = s.row
  <2> HIDE DEF entry, s
  <2> QED BY <1>1, <1>2, AppendAuditSound
<1>4. \A b \in Assets : Absent(b) => ~Exists(t, b)
  BY <1>3 DEF Absent, View, Exists
<1> HIDE DEF t, s, entry
<1>5. /\ StoresOK' /\ Sound(db') /\ Sound(work')
      /\ \A b \in Assets : Absent(b) => Absent(b)'
  BY <1>1, <1>3, <1>4, LeftStores
<1> QED BY <1>1, <1>5, Returned, StepNames, NothingTypes, RequestStep

LEMMA RouteKeeps ==
  ASSUME IInv, NEW r \in Requests, Route(r)
  PROVE  IInv'
<1>1. CASE AuditCustody(r)
  BY <1>1, WriteAuditKeeps DEF AuditCustody, AuditActions
<1>2. CASE AuditCreate(r)
  BY <1>2, WriteAuditKeeps DEF AuditCreate, AuditActions
<1>3. CASE AuditUpdate(r)
  BY <1>3, WriteAuditKeeps DEF AuditUpdate, AuditActions
<1>4. CASE AuditDelete(r)
  BY <1>4, WriteAuditKeeps DEF AuditDelete, AuditActions
<1> QED BY <1>1, <1>2, <1>3, <1>4 DEF Route

\* The unit is committed or discarded; an id absent from both states of the
\* database stays absent.
LEMMA UnitKeeps ==
  ASSUME IInv, NEW r \in Requests, Unit(r)
  PROVE  IInv'
<1>1. /\ StoresOK' /\ Sound(db') /\ Sound(work')
      /\ \A a \in Assets : Absent(a) => Absent(a)'
  BY DEF Unit, Commit, Rollback, Crash, Discard, NoWrite, IInv, WellTyped, StoresOK, Absent
<1>2. Return(r, "ok") \/ Return(r, "error")
  BY DEF Unit, Commit, Rollback, Crash
<1> QED BY <1>1, <1>2, Returned, StepNames, NothingTypes, RequestStep

LEMMA InitSound == Init => IInv
<1> SUFFICES ASSUME Init PROVE IInv
  OBVIOUS
<1> PICK row0 \in [Assets -> {row \in Row : row.status # "deployed"} \cup {Gone}] :
      db = [row    |-> row0,
            ledger |-> [a \in Assets |-> <<>>],
            audit  |-> [a \in Assets |->
                          IF row0[a] = Gone THEN <<>> ELSE <<Created(row0[a])>>]]
  BY DEF Init, InitialStores
<1>1. \A row \in Row : Created(row) \in AuditEntry
  BY NothingTypes DEF Created, AuditEntry, AuditActions, Actors
<1>2. \A a \in Assets :
        (IF row0[a] = Gone THEN <<>> ELSE <<Created(row0[a])>>) \in Seq(AuditEntry)
  <2>1. \A entry \in AuditEntry : <<entry>> \in Seq(AuditEntry)
    OBVIOUS
  <2>2. \A a \in Assets : row0[a] # Gone => Created(row0[a]) \in AuditEntry
    BY <1>1
  <2>3. <<>> \in Seq(AuditEntry)
    OBVIOUS
  <2> QED BY <2>1, <2>2, <2>3
<1>3. db \in StoreState
  BY <1>2, EmptyLedger DEF StoreState
<1>4. Coupled(db) /\ WellFormed(db)
  BY EmptyLedger DEF Coupled, WellFormed, Gone
<1>5. Sound(db) /\ Sound(work) /\ work = db
  BY <1>3, <1>4 DEF Sound, Init
<1>6. WellTyped
  BY <1>3, NothingTypes, StepNames DEF Init, WellTyped, PcValues
<1>7. FreshIds /\ UpdatesChecked
  BY <1>5 DEF Init, FreshIds, UpdatesChecked, Absent, Creating
<1> QED BY <1>5, <1>6, <1>7 DEF IInv

LEMMA StepSound == IInv /\ [Next]_vars => IInv'
<1> SUFFICES ASSUME IInv, [Next]_vars PROVE IInv'
  OBVIOUS
<1>1. ASSUME NEW r \in Requests, Arrive(r) PROVE IInv'
  BY <1>1, ArriveKeeps
<1>2. ASSUME NEW r \in Requests, RejectInput(r) PROVE IInv'
  BY <1>2, RefuseKeeps DEF RejectInput
<1>3. ASSUME NEW r \in Requests, Service(r) PROVE IInv'
  BY <1>3, PrecheckKeeps, CheckOutAppendKeeps, CheckInAppendKeeps, UpdatePrecheckKeeps,
     UpdateWriteKeeps, CreateWriteKeeps, DeleteWriteKeeps DEF Service
<1>4. ASSUME NEW r \in Requests, Route(r) PROVE IInv'
  BY <1>4, RouteKeeps
<1>5. ASSUME NEW r \in Requests, Unit(r) PROVE IInv'
  BY <1>5, UnitKeeps
<1>6. CASE UNCHANGED vars
  BY <1>6 DEF vars, IInv, WellTyped, FreshIds, UpdatesChecked, Absent, Creating
<1> QED BY <1>1, <1>2, <1>3, <1>4, <1>5, <1>6 DEF Next, AllAnswered

LEMMA SoundAlways == Spec => []IInv
  BY InitSound, StepSound, PTL DEF Spec

\* What requests do to the unit.
LEMMA RequestWritesInUnit ==
  ASSUME NEW r \in Requests, RejectInput(r) \/ Service(r) \/ Route(r)
  PROVE  MayCall(r) /\ owner' = owner /\ (NoWrite \/ \E s : Leave(r, s))
<1>1. MayCall(r)
  BY DEF RejectInput, Service, Route, CheckOutPrecheck, CheckOutAppend, CheckInPrecheck,
     CheckInAppend, ReadBack, UpdatePrecheck, UpdateWrite, CreateWrite, DeleteWrite,
     AuditCustody, AuditCreate, AuditUpdate, AuditDelete, At
<1>2. NoWrite \/ \E s : Leave(r, s)
  <2>1. CASE RejectInput(r) \/ Route(r)
    BY <2>1 DEF RejectInput, Route, AuditCustody, AuditCreate, AuditUpdate, AuditDelete,
       WriteAudit, Refuse
  <2>2. CASE CheckOutPrecheck(r) \/ CheckInPrecheck(r) \/ ReadBack(r) \/ UpdatePrecheck(r)
    BY <2>2 DEF CheckOutPrecheck, CheckInPrecheck, ReadBack, UpdatePrecheck, Refuse, Proceed
  <2>3. CASE CheckOutAppend(r) \/ CheckInAppend(r)
    BY <2>3 DEF CheckOutAppend, CheckInAppend, AppendStep, Refuse
  <2>4. CASE UpdateWrite(r) \/ CreateWrite(r) \/ DeleteWrite(r)
    BY <2>4 DEF UpdateWrite, CreateWrite, DeleteWrite, Refuse
  <2> QED BY <2>1, <2>2, <2>3, <2>4 DEF Service
<1> QED BY <1>1, <1>2 DEF NoWrite, Leave

\* Requests never open a unit for a reader, and while a reader has one they
\* leave the database and the unit alone.
LEMMA ReaderIsLeftAlone ==
  WellTyped /\ [Next]_vars =>
    /\ owner # Reader => owner' # Reader
    /\ owner = Reader => UNCHANGED <<db, work, owner>>
<1> SUFFICES ASSUME WellTyped, Next \/ UNCHANGED vars
             PROVE  /\ owner # Reader => owner' # Reader
                    /\ owner = Reader => UNCHANGED <<db, work, owner>>
  OBVIOUS
<1>1. \A r \in Requests : r # Reader /\ Nobody # Reader
  BY ReaderAssumption
<1>2. ASSUME NEW r \in Requests, Arrive(r)
      PROVE  owner = Nobody /\ owner' # Reader
  BY <1>1, <1>2 DEF Arrive
<1>3. ASSUME NEW r \in Requests, RejectInput(r) \/ Service(r) \/ Route(r)
      PROVE  owner # Reader /\ owner' = owner
  BY <1>1, <1>3, RequestWritesInUnit DEF MayCall
<1>4. ASSUME NEW r \in Requests, Unit(r)
      PROVE  /\ owner' \in {owner, Nobody}
             /\ owner = Reader => UNCHANGED <<db, work, owner>>
  BY <1>1, <1>4 DEF Unit, Commit, Rollback, Crash, Discard, NoWrite
<1>5. CASE UNCHANGED vars
  BY <1>5 DEF vars
<1> QED BY <1>1, <1>2, <1>3, <1>4, <1>5 DEF Next, AllAnswered

-----------------------------------------------------------------------------
(* Theorems *)

\* Every variable always has its type, and nothing is uncommitted while no
\* unit is open.
THEOREM TypeCorrect == Spec => []TypeOK
<1> DEFINE NotRead == owner # Reader
<1>1. Init => NotRead
  BY ReaderAssumption DEF Init
<1>2. IInv /\ NotRead /\ [Next]_vars => NotRead'
  BY ReaderIsLeftAlone DEF IInv
<1>3. IInv /\ NotRead => TypeOK
  BY DEF IInv, WellTyped, TypeOK
<1> HIDE DEF NotRead
<1> QED BY <1>1, <1>2, <1>3, SoundAlways, PTL DEF Spec

\* The coupling rule of the custody service holds at every moment, whatever
\* requests run, inside the application unit or outside: an asset is deployed
\* if and only if its ledger ends in a check-out.
THEOREM CouplingAlwaysHolds == Spec => []DeployedIffHeld
<1>1. IInv => DeployedIffHeld
  BY DEF IInv, Sound, DeployedIffHeld
<1> QED BY <1>1, SoundAlways, PTL

\* Every ledger is always numbered from 1 without gaps, alternates, and
\* records only transitions that its type stands for.
THEOREM LedgersAlwaysWellFormed == Spec => []LedgersWellFormed
<1>1. IInv => LedgersWellFormed
  BY DEF IInv, Sound, LedgersWellFormed
<1> QED BY <1>1, SoundAlways, PTL

-----------------------------------------------------------------------------
(* Only a check-out of an asset in stock deploys it *)

\* From store state s to store state t an asset becomes deployed only out of
\* stock and by one more event, a check-out.
Deploys(s, t) ==
  \A a \in Assets : s.row[a].status # "deployed" /\ t.row[a].status = "deployed" =>
    /\ s.row[a].status = "in_stock"
    /\ Len(t.ledger[a]) = Len(s.ledger[a]) + 1
    /\ Held(t.ledger[a])

\* Inside the open unit nothing is written before the request's one write, and
\* at most its audit record after it.
UnitWritesOnce ==
  \A r \in Requests : owner = r =>
    IF pc[r] \in {"start", "write"} THEN work = db ELSE Deploys(db, work)

DInv == IInv /\ UnitWritesOnce

\* A step of request r: it writes nothing, or one state that deploys properly,
\* and after its write it changes no row and no ledger.
WritesProperly(r) ==
  \/ NoWrite
  \/ \E t :
       /\ MayCall(r) /\ Leave(r, t) /\ Deploys(View(r), t)
       /\ pc[r] \in {"start", "write"} \/ (t.row = View(r).row /\ t.ledger = View(r).ledger)

LEMMA AppendWritesProperly ==
  ASSUME IInv, NEW r \in Requests, CheckOutAppend(r) \/ CheckInAppend(r)
  PROVE  WritesProperly(r)
<1> DEFINE a == input[r].asset
           s == View(r)
           location == input[r].location
<1>1. a \in Assets /\ Sound(s) /\ s \in StoreState /\ MayCall(r) /\ pc[r] = "write"
  BY AskedAsset, ViewSound DEF CheckOutAppend, CheckInAppend, At, IInv
<1>2. ASSUME NEW type, NEW status, NEW requireStatus,
             (type = "check_out" /\ requireStatus = "in_stock") \/ status = "in_stock",
             AppendStep(r, type, status, requireStatus)
      PROVE  WritesProperly(r)
  <2> DEFINE e == NewEvent(s, a, type, status, location, r)
             t == AppendCustodyEvent(s, a, type, status, location, r)
  <2>1. CASE CustodyRefused(s, a, type, requireStatus)
    BY <1>2, <2>1 DEF AppendStep, Refuse, WritesProperly
  <2>2. CASE ~CustodyRefused(s, a, type, requireStatus)
    <3>1. Leave(r, t)
      BY <1>2, <2>2 DEF AppendStep
    <3>2. /\ \A b \in Assets \ {a} : t.row[b] = s.row[b]
          /\ t.ledger[a] = Append(s.ledger[a], e)
          /\ t.row[a] = Patched(s.row[a], status, location)
      BY <1>1 DEF AppendCustodyEvent, StoreState
    <3>3. s.ledger[a] \in Seq(CustodyEvent) /\ e.type = type
      BY <1>1, RowTypes DEF NewEvent
    <3>4. t.row[a].status = "deployed" =>
            \/ s.row[a].status = "deployed"
            \/ type = "check_out" /\ s.row[a].status = "in_stock"
      <4>1. CASE type = "check_out" /\ requireStatus = "in_stock"
        BY <2>2, <4>1, ConstantsAssumption DEF CustodyRefused
      <4>2. CASE status = "in_stock"
        BY <3>2, <4>2, ConstantsAssumption DEF Patched
      <4> QED BY <1>2, <4>1, <4>2
    <3>5. /\ Len(Append(s.ledger[a], e)) = Len(s.ledger[a]) + 1
          /\ LastOf(Append(s.ledger[a], e)) = e
          /\ Append(s.ledger[a], e) # <<>>
      <4> HIDE DEF e, s
      <4> QED BY <3>3, LastAppended
    <3>6. type = "check_out" => Held(Append(s.ledger[a], e))
      BY <3>3, <3>5 DEF Held
    <3> HIDE DEF t, e, s
    <3>7. Deploys(s, t)
      BY <3>2, <3>4, <3>5, <3>6 DEF Deploys
    <3> QED BY <1>1, <3>1, <3>7 DEF WritesProperly, s
  <2> QED BY <2>1, <2>2
<1>3. AppendStep(r, "check_out", "deployed", "in_stock") \/ AppendStep(r, "check_in", "in_stock", Keep)
  BY DEF CheckOutAppend, CheckInAppend
<1> QED BY <1>2, <1>3

LEMMA MutationWritesProperly ==
  ASSUME IInv, NEW r \in Requests, UpdateWrite(r) \/ CreateWrite(r) \/ DeleteWrite(r)
  PROVE  WritesProperly(r)
<1> DEFINE a == input[r].asset
           s == View(r)
<1>1. a \in Assets /\ Sound(s) /\ s \in StoreState /\ MayCall(r) /\ pc[r] \in {"start", "write"}
  BY AskedAsset, ViewSound DEF UpdateWrite, CreateWrite, DeleteWrite, At, IInv
<1>2. ASSUME NEW t, Leave(r, t),
             \A b \in Assets \ {a} : t.row[b] = s.row[b],
             t.row[a].status = "deployed" => s.row[a].status = "deployed"
      PROVE  WritesProperly(r)
  <2>1. Deploys(s, t)
    BY <1>2 DEF Deploys
  <2> QED BY <1>1, <1>2, <2>1 DEF WritesProperly
<1>3. CASE UpdateWrite(r)
  <2> DEFINE t == UpdateAssetRow(s, a, input[r].status, input[r].location)
  <2>1. CASE UpdateRefused(s, a, input[r].status)
    BY <1>3, <2>1 DEF UpdateWrite, Refuse, WritesProperly
  <2>2. CASE ~UpdateRefused(s, a, input[r].status)
    <3>1. Leave(r, t)
      BY <1>3, <2>2 DEF UpdateWrite
    <3>2. /\ t.row[a] = Patched(s.row[a], input[r].status, input[r].location)
          /\ \A b \in Assets \ {a} : t.row[b] = s.row[b]
      BY <1>1 DEF UpdateAssetRow, StoreState
    <3>3. input[r].status # "deployed"
      BY <1>3 DEF UpdateWrite, At, IInv, UpdatesChecked
    <3>4. t.row[a].status = "deployed" => s.row[a].status = "deployed"
      BY <3>2, <3>3 DEF Patched
    <3> QED BY <1>2, <3>1, <3>2, <3>4
  <2> QED BY <2>1, <2>2
<1>4. CASE CreateWrite(r)
  <2> DEFINE row == [status |-> input[r].status, location |-> input[r].location]
             t == CreateAssetRow(s, a, row)
  <2>1. CASE row.status = "deployed"
    BY <1>4, <2>1 DEF CreateWrite, Refuse, WritesProperly
  <2>2. CASE row.status # "deployed"
    <3>1. Leave(r, t)
      BY <1>4, <2>2 DEF CreateWrite
    <3>2. t.row[a] = row /\ \A b \in Assets \ {a} : t.row[b] = s.row[b]
      BY <1>1 DEF CreateAssetRow, StoreState
    <3> QED BY <1>2, <2>2, <3>1, <3>2
  <2> QED BY <2>1, <2>2
<1>5. CASE DeleteWrite(r)
  <2> DEFINE t == DeleteAssetRow(s, a)
  <2>1. CASE ~Exists(s, a)
    BY <1>5, <2>1 DEF DeleteWrite, Refuse, WritesProperly
  <2>2. CASE Exists(s, a)
    <3>1. Leave(r, t)
      BY <1>5, <2>2 DEF DeleteWrite
    <3>2. t.row[a] = Gone /\ \A b \in Assets \ {a} : t.row[b] = s.row[b]
      BY <1>1 DEF DeleteAssetRow, StoreState
    <3>3. t.row[a].status # "deployed"
      BY <3>2 DEF Gone
    <3> QED BY <1>2, <3>1, <3>2, <3>3
  <2> QED BY <2>1, <2>2
<1> QED BY <1>3, <1>4, <1>5

LEMMA AuditWritesProperly ==
  ASSUME IInv, NEW r \in Requests, Route(r)
  PROVE  WritesProperly(r)
<1>1. ASSUME NEW ops, NEW action, At(r, "audit", ops), WriteAudit(r, action)
      PROVE  WritesProperly(r)
  <2> DEFINE s == View(r)
  <2>1. PICK entry : Leave(r, AppendAudit(s, input[r].asset, entry))
    BY <1>1 DEF WriteAudit
  <2>2. MayCall(r) /\ s \in StoreState
    BY <1>1, ViewSound DEF At
  <2> DEFINE t == AppendAudit(s, input[r].asset, entry)
  <2>3. t.row = s.row /\ t.ledger = s.ledger
    BY <2>2 DEF AppendAudit, StoreState
  <2>4. Deploys(s, t)
    BY <2>3 DEF Deploys
  <2> QED BY <2>1, <2>2, <2>3, <2>4 DEF WritesProperly
<1> QED BY <1>1 DEF Route, AuditCustody, AuditCreate, AuditUpdate, AuditDelete

LEMMA RequestWritesProperly ==
  ASSUME IInv, NEW r \in Requests, RejectInput(r) \/ Service(r) \/ Route(r)
  PROVE  WritesProperly(r)
<1>1. CASE RejectInput(r) \/ CheckOutPrecheck(r) \/ CheckInPrecheck(r) \/ ReadBack(r)
             \/ UpdatePrecheck(r)
  BY <1>1 DEF RejectInput, CheckOutPrecheck, CheckInPrecheck, ReadBack, UpdatePrecheck,
     Refuse, Proceed, WritesProperly
<1> QED BY <1>1, AppendWritesProperly, MutationWritesProperly, AuditWritesProperly DEF Service

\* A request takes its write behind it when it writes: it never returns to a
\* step before it, and a step that writes nothing from there ends the request.
LEMMA PastTheWrite ==
  ASSUME IInv, NEW r \in Requests, RejectInput(r) \/ Service(r) \/ Route(r)
  PROVE  /\ MayCall(r)
         /\ \A q \in Requests \ {r} : pc'[q] = pc[q]
         /\ pc'[r] \in {"start", "write"} => NoWrite /\ pc[r] = "start"
<1>1. MayCall(r)
  BY DEF RejectInput, Service, Route, CheckOutPrecheck, CheckOutAppend, CheckInPrecheck,
     CheckInAppend, ReadBack, UpdatePrecheck, UpdateWrite, CreateWrite, DeleteWrite,
     AuditCustody, AuditCreate, AuditUpdate, AuditDelete, At
<1>2. \E step \in Steps : Goto(r, step) /\ (step \in {"start", "write"} => NoWrite /\ pc[r] = "start")
  <2>1. CASE RejectInput(r) \/ Route(r)
    BY <2>1 DEF RejectInput, Route, AuditCustody, AuditCreate, AuditUpdate, AuditDelete,
       WriteAudit, Refuse, Return, Steps
  <2>2. CASE CheckOutPrecheck(r) \/ CheckInPrecheck(r) \/ ReadBack(r) \/ UpdatePrecheck(r)
    BY <2>2 DEF CheckOutPrecheck, CheckInPrecheck, ReadBack, UpdatePrecheck, At,
       Refuse, Return, Proceed, Learn, Steps
  <2>3. CASE CheckOutAppend(r) \/ CheckInAppend(r)
    BY <2>3 DEF CheckOutAppend, CheckInAppend, AppendStep, Refuse, Return, Learn, Steps
  <2>4. CASE UpdateWrite(r) \/ CreateWrite(r) \/ DeleteWrite(r)
    BY <2>4 DEF UpdateWrite, CreateWrite, DeleteWrite, Refuse, Return, Learn, Steps
  <2> QED BY <2>1, <2>2, <2>3, <2>4 DEF Service
<1>3. pc \in [Requests -> PcValues]
  BY DEF IInv, WellTyped
<1>4. \A q \in Requests \ {r} : pc'[q] = pc[q]
  BY <1>2, <1>3 DEF Goto
<1>5. pc'[r] \in {"start", "write"} => NoWrite /\ pc[r] = "start"
  BY <1>2, <1>3 DEF Goto
<1> QED BY <1>1, <1>4, <1>5

LEMMA RequestKeepsUnit ==
  ASSUME DInv, NEW r \in Requests, RejectInput(r) \/ Service(r) \/ Route(r)
  PROVE  UnitWritesOnce' /\ Deploys(db, db')
<1>1. IInv /\ WritesProperly(r)
  BY RequestWritesProperly DEF DInv
<1>2. /\ MayCall(r)
      /\ \A q \in Requests \ {r} : pc'[q] = pc[q]
      /\ pc'[r] \in {"start", "write"} => NoWrite /\ pc[r] = "start"
  BY <1>1, PastTheWrite
<1>3. owner' = owner
  BY <1>1 DEF WritesProperly, NoWrite, Leave
<1>4. \A s : Deploys(s, s)
  BY DEF Deploys
<1>5. Deploys(db, db')
  <2>1. CASE r \in Direct
    BY <1>1, <1>4, <2>1 DEF WritesProperly, NoWrite, Leave, View
  <2>2. CASE r \notin Direct
    BY <1>1, <1>4, <2>2 DEF WritesProperly, NoWrite, Leave
  <2> QED BY <2>1, <2>2
<1>6. ASSUME NEW q \in Requests, owner' = q
      PROVE  IF pc'[q] \in {"start", "write"} THEN work' = db' ELSE Deploys(db', work')
  <2>1. q = r /\ r \notin Direct /\ owner = r
    BY <1>2, <1>3, <1>6, CustodyAssumption DEF MayCall
  <2>2. IF pc[r] \in {"start", "write"} THEN work = db ELSE Deploys(db, work)
    BY <2>1 DEF DInv, UnitWritesOnce
  <2>3. CASE NoWrite
    BY <2>1, <2>2, <2>3, <1>2, <1>4 DEF NoWrite
  <2>4. CASE ~NoWrite
    <3>1. PICK t : /\ Leave(r, t) /\ Deploys(View(r), t)
                   /\ pc[r] \in {"start", "write"} \/ (t.row = View(r).row /\ t.ledger = View(r).ledger)
      BY <1>1, <2>4 DEF WritesProperly
    <3>2. work' = t /\ db' = db /\ View(r) = work
      BY <2>1, <3>1 DEF Leave, View
    <3>3. Deploys(db, t)
      <4>1. CASE pc[r] \in {"start", "write"}
        BY <2>2, <3>1, <3>2, <4>1
      <4>2. CASE pc[r] \notin {"start", "write"}
        BY <2>2, <3>1, <3>2, <4>2 DEF Deploys
      <4> QED BY <4>1, <4>2
    <3> QED BY <2>1, <2>4, <3>2, <3>3, <1>2
  <2> QED BY <2>3, <2>4
<1> QED BY <1>5, <1>6 DEF UnitWritesOnce

LEMMA UnitEndsProperly ==
  ASSUME DInv, NEW r \in Requests, Unit(r)
  PROVE  UnitWritesOnce' /\ Deploys(db, db')
<1>1. IInv /\ WellTyped /\ pc \in [Requests -> PcValues]
  BY DEF DInv, IInv, WellTyped
<1>2. /\ owner' = Nobody \/ (owner' = owner /\ owner # r /\ UNCHANGED <<db, work>>)
      /\ db' = db \/ (owner = r /\ pc[r] = "commit" /\ db' = work)
  BY <1>1, CustodyAssumption, ReaderAssumption DEF Unit, Commit, Rollback, Crash, Discard, NoWrite, WellTyped
<1>3. \A q \in Requests \ {r} : pc'[q] = pc[q]
  BY <1>1 DEF Unit, Commit, Rollback, Crash, Return, Goto
<1>4. UnitWritesOnce'
  BY <1>2, <1>3, CustodyAssumption DEF DInv, UnitWritesOnce
<1>5. Deploys(db, db')
  BY <1>2 DEF DInv, UnitWritesOnce, Deploys
<1> QED BY <1>4, <1>5

LEMMA InitUnit == Init => DInv
  BY InitSound, CustodyAssumption DEF DInv, UnitWritesOnce, Init

LEMMA StepDeploys == DInv /\ [Next]_vars => DInv' /\ Deploys(db, db')
<1> SUFFICES ASSUME DInv, [Next]_vars PROVE UnitWritesOnce' /\ Deploys(db, db')
  BY StepSound DEF DInv
<1>1. ASSUME NEW r \in Requests, Arrive(r) PROVE UnitWritesOnce' /\ Deploys(db, db')
  <2>1. work = db /\ UNCHANGED <<db, work>> /\ pc \in [Requests -> PcValues]
    BY <1>1 DEF Arrive, DInv, IInv, WellTyped
  <2>2. owner' = r => pc'[r] = "start"
    BY <1>1, <2>1 DEF Arrive, Goto
  <2>3. owner' \in {r, Nobody}
    BY <1>1 DEF Arrive
  <2> QED BY <2>1, <2>2, <2>3, CustodyAssumption DEF UnitWritesOnce, Deploys
<1>2. ASSUME NEW r \in Requests, RejectInput(r) \/ Service(r) \/ Route(r)
      PROVE  UnitWritesOnce' /\ Deploys(db, db')
  BY <1>2, RequestKeepsUnit
<1>3. ASSUME NEW r \in Requests, Unit(r) PROVE UnitWritesOnce' /\ Deploys(db, db')
  BY <1>3, UnitEndsProperly
<1>4. CASE UNCHANGED vars
  BY <1>4 DEF vars, DInv, UnitWritesOnce, Deploys
<1> QED BY <1>1, <1>2, <1>3, <1>4 DEF Next, AllAnswered

\* Whatever requests interleave, an asset becomes deployed in the database only
\* out of stock, in one step with exactly one new event, a check-out.
THEOREM DeploysOnlyFromStock == Spec => DeployedOnlyFromStock
<1>1. DInv /\ [Next]_vars =>
        [\A a \in Assets : BecomesDeployed(a) =>
           /\ db.row[a].status = "in_stock"
           /\ Len(db'.ledger[a]) = Len(db.ledger[a]) + 1
           /\ Held(db'.ledger[a])]_vars
  BY StepDeploys DEF Deploys, BecomesDeployed
<1>2. DInv /\ [Next]_vars => DInv'
  BY StepDeploys
<1> QED BY <1>1, <1>2, InitUnit, PTL DEF Spec, DeployedOnlyFromStock

-----------------------------------------------------------------------------
(* Part 3.  Atomicity.  The invariant follows the one request that holds   *)
(* the unit: what is uncommitted is always the result of its operation on  *)
(* the committed state, as far as it has come, and it has learned what its *)
(* audit record will say.                                                  *)

\* Store state s is what operation op of request r on asset a makes of store
\* state d.
Written(d, r, op, a, s, event, ledger) ==
  \/ /\ op = "check_out" /\ d.row[a].status = "in_stock" /\ ~Held(d.ledger[a])
     /\ event = NextSequence(d.ledger[a]) /\ ledger = <<>>
     /\ \E location \in Locations \cup {Keep} :
          s = AppendCustodyEvent(d, a, "check_out", "deployed", location, r)
  \/ /\ op = "check_in" /\ Exists(d, a) /\ Held(d.ledger[a])
     /\ event = NextSequence(d.ledger[a]) /\ ledger = <<>>
     /\ \E location \in Locations \cup {Keep} :
          s = AppendCustodyEvent(d, a, "check_in", "in_stock", location, r)
  \/ /\ op = "update" /\ Exists(d, a) /\ event = 0 /\ ledger = <<>>
     /\ \E status \in FreeStatuses \cup {Keep}, location \in Locations \cup {NoLocation, Keep} :
          /\ status # Keep => d.row[a].status # "deployed"
          /\ s = UpdateAssetRow(d, a, status, location)
  \/ /\ op = "create" /\ ~Exists(d, a) /\ d.audit[a] = <<>> /\ event = 0 /\ ledger = <<>>
     /\ \E status \in FreeStatuses, location \in Locations \cup {NoLocation} :
          s = CreateAssetRow(d, a, [status |-> status, location |-> location])
  \/ /\ op = "delete" /\ Exists(d, a) /\ event = 0 /\ ledger = d.ledger[a]
     /\ s = DeleteAssetRow(d, a)

ActionOf(op) ==
  IF op = "check_out" THEN "custody.check_out" ELSE
  IF op = "check_in" THEN "custody.check_in" ELSE
  IF op = "update" THEN "asset.update" ELSE
  IF op = "create" THEN "asset.create" ELSE "asset.delete"

\* The operation and its audit record are written, not yet committed.
Recorded(r) ==
  \E a \in Assets, op \in {"check_out", "check_in", "update", "create", "delete"},
     s \in StoreState, event \in Nat, ledger \in Seq(CustodyEvent) :
    /\ Written(db, r, op, a, s, event, ledger)
    /\ work = AppendAudit(s, a,
         [action |-> ActionOf(op), by |-> r, before |-> db.row[a], after |-> s.row[a],
          event |-> event, ledger |-> ledger])

Stage(r) ==
  /\ pc[r] \in {"start", "write"} => work = db
  /\ Creating(r) => db.audit[input[r].asset] = <<>>
  /\ pc[r] = "write" /\ input[r].op = "update" =>
       outcome[r].before = db.row[input[r].asset]
  /\ pc[r] \in {"reread", "audit"} =>
       /\ input[r].asset \notin unused
       /\ Written(db, r, input[r].op, input[r].asset, work, outcome[r].event, outcome[r].ledger)
       /\ outcome[r].before = db.row[input[r].asset]
       /\ outcome[r].after = work.row[input[r].asset]
  /\ pc[r] = "commit" => Recorded(r)

AInv ==
  /\ IInv
  /\ \A r \in Requests : pc[r] \in Steps => owner = r
  /\ \A r \in Requests : owner = r => Stage(r)
  /\ \A a \in unused : db.audit[a] = <<>> /\ work.audit[a] = <<>>

-----------------------------------------------------------------------------
LEMMA WrittenKeepsAudit ==
  ASSUME db \in StoreState, NEW r, NEW op, NEW a \in Assets, NEW s, NEW event, NEW ledger,
         Written(db, r, op, a, s, event, ledger)
  PROVE  s.audit = db.audit
  BY DEF Written, StoreState, AppendCustodyEvent, UpdateAssetRow, CreateAssetRow, DeleteAssetRow

\* A step inside the unit keeps the invariant if the next stage is reached
\* properly and no unused id is put on record.
LEMMA StageStep ==
  ASSUME AInv, IInv', NEW r \in Requests, owner = r, owner' = r, db' = db,
         unused' = unused, \A q \in Requests \ {r} : pc'[q] = pc[q],
         Stage(r)', \A a \in unused : work'.audit[a] = <<>>
  PROVE  AInv'
  BY DEF AInv

LEMMA Holder ==
  ASSUME AInv, Direct = {}, NEW r \in Requests, MayCall(r)
  PROVE  owner = r /\ View(r) = work /\ Stage(r) /\ r \notin Direct
  BY DEF AInv, MayCall, View

LEMMA AfterReturn ==
  ASSUME WellTyped, NEW r \in Requests, NEW result, Return(r, result)
  PROVE  /\ pc' = [pc EXCEPT ![r] = result] /\ pc'[r] = result /\ unused' = unused
         /\ \A q \in Requests \ {r} : pc'[q] = pc[q]
  BY DEF WellTyped, Return, Goto

LEMMA AfterLearn ==
  ASSUME WellTyped, NEW r \in Requests, NEW step, NEW before, NEW after, NEW event, NEW ledger,
         Learn(r, step, before, after, event, ledger)
  PROVE  /\ pc' = [pc EXCEPT ![r] = step] /\ pc'[r] = step
         /\ unused' = unused /\ input' = input
         /\ \A q \in Requests \ {r} : pc'[q] = pc[q]
         /\ outcome'[r] = [before |-> before, after |-> after, event |-> event, ledger |-> ledger]
  BY DEF WellTyped, Learn, Goto

LEMMA RefuseStages ==
  ASSUME AInv, IInv', Direct = {}, NEW r \in Requests, MayCall(r), Refuse(r)
  PROVE  AInv'
<1>1. owner = r
  BY Holder
<1>2. NoWrite /\ Return(r, "fail") /\ WellTyped
  BY DEF Refuse, AInv, IInv
<1>3. pc'[r] = "fail" /\ unused' = unused /\ \A q \in Requests \ {r} : pc'[q] = pc[q]
  BY <1>2, AfterReturn
<1>4. Stage(r)'
  BY <1>3 DEF Stage, Creating
<1>5. \A a \in unused : work'.audit[a] = <<>>
  BY <1>2 DEF AInv, NoWrite
<1> QED BY <1>1, <1>2, <1>3, <1>4, <1>5, StageStep DEF NoWrite

LEMMA ProceedStages ==
  ASSUME AInv, IInv', Direct = {}, NEW r \in Requests, MayCall(r),
         \/ pc[r] = "start" /\ input[r].op # "update" /\ Proceed(r, "write")
         \/ pc[r] = "reread" /\ Proceed(r, "audit")
  PROVE  AInv'
<1>1. owner = r /\ Stage(r) /\ pc \in [Requests -> PcValues]
  BY Holder DEF AInv, IInv, WellTyped
<1>2. UNCHANGED <<input, outcome, unused, db, work, owner>>
  BY DEF Proceed, NoWrite
<1>3. \A q \in Requests \ {r} : pc'[q] = pc[q]
  BY <1>1 DEF Proceed, Goto
<1>4. \/ pc[r] = "start" /\ input[r].op # "update" /\ pc'[r] = "write"
      \/ pc[r] = "reread" /\ pc'[r] = "audit"
  BY <1>1 DEF Proceed, Goto
<1>5. Stage(r)'
  BY <1>1, <1>2, <1>4 DEF Stage, Creating
<1>6. \A a \in unused : work'.audit[a] = <<>>
  BY <1>2 DEF AInv
<1> QED BY <1>1, <1>2, <1>3, <1>5, <1>6, StageStep

\* The request's one write: what it has learned is what its audit record will
\* have to say.
LEMMA WriteStages ==
  ASSUME AInv, IInv', Direct = {}, NEW r \in Requests, MayCall(r),
         pc[r] \in {"start", "write"}, NEW step \in {"reread", "audit"},
         input[r].asset \in Assets, input[r].asset \notin unused,
         NEW s, NEW before, NEW after, NEW event, NEW ledger,
         Leave(r, s), Learn(r, step, before, after, event, ledger),
         Written(db, r, input[r].op, input[r].asset, s, event, ledger),
         before = db.row[input[r].asset], after = s.row[input[r].asset]
  PROVE  AInv'
<1>1. owner = r /\ Stage(r) /\ r \notin Direct /\ WellTyped /\ db \in StoreState
  BY Holder DEF AInv, IInv, WellTyped
<1>2. db' = db /\ work' = s /\ owner' = owner
  BY <1>1 DEF Leave
<1>3. /\ pc'[r] = step /\ unused' = unused /\ input' = input
      /\ \A q \in Requests \ {r} : pc'[q] = pc[q]
      /\ outcome'[r] = [before |-> before, after |-> after, event |-> event, ledger |-> ledger]
  BY <1>1, AfterLearn
<1>4. Stage(r)'
  BY <1>2, <1>3 DEF Stage, Creating
<1>5. s.audit = db.audit
  BY <1>1, WrittenKeepsAudit
<1>6. \A a \in unused : work'.audit[a] = <<>>
  BY <1>2, <1>5 DEF AInv
<1> QED BY <1>1, <1>2, <1>3, <1>4, <1>6, StageStep

-----------------------------------------------------------------------------
(* The actions *)

LEMMA UsedIds ==
  ASSUME IInv, NEW r \in Requests, NEW a, Exists(View(r), a)
  PROVE  a \notin unused
  BY DEF IInv, FreshIds, Absent, View

LEMMA ArriveStages ==
  ASSUME AInv, IInv', Direct = {}, NEW r \in Requests, Arrive(r)
  PROVE  AInv'
<1> PICK i \in Inputs :
      /\ i.op = "create" => i.asset \in unused
      /\ input' = [input EXCEPT ![r] = i]
      /\ unused' = IF i.op = "create" THEN unused \ {i.asset} ELSE unused
  BY DEF Arrive
<1>1. /\ pc' = [pc EXCEPT ![r] = "start"] /\ UNCHANGED <<db, work, outcome>>
      /\ owner' = r /\ owner = Nobody /\ work = db
  BY DEF Arrive, Goto, AInv, IInv, WellTyped
<1>2. \A q \in Requests : pc[q] \notin Steps
  BY <1>1, CustodyAssumption DEF AInv
<1>3. pc'[r] = "start" /\ input'[r] = i /\ \A q \in Requests \ {r} : pc'[q] = pc[q]
  BY <1>1 DEF AInv, IInv, WellTyped
<1>4. Stage(r)'
  BY <1>1, <1>3 DEF Stage, Creating, AInv
<1>5. \A a \in unused' : db'.audit[a] = <<>> /\ work'.audit[a] = <<>>
  BY <1>1 DEF AInv
<1> QED BY <1>1, <1>2, <1>3, <1>4, <1>5 DEF AInv

LEMMA AppendStages ==
  ASSUME AInv, IInv', Direct = {}, NEW r \in Requests, CheckOutAppend(r) \/ CheckInAppend(r)
  PROVE  AInv'
<1> DEFINE a == input[r].asset
           location == input[r].location
<1>1. /\ MayCall(r) /\ pc[r] = "write" /\ IInv /\ WellTyped
      /\ input[r].op \in {"check_out", "check_in"}
  BY DEF CheckOutAppend, CheckInAppend, At, AInv, IInv
<1>2. View(r) = work /\ work = db /\ db \in StoreState
  BY <1>1, Holder DEF Stage, WellTyped
<1>3. a \in Assets /\ location \in Locations \cup {Keep}
  BY <1>1, InputShapes DEF CustodyInputs
<1>4. ASSUME NEW type, NEW status, NEW requireStatus,
             input[r].op = type,
             \/ type = "check_out" /\ status = "deployed" /\ requireStatus = "in_stock"
             \/ type = "check_in" /\ status = "in_stock",
             AppendStep(r, type, status, requireStatus)
      PROVE  AInv'
  <2> DEFINE e == NewEvent(db, a, type, status, location, r)
             s == AppendCustodyEvent(db, a, type, status, location, r)
  <2>1. CASE CustodyRefused(db, a, type, requireStatus)
    BY <1>1, <1>2, <1>4, <2>1, RefuseStages DEF AppendStep
  <2>2. CASE ~CustodyRefused(db, a, type, requireStatus)
    <3>1. Leave(r, s) /\ Learn(r, "reread", e.from, e.to, e.sequence, <<>>)
      BY <1>2, <1>4, <2>2 DEF AppendStep
    <3>2. Written(db, r, type, a, s, e.sequence, <<>>)
      BY <1>3, <1>4, <2>2, ConstantsAssumption DEF Written, CustodyRefused, NewEvent
    <3>3. e.from = db.row[a] /\ e.to = s.row[a]
      BY <1>2, <1>3 DEF NewEvent, AppendCustodyEvent, StoreState
    <3>4. a \notin unused
      BY <1>1, <1>2, <2>2, UsedIds DEF CustodyRefused
    <3> HIDE DEF e, s
    <3> QED BY <1>1, <1>3, <1>4, <3>1, <3>2, <3>3, <3>4, WriteStages
  <2> QED BY <2>1, <2>2
<1>5. CASE CheckOutAppend(r)
  BY <1>4, <1>5 DEF CheckOutAppend, At
<1>6. CASE CheckInAppend(r)
  BY <1>4, <1>6 DEF CheckInAppend, At
<1> QED BY <1>5, <1>6

LEMMA UpdatePrecheckStages ==
  ASSUME AInv, IInv', Direct = {}, NEW r \in Requests, UpdatePrecheck(r)
  PROVE  AInv'
<1> DEFINE existing == View(r).row[input[r].asset]
<1>1. MayCall(r) /\ pc[r] = "start" /\ WellTyped
  BY DEF UpdatePrecheck, At, AInv, IInv
<1>2. owner = r /\ View(r) = work /\ work = db
  BY <1>1, Holder DEF Stage
<1>3. CASE Refuse(r)
  BY <1>1, <1>3, RefuseStages
<1>4. CASE ~Refuse(r)
  <2>1. Learn(r, "write", existing, Gone, 0, <<>>) /\ NoWrite
    BY <1>4 DEF UpdatePrecheck
  <2>2. existing = db.row[input[r].asset]
    BY <1>2
  <2> HIDE DEF existing
  <2>3. /\ pc'[r] = "write" /\ unused' = unused /\ input' = input
        /\ \A q \in Requests \ {r} : pc'[q] = pc[q]
        /\ outcome'[r] = [before |-> existing, after |-> Gone, event |-> 0, ledger |-> <<>>]
    BY <1>1, <2>1, AfterLearn
  <2>4. Stage(r)'
    BY <1>2, <2>1, <2>2, <2>3 DEF Stage, Creating, NoWrite
  <2>5. \A a \in unused : work'.audit[a] = <<>>
    BY <2>1 DEF AInv, NoWrite
  <2> QED BY <1>2, <2>1, <2>3, <2>4, <2>5, StageStep DEF NoWrite
<1> QED BY <1>3, <1>4

LEMMA UpdateWriteStages ==
  ASSUME AInv, IInv', Direct = {}, NEW r \in Requests, UpdateWrite(r)
  PROVE  AInv'
<1> DEFINE a == input[r].asset
           status == input[r].status
           location == input[r].location
           s == UpdateAssetRow(db, a, status, location)
<1>1. MayCall(r) /\ pc[r] = "write" /\ input[r].op = "update" /\ IInv /\ WellTyped
  BY DEF UpdateWrite, At, AInv, IInv
<1>2. View(r) = work /\ work = db /\ outcome[r].before = db.row[a]
  BY <1>1, Holder DEF Stage
<1>3. /\ a \in Assets /\ location \in Locations \cup {NoLocation, Keep}
      /\ status \in FreeStatuses \cup {Keep}
  BY <1>1, InputShapes DEF UpdateInputs, FreeStatuses, IInv, UpdatesChecked
<1>4. CASE UpdateRefused(db, a, status)
  BY <1>1, <1>2, <1>4, RefuseStages DEF UpdateWrite
<1>5. CASE ~UpdateRefused(db, a, status)
  <2>1. Leave(r, s) /\ Learn(r, "audit", outcome[r].before, s.row[a], 0, <<>>)
    BY <1>2, <1>5 DEF UpdateWrite
  <2>2. Written(db, r, "update", a, s, 0, <<>>)
    BY <1>3, <1>5 DEF Written, UpdateRefused
  <2>3. a \notin unused
    BY <1>1, <1>2, <1>5, UsedIds DEF UpdateRefused
  <2> HIDE DEF s
  <2> QED BY <1>1, <1>2, <1>3, <2>1, <2>2, <2>3, WriteStages
<1> QED BY <1>4, <1>5

LEMMA CreateWriteStages ==
  ASSUME AInv, IInv', Direct = {}, NEW r \in Requests, CreateWrite(r)
  PROVE  AInv'
<1> DEFINE a == input[r].asset
           row == [status |-> input[r].status, location |-> input[r].location]
           s == CreateAssetRow(db, a, row)
<1>1. /\ MayCall(r) /\ pc[r] = "start" /\ input[r].op = "create" /\ IInv /\ WellTyped
      /\ Creating(r)
  BY DEF CreateWrite, At, AInv, IInv, Creating
<1>2. View(r) = work /\ work = db /\ db.audit[a] = <<>>
  BY <1>1, Holder DEF Stage
<1>3. /\ a \in Assets /\ a \notin unused /\ ~Exists(db, a)
      /\ input[r].status \in Statuses /\ input[r].location \in Locations \cup {NoLocation}
  BY <1>1, InputShapes DEF CreateInputs, IInv, FreshIds, Absent
<1>4. CASE row.status = "deployed"
  BY <1>1, <1>4, RefuseStages DEF CreateWrite
<1>5. CASE row.status # "deployed"
  <2>1. Leave(r, s) /\ Learn(r, "audit", Gone, row, 0, <<>>)
    BY <1>2, <1>5 DEF CreateWrite
  <2>2. Written(db, r, "create", a, s, 0, <<>>)
    BY <1>2, <1>3, <1>5 DEF Written, FreeStatuses
  <2>3. Gone = db.row[a] /\ row = s.row[a]
    BY <1>1, <1>3 DEF Exists, CreateAssetRow, WellTyped, StoreState
  <2> HIDE DEF s, row
  <2> QED BY <1>1, <1>3, <2>1, <2>2, <2>3, WriteStages
<1> QED BY <1>4, <1>5

LEMMA DeleteWriteStages ==
  ASSUME AInv, IInv', Direct = {}, NEW r \in Requests, DeleteWrite(r)
  PROVE  AInv'
<1> DEFINE a == input[r].asset
           s == DeleteAssetRow(db, a)
<1>1. MayCall(r) /\ pc[r] = "start" /\ input[r].op = "delete" /\ IInv /\ WellTyped
  BY DEF DeleteWrite, At, AInv, IInv
<1>2. View(r) = work /\ work = db /\ a \in Assets /\ db \in StoreState
  BY <1>1, Holder, AskedAsset DEF Stage, WellTyped
<1>3. CASE ~Exists(db, a)
  BY <1>1, <1>2, <1>3, RefuseStages DEF DeleteWrite
<1>4. CASE Exists(db, a)
  <2>1. Leave(r, s) /\ Learn(r, "audit", db.row[a], Gone, 0, db.ledger[a])
    BY <1>2, <1>4 DEF DeleteWrite
  <2>2. Written(db, r, "delete", a, s, 0, db.ledger[a])
    BY <1>4 DEF Written
  <2>3. a \notin unused
    BY <1>1, <1>2, <1>4, UsedIds
  <2>4. Gone = s.row[a]
    BY <1>2 DEF DeleteAssetRow, StoreState
  <2> HIDE DEF s
  <2> QED BY <1>1, <1>2, <2>1, <2>2, <2>3, <2>4, WriteStages
<1> QED BY <1>3, <1>4

\* The audit record says of the operation what the operation did.
LEMMA RouteStages ==
  ASSUME AInv, IInv', Direct = {}, NEW r \in Requests, Route(r)
  PROVE  AInv'
<1> DEFINE a == input[r].asset
           op == input[r].op
           o == outcome[r]
           entry == [action |-> ActionOf(op), by |-> r, before |-> o.before,
                     after |-> o.after, event |-> o.event, ledger |-> o.ledger]
           t == AppendAudit(work, a, entry)
<1>1. /\ MayCall(r) /\ pc[r] = "audit" /\ IInv /\ WellTyped
      /\ op \in {"check_out", "check_in", "update", "create", "delete"}
  BY DEF Route, AuditCustody, AuditCreate, AuditUpdate, AuditDelete, At, AInv, IInv
<1>2. WriteAudit(r, ActionOf(op))
  BY DEF Route, AuditCustody, AuditCreate, AuditUpdate, AuditDelete, At, ActionOf
<1>3. /\ owner = r /\ View(r) = work /\ r \notin Direct /\ a \in Assets /\ a \notin unused
      /\ Written(db, r, op, a, work, o.event, o.ledger)
      /\ o.before = db.row[a] /\ o.after = work.row[a]
  BY <1>1, Holder, AskedAsset DEF Stage
<1>4. Leave(r, t) /\ Return(r, "commit")
  BY <1>2, <1>3 DEF WriteAudit
<1>5. db' = db /\ work' = t /\ owner' = owner
  BY <1>3, <1>4 DEF Leave
<1>6. pc'[r] = "commit" /\ unused' = unused /\ \A q \in Requests \ {r} : pc'[q] = pc[q]
  BY <1>1, <1>4, AfterReturn
<1>7. work \in StoreState /\ o.event \in Nat /\ o.ledger \in Seq(CustodyEvent)
  BY <1>1 DEF WellTyped, Outcome
<1>8. Recorded(r)'
  <2>1. work' = AppendAudit(work, a,
          [action |-> ActionOf(op), by |-> r, before |-> db.row[a], after |-> work.row[a],
           event |-> o.event, ledger |-> o.ledger])
    BY <1>3, <1>5
  <2> HIDE DEF t, entry, o, a, op
  <2> QED BY <1>1, <1>3, <1>5, <1>7, <2>1 DEF Recorded
<1>9. Stage(r)'
  BY <1>6, <1>8 DEF Stage, Creating
<1>10. \A b \in unused : work'.audit[b] = <<>>
  <2>1. \A b \in Assets \ {a} : t.audit[b] = work.audit[b]
    BY <1>7 DEF AppendAudit, StoreState
  <2> QED BY <1>1, <1>3, <1>5, <2>1 DEF AInv, WellTyped
<1> QED BY <1>3, <1>5, <1>6, <1>9, <1>10, StageStep

LEMMA UnitStages ==
  ASSUME AInv, IInv', Direct = {}, NEW r \in Requests, Unit(r)
  PROVE  AInv'
<1>1. WellTyped /\ r \notin Direct /\ owner = r
  BY DEF Unit, Commit, Rollback, Crash, AInv, IInv
<1>2. \/ Return(r, "ok") /\ owner' = Nobody /\ UNCHANGED work /\ db' = work
      \/ Return(r, "error") /\ owner' = Nobody /\ work' = db /\ UNCHANGED db
  BY <1>1 DEF Unit, Commit, Rollback, Crash, Discard
<1>3. /\ pc'[r] \notin Steps /\ unused' = unused
      /\ \A q \in Requests \ {r} : pc'[q] = pc[q]
  BY <1>1, <1>2, AfterReturn DEF Steps
<1>4. \A q \in Requests : pc'[q] \notin Steps
  BY <1>1, <1>3 DEF AInv
<1>5. \A q \in Requests : owner' # q
  BY <1>2, CustodyAssumption
<1>6. \A a \in unused' : db'.audit[a] = <<>> /\ work'.audit[a] = <<>>
  BY <1>2, <1>3 DEF AInv
<1> QED BY <1>4, <1>5, <1>6 DEF AInv

LEMMA InitStages == Init => AInv
<1> SUFFICES ASSUME Init PROVE AInv
  OBVIOUS
<1>1. \A a \in Assets : ~Exists(db, a) => db.audit[a] = <<>>
  BY DEF Init, InitialStores, Exists
<1>2. \A r \in Requests : pc[r] \notin Steps /\ owner # r
  BY CustodyAssumption DEF Init, Steps
<1>3. IInv
  BY InitSound
<1> QED BY <1>1, <1>2, <1>3 DEF AInv, Init

LEMMA StepStages == Direct = {} /\ AInv /\ [Next]_vars => AInv'
<1> SUFFICES ASSUME Direct = {}, AInv, [Next]_vars PROVE AInv'
  OBVIOUS
<1>1. IInv'
  BY StepSound DEF AInv
<1>2. ASSUME NEW r \in Requests, Arrive(r) PROVE AInv'
  BY <1>1, <1>2, ArriveStages
<1>3. ASSUME NEW r \in Requests, RejectInput(r) PROVE AInv'
  BY <1>1, <1>3, RefuseStages DEF RejectInput, At
<1>4. ASSUME NEW r \in Requests, CheckOutPrecheck(r) \/ CheckInPrecheck(r) \/ ReadBack(r)
      PROVE  AInv'
  BY <1>1, <1>4, RefuseStages, ProceedStages DEF CheckOutPrecheck, CheckInPrecheck, ReadBack, At
<1>5. ASSUME NEW r \in Requests, Service(r) PROVE AInv'
  BY <1>1, <1>4, <1>5, AppendStages, UpdatePrecheckStages, UpdateWriteStages,
     CreateWriteStages, DeleteWriteStages DEF Service
<1>6. ASSUME NEW r \in Requests, Route(r) PROVE AInv'
  BY <1>1, <1>6, RouteStages
<1>7. ASSUME NEW r \in Requests, Unit(r) PROVE AInv'
  BY <1>1, <1>7, UnitStages
<1>8. CASE UNCHANGED vars
  <2>1. UNCHANGED <<db, work, owner, pc, input, outcome, unused>>
    BY <1>8 DEF vars
  <2>2. ASSUME NEW r \in Requests, Recorded(r) PROVE Recorded(r)'
    BY <2>1, <2>2 DEF Recorded
  <2>3. ASSUME NEW r \in Requests, Stage(r) PROVE Stage(r)'
    BY <2>1, <2>2, <2>3 DEF Stage, Creating
  <2> QED BY <1>1, <2>1, <2>3 DEF AInv
<1> QED BY <1>2, <1>3, <1>5, <1>6, <1>7, <1>8 DEF Next, AllAnswered

-----------------------------------------------------------------------------
(* Refinement *)

\* The store calls mean the same in the abstract specification.
LEMMA SameHelpers ==
  /\ \A s, a : Atomic!Exists(s, a) = Exists(s, a)
  /\ \A ledger : Atomic!Held(ledger) = Held(ledger)
  /\ \A ledger : Atomic!NextSequence(ledger) = NextSequence(ledger)
  /\ Atomic!FreeStatuses = FreeStatuses
<1>1. \A s, a : Atomic!Exists(s, a) = Exists(s, a)
  BY DEF Atomic!Exists, Exists, Atomic!Gone, Gone
<1>2. \A ledger : Atomic!Held(ledger) = Held(ledger)
  BY DEF Atomic!Held, Held, Atomic!LastOf, LastOf
<1>3. \A ledger : Atomic!NextSequence(ledger) = NextSequence(ledger)
  BY DEF Atomic!NextSequence, NextSequence, Atomic!LastOf, LastOf
<1>4. Atomic!FreeStatuses = FreeStatuses
  BY DEF Atomic!FreeStatuses, FreeStatuses, Atomic!Statuses, Statuses
<1> QED BY <1>1, <1>2, <1>3, <1>4

LEMMA SameCalls ==
  ASSUME NEW s, NEW a, NEW type, NEW status, NEW location, NEW by, NEW row, NEW entry
  PROVE  /\ Atomic!AppendCustodyEvent(s, a, type, status, location, by)
              = AppendCustodyEvent(s, a, type, status, location, by)
         /\ Atomic!UpdateAssetRow(s, a, status, location) = UpdateAssetRow(s, a, status, location)
         /\ Atomic!CreateAssetRow(s, a, row) = CreateAssetRow(s, a, row)
         /\ Atomic!DeleteAssetRow(s, a) = DeleteAssetRow(s, a)
         /\ Atomic!AppendAudit(s, a, entry) = AppendAudit(s, a, entry)
<1>1. \A x, y, z : Atomic!Patched(x, y, z) = Patched(x, y, z)
  BY DEF Atomic!Patched, Patched
<1>2. Atomic!NewEvent(s, a, type, status, location, by) = NewEvent(s, a, type, status, location, by)
  BY <1>1, SameHelpers DEF Atomic!NewEvent, NewEvent
<1>3. Atomic!AppendCustodyEvent(s, a, type, status, location, by)
        = AppendCustodyEvent(s, a, type, status, location, by)
  BY <1>1, <1>2 DEF Atomic!AppendCustodyEvent, AppendCustodyEvent
<1>4. Atomic!UpdateAssetRow(s, a, status, location) = UpdateAssetRow(s, a, status, location)
  BY <1>1 DEF Atomic!UpdateAssetRow, UpdateAssetRow
<1>5. Atomic!CreateAssetRow(s, a, row) = CreateAssetRow(s, a, row)
  BY DEF Atomic!CreateAssetRow, CreateAssetRow
<1>6. Atomic!DeleteAssetRow(s, a) = DeleteAssetRow(s, a)
  BY DEF Atomic!DeleteAssetRow, DeleteAssetRow, Atomic!Gone, Gone
<1>7. Atomic!AppendAudit(s, a, entry) = AppendAudit(s, a, entry)
  BY DEF Atomic!AppendAudit, AppendAudit
<1> QED BY <1>3, <1>4, <1>5, <1>6, <1>7

LEMMA SameInit == Atomic!InitialStores = InitialStores
<1>1. Atomic!Row = Row /\ Atomic!Gone = Gone
  BY DEF Atomic!Row, Row, Atomic!Statuses, Statuses, Atomic!Gone, Gone
<1>2. \A row : Atomic!Created(row) = Created(row)
  BY <1>1 DEF Atomic!Created, Created
<1> QED BY <1>1, <1>2 DEF Atomic!InitialStores, InitialStores

AnswerMap == [r \in Requests |-> IF pc[r] \in {"ok", "error"} THEN pc[r] ELSE "none"]

\* Committing a recorded operation carries it out at once.
LEMMA CommitPerforms ==
  ASSUME AInv, NEW r \in Requests, Recorded(r), db' = work,
         AnswerMap' = [AnswerMap EXCEPT ![r] = "ok"]
  PROVE  Atomic!Perform(r)
<1> PICK a \in Assets, op \in {"check_out", "check_in", "update", "create", "delete"},
         s \in StoreState, event \in Nat, ledger \in Seq(CustodyEvent) :
      /\ Written(db, r, op, a, s, event, ledger)
      /\ work = AppendAudit(s, a,
           [action |-> ActionOf(op), by |-> r, before |-> db.row[a], after |-> s.row[a],
            event |-> event, ledger |-> ledger])
  BY DEF Recorded
<1>1. Atomic!Put(r, ActionOf(op), s, a, event, ledger)
  BY SameCalls DEF Atomic!Put, AnswerMap
<1>2. CASE op = "check_out"
  <2>1. PICK location \in Locations \cup {Keep} :
          /\ db.row[a].status = "in_stock" /\ ~Held(db.ledger[a])
          /\ event = NextSequence(db.ledger[a]) /\ ledger = <<>>
          /\ s = AppendCustodyEvent(db, a, "check_out", "deployed", location, r)
    BY <1>2 DEF Written
  <2>2. Atomic!CheckOut(r, a, location)
    BY <1>1, <1>2, <2>1, SameHelpers, SameCalls DEF Atomic!CheckOut, ActionOf
  <2> QED BY <2>2, SameHelpers DEF Atomic!Perform
<1>3. CASE op = "check_in"
  <2>1. PICK location \in Locations \cup {Keep} :
          /\ Exists(db, a) /\ Held(db.ledger[a])
          /\ event = NextSequence(db.ledger[a]) /\ ledger = <<>>
          /\ s = AppendCustodyEvent(db, a, "check_in", "in_stock", location, r)
    BY <1>3 DEF Written
  <2>2. Atomic!CheckIn(r, a, location)
    BY <1>1, <1>3, <2>1, SameHelpers, SameCalls DEF Atomic!CheckIn, ActionOf
  <2> QED BY <2>2, SameHelpers DEF Atomic!Perform
<1>4. CASE op = "update"
  <2>1. PICK status \in FreeStatuses \cup {Keep}, location \in Locations \cup {NoLocation, Keep} :
          /\ Exists(db, a) /\ event = 0 /\ ledger = <<>>
          /\ status # Keep => db.row[a].status # "deployed"
          /\ s = UpdateAssetRow(db, a, status, location)
    BY <1>4 DEF Written
  <2>2. Atomic!Update(r, a, status, location)
    BY <1>1, <1>4, <2>1, SameHelpers, SameCalls DEF Atomic!Update, ActionOf
  <2> QED BY <2>2, SameHelpers DEF Atomic!Perform
<1>5. CASE op = "create"
  <2>1. PICK status \in FreeStatuses, location \in Locations \cup {NoLocation} :
          /\ ~Exists(db, a) /\ db.audit[a] = <<>> /\ event = 0 /\ ledger = <<>>
          /\ s = CreateAssetRow(db, a, [status |-> status, location |-> location])
    BY <1>5 DEF Written
  <2>2. Atomic!Create(r, a, [status |-> status, location |-> location])
    BY <1>1, <1>5, <2>1, SameHelpers, SameCalls DEF Atomic!Create, ActionOf
  <2> QED BY <2>2, SameHelpers DEF Atomic!Perform
<1>6. CASE op = "delete"
  <2>1. Exists(db, a) /\ event = 0 /\ ledger = db.ledger[a] /\ s = DeleteAssetRow(db, a)
    BY <1>6 DEF Written
  <2>2. Atomic!DeleteAssetRow(db, a) = s
    BY <2>1, SameCalls
  <2>3. ActionOf(op) = "asset.delete" /\ Atomic!Exists(db, a)
    BY <1>6, <2>1, SameHelpers DEF ActionOf
  <2>4. Atomic!Put(r, "asset.delete", Atomic!DeleteAssetRow(db, a), a, 0, db.ledger[a])
    BY <1>1, <2>1, <2>2, <2>3 DEF Atomic!Put
  <2>5. Atomic!Delete(r, a)
    BY <2>3, <2>4 DEF Atomic!Delete
  <2> QED BY <2>5 DEF Atomic!Perform
<1> QED BY <1>2, <1>3, <1>4, <1>5, <1>6

\* A step that leaves the database and the answers alone.
LEMMA UnansweredStep ==
  ASSUME AInv, NEW r \in Requests, pc[r] \notin {"ok", "error"},
         pc'[r] \notin {"ok", "error"}, \A q \in Requests \ {r} : pc'[q] = pc[q]
  PROVE  UNCHANGED AnswerMap
  BY DEF AnswerMap

LEMMA StepAnswersNobody ==
  ASSUME AInv, NEW r \in Requests, RejectInput(r) \/ Service(r) \/ Route(r)
  PROVE  pc'[r] \notin {"ok", "error"}
<1>1. \E step \in Steps : Goto(r, step)
  <2>1. CASE RejectInput(r) \/ Route(r)
    BY <2>1 DEF RejectInput, Route, AuditCustody, AuditCreate, AuditUpdate, AuditDelete,
       WriteAudit, Refuse, Return, Steps
  <2>2. CASE CheckOutPrecheck(r) \/ CheckInPrecheck(r) \/ ReadBack(r) \/ UpdatePrecheck(r)
    BY <2>2 DEF CheckOutPrecheck, CheckInPrecheck, ReadBack, UpdatePrecheck,
       Refuse, Return, Proceed, Learn, Steps
  <2>3. CASE CheckOutAppend(r) \/ CheckInAppend(r)
    BY <2>3 DEF CheckOutAppend, CheckInAppend, AppendStep, Refuse, Return, Learn, Steps
  <2>4. CASE UpdateWrite(r) \/ CreateWrite(r) \/ DeleteWrite(r)
    BY <2>4 DEF UpdateWrite, CreateWrite, DeleteWrite, Refuse, Return, Learn, Steps
  <2> QED BY <2>1, <2>2, <2>3, <2>4 DEF Service
<1> QED BY <1>1 DEF Goto, Steps, AInv, IInv, WellTyped

LEMMA RequestIsStutter ==
  ASSUME AInv, Direct = {}, NEW r \in Requests, RejectInput(r) \/ Service(r) \/ Route(r)
  PROVE  UNCHANGED <<db, AnswerMap>>
<1>1. /\ IInv /\ MayCall(r) /\ WritesProperly(r)
      /\ \A q \in Requests \ {r} : pc'[q] = pc[q]
  BY RequestWritesProperly, PastTheWrite DEF AInv
<1>2. db' = db
  BY <1>1, Holder DEF WritesProperly, NoWrite, Leave
<1>3. pc[r] \notin {"ok", "error"}
  BY DEF RejectInput, Service, Route, CheckOutPrecheck, CheckOutAppend, CheckInPrecheck,
     CheckInAppend, ReadBack, UpdatePrecheck, UpdateWrite, CreateWrite, DeleteWrite,
     AuditCustody, AuditCreate, AuditUpdate, AuditDelete, At
<1>4. pc'[r] \notin {"ok", "error"}
  BY <1>1, StepAnswersNobody
<1> QED BY <1>1, <1>2, <1>3, <1>4, UnansweredStep

LEMMA StepIsAtomicStep ==
  Direct = {} /\ AInv /\ [Next]_vars => [Atomic!Next]_<<db, AnswerMap>>
<1> SUFFICES ASSUME Direct = {}, AInv, Next \/ UNCHANGED vars
             PROVE  Atomic!Next \/ UNCHANGED <<db, AnswerMap>>
  OBVIOUS
<1>1. ASSUME NEW r \in Requests, Arrive(r) PROVE UNCHANGED <<db, AnswerMap>>
  <2>1. pc[r] = "idle" /\ pc' = [pc EXCEPT ![r] = "start"] /\ db' = db
    BY <1>1 DEF Arrive, Goto
  <2>2. pc'[r] = "start" /\ \A q \in Requests \ {r} : pc'[q] = pc[q]
    BY <2>1 DEF AInv, IInv, WellTyped
  <2> QED BY <2>1, <2>2, UnansweredStep
<1>2. ASSUME NEW r \in Requests, Unit(r) PROVE Atomic!Next
  <2>1. WellTyped /\ r \notin Direct /\ owner = r /\ pc[r] \in Steps
    BY <1>2 DEF Unit, Commit, Rollback, Crash, AInv, IInv, Steps
  <2>2. \/ Return(r, "ok") /\ pc[r] = "commit" /\ db' = work
        \/ Return(r, "error") /\ db' = db
    BY <1>2, <2>1 DEF Unit, Commit, Rollback, Crash, Discard
  <2>3. AnswerMap[r] = "none"
    BY <2>1 DEF AnswerMap, Steps
  <2>4. CASE Return(r, "ok") /\ pc[r] = "commit" /\ db' = work
    <3>1. pc' = [pc EXCEPT ![r] = "ok"]
      BY <2>4 DEF Return, Goto
    <3>2. AnswerMap' = [AnswerMap EXCEPT ![r] = "ok"]
      BY <2>1, <3>1 DEF AnswerMap, WellTyped
    <3>3. Recorded(r)
      BY <2>1, <2>4 DEF AInv, Stage
    <3>4. Atomic!Perform(r)
      BY <2>4, <3>2, <3>3, CommitPerforms
    <3> QED BY <2>3, <3>4 DEF Atomic!Next, AnswerMap
  <2>5. CASE Return(r, "error") /\ db' = db
    <3>1. pc' = [pc EXCEPT ![r] = "error"]
      BY <2>5 DEF Return, Goto
    <3>2. AnswerMap' = [AnswerMap EXCEPT ![r] = "error"]
      BY <2>1, <3>1 DEF AnswerMap, WellTyped
    <3> QED BY <2>3, <2>5, <3>2 DEF Atomic!Next, Atomic!Fail, AnswerMap
  <2> QED BY <2>2, <2>4, <2>5
<1>3. CASE UNCHANGED vars
  BY <1>3 DEF vars, AnswerMap
<1> QED BY <1>1, <1>2, <1>3, RequestIsStutter DEF Next, AllAnswered

\* When every mutation runs behind atomicMutation, each is carried out at once
\* at its commit, with its one truthful audit record, or not at all: for any
\* number of requests, assets and locations.
THEOREM RequestsAreAtomic ==
  ASSUME Direct = {}
  PROVE  Spec => ImplementsAtomicCustody
<1>1. Init => Atomic!Init
  BY SameInit DEF Init, Atomic!Init
<1>2. AInv /\ [Next]_vars => AInv'
  BY StepStages
<1>3. AInv /\ [Next]_vars => [Atomic!Next]_<<db, AnswerMap>>
  BY StepIsAtomicStep
<1> QED BY <1>1, <1>2, <1>3, InitStages, PTL
        DEF Spec, ImplementsAtomicCustody, Atomic!Spec, Atomic!avars, AnswerMap

-----------------------------------------------------------------------------
(* What a commit leaves behind *)

LEMMA Extended ==
  ASSUME NEW S, NEW seq \in Seq(S), NEW e
  PROVE  IsExtension(Append(seq, e), seq) /\ IsExtension(seq, seq) /\ Append(seq, e) # seq
<1>1. seq \in Seq(S \cup {e}) /\ e \in S \cup {e}
  OBVIOUS
<1>2. Len(Append(seq, e)) = Len(seq) + 1 /\ Len(seq) \in Nat
  BY <1>1
<1>3. \A i \in 1..Len(seq) : Append(seq, e)[i] = seq[i]
  BY <1>1
<1> QED BY <1>2, <1>3 DEF IsExtension

\* An operation touches one asset: it adds an event, writes the row, or
\* deletes row and ledger and says what the ledger was.
Touches(s, a, event, ledger) ==
  /\ \A b \in Assets \ {a} : s.row[b] = db.row[b] /\ s.ledger[b] = db.ledger[b]
  /\ \/ Exists(s, a) /\ s.ledger[a] = db.ledger[a] /\ event = 0
     \/ /\ Exists(s, a)
        /\ \E e : s.ledger[a] = Append(db.ledger[a], e) /\ e.sequence = event
     \/ ~Exists(s, a) /\ ledger = db.ledger[a]

LEMMA WrittenTells ==
  ASSUME db \in StoreState, NEW r, NEW op, NEW a \in Assets, NEW s, NEW event, NEW ledger,
         Written(db, r, op, a, s, event, ledger)
  PROVE  Touches(s, a, event, ledger)
<1> USE DEF Touches
<1>1. ASSUME NEW type, NEW status \in {"deployed", "in_stock"},
             NEW location \in Locations \cup {Keep}, Exists(db, a),
             event = NextSequence(db.ledger[a]),
             s = AppendCustodyEvent(db, a, type, status, location, r)
      PROVE  /\ \A b \in Assets \ {a} : s.row[b] = db.row[b] /\ s.ledger[b] = db.ledger[b]
             /\ Exists(s, a)
             /\ \E e : s.ledger[a] = Append(db.ledger[a], e) /\ e.sequence = event
  <2>1. Patched(db.row[a], status, location) # Gone
    BY <1>1, RowTypes, PatchedType DEF Statuses
  <2>2. /\ s.row = [db.row EXCEPT ![a] = Patched(db.row[a], status, location)]
        /\ s.ledger = [db.ledger EXCEPT ![a] =
                         Append(db.ledger[a], NewEvent(db, a, type, status, location, r))]
    BY <1>1 DEF AppendCustodyEvent, StoreState
  <2>3. NewEvent(db, a, type, status, location, r).sequence = event
    BY <1>1 DEF NewEvent
  <2> QED BY <2>1, <2>2, <2>3 DEF StoreState, Exists
<1>2. CASE op = "check_out"
  <2>1. PICK location \in Locations \cup {Keep} :
          /\ db.row[a].status = "in_stock" /\ event = NextSequence(db.ledger[a])
          /\ s = AppendCustodyEvent(db, a, "check_out", "deployed", location, r)
    BY <1>2 DEF Written
  <2>2. Exists(db, a)
    BY <2>1 DEF Exists, Gone
  <2> QED BY <1>1, <2>1, <2>2
<1>3. CASE op = "check_in"
  <2>1. PICK location \in Locations \cup {Keep} :
          /\ Exists(db, a) /\ event = NextSequence(db.ledger[a])
          /\ s = AppendCustodyEvent(db, a, "check_in", "in_stock", location, r)
    BY <1>3 DEF Written
  <2> QED BY <1>1, <2>1
<1>4. CASE op = "update"
  <2>1. PICK status \in FreeStatuses \cup {Keep}, location \in Locations \cup {NoLocation, Keep} :
          Exists(db, a) /\ event = 0 /\ s = UpdateAssetRow(db, a, status, location)
    BY <1>4 DEF Written
  <2>2. Patched(db.row[a], status, location) # Gone
    BY <2>1, RowTypes, PatchedType DEF FreeStatuses
  <2>3. s.row = [db.row EXCEPT ![a] = Patched(db.row[a], status, location)] /\ s.ledger = db.ledger
    BY <2>1 DEF UpdateAssetRow, StoreState
  <2> QED BY <2>1, <2>2, <2>3 DEF StoreState, Exists
<1>5. CASE op = "create"
  <2>1. PICK status \in FreeStatuses, location \in Locations \cup {NoLocation} :
          event = 0 /\ s = CreateAssetRow(db, a, [status |-> status, location |-> location])
    BY <1>5 DEF Written
  <2>2. [status |-> status, location |-> location] # Gone
    BY RowIsNotGone DEF Row, FreeStatuses
  <2>3. /\ s.row = [db.row EXCEPT ![a] = [status |-> status, location |-> location]]
        /\ s.ledger = db.ledger
    BY <2>1 DEF CreateAssetRow, StoreState
  <2> QED BY <2>1, <2>2, <2>3 DEF StoreState, Exists
<1>6. CASE op = "delete"
  <2>1. ledger = db.ledger[a] /\ s = DeleteAssetRow(db, a)
    BY <1>6 DEF Written
  <2>2. s.row = [db.row EXCEPT ![a] = Gone] /\ s.ledger = [db.ledger EXCEPT ![a] = <<>>]
    BY <2>1 DEF DeleteAssetRow, StoreState
  <2> QED BY <2>1, <2>2 DEF StoreState, Exists
<1> QED BY <1>2, <1>3, <1>4, <1>5, <1>6 DEF Written

\* From one committed state to the next: history grows, and the audit record
\* tells what has changed.
Grows(new) ==
  \A a \in Assets :
    /\ IsExtension(new.ledger[a], db.ledger[a]) \/ ~Exists(new, a)
    /\ IsExtension(new.audit[a], db.audit[a])

Tells(new, a, entry) ==
  /\ entry.before = db.row[a] /\ entry.after = new.row[a]
  /\ IF Exists(new, a)
       THEN entry.event = IF new.ledger[a] = db.ledger[a]
                            THEN 0 ELSE LastOf(new.ledger[a]).sequence
       ELSE entry.ledger = db.ledger[a]

Audited(new) ==
  \A a \in Assets : new.row[a] # db.row[a] \/ new.ledger[a] # db.ledger[a] =>
    /\ Len(new.audit[a]) = Len(db.audit[a]) + 1
    /\ Tells(new, a, LastOf(new.audit[a]))

LEMMA RecordedTells ==
  ASSUME AInv, NEW r \in Requests, Recorded(r)
  PROVE  Grows(work) /\ Audited(work)
<1>1. PICK a \in Assets, op \in {"check_out", "check_in", "update", "create", "delete"},
         s \in StoreState, event \in Nat, ledger \in Seq(CustodyEvent) :
      /\ Written(db, r, op, a, s, event, ledger)
      /\ work = AppendAudit(s, a,
           [action |-> ActionOf(op), by |-> r, before |-> db.row[a], after |-> s.row[a],
            event |-> event, ledger |-> ledger])
  BY DEF Recorded
<1> DEFINE entry == [action |-> ActionOf(op), by |-> r, before |-> db.row[a],
                     after |-> s.row[a], event |-> event, ledger |-> ledger]
<1>2. db \in StoreState
  BY DEF AInv, IInv, Sound
<1>3. s.audit = db.audit
  BY <1>1, <1>2, WrittenKeepsAudit
<1>4. /\ work.row = s.row /\ work.ledger = s.ledger
      /\ work.audit = [db.audit EXCEPT ![a] = Append(db.audit[a], entry)]
  BY <1>1, <1>2, <1>3 DEF AppendAudit, StoreState
<1>5. /\ entry.before = db.row[a] /\ entry.after = s.row[a]
      /\ entry.event = event /\ entry.ledger = ledger
  OBVIOUS
<1> HIDE DEF entry
<1>6. /\ \A b \in Assets \ {a} : s.row[b] = db.row[b] /\ s.ledger[b] = db.ledger[b]
      /\ \/ Exists(s, a) /\ s.ledger[a] = db.ledger[a] /\ event = 0
         \/ /\ Exists(s, a)
            /\ \E e : s.ledger[a] = Append(db.ledger[a], e) /\ e.sequence = event
         \/ ~Exists(s, a) /\ ledger = db.ledger[a]
  <2>1. Touches(s, a, event, ledger)
    BY <1>1, <1>2, WrittenTells
  <2> QED BY <2>1 DEF Touches
<1>7. \A b \in Assets : /\ db.ledger[b] \in Seq(CustodyEvent) /\ db.audit[b] \in Seq(AuditEntry)
                        /\ IsExtension(db.ledger[b], db.ledger[b])
                        /\ IsExtension(db.audit[b], db.audit[b])
  BY <1>2, RowTypes, Extended
<1>8. /\ work.audit[a] = Append(db.audit[a], entry)
      /\ \A b \in Assets \ {a} : work.audit[b] = db.audit[b]
  BY <1>2, <1>4 DEF StoreState
<1>9. /\ IsExtension(work.audit[a], db.audit[a])
      /\ Len(work.audit[a]) = Len(db.audit[a]) + 1 /\ LastOf(work.audit[a]) = entry
  BY <1>7, <1>8, Extended, LastAppended
<1>10. \A b \in Assets \ {a} : work.row[b] = db.row[b] /\ work.ledger[b] = db.ledger[b]
  BY <1>4, <1>6
<1>11. \/ ~Exists(work, a)
       \/ IsExtension(work.ledger[a], db.ledger[a])
  <2>1. CASE ~Exists(s, a)
    BY <1>4, <2>1 DEF Exists
  <2>2. CASE s.ledger[a] = db.ledger[a]
    BY <1>4, <1>7, <2>2
  <2>3. ASSUME NEW e, s.ledger[a] = Append(db.ledger[a], e)
        PROVE  IsExtension(work.ledger[a], db.ledger[a])
    BY <1>4, <1>7, <2>3, Extended
  <2> QED BY <1>6, <2>1, <2>2, <2>3, <1>4, <1>7
<1>12. Tells(work, a, entry)
  <2>1. CASE Exists(s, a) /\ s.ledger[a] = db.ledger[a] /\ event = 0
    BY <1>4, <1>5, <2>1 DEF Tells, Exists
  <2>2. CASE /\ Exists(s, a)
             /\ \E e : s.ledger[a] = Append(db.ledger[a], e) /\ e.sequence = event
    <3>1. PICK e : s.ledger[a] = Append(db.ledger[a], e) /\ e.sequence = event
      BY <2>2
    <3>2. s.ledger[a] # db.ledger[a] /\ LastOf(s.ledger[a]) = e
      BY <1>7, <3>1, Extended, LastAppended
    <3> QED BY <1>4, <1>5, <2>2, <3>1, <3>2 DEF Tells, Exists
  <2>3. CASE ~Exists(s, a) /\ ledger = db.ledger[a]
    BY <1>4, <1>5, <2>3 DEF Tells, Exists
  <2> QED BY <1>6, <2>1, <2>2, <2>3
<1>13. Grows(work)
  BY <1>7, <1>8, <1>9, <1>10, <1>11 DEF Grows
<1>14. Audited(work)
  BY <1>9, <1>10, <1>12 DEF Audited
<1> QED BY <1>13, <1>14

\* Only the commit of a recorded operation changes what is committed.
LEMMA CommittedChanges ==
  Direct = {} /\ AInv /\ [Next]_vars =>
    db' = db \/ \E r \in Requests : Recorded(r) /\ db' = work
<1> SUFFICES ASSUME Direct = {}, AInv, Next \/ UNCHANGED vars
             PROVE  db' = db \/ \E r \in Requests : Recorded(r) /\ db' = work
  OBVIOUS
<1>1. ASSUME NEW r \in Requests, Arrive(r) PROVE db' = db
  BY <1>1 DEF Arrive
<1>2. ASSUME NEW r \in Requests, RejectInput(r) \/ Service(r) \/ Route(r) PROVE db' = db
  BY <1>2, RequestIsStutter
<1>3. ASSUME NEW r \in Requests, Unit(r)
      PROVE  db' = db \/ (Recorded(r) /\ db' = work)
  BY <1>3 DEF Unit, Commit, Rollback, Crash, Discard, NoWrite, AInv, Stage
<1>4. CASE UNCHANGED vars
  BY <1>4 DEF vars
<1> QED BY <1>1, <1>2, <1>3, <1>4 DEF Next, AllAnswered

LEMMA NothingToTell == AInv /\ db' = db => Grows(db') /\ Audited(db')
<1> SUFFICES ASSUME AInv, db' = db PROVE Grows(db') /\ Audited(db')
  OBVIOUS
<1>1. db \in StoreState
  BY DEF AInv, IInv, Sound
<1>2. \A a \in Assets : /\ IsExtension(db.ledger[a], db.ledger[a])
                        /\ IsExtension(db.audit[a], db.audit[a])
  BY <1>1, RowTypes, Extended
<1> QED BY <1>2 DEF Grows, Audited

LEMMA CommittedTells == Direct = {} /\ AInv /\ [Next]_vars => Grows(db') /\ Audited(db')
<1> SUFFICES ASSUME Direct = {}, AInv, [Next]_vars PROVE Grows(db') /\ Audited(db')
  OBVIOUS
<1>1. CASE db' = db
  BY <1>1, NothingToTell
<1>2. ASSUME NEW r \in Requests, Recorded(r), db' = work PROVE Grows(db') /\ Audited(db')
  BY <1>2, RecordedTells
<1> QED BY <1>1, <1>2, CommittedChanges

\* Committed events and audit records are never changed, reordered or lost,
\* but for the ledger of an asset that is deleted.
THEOREM HistoryIsKept ==
  ASSUME Direct = {}
  PROVE  Spec => HistoryKept
<1>1. AInv /\ [Next]_vars => AInv'
  BY StepStages
<1>2. AInv /\ [Next]_vars =>
        [\A a \in Assets :
           /\ IsExtension(db'.ledger[a], db.ledger[a]) \/ ~Exists(db', a)
           /\ IsExtension(db'.audit[a], db.audit[a])]_vars
  BY CommittedTells DEF Grows
<1> QED BY <1>1, <1>2, InitStages, PTL DEF Spec, HistoryKept

\* Every committed change has exactly one audit record in the same commit,
\* which states the row before and after it and the event or ledger it is
\* about.
THEOREM ChangesAreAudited ==
  ASSUME Direct = {}
  PROVE  Spec => EveryChangeAudited
<1>1. AInv /\ [Next]_vars => AInv'
  BY StepStages
<1>2. AInv /\ [Next]_vars =>
        [\A a \in Assets : ChangedAsset(a) =>
           /\ Len(db'.audit[a]) = Len(db.audit[a]) + 1
           /\ AuditTells(a, LastOf(db'.audit[a]))]_vars
  BY CommittedTells DEF Audited, Tells, ChangedAsset, AuditTells
<1> QED BY <1>1, <1>2, InitStages, PTL DEF Spec, EveryChangeAudited
-----------------------------------------------------------------------------
(* Part 4.  Reports.  While a reader has the unit no request writes, so    *)
(* what its calls return is all of one state of the store.                 *)

\* What a reader does to the variables of Custody
LEMMA ReadsWriteNothing ==
  ReadNext =>
    /\ UNCHANGED <<db, work, pc, input, outcome, unused>>
    /\ \/ owner' = owner
       \/ owner = Nobody /\ owner' = Reader
       \/ owner = Reader /\ owner' = Nobody
  BY DEF ReadNext, ListPage, ListTotal, ListHolders, ExportTotal, ExportPage, ExportHolders,
     DashboardOpen, DashboardCount, EndReport, OpenReportUnit, vars

LEMMA ReadsKeep == ReadNext => (IInv => IInv') /\ (AInv => AInv')
<1> SUFFICES ASSUME ReadNext, IInv PROVE IInv' /\ (AInv => AInv')
  BY DEF AInv
<1>1. /\ UNCHANGED <<db, work, pc, input, outcome, unused>>
      /\ \/ owner' = owner
         \/ owner = Nobody /\ owner' = Reader
         \/ owner = Reader /\ owner' = Nobody
  BY ReadsWriteNothing
<1>2. IInv'
  <2>1. WellTyped'
    BY <1>1 DEF IInv, WellTyped
  <2>2. FreshIds' /\ UpdatesChecked'
    BY <1>1 DEF IInv, FreshIds, UpdatesChecked, Absent, Creating
  <2> QED BY <1>1, <2>1, <2>2 DEF IInv
<1>3. ASSUME AInv PROVE AInv'
  <2>1. \A r \in Requests : r # Nobody /\ r # Reader
    BY CustodyAssumption, ReaderAssumption
  <2>2. \A r \in Requests : pc'[r] \in Steps => owner' = r
    BY <1>1, <1>3, <2>1 DEF AInv
  <2>3. ASSUME NEW r \in Requests, owner' = r PROVE Stage(r)'
    <3>1. Stage(r)
      BY <1>1, <1>3, <2>1, <2>3 DEF AInv
    <3>2. Recorded(r) => Recorded(r)'
      BY <1>1 DEF Recorded
    <3> QED BY <1>1, <3>1, <3>2 DEF Stage, Creating
  <2> QED BY <1>1, <1>2, <1>3, <2>2, <2>3 DEF AInv
<1> QED BY <1>2, <1>3

\* The calls that a report has made so far agree with the database.
ReportInv ==
  /\ report \in [kind : {"none", "list", "export", "dashboard"},
                 step : {"none", "total", "page", "holders", "counting", "done"},
                 filter : Filters]
  /\ report.kind \in {"export", "dashboard"} => owner = Reader
  /\ report.kind = "export" =>
       /\ total = Count(db, report.filter)
       /\ report.step # "page" => page = Page(db, report.filter)
       /\ report.step = "done" => holders = HeldAmong(db, DOMAIN page)
  /\ report = NoReport => counts = [f \in {} |-> 0]
  /\ report.kind = "dashboard" =>
       /\ \A f \in DOMAIN counts : counts[f] = Count(db, f)
       /\ report.step = "done" => DOMAIN counts = Filters

LEMMA ReportsStart == ReportsInit => ReportInv
  BY DEF ReportsInit, ReportInv, NoReport, Filters

LEMMA RequestsKeepReports ==
  ASSUME IInv, ReportInv, [Next]_vars, UNCHANGED reportVars
  PROVE  ReportInv'
<1>1. UNCHANGED <<report, page, total, holders, counts>>
  BY DEF reportVars
<1>2. owner = Reader => UNCHANGED <<db, owner>>
  BY ReaderIsLeftAlone DEF IInv
<1>3. CASE report.kind \in {"export", "dashboard"}
  <2>1. UNCHANGED <<db, owner>>
    BY <1>2, <1>3 DEF ReportInv
  <2> QED BY <1>1, <2>1 DEF ReportInv
<1>4. CASE report.kind \notin {"export", "dashboard"}
  BY <1>1, <1>4 DEF ReportInv
<1> QED BY <1>3, <1>4

LEMMA ReadsKeepReports == ReportInv /\ ReadNext => ReportInv'
<1> SUFFICES ASSUME ReportInv, ReadNext PROVE ReportInv'
  OBVIOUS
<1>1. db' = db
  BY ReadsWriteNothing
<1>2. Keep \in Filters
  BY DEF Filters
<1>3. ASSUME NEW step \in {"none", "total", "page", "holders", "counting", "done"}, GoOn(step)
      PROVE  /\ report'.kind = report.kind /\ report'.filter = report.filter
             /\ report'.step = step
             /\ report' \in [kind : {"none", "list", "export", "dashboard"},
                             step : {"none", "total", "page", "holders", "counting", "done"},
                             filter : Filters]
  BY <1>3 DEF GoOn, ReportInv
<1>4. ASSUME NEW f \in Filters, ListPage(f) PROVE ReportInv'
  BY <1>4 DEF ListPage, ReportInv, NoReport
<1>5. CASE ListTotal \/ ListHolders
  BY <1>3, <1>5 DEF ListTotal, ListHolders, Step, ReportInv, NoReport
<1>6. ASSUME NEW f \in Filters, ExportTotal(f) PROVE ReportInv'
  BY <1>1, <1>6 DEF ExportTotal, OpenReportUnit, ReportInv, NoReport
<1>7. CASE ExportPage
  BY <1>1, <1>3, <1>7 DEF ExportPage, Step, ReportInv, NoReport, vars
<1>8. CASE ExportHolders
  BY <1>1, <1>3, <1>8 DEF ExportHolders, Step, ReportInv, NoReport, vars
<1>9. CASE DashboardOpen
  BY <1>1, <1>2, <1>9 DEF DashboardOpen, OpenReportUnit, ReportInv, NoReport
<1>10. ASSUME NEW f \in Filters, DashboardCount(f) PROVE ReportInv'
  <2>1. /\ report.kind = "dashboard" /\ owner' = Reader
        /\ counts' = [g \in DOMAIN counts \cup {f} |-> IF g = f THEN Count(db, f) ELSE counts[g]]
    BY <1>10 DEF DashboardCount, Step, ReportInv, vars
  <2>2. \A g \in DOMAIN counts' : counts'[g] = Count(db, g)
    BY <2>1 DEF ReportInv
  <2>3. PICK step \in {"counting", "done"} :
          GoOn(step) /\ (step = "done" => DOMAIN counts' = Filters)
    BY <1>10 DEF DashboardCount
  <2> QED BY <1>1, <1>3, <2>1, <2>2, <2>3 DEF ReportInv, NoReport
<1>11. CASE EndReport
  BY <1>2, <1>11 DEF EndReport, ReportInv, NoReport
<1> QED BY <1>4, <1>5, <1>6, <1>7, <1>8, <1>9, <1>10, <1>11 DEF ReadNext

\* Of finitely many assets, each that exists has one status.
LEMMA StatusesAddUp ==
  ASSUME IsFiniteSet(Assets), NEW s \in StoreState
  PROVE  Count(s, Keep) = Count(s, "in_stock") + Count(s, "deployed") +
                          Count(s, "in_repair") + Count(s, "retired")
<1> DEFINE M(f) == Matches(s, f)
<1>1. \A f : IsFiniteSet(M(f)) /\ Cardinality(M(f)) \in Nat
  <2>1. \A f : M(f) \subseteq Assets
    BY DEF Matches
  <2> QED BY <2>1, FS_Subset, FS_CardinalityType
<1>2. \A a \in Assets : Exists(s, a) <=> s.row[a].status \in Statuses
  BY RowTypes
<1>3. M(Keep) = (M("in_stock") \cup M("deployed")) \cup (M("in_repair") \cup M("retired"))
  BY <1>2, ConstantsAssumption DEF Matches, Statuses
<1>4. /\ M("in_stock") \cap M("deployed") = {} /\ M("in_repair") \cap M("retired") = {}
      /\ (M("in_stock") \cup M("deployed")) \cap (M("in_repair") \cup M("retired")) = {}
  BY ConstantsAssumption DEF Matches
<1> HIDE DEF M
<1>5. ASSUME NEW S, NEW T, IsFiniteSet(S), IsFiniteSet(T), S \cap T = {}
      PROVE  /\ IsFiniteSet(S \cup T)
             /\ Cardinality(S \cup T) = Cardinality(S) + Cardinality(T)
  <2>1. /\ IsFiniteSet(S \cup T)
        /\ Cardinality(S \cup T) = Cardinality(S) + Cardinality(T) - Cardinality(S \cap T)
    BY <1>5, FS_Union
  <2>2. Cardinality(S \cap T) = 0 /\ Cardinality(S) \in Nat /\ Cardinality(T) \in Nat
    BY <1>5, FS_EmptySet, FS_CardinalityType
  <2> QED BY <2>1, <2>2
<1>6. /\ IsFiniteSet(M("in_stock") \cup M("deployed"))
      /\ Cardinality(M("in_stock") \cup M("deployed"))
           = Cardinality(M("in_stock")) + Cardinality(M("deployed"))
  BY <1>1, <1>4, <1>5
<1>7. /\ IsFiniteSet(M("in_repair") \cup M("retired"))
      /\ Cardinality(M("in_repair") \cup M("retired"))
           = Cardinality(M("in_repair")) + Cardinality(M("retired"))
  BY <1>1, <1>4, <1>5
<1>8. Cardinality(M(Keep)) = Cardinality(M("in_stock") \cup M("deployed"))
                               + Cardinality(M("in_repair") \cup M("retired"))
  BY <1>3, <1>4, <1>5, <1>6, <1>7
<1> QED BY <1>1, <1>6, <1>7, <1>8 DEF Count, M

LEMMA ReportInvIsConsistent ==
  ASSUME IsFiniteSet(Assets)
  PROVE  IInv /\ ReportInv => ReportsConsistent
<1> SUFFICES ASSUME IInv, ReportInv PROVE ReportsConsistent
  OBVIOUS
<1>1. db \in StoreState /\ Coupled(db)
  BY DEF IInv, Sound
<1>2. ExportConsistent
  <2> SUFFICES ASSUME Finished("export")
               PROVE  /\ total = Cardinality(DOMAIN page)
                      /\ \A a \in DOMAIN page : page[a].status = "deployed" <=> a \in holders
    BY DEF ExportConsistent
  <2>1. /\ total = Count(db, report.filter) /\ page = Page(db, report.filter)
        /\ holders = HeldAmong(db, DOMAIN page)
    BY DEF Finished, ReportInv
  <2>2. /\ DOMAIN page = Matches(db, report.filter) /\ DOMAIN page \subseteq Assets
        /\ \A a \in DOMAIN page : page[a] = db.row[a]
    BY <2>1 DEF Page, Matches
  <2>3. \A a \in DOMAIN page : page[a].status = "deployed" <=> a \in holders
    BY <1>1, <2>1, <2>2 DEF Coupled, HeldAmong
  <2> QED BY <2>1, <2>2, <2>3 DEF Count
<1>3. DashboardAddsUp
  <2> SUFFICES ASSUME Finished("dashboard")
               PROVE  counts[Keep] = counts["in_stock"] + counts["deployed"] +
                                     counts["in_repair"] + counts["retired"]
    BY DEF DashboardAddsUp
  <2>1. \A f \in Statuses \cup {Keep} : counts[f] = Count(db, f)
    BY DEF Finished, ReportInv, Filters
  <2> QED BY <1>1, <2>1, StatusesAddUp DEF Statuses
<1> QED BY <1>2, <1>3 DEF ReportsConsistent

LEMMA ReportsSound == ReportsSpec => [](IInv /\ ReportInv)
<1>1. ReportsInit => IInv /\ ReportInv
  BY InitSound, ReportsStart DEF ReportsInit
<1>2. IInv /\ ReportInv /\ [ReportsNext]_allVars => IInv' /\ ReportInv'
  <2> SUFFICES ASSUME IInv, ReportInv, [ReportsNext]_allVars PROVE IInv' /\ ReportInv'
    OBVIOUS
  <2>1. CASE ReadNext
    BY <2>1, ReadsKeep, ReadsKeepReports
  <2>2. CASE [Next]_vars /\ UNCHANGED reportVars
    BY <2>2, StepSound, RequestsKeepReports
  <2> QED BY <2>1, <2>2 DEF ReportsNext, allVars
<1> QED BY <1>1, <1>2, PTL DEF ReportsSpec

\* A report made of several calls in one unit agrees with itself, whatever
\* requests run meanwhile, inside the application unit or outside: the total
\* is the number of rows, a row has a holder exactly when it is deployed, the
\* dashboard's counters add up (exportAssetsCsv, the dashboard handler).
THEOREM ReportsAgree ==
  ASSUME IsFiniteSet(Assets)
  PROVE  ReportsSpec => []ReportsConsistent
  BY ReportsSound, ReportInvIsConsistent, PTL
-----------------------------------------------------------------------------
(* Part 5.  Audit records tell the truth about events, even those of       *)
(* requests outside the unit.  What a request has learned of its event     *)
(* stays true until the asset is gone, and then no other asset ever has    *)
(* that id.                                                                *)

\* The ids that can still be given to an asset
Creatable == unused \cup {input[r].asset : r \in {q \in Requests : Creating(q)}}

\* In store state s the ledger of asset a has the event that is told of,
\* unless the asset is gone for good.
Told(s, ids, a, by, event, before, after) ==
  \/ event = 0
  \/ /\ event \in 1..Len(s.ledger[a])
     /\ s.ledger[a][event].by = by
     /\ s.ledger[a][event].from = before
     /\ s.ledger[a][event].to = after
  \/ ~Exists(s, a) /\ a \notin ids

RecordsTold(s, ids) ==
  \A a \in Assets : \A i \in 1..Len(s.audit[a]) :
    Told(s, ids, a, s.audit[a][i].by, s.audit[a][i].event, s.audit[a][i].before, s.audit[a][i].after)

LearnedTold(s, r) ==
  Told(s, Creatable, input[r].asset, r, outcome[r].event, outcome[r].before, outcome[r].after)

Learning(r) == pc[r] \in {"reread", "audit"}

TInv ==
  /\ IInv
  /\ \A r \in Requests \ Direct : pc[r] \in Steps => owner = r
  /\ RecordsTold(db, Creatable) /\ RecordsTold(work, Creatable)
  /\ \A r \in Requests : Learning(r) =>
       /\ input[r].asset \in Assets
       /\ LearnedTold(work, r)
       /\ r \in Direct => LearnedTold(db, r)

\* From store state s to store state t each asset stays as it is, gets one more
\* event, is deleted, or is created.
Follows(s, t, ids) ==
  \A a \in Assets :
    \/ t.ledger[a] = s.ledger[a] /\ (Exists(t, a) <=> Exists(s, a))
    \/ Exists(s, a) /\ \E e \in CustodyEvent : t.ledger[a] = Append(s.ledger[a], e)
    \/ ~Exists(t, a) /\ a \notin ids
    \/ a \in ids /\ s.ledger[a] = <<>>

LEMMA ToldStays ==
  ASSUME NEW s \in StoreState, NEW t, NEW ids, NEW rest \in SUBSET ids, Follows(s, t, ids),
         NEW a \in Assets, NEW by, NEW event, NEW before, NEW after,
         Told(s, ids, a, by, event, before, after)
  PROVE  Told(t, rest, a, by, event, before, after)
<1>1. s.ledger[a] \in Seq(CustodyEvent) /\ Len(s.ledger[a]) \in Nat
  BY RowTypes
<1>2. CASE t.ledger[a] = s.ledger[a] /\ (Exists(t, a) <=> Exists(s, a))
  BY <1>2 DEF Told
<1>3. ASSUME Exists(s, a), NEW e \in CustodyEvent, t.ledger[a] = Append(s.ledger[a], e)
      PROVE  Told(t, rest, a, by, event, before, after)
  <2>1. /\ Len(t.ledger[a]) = Len(s.ledger[a]) + 1
        /\ \A i \in 1..Len(s.ledger[a]) : t.ledger[a][i] = s.ledger[a][i]
    BY <1>1, <1>3
  <2> QED BY <1>1, <1>3, <2>1 DEF Told
<1>4. CASE ~Exists(t, a) /\ a \notin ids
  BY <1>4 DEF Told
<1>5. CASE a \in ids /\ s.ledger[a] = <<>>
  BY <1>5 DEF Told
<1> QED BY <1>2, <1>3, <1>4, <1>5 DEF Follows

LEMMA RecordsStayTold ==
  ASSUME NEW s \in StoreState, NEW t, NEW ids, NEW rest \in SUBSET ids, Follows(s, t, ids),
         RecordsTold(s, ids), t.audit = s.audit
  PROVE  RecordsTold(t, rest)
  BY ToldStays DEF RecordsTold

LEMMA FollowsItself == \A s, ids : Follows(s, s, ids)
  BY DEF Follows

-----------------------------------------------------------------------------
(* One step *)

\* A step of a request that has arrived concerns no other request, and gives
\* no id back.
LEMMA OthersUnchanged ==
  ASSUME WellTyped, NEW r \in Requests, RejectInput(r) \/ Service(r) \/ Route(r) \/ Unit(r)
  PROVE  /\ \A q \in Requests \ {r} :
              pc'[q] = pc[q] /\ input'[q] = input[q] /\ outcome'[q] = outcome[q]
         /\ unused' = unused
         /\ Creatable' \subseteq Creatable
<1> DEFINE Moves(step) ==
      \/ Return(r, step)
      \/ Goto(r, step) /\ UNCHANGED <<input, unused>>
         /\ (outcome' = outcome \/ \E o : outcome' = [outcome EXCEPT ![r] = o])
<1>1. \E step \in PcValues \ {"start"} : Moves(step)
  <2>1. CASE RejectInput(r) \/ Route(r) \/ Unit(r)
    BY <2>1, StepNames DEF RejectInput, Route, AuditCustody, AuditCreate, AuditUpdate, AuditDelete,
       WriteAudit, Refuse, Unit, Commit, Rollback, Crash
  <2>2. CASE CheckOutPrecheck(r) \/ CheckInPrecheck(r) \/ ReadBack(r) \/ UpdatePrecheck(r)
    BY <2>2, StepNames DEF CheckOutPrecheck, CheckInPrecheck, ReadBack, UpdatePrecheck,
       Refuse, Proceed, Learn
  <2>3. CASE CheckOutAppend(r) \/ CheckInAppend(r)
    BY <2>3, StepNames DEF CheckOutAppend, CheckInAppend, AppendStep, Refuse, Learn
  <2>4. CASE UpdateWrite(r) \/ CreateWrite(r) \/ DeleteWrite(r)
    BY <2>4, StepNames DEF UpdateWrite, CreateWrite, DeleteWrite, Refuse, Learn
  <2> QED BY <2>1, <2>2, <2>3, <2>4 DEF Service
<1>2. PICK step \in PcValues \ {"start"} : Moves(step)
  BY <1>1
<1>3. pc'[r] # "start" /\ unused' = unused /\ \A q \in Requests \ {r} : pc'[q] = pc[q]
  BY <1>2 DEF Return, Goto, WellTyped
<1>4. \A q \in Requests \ {r} : input'[q] = input[q]
  BY <1>2 DEF Return, WellTyped
<1>5. \A q \in Requests \ {r} : outcome'[q] = outcome[q]
  BY <1>2 DEF Return, WellTyped
<1>6. \A q \in Requests : Creating(q)' => Creating(q) /\ input'[q] = input[q]
  BY <1>3, <1>4 DEF Creating
<1>7. Creatable' \subseteq Creatable
  BY <1>3, <1>6 DEF Creatable
<1> QED BY <1>3, <1>4, <1>5, <1>7

\* While a request may call, it sees what is uncommitted; a call that writes
\* nothing leaves that behind.
LEMMA ViewIsWork ==
  ASSUME IInv, NEW r \in Requests, MayCall(r)
  PROVE  /\ View(r) = work
         /\ r \in Direct => work = db
         /\ NoWrite => Leave(r, View(r))
  BY DEF IInv, WellTyped, MayCall, View, NoWrite, Leave

LEMMA TruthStep ==
  ASSUME TInv, IInv', NEW r \in Requests, MayCall(r),
         RejectInput(r) \/ Service(r) \/ Route(r),
         NEW t, Leave(r, t), Follows(View(r), t, Creatable),
         RecordsTold(t, Creatable'),
         Learning(r)' => /\ input'[r].asset \in Assets
                         /\ Told(t, Creatable', input'[r].asset, r,
                                 outcome'[r].event, outcome'[r].before, outcome'[r].after)
  PROVE  TInv'
<1>1. /\ IInv /\ WellTyped /\ View(r) = work /\ (r \in Direct => work = db)
      /\ db \in StoreState /\ work \in StoreState
  BY ViewIsWork DEF TInv, IInv, WellTyped
<1>2. /\ \A q \in Requests \ {r} :
           pc'[q] = pc[q] /\ input'[q] = input[q] /\ outcome'[q] = outcome[q]
      /\ Creatable' \in SUBSET Creatable
  BY <1>1, OthersUnchanged
<1>3. work' = t /\ owner' = owner /\ db' = IF r \in Direct THEN t ELSE db
  BY DEF Leave
<1>4. Follows(work, work', Creatable) /\ Follows(db, db', Creatable)
  BY <1>1, <1>3, FollowsItself
<1>5. \A q \in Requests \ Direct : pc'[q] \in Steps => owner' = q
  BY <1>2, <1>3 DEF TInv, MayCall
<1>6. RecordsTold(work', Creatable') /\ RecordsTold(db', Creatable')
  <2>1. RecordsTold(db, Creatable')
    BY <1>1, <1>2, FollowsItself, RecordsStayTold DEF TInv
  <2> QED BY <1>3, <2>1
<1>7. ASSUME NEW q \in Requests, Learning(q)'
      PROVE  /\ input'[q].asset \in Assets
             /\ LearnedTold(work, q)'
             /\ q \in Direct => LearnedTold(db, q)'
  <2>1. CASE q = r
    <3>1. r \in Direct => db' = t
      BY <1>3
    <3> QED BY <1>3, <1>7, <2>1, <3>1 DEF LearnedTold
  <2>2. CASE q # r
    <3>1. /\ input[q].asset \in Assets /\ LearnedTold(work, q)
          /\ q \in Direct => LearnedTold(db, q)
          /\ input'[q] = input[q] /\ outcome'[q] = outcome[q]
      BY <1>2, <1>7, <2>2 DEF TInv, Learning
    <3>2. \A s \in StoreState : \A u : Follows(s, u, Creatable) /\ LearnedTold(s, q) =>
            Told(u, Creatable', input[q].asset, q, outcome[q].event, outcome[q].before, outcome[q].after)
      BY <1>2, <3>1, ToldStays DEF LearnedTold
    <3>3. Told(work', Creatable', input[q].asset, q, outcome[q].event, outcome[q].before, outcome[q].after)
      BY <1>1, <1>4, <3>1, <3>2
    <3>4. q \in Direct =>
            Told(db', Creatable', input[q].asset, q, outcome[q].event, outcome[q].before, outcome[q].after)
      BY <1>1, <1>4, <3>1, <3>2
    <3> QED BY <3>1, <3>3, <3>4 DEF LearnedTold
  <2> QED BY <2>1, <2>2
<1> QED BY <1>5, <1>6, <1>7 DEF TInv

\* A step that writes no audit record
LEMMA UnrecordedStep ==
  ASSUME TInv, IInv', NEW r \in Requests, MayCall(r),
         RejectInput(r) \/ Service(r) \/ Route(r),
         NEW t, Leave(r, t), Follows(View(r), t, Creatable), t.audit = View(r).audit,
         Learning(r)' => /\ input'[r].asset \in Assets
                         /\ Told(t, Creatable', input'[r].asset, r,
                                 outcome'[r].event, outcome'[r].before, outcome'[r].after)
  PROVE  TInv'
<1>1. /\ View(r) \in StoreState /\ RecordsTold(View(r), Creatable)
      /\ Creatable' \in SUBSET Creatable
  BY ViewIsWork, OthersUnchanged DEF TInv, IInv, WellTyped
<1>2. RecordsTold(t, Creatable')
  BY <1>1, RecordsStayTold
<1> QED BY <1>2, TruthStep
-----------------------------------------------------------------------------
(* The actions *)

\* A call that writes nothing, and of which the request learns nothing for its
\* record
LEMMA TruthWithoutWrite ==
  ASSUME TInv, IInv', NEW r \in Requests, MayCall(r),
         RejectInput(r) \/ Service(r) \/ Route(r), NoWrite, ~Learning(r)'
  PROVE  TInv'
<1>1. Leave(r, View(r))
  BY ViewIsWork DEF TInv
<1> QED BY <1>1, FollowsItself, UnrecordedStep

LEMMA RefusalLearnsNothing ==
  ASSUME WellTyped, NEW r \in Requests, Refuse(r)
  PROVE  NoWrite /\ ~Learning(r)'
  BY DEF WellTyped, Refuse, Return, Goto, Learning

LEMMA PrecheckTruth ==
  ASSUME TInv, IInv', NEW r \in Requests,
         RejectInput(r) \/ CheckOutPrecheck(r) \/ CheckInPrecheck(r) \/ UpdatePrecheck(r)
  PROVE  TInv'
<1>1. MayCall(r) /\ (RejectInput(r) \/ Service(r)) /\ WellTyped
  BY DEF RejectInput, CheckOutPrecheck, CheckInPrecheck, UpdatePrecheck, At, Service, TInv, IInv
<1>2. CASE Refuse(r)
  BY <1>1, <1>2, RefusalLearnsNothing, TruthWithoutWrite
<1>3. CASE ~Refuse(r)
  <2>1. NoWrite /\ Goto(r, "write")
    BY <1>3 DEF RejectInput, CheckOutPrecheck, CheckInPrecheck, UpdatePrecheck, Proceed, Learn
  <2>2. ~Learning(r)'
    BY <1>1, <2>1 DEF WellTyped, Goto, Learning
  <2> QED BY <1>1, <2>1, <2>2, TruthWithoutWrite
<1> QED BY <1>2, <1>3

LEMMA ReadBackTruth ==
  ASSUME TInv, IInv', NEW r \in Requests, ReadBack(r)
  PROVE  TInv'
<1>1. MayCall(r) /\ Service(r) /\ WellTyped /\ pc[r] = "reread" /\ View(r) = work
  BY ViewIsWork DEF ReadBack, At, Service, TInv, IInv
<1>2. CASE Refuse(r)
  BY <1>1, <1>2, RefusalLearnsNothing, TruthWithoutWrite
<1>3. CASE ~Refuse(r)
  <2>1. Leave(r, work) /\ UNCHANGED <<input, outcome>>
    BY <1>1, <1>3, ViewIsWork DEF ReadBack, Proceed, TInv
  <2>2. input[r].asset \in Assets /\ LearnedTold(work, r) /\ work \in StoreState
    BY <1>1 DEF TInv, Learning, WellTyped
  <2>3. Creatable' \in SUBSET Creatable
    BY <1>1, OthersUnchanged
  <2>4. Told(work, Creatable', input[r].asset, r, outcome[r].event, outcome[r].before, outcome[r].after)
    BY <2>2, <2>3, FollowsItself, ToldStays DEF LearnedTold
  <2> QED BY <1>1, <2>1, <2>2, <2>4, FollowsItself, UnrecordedStep
<1> QED BY <1>2, <1>3

\* Both appends: the new event is in the ledger under its number.
LEMMA AppendTruth ==
  ASSUME TInv, IInv', NEW r \in Requests, CheckOutAppend(r) \/ CheckInAppend(r)
  PROVE  TInv'
<1> DEFINE a == input[r].asset
           s == View(r)
           location == input[r].location
<1>1. /\ IInv /\ MayCall(r) /\ Service(r) /\ WellTyped /\ input[r].op \in {"check_out", "check_in"}
      /\ Sound(s) /\ s \in StoreState /\ a \in Assets /\ location \in Locations \cup {Keep}
  BY ViewSound, InputShapes
     DEF CheckOutAppend, CheckInAppend, At, Service, TInv, IInv, CustodyInputs
<1>2. ASSUME NEW type \in {"check_out", "check_in"}, NEW status \in Statuses, NEW requireStatus,
             type = "check_out" => status = "deployed" /\ requireStatus = "in_stock",
             type = "check_in" => status = "in_stock",
             AppendStep(r, type, status, requireStatus)
      PROVE  TInv'
  <2> DEFINE e == NewEvent(s, a, type, status, location, r)
             t == AppendCustodyEvent(s, a, type, status, location, r)
  <2>1. CASE CustodyRefused(s, a, type, requireStatus)
    BY <1>1, <1>2, <2>1, RefusalLearnsNothing, TruthWithoutWrite DEF AppendStep
  <2>2. CASE ~CustodyRefused(s, a, type, requireStatus)
    <3>1. Leave(r, t) /\ Learn(r, "reread", e.from, e.to, e.sequence, <<>>)
      BY <1>2, <2>2 DEF AppendStep
    <3>2. /\ e \in CustodyEvent /\ e.by = r /\ e.sequence = NextSequence(s.ledger[a])
          /\ Exists(s, a)
      BY <1>1, <1>2, <2>2, AppendCustodyEventSound DEF NewEvent, CustodyRefused, Actors
    <3>3. /\ t.ledger = [s.ledger EXCEPT ![a] = Append(s.ledger[a], e)] /\ t.audit = s.audit
          /\ t.row = [s.row EXCEPT ![a] = Patched(s.row[a], status, location)]
      BY <1>1 DEF AppendCustodyEvent, StoreState
    <3> HIDE DEF t, e
    <3>4. input'[r].asset = a /\ outcome'[r] = [before |-> e.from, after |-> e.to,
                                                event |-> e.sequence, ledger |-> <<>>]
      BY <1>1, <3>1, AfterLearn
    <3>5. Follows(s, t, Creatable)
      <4>1. s.row \in [Assets -> Row \cup {Gone}] /\ s.ledger \in [Assets -> Seq(CustodyEvent)]
        BY <1>1 DEF StoreState
      <4> HIDE DEF s, a
      <4> QED BY <1>1, <3>2, <3>3, <4>1 DEF Follows, Exists
    <3>6. Told(t, Creatable', a, r, e.sequence, e.from, e.to)
      <4>1. /\ s.ledger[a] \in Seq(CustodyEvent) /\ LedgerInOrder(s.ledger[a])
            /\ s.ledger \in [Assets -> Seq(CustodyEvent)]
        BY <1>1 DEF Sound, WellFormed, StoreState
      <4>2. e.sequence = Len(s.ledger[a]) + 1 /\ Len(s.ledger[a]) \in Nat
        <5> HIDE DEF s, a
        <5> QED BY <3>2, <4>1, OrderlyLedger
      <4>3. t.ledger[a] = Append(s.ledger[a], e)
        BY <1>1, <3>3, <4>1
      <4>4. e.sequence \in 1..Len(t.ledger[a]) /\ t.ledger[a][e.sequence] = e
        <5> HIDE DEF s, a
        <5> QED BY <3>2, <4>1, <4>2, <4>3
      <4> QED BY <3>2, <4>4 DEF Told
    <3> QED BY <1>1, <3>1, <3>3, <3>4, <3>5, <3>6, UnrecordedStep
  <2> QED BY <2>1, <2>2
<1> QED BY <1>2 DEF CheckOutAppend, CheckInAppend, Statuses

\* A mutation of the asset's row has no event to tell of.
LEMMA MutationTruth ==
  ASSUME TInv, IInv', NEW r \in Requests, UpdateWrite(r) \/ CreateWrite(r) \/ DeleteWrite(r)
  PROVE  TInv'
<1> DEFINE a == input[r].asset
           s == View(r)
<1>1. /\ IInv /\ MayCall(r) /\ Service(r) /\ WellTyped /\ Sound(s) /\ s \in StoreState /\ a \in Assets
  BY ViewSound, AskedAsset DEF UpdateWrite, CreateWrite, DeleteWrite, At, Service, TInv, IInv
<1>2. CASE Refuse(r)
  BY <1>1, <1>2, RefusalLearnsNothing, TruthWithoutWrite
<1>3. ASSUME NEW t, Leave(r, t), Follows(s, t, Creatable), t.audit = s.audit,
             NEW before, NEW after, NEW ledger, Learn(r, "audit", before, after, 0, ledger)
      PROVE  TInv'
  <2>1. /\ input' = input
        /\ outcome'[r] = [before |-> before, after |-> after, event |-> 0, ledger |-> ledger]
    BY <1>1, <1>3, AfterLearn
  <2>2. /\ input'[r].asset \in Assets
        /\ Told(t, Creatable', input'[r].asset, r,
                outcome'[r].event, outcome'[r].before, outcome'[r].after)
    BY <1>1, <2>1 DEF Told
  <2> HIDE DEF s, a
  <2>3. Follows(View(r), t, Creatable) /\ t.audit = View(r).audit
    BY <1>3 DEF s
  <2> QED BY <1>1, <1>3, <2>1, <2>2, <2>3, UnrecordedStep
<1>4. s.row \in [Assets -> Row \cup {Gone}] /\ s.ledger \in [Assets -> Seq(CustodyEvent)]
  BY <1>1 DEF StoreState
<1>5. CASE UpdateWrite(r) /\ ~Refuse(r)
  <2> DEFINE status == input[r].status
             location == input[r].location
             t == UpdateAssetRow(s, a, status, location)
  <2>1. /\ Leave(r, t) /\ Learn(r, "audit", outcome[r].before, t.row[a], 0, <<>>)
        /\ ~UpdateRefused(s, a, status)
    BY <1>5 DEF UpdateWrite
  <2>2. /\ t.row = [s.row EXCEPT ![a] = Patched(s.row[a], status, location)]
        /\ t.ledger = s.ledger /\ t.audit = s.audit
    BY <1>1 DEF UpdateAssetRow, StoreState
  <2>3. Exists(s, a) /\ Patched(s.row[a], status, location) # Gone
    <3>1. /\ status \in Statuses \cup {Keep} /\ location \in Locations \cup {NoLocation, Keep}
      BY <1>1, <1>5, InputShapes DEF UpdateWrite, At, UpdateInputs
    <3> QED BY <1>1, <2>1, <3>1, RowTypes, PatchedType DEF UpdateRefused
  <2> HIDE DEF t
  <2>4. Follows(s, t, Creatable)
    <3> HIDE DEF s, a
    <3> QED BY <1>1, <1>4, <2>2, <2>3 DEF Follows, Exists
  <2> QED BY <1>3, <2>1, <2>2, <2>4
<1>6. CASE CreateWrite(r) /\ ~Refuse(r)
  <2> DEFINE row == [status |-> input[r].status, location |-> input[r].location]
             t == CreateAssetRow(s, a, row)
  <2>1. Leave(r, t) /\ Learn(r, "audit", Gone, row, 0, <<>>) /\ Creating(r)
    BY <1>6 DEF CreateWrite, At, Creating
  <2>2. t.row = [s.row EXCEPT ![a] = row] /\ t.ledger = s.ledger /\ t.audit = s.audit
    BY <1>1 DEF CreateAssetRow, StoreState
  <2>3. a \in Creatable
    BY <2>1 DEF Creatable
  <2>4. s.ledger[a] = <<>>
    BY <1>1, <2>1 DEF IInv, FreshIds, Absent, View, Sound, WellFormed
  <2> HIDE DEF t, row
  <2>5. Follows(s, t, Creatable)
    <3> HIDE DEF s, a
    <3> QED BY <1>1, <1>4, <2>2, <2>3, <2>4 DEF Follows, Exists
  <2> QED BY <1>3, <2>1, <2>2, <2>5
<1>7. CASE DeleteWrite(r) /\ ~Refuse(r)
  <2> DEFINE t == DeleteAssetRow(s, a)
  <2>1. Leave(r, t) /\ Learn(r, "audit", s.row[a], Gone, 0, s.ledger[a]) /\ Exists(s, a)
    BY <1>7 DEF DeleteWrite
  <2>2. /\ t.row = [s.row EXCEPT ![a] = Gone] /\ t.ledger = [s.ledger EXCEPT ![a] = <<>>]
        /\ t.audit = s.audit
    BY <1>1 DEF DeleteAssetRow, StoreState
  <2>3. a \notin Creatable
    <3>1. ~Absent(a)
      BY <2>1 DEF Absent, View
    <3> QED BY <1>1, <3>1 DEF IInv, FreshIds, Creatable
  <2> HIDE DEF t
  <2>4. Follows(s, t, Creatable)
    <3> HIDE DEF s, a
    <3> QED BY <1>1, <1>4, <2>2, <2>3 DEF Follows, Exists
  <2> QED BY <1>3, <2>1, <2>2, <2>4
<1> QED BY <1>2, <1>5, <1>6, <1>7

\* The record says what the request has learned.
LEMMA RouteTruth ==
  ASSUME TInv, IInv', NEW r \in Requests, Route(r)
  PROVE  TInv'
<1> DEFINE a == input[r].asset
           s == View(r)
<1>1. /\ IInv /\ MayCall(r) /\ WellTyped /\ s \in StoreState /\ pc[r] = "audit" /\ s = work
      /\ a \in Assets /\ LearnedTold(work, r)
      /\ Creatable' \in SUBSET Creatable
  <2>1. MayCall(r) /\ pc[r] = "audit" /\ IInv /\ WellTyped
    BY DEF Route, AuditCustody, AuditCreate, AuditUpdate, AuditDelete, At, TInv, IInv
  <2> QED BY <2>1, ViewIsWork, OthersUnchanged DEF TInv, WellTyped, Learning
<1>2. ASSUME NEW action, WriteAudit(r, action)
      PROVE  TInv'
  <2> DEFINE o == outcome[r]
             entry == [action |-> action, by |-> r, before |-> o.before,
                       after |-> o.after, event |-> o.event, ledger |-> o.ledger]
             t == AppendAudit(s, a, entry)
  <2>1. Leave(r, t) /\ Return(r, "commit")
    BY <1>2 DEF WriteAudit
  <2>2. /\ t.row = s.row /\ t.ledger = s.ledger
        /\ t.audit = [s.audit EXCEPT ![a] = Append(s.audit[a], entry)]
    BY <1>1 DEF AppendAudit, StoreState
  <2>3. /\ entry.by = r /\ entry.event = o.event
        /\ entry.before = o.before /\ entry.after = o.after
    OBVIOUS
  <2> HIDE DEF t, entry
  <2>4. Follows(s, t, Creatable)
    BY <2>2 DEF Follows, Exists
  <2>5. ASSUME NEW b \in Assets, NEW by, NEW event, NEW before, NEW after,
               Told(s, Creatable, b, by, event, before, after)
        PROVE  Told(t, Creatable', b, by, event, before, after)
    BY <1>1, <2>4, <2>5, ToldStays
  <2>6. RecordsTold(t, Creatable')
    <3> SUFFICES ASSUME NEW b \in Assets, NEW i \in 1..Len(t.audit[b]), NEW x, x = t.audit[b][i]
                 PROVE  Told(t, Creatable', b, x.by, x.event, x.before, x.after)
      BY DEF RecordsTold
    <3>1. RecordsTold(s, Creatable)
      BY <1>1 DEF TInv
    <3>2. s.audit \in [Assets -> Seq(AuditEntry)] /\ s.audit[a] \in Seq(AuditEntry)
      BY <1>1 DEF StoreState
    <3>3. CASE b # a
      <4>1. t.audit[b] = s.audit[b]
        BY <1>1, <2>2, <3>2, <3>3
      <4> QED BY <2>5, <3>1, <4>1 DEF RecordsTold
    <3>4. CASE b = a
      <4>1. t.audit[a] = Append(s.audit[a], entry)
        BY <1>1, <2>2, <3>2
      <4>2. /\ Len(t.audit[a]) = Len(s.audit[a]) + 1 /\ Len(s.audit[a]) \in Nat
            /\ t.audit[a][Len(s.audit[a]) + 1] = entry
            /\ \A j \in 1..Len(s.audit[a]) : t.audit[a][j] = s.audit[a][j]
        <5>1. s.audit[a] \in Seq(AuditEntry \cup {entry})
          BY <3>2
        <5> HIDE DEF s, a
        <5> QED BY <4>1, <5>1
      <4>3. CASE i \in 1..Len(s.audit[a])
        BY <1>1, <2>5, <3>1, <3>4, <4>2, <4>3 DEF RecordsTold
      <4>4. CASE i = Len(s.audit[a]) + 1
        <5>1. x = entry
          BY <3>4, <4>2, <4>4
        <5>2. Told(s, Creatable, a, r, o.event, o.before, o.after)
          BY <1>1 DEF LearnedTold
        <5> QED BY <1>1, <2>3, <2>5, <3>4, <5>1, <5>2
      <4>5. i \in 1..Len(s.audit[a]) \/ i = Len(s.audit[a]) + 1
        <5> HIDE DEF s, a
        <5> QED BY <3>4, <4>2
      <4> QED BY <4>3, <4>4, <4>5
    <3> QED BY <3>3, <3>4
  <2>7. ~Learning(r)'
    BY <1>1, <2>1 DEF Return, Goto, Learning, WellTyped
  <2> QED BY <1>1, <2>1, <2>4, <2>6, <2>7, TruthStep
<1> QED BY <1>2 DEF Route, AuditCustody, AuditCreate, AuditUpdate, AuditDelete

\* The request's unit is committed or discarded, and with it what it wrote.
LEMMA UnitTruth ==
  ASSUME TInv, IInv', NEW r \in Requests, Unit(r)
  PROVE  TInv'
<1>1. /\ IInv /\ WellTyped /\ db \in StoreState /\ work \in StoreState
  BY DEF TInv, IInv, WellTyped
<1>2. /\ \A q \in Requests \ {r} :
           pc'[q] = pc[q] /\ input'[q] = input[q] /\ outcome'[q] = outcome[q]
      /\ Creatable' \in SUBSET Creatable
  BY <1>1, OthersUnchanged
<1>3. pc'[r] \in {"ok", "error"}
  BY <1>1 DEF Unit, Commit, Rollback, Crash, Return, Goto, WellTyped
<1>4. \/ UNCHANGED <<db, work, owner>> /\ owner # r
      \/ owner = r /\ owner' = Nobody /\ UNCHANGED work /\ db' = work
      \/ owner = r /\ owner' = Nobody /\ UNCHANGED db /\ work' = db
  BY <1>1, CustodyAssumption, ReaderAssumption
     DEF Unit, Commit, Rollback, Crash, Discard, NoWrite, WellTyped
<1>5. \A q \in Requests \ Direct : pc'[q] \in Steps => owner' = q /\ q # r
  <2>1. \A q \in Requests \ Direct : pc'[q] \in Steps => q # r /\ owner = q
    BY <1>2, <1>3 DEF TInv, Steps
  <2> QED BY <1>4, <2>1
<1>6. RecordsTold(work', Creatable') /\ RecordsTold(db', Creatable')
  <2>1. RecordsTold(db, Creatable') /\ RecordsTold(work, Creatable')
    BY <1>1, <1>2, FollowsItself, RecordsStayTold DEF TInv
  <2> QED BY <1>4, <2>1
<1>7. ASSUME NEW q \in Requests, Learning(q)'
      PROVE  /\ input'[q].asset \in Assets
             /\ LearnedTold(work, q)'
             /\ q \in Direct => LearnedTold(db, q)'
  <2>1. q # r /\ Learning(q) /\ input'[q] = input[q] /\ outcome'[q] = outcome[q]
    BY <1>2, <1>3, <1>7 DEF Learning
  <2>2. q \notin Direct => UNCHANGED <<db, work>>
    BY <1>4, <1>7, <2>1 DEF TInv, Learning, Steps
  <2>3. /\ input[q].asset \in Assets /\ LearnedTold(work, q)
        /\ q \in Direct => LearnedTold(db, q)
    BY <2>1 DEF TInv
  <2>4. ASSUME NEW s \in StoreState, LearnedTold(s, q)
        PROVE  Told(s, Creatable', input[q].asset, q, outcome[q].event, outcome[q].before, outcome[q].after)
    BY <1>2, <2>3, <2>4, FollowsItself, ToldStays DEF LearnedTold
  <2>5. q \in Direct => LearnedTold(work, q)' /\ LearnedTold(db, q)'
    BY <1>1, <1>4, <2>1, <2>3, <2>4 DEF LearnedTold
  <2>6. q \notin Direct => LearnedTold(work, q)'
    BY <1>1, <2>1, <2>2, <2>3, <2>4 DEF LearnedTold
  <2> QED BY <2>1, <2>3, <2>5, <2>6
<1> QED BY <1>5, <1>6, <1>7 DEF TInv

LEMMA ArriveTruth ==
  ASSUME TInv, IInv', NEW r \in Requests, Arrive(r)
  PROVE  TInv'
<1>1. /\ IInv /\ WellTyped /\ db \in StoreState /\ work \in StoreState
  BY DEF TInv, IInv, WellTyped
<1> PICK i \in Inputs :
      /\ i.op = "create" => i.asset \in unused
      /\ input' = [input EXCEPT ![r] = i]
      /\ unused' = IF i.op = "create" THEN unused \ {i.asset} ELSE unused
  BY DEF Arrive
<1>2. /\ pc'[r] = "start" /\ input'[r] = i /\ UNCHANGED <<db, work, outcome>>
      /\ \A q \in Requests \ {r} : pc'[q] = pc[q] /\ input'[q] = input[q]
      /\ owner = Nobody /\ owner' = IF r \in Direct THEN Nobody ELSE r
  BY <1>1 DEF Arrive, Goto, WellTyped
<1>3. Creatable' \in SUBSET Creatable
  <2>1. \A q \in Requests \ {r} : Creating(q)' => Creating(q) /\ input'[q] = input[q]
    BY <1>2 DEF Creating
  <2>2. Creating(r)' => input'[r].asset \in unused
    BY <1>2 DEF Creating
  <2> QED BY <2>1, <2>2 DEF Creatable
<1>4. \A q \in Requests \ Direct : pc'[q] \in Steps => owner' = q
  BY <1>2, CustodyAssumption DEF TInv
<1>5. RecordsTold(work', Creatable') /\ RecordsTold(db', Creatable')
  BY <1>1, <1>2, <1>3, FollowsItself, RecordsStayTold DEF TInv
<1>6. ASSUME NEW q \in Requests, Learning(q)'
      PROVE  /\ input'[q].asset \in Assets
             /\ LearnedTold(work, q)'
             /\ q \in Direct => LearnedTold(db, q)'
  <2>1. Learning(q) /\ input'[q] = input[q] /\ outcome'[q] = outcome[q]
    BY <1>2, <1>6 DEF Learning
  <2>2. /\ input[q].asset \in Assets /\ LearnedTold(work, q)
        /\ q \in Direct => LearnedTold(db, q)
    BY <2>1 DEF TInv
  <2>3. ASSUME NEW s \in StoreState, LearnedTold(s, q)
        PROVE  Told(s, Creatable', input[q].asset, q, outcome[q].event, outcome[q].before, outcome[q].after)
    BY <1>3, <2>2, <2>3, FollowsItself, ToldStays DEF LearnedTold
  <2> QED BY <1>1, <1>2, <2>1, <2>2, <2>3 DEF LearnedTold
<1> QED BY <1>4, <1>5, <1>6 DEF TInv

LEMMA InitTruth == Init => TInv
<1> SUFFICES ASSUME Init PROVE TInv
  OBVIOUS
<1>1. IInv
  BY InitSound
<1>2. \A a \in Assets : \A i \in 1..Len(db.audit[a]) : db.audit[a][i].event = 0
  BY DEF Init, InitialStores, Created
<1>3. RecordsTold(db, Creatable) /\ RecordsTold(work, Creatable)
  BY <1>2 DEF Init, RecordsTold, Told
<1> QED BY <1>1, <1>3 DEF Init, TInv, Steps, Learning

LEMMA StepTruth == TInv /\ [Next]_vars => TInv'
<1> SUFFICES ASSUME TInv, [Next]_vars PROVE TInv'
  OBVIOUS
<1>1. IInv'
  BY StepSound DEF TInv
<1>2. ASSUME NEW r \in Requests, Arrive(r) PROVE TInv'
  BY <1>1, <1>2, ArriveTruth
<1>3. ASSUME NEW r \in Requests, RejectInput(r) \/ Service(r) PROVE TInv'
  BY <1>1, <1>3, PrecheckTruth, ReadBackTruth, AppendTruth, MutationTruth DEF Service
<1>4. ASSUME NEW r \in Requests, Route(r) PROVE TInv'
  BY <1>1, <1>4, RouteTruth
<1>5. ASSUME NEW r \in Requests, Unit(r) PROVE TInv'
  BY <1>1, <1>5, UnitTruth
<1>6. CASE UNCHANGED vars
  <2>1. UNCHANGED <<db, work, owner, pc, input, outcome, unused>>
    BY <1>6 DEF vars
  <2>2. Creatable' = Creatable
    BY <2>1 DEF Creatable, Creating
  <2> QED BY <1>1, <2>1, <2>2 DEF TInv, Learning, LearnedTold
<1> QED BY <1>2, <1>3, <1>4, <1>5, <1>6 DEF Next, AllAnswered

LEMMA TruthOfCommitted == TInv => CustodyAuditTruthful
<1> SUFFICES ASSUME TInv, NEW a \in Assets, NEW i \in 1..Len(db.audit[a]),
                    NEW entry, entry = db.audit[a][i],
                    entry.event # 0, entry.event <= Len(db.ledger[a])
             PROVE  /\ db.ledger[a][entry.event].by = entry.by
                    /\ db.ledger[a][entry.event].from = entry.before
                    /\ db.ledger[a][entry.event].to = entry.after
  BY DEF CustodyAuditTruthful
<1>1. Told(db, Creatable, a, entry.by, entry.event, entry.before, entry.after)
  BY DEF TInv, RecordsTold
<1>2. db \in StoreState /\ WellFormed(db)
  BY DEF TInv, IInv, Sound
<1>3. entry \in AuditEntry
  BY <1>2, RowTypes
<1>4. entry.event \in Nat
  BY <1>3 DEF AuditEntry
<1>5. Exists(db, a)
  BY <1>2, <1>4 DEF WellFormed
<1> QED BY <1>1, <1>5 DEF Told

\* Even without a unit around the whole request, the audit record of a custody
\* action never misstates the event of the number it names, whatever other
\* requests do between the append and the record (appendCustodyEvent returns
\* the row before and after; the routes audit what it returned).
THEOREM CustodyAuditsAreTrue == Spec => []CustodyAuditTruthful
  BY InitTruth, StepTruth, TruthOfCommitted, PTL DEF Spec
-----------------------------------------------------------------------------
(* Part 6.  What was answered with success stays on record.  Every commit  *)
(* adds one record, and at most one event, of the request that commits; an *)
(* event that was committed is in the ledger, or in the record of the      *)
(* deletion that destroyed the ledger.                                     *)

\* Nothing in store state s is of request r.
Untouched(s, r) ==
  \A a \in Assets :
    /\ \A i \in 1..Len(s.audit[a]) : s.audit[a][i].by # r
    /\ \A n \in 1..Len(KeptLedger(s, a)) : KeptLedger(s, a)[n].by # r

\* Of request r store state s has record i of asset a, and the event it names.
HasRecord(s, r, a, i) ==
  /\ \A b \in Assets : \A j \in 1..Len(s.audit[b]) :
       s.audit[b][j].by = r <=> b = a /\ j = i
  /\ \A n \in 1..Len(KeptLedger(s, a)) :
       KeptLedger(s, a)[n].by = r <=> n = s.audit[a][i].event
  /\ s.audit[a][i].event # 0 => s.audit[a][i].event \in 1..Len(KeptLedger(s, a))

OnRecord(s, r) == \E a \in Assets : \E i \in 1..Len(s.audit[a]) : HasRecord(s, r, a, i)

\* Store state t has one more record than s, of request r, on asset a.
OneMore(s, t, r, a) ==
  /\ \A b \in Assets \ {a} :
       t.audit[b] = s.audit[b] /\ KeptLedger(t, b) = KeptLedger(s, b)
  /\ \E entry \in AuditEntry :
       /\ entry.by = r /\ t.audit[a] = Append(s.audit[a], entry)
       /\ \/ entry.event = 0 /\ KeptLedger(t, a) = KeptLedger(s, a)
          \/ \E e \in CustodyEvent :
               /\ e.by = r /\ entry.event = Len(KeptLedger(s, a)) + 1
               /\ KeptLedger(t, a) = Append(KeptLedger(s, a), e)

DurableInv ==
  /\ AInv
  /\ \A r \in Requests : IF pc[r] = "ok" THEN OnRecord(db, r) ELSE Untouched(db, r)

LEMMA KeptLedgerType ==
  ASSUME NEW s \in StoreState, NEW a \in Assets
  PROVE  KeptLedger(s, a) \in Seq(CustodyEvent)
<1>1. CASE Exists(s, a) \/ s.audit[a] = <<>>
  BY <1>1, RowTypes DEF KeptLedger
<1>2. CASE ~(Exists(s, a) \/ s.audit[a] = <<>>)
  <2>1. LastOf(s.audit[a]) \in AuditEntry
    <3>1. s.audit[a] \in Seq(AuditEntry) /\ s.audit[a] # <<>>
      BY <1>2, RowTypes
    <3> QED BY <3>1 DEF LastOf
  <2> QED BY <1>2, <2>1 DEF KeptLedger, AuditEntry
<1> QED BY <1>1, <1>2

\* What a sequence has after one more element
LEMMA AppendedElements ==
  ASSUME NEW S, NEW seq \in Seq(S), NEW e \in S
  PROVE  /\ Append(seq, e) \in Seq(S) /\ Len(seq) \in Nat
         /\ Len(Append(seq, e)) = Len(seq) + 1
         /\ \A i \in 1..Len(seq) : Append(seq, e)[i] = seq[i]
         /\ Append(seq, e)[Len(seq) + 1] = e
         /\ \A i \in 1..Len(Append(seq, e)) : i \in 1..Len(seq) \/ i = Len(seq) + 1
OBVIOUS

LEMMA OthersStayOnRecord ==
  ASSUME NEW s \in StoreState, NEW t, NEW q, NEW r, q # r, NEW a \in Assets, OneMore(s, t, q, a)
  PROVE  /\ Untouched(s, r) => Untouched(t, r)
         /\ OnRecord(s, r) => OnRecord(t, r)
<1>1. PICK entry \in AuditEntry :
        /\ entry.by = q /\ t.audit[a] = Append(s.audit[a], entry)
        /\ \/ entry.event = 0 /\ KeptLedger(t, a) = KeptLedger(s, a)
           \/ \E e \in CustodyEvent :
                /\ e.by = q /\ entry.event = Len(KeptLedger(s, a)) + 1
                /\ KeptLedger(t, a) = Append(KeptLedger(s, a), e)
  BY DEF OneMore
<1>2. \A b \in Assets \ {a} : t.audit[b] = s.audit[b] /\ KeptLedger(t, b) = KeptLedger(s, b)
  BY DEF OneMore
<1>3. s.audit[a] \in Seq(AuditEntry) /\ KeptLedger(s, a) \in Seq(CustodyEvent)
  BY RowTypes, KeptLedgerType
<1>4. ASSUME NEW b \in Assets
      PROVE  /\ Len(s.audit[b]) \in Nat /\ Len(t.audit[b]) \in Nat
             /\ Len(t.audit[b]) >= Len(s.audit[b])
             /\ \A i \in 1..Len(s.audit[b]) : t.audit[b][i] = s.audit[b][i]
             /\ \A i \in 1..Len(t.audit[b]) : i \in 1..Len(s.audit[b]) \/ t.audit[b][i].by # r
  <2>1. CASE b = a
    <3>1. /\ Append(s.audit[a], entry) \in Seq(AuditEntry) /\ Len(s.audit[a]) \in Nat
          /\ Len(Append(s.audit[a], entry)) = Len(s.audit[a]) + 1
          /\ \A i \in 1..Len(s.audit[a]) : Append(s.audit[a], entry)[i] = s.audit[a][i]
          /\ Append(s.audit[a], entry)[Len(s.audit[a]) + 1] = entry
          /\ \A i \in 1..Len(Append(s.audit[a], entry)) :
               i \in 1..Len(s.audit[a]) \/ i = Len(s.audit[a]) + 1
      BY <1>3, AppendedElements
    <3>2. t.audit[b] = Append(s.audit[a], entry) /\ entry.by # r
      BY <1>1, <2>1
    <3> QED BY <2>1, <3>1, <3>2
  <2>2. CASE b # a
    <3>1. s.audit[b] \in Seq(AuditEntry)
      BY RowTypes
    <3>2. Len(s.audit[b]) \in Nat
      BY <3>1
    <3> QED BY <1>2, <2>2, <3>2
  <2> QED BY <2>1, <2>2
<1>5. ASSUME NEW b \in Assets
      PROVE  /\ Len(KeptLedger(s, b)) \in Nat /\ Len(KeptLedger(t, b)) \in Nat
             /\ Len(KeptLedger(t, b)) >= Len(KeptLedger(s, b))
             /\ \A i \in 1..Len(KeptLedger(s, b)) : KeptLedger(t, b)[i] = KeptLedger(s, b)[i]
             /\ \A i \in 1..Len(KeptLedger(t, b)) :
                  i \in 1..Len(KeptLedger(s, b)) \/ KeptLedger(t, b)[i].by # r
  <2>1. KeptLedger(s, b) \in Seq(CustodyEvent) /\ Len(KeptLedger(s, b)) \in Nat
    <3>1. KeptLedger(s, b) \in Seq(CustodyEvent)
      BY KeptLedgerType
    <3> QED BY <3>1
  <2>2. CASE KeptLedger(t, b) = KeptLedger(s, b)
    BY <2>1, <2>2
  <2>3. ASSUME NEW e \in CustodyEvent, e.by = q, KeptLedger(t, b) = Append(KeptLedger(s, b), e)
        PROVE  /\ Len(KeptLedger(t, b)) \in Nat
               /\ Len(KeptLedger(t, b)) >= Len(KeptLedger(s, b))
               /\ \A i \in 1..Len(KeptLedger(s, b)) : KeptLedger(t, b)[i] = KeptLedger(s, b)[i]
               /\ \A i \in 1..Len(KeptLedger(t, b)) :
                    i \in 1..Len(KeptLedger(s, b)) \/ KeptLedger(t, b)[i].by # r
    <3>1. /\ Len(Append(KeptLedger(s, b), e)) = Len(KeptLedger(s, b)) + 1
          /\ \A i \in 1..Len(KeptLedger(s, b)) : Append(KeptLedger(s, b), e)[i] = KeptLedger(s, b)[i]
          /\ Append(KeptLedger(s, b), e)[Len(KeptLedger(s, b)) + 1] = e
          /\ \A i \in 1..Len(Append(KeptLedger(s, b), e)) :
               i \in 1..Len(KeptLedger(s, b)) \/ i = Len(KeptLedger(s, b)) + 1
      BY <2>1, AppendedElements
    <3> QED BY <2>1, <2>3, <3>1
  <2> QED BY <1>1, <1>2, <2>1, <2>2, <2>3
<1>6. Untouched(s, r) => Untouched(t, r)
  BY <1>4, <1>5 DEF Untouched
<1>7. ASSUME OnRecord(s, r) PROVE OnRecord(t, r)
  <2>1. PICK c \in Assets : \E i \in 1..Len(s.audit[c]) : HasRecord(s, r, c, i)
    BY <1>7 DEF OnRecord
  <2>2. PICK i \in 1..Len(s.audit[c]) : HasRecord(s, r, c, i)
    BY <2>1
  <2>3. i \in 1..Len(t.audit[c]) /\ t.audit[c][i] = s.audit[c][i]
    BY <1>4
  <2>4. \A b \in Assets : \A j \in 1..Len(t.audit[b]) : t.audit[b][j].by = r <=> b = c /\ j = i
    BY <1>4, <2>2 DEF HasRecord
  <2>5. s.audit[c][i].event \in Nat
    <3>1. s.audit[c] \in Seq(AuditEntry)
      BY RowTypes
    <3>2. s.audit[c][i] \in AuditEntry
      BY <3>1
    <3> QED BY <3>2 DEF AuditEntry
  <2>6. /\ \A n \in 1..Len(KeptLedger(t, c)) :
             KeptLedger(t, c)[n].by = r <=> n = t.audit[c][i].event
        /\ t.audit[c][i].event # 0 => t.audit[c][i].event \in 1..Len(KeptLedger(t, c))
    BY <1>5, <2>2, <2>3, <2>5 DEF HasRecord
  <2> QED BY <2>3, <2>4, <2>6 DEF OnRecord, HasRecord
<1> QED BY <1>6, <1>7

LEMMA CommitPutsOnRecord ==
  ASSUME NEW s \in StoreState, NEW t, NEW r, NEW a \in Assets,
         OneMore(s, t, r, a), Untouched(s, r)
  PROVE  OnRecord(t, r)
<1>1. PICK entry \in AuditEntry :
        /\ entry.by = r /\ t.audit[a] = Append(s.audit[a], entry)
        /\ \/ entry.event = 0 /\ KeptLedger(t, a) = KeptLedger(s, a)
           \/ \E e \in CustodyEvent :
                /\ e.by = r /\ entry.event = Len(KeptLedger(s, a)) + 1
                /\ KeptLedger(t, a) = Append(KeptLedger(s, a), e)
  BY DEF OneMore
<1>2. \A b \in Assets \ {a} : t.audit[b] = s.audit[b] /\ KeptLedger(t, b) = KeptLedger(s, b)
  BY DEF OneMore
<1>3. s.audit[a] \in Seq(AuditEntry) /\ KeptLedger(s, a) \in Seq(CustodyEvent)
  BY RowTypes, KeptLedgerType
<1> DEFINE i == Len(s.audit[a]) + 1
<1>4. /\ Len(s.audit[a]) \in Nat /\ Len(t.audit[a]) = i /\ t.audit[a][i] = entry
      /\ \A j \in 1..Len(s.audit[a]) : t.audit[a][j] = s.audit[a][j]
      /\ \A j \in 1..Len(t.audit[a]) : j \in 1..Len(s.audit[a]) \/ j = i
  BY <1>1, <1>3, AppendedElements
<1>5. i \in 1..Len(t.audit[a]) /\ i \notin 1..Len(s.audit[a])
  BY <1>4
<1> HIDE DEF i
<1>6. \A b \in Assets : \A j \in 1..Len(t.audit[b]) : t.audit[b][j].by = r <=> b = a /\ j = i
  <2> TAKE b \in Assets
  <2>1. CASE b = a
    BY <1>1, <1>4, <1>5, <2>1 DEF Untouched
  <2>2. CASE b # a
    BY <1>2, <2>2 DEF Untouched
  <2> QED BY <2>1, <2>2
<1>7. /\ \A n \in 1..Len(KeptLedger(t, a)) : KeptLedger(t, a)[n].by = r <=> n = entry.event
      /\ entry.event # 0 => entry.event \in 1..Len(KeptLedger(t, a))
  <2>1. CASE entry.event = 0 /\ KeptLedger(t, a) = KeptLedger(s, a)
    BY <2>1, <1>3 DEF Untouched
  <2>2. ASSUME NEW e \in CustodyEvent, e.by = r, entry.event = Len(KeptLedger(s, a)) + 1,
               KeptLedger(t, a) = Append(KeptLedger(s, a), e)
        PROVE  /\ \A n \in 1..Len(KeptLedger(t, a)) : KeptLedger(t, a)[n].by = r <=> n = entry.event
               /\ entry.event # 0 => entry.event \in 1..Len(KeptLedger(t, a))
    <3>1. /\ Len(KeptLedger(s, a)) \in Nat
          /\ Len(KeptLedger(t, a)) = Len(KeptLedger(s, a)) + 1
          /\ \A n \in 1..Len(KeptLedger(s, a)) : KeptLedger(t, a)[n] = KeptLedger(s, a)[n]
          /\ KeptLedger(t, a)[Len(KeptLedger(s, a)) + 1] = e
          /\ \A n \in 1..Len(KeptLedger(t, a)) :
               n \in 1..Len(KeptLedger(s, a)) \/ n = Len(KeptLedger(s, a)) + 1
      BY <1>3, <2>2, AppendedElements
    <3> QED BY <2>2, <3>1 DEF Untouched
  <2> QED BY <1>1, <2>1, <2>2
<1> QED BY <1>4, <1>5, <1>6, <1>7 DEF OnRecord, HasRecord

-----------------------------------------------------------------------------
(* A recorded operation, as it will be committed *)

\* An operation that has its record adds one record and at most one event.
LEMMA RecordedIsOneMore ==
  ASSUME AInv, NEW r \in Requests, Recorded(r)
  PROVE  \E a \in Assets : OneMore(db, work, r, a)
<1>1. PICK a \in Assets, op \in {"check_out", "check_in", "update", "create", "delete"},
         s \in StoreState, event \in Nat, ledger \in Seq(CustodyEvent) :
      /\ Written(db, r, op, a, s, event, ledger)
      /\ work = AppendAudit(s, a,
           [action |-> ActionOf(op), by |-> r, before |-> db.row[a], after |-> s.row[a],
            event |-> event, ledger |-> ledger])
  BY DEF Recorded
<1> DEFINE entry == [action |-> ActionOf(op), by |-> r, before |-> db.row[a],
                     after |-> s.row[a], event |-> event, ledger |-> ledger]
<1>2. db \in StoreState /\ Sound(db) /\ s.audit = db.audit
  BY <1>1, WrittenKeepsAudit DEF AInv, IInv, Sound
<1>3. entry \in AuditEntry
  <2>1. db.row[a] \in Row \cup {Gone} /\ s.row[a] \in Row \cup {Gone}
    BY <1>1, <1>2, RowTypes
  <2> QED BY <2>1 DEF AuditEntry, AuditActions, ActionOf, Actors
<1>4. entry.by = r /\ entry.event = event /\ entry.ledger = ledger
  OBVIOUS
<1>5. /\ work.row = s.row /\ work.ledger = s.ledger
      /\ work.audit = [db.audit EXCEPT ![a] = Append(db.audit[a], entry)]
  BY <1>1, <1>2 DEF AppendAudit, StoreState
<1> HIDE DEF entry
<1>6. /\ work.audit[a] = Append(db.audit[a], entry)
      /\ \A b \in Assets \ {a} : work.audit[b] = db.audit[b]
  BY <1>2, <1>5 DEF StoreState
<1>7. /\ db.audit[a] \in Seq(AuditEntry) /\ LedgerInOrder(db.ledger[a])
      /\ db.ledger[a] \in Seq(CustodyEvent)
  BY <1>2, RowTypes DEF Sound, WellFormed
<1>8. work.audit[a] # <<>> /\ LastOf(work.audit[a]) = entry
  BY <1>6, <1>7, LastAppended
<1>9. Touches(s, a, event, ledger)
  BY <1>1, <1>2, WrittenTells
<1>10. \A b \in Assets \ {a} :
         work.audit[b] = db.audit[b] /\ KeptLedger(work, b) = KeptLedger(db, b)
  BY <1>5, <1>6, <1>9 DEF Touches, KeptLedger, Exists
<1>11. \/ entry.event = 0 /\ KeptLedger(work, a) = KeptLedger(db, a)
       \/ \E e \in CustodyEvent :
            /\ e.by = r /\ entry.event = Len(KeptLedger(db, a)) + 1
            /\ KeptLedger(work, a) = Append(KeptLedger(db, a), e)
  <2>1. ASSUME NEW type \in {"check_out", "check_in"}, NEW status \in Statuses,
               NEW location \in Locations \cup {Keep},
               Exists(db, a), event = NextSequence(db.ledger[a]), status # Keep,
               s = AppendCustodyEvent(db, a, type, status, location, r)
        PROVE  \E e \in CustodyEvent :
                 /\ e.by = r /\ entry.event = Len(KeptLedger(db, a)) + 1
                 /\ KeptLedger(work, a) = Append(KeptLedger(db, a), e)
    <3> DEFINE e == NewEvent(db, a, type, status, location, r)
    <3>1. db.row[a] \in Row
      BY <1>2, <2>1, RowTypes
    <3>2. Patched(db.row[a], status, location) \in Row /\ Patched(db.row[a], status, location) # Gone
      BY <3>1, <2>1, PatchedType
    <3>3. NextSequence(db.ledger[a]) = Len(db.ledger[a]) + 1 /\ Len(db.ledger[a]) \in Nat
      BY <1>7, OrderlyLedger
    <3>4. e \in CustodyEvent /\ e.by = r
      BY <2>1, <3>1, <3>2, <3>3 DEF NewEvent, CustodyEvent, Actors
    <3>5. s.ledger[a] = Append(db.ledger[a], e)
          /\ s.row[a] = Patched(db.row[a], status, location)
      BY <1>2, <2>1 DEF AppendCustodyEvent, StoreState
    <3> HIDE DEF e
    <3>6. KeptLedger(db, a) = db.ledger[a] /\ KeptLedger(work, a) = s.ledger[a]
      BY <1>5, <2>1, <3>2, <3>5 DEF KeptLedger, Exists
    <3> QED BY <1>4, <2>1, <3>3, <3>4, <3>5, <3>6
  <2>2. CASE op = "check_out"
    <3>1. PICK location \in Locations \cup {Keep} :
            /\ db.row[a].status = "in_stock" /\ event = NextSequence(db.ledger[a])
            /\ s = AppendCustodyEvent(db, a, "check_out", "deployed", location, r)
      BY <1>1, <2>2 DEF Written
    <3>2. Exists(db, a) /\ "deployed" \in Statuses /\ "deployed" # Keep
      BY <3>1, ConstantsAssumption DEF Exists, Gone, Statuses
    <3> QED BY <2>1, <3>1, <3>2
  <2>3. CASE op = "check_in"
    <3>1. PICK location \in Locations \cup {Keep} :
            /\ Exists(db, a) /\ event = NextSequence(db.ledger[a])
            /\ s = AppendCustodyEvent(db, a, "check_in", "in_stock", location, r)
      BY <1>1, <2>3 DEF Written
    <3>2. "in_stock" \in Statuses /\ "in_stock" # Keep
      BY ConstantsAssumption DEF Statuses
    <3> QED BY <2>1, <3>1, <3>2
  <2>4. CASE op = "update"
    <3>1. PICK status \in FreeStatuses \cup {Keep}, location \in Locations \cup {NoLocation, Keep} :
            Exists(db, a) /\ event = 0 /\ s = UpdateAssetRow(db, a, status, location)
      BY <1>1, <2>4 DEF Written
    <3>2. Patched(db.row[a], status, location) # Gone
      BY <1>2, <3>1, RowTypes, PatchedType DEF FreeStatuses
    <3>3. s.row[a] = Patched(db.row[a], status, location) /\ s.ledger[a] = db.ledger[a]
      BY <1>2, <3>1 DEF UpdateAssetRow, StoreState
    <3> QED BY <1>4, <1>5, <3>1, <3>2, <3>3 DEF KeptLedger, Exists
  <2>5. CASE op = "create"
    <3>1. PICK status \in FreeStatuses, location \in Locations \cup {NoLocation} :
            /\ db.audit[a] = <<>> /\ event = 0
            /\ s = CreateAssetRow(db, a, [status |-> status, location |-> location])
      BY <1>1, <2>5 DEF Written
    <3>2. [status |-> status, location |-> location] # Gone
      BY RowIsNotGone DEF Row, FreeStatuses
    <3>3. /\ s.row[a] = [status |-> status, location |-> location]
          /\ s.ledger[a] = db.ledger[a]
      BY <1>2, <3>1 DEF CreateAssetRow, StoreState
    <3> QED BY <1>4, <1>5, <3>1, <3>2, <3>3 DEF KeptLedger, Exists
  <2>6. CASE op = "delete"
    <3>1. Exists(db, a) /\ event = 0 /\ ledger = db.ledger[a] /\ s = DeleteAssetRow(db, a)
      BY <1>1, <2>6 DEF Written
    <3>2. s.row[a] = Gone
      BY <1>2, <3>1 DEF DeleteAssetRow, StoreState
    <3>3. KeptLedger(work, a) = ledger
      BY <1>4, <1>5, <1>8, <3>2 DEF KeptLedger, Exists
    <3> QED BY <1>4, <3>1, <3>3 DEF KeptLedger
  <2> QED BY <2>2, <2>3, <2>4, <2>5, <2>6
<1> QED BY <1>3, <1>4, <1>6, <1>10, <1>11 DEF OneMore

\* Only the commit of a recorded operation answers with success, and only its
\* own request.
LEMMA SuccessIsACommit ==
  Direct = {} /\ AInv /\ [Next]_vars =>
    \/ db' = db /\ \A q \in Requests : pc'[q] = "ok" <=> pc[q] = "ok"
    \/ \E r \in Requests :
         /\ Recorded(r) /\ db' = work /\ pc[r] # "ok" /\ pc'[r] = "ok"
         /\ \A q \in Requests \ {r} : pc'[q] = pc[q]
<1> SUFFICES ASSUME Direct = {}, AInv, Next \/ UNCHANGED vars
             PROVE  \/ db' = db /\ \A q \in Requests : pc'[q] = "ok" <=> pc[q] = "ok"
                    \/ \E r \in Requests :
                         /\ Recorded(r) /\ db' = work /\ pc[r] # "ok" /\ pc'[r] = "ok"
                         /\ \A q \in Requests \ {r} : pc'[q] = pc[q]
  OBVIOUS
<1>1. IInv /\ WellTyped
  BY DEF AInv, IInv
<1>2. ASSUME NEW r \in Requests, Arrive(r)
      PROVE  db' = db /\ \A q \in Requests : pc'[q] = "ok" <=> pc[q] = "ok"
  BY <1>1, <1>2 DEF Arrive, Goto, WellTyped
<1>3. ASSUME NEW r \in Requests, RejectInput(r) \/ Service(r) \/ Route(r)
      PROVE  db' = db /\ \A q \in Requests : pc'[q] = "ok" <=> pc[q] = "ok"
  <2>1. db' = db
    BY <1>3, RequestIsStutter
  <2>2. pc[r] # "ok"
    BY <1>3 DEF RejectInput, Service, Route, CheckOutPrecheck, CheckOutAppend, CheckInPrecheck,
       CheckInAppend, ReadBack, UpdatePrecheck, UpdateWrite, CreateWrite, DeleteWrite,
       AuditCustody, AuditCreate, AuditUpdate, AuditDelete, At
  <2> QED BY <1>1, <1>3, <2>1, <2>2, PastTheWrite, StepAnswersNobody
<1>4. ASSUME NEW r \in Requests, Unit(r)
      PROVE  \/ db' = db /\ \A q \in Requests : pc'[q] = "ok" <=> pc[q] = "ok"
             \/ /\ Recorded(r) /\ db' = work /\ pc[r] # "ok" /\ pc'[r] = "ok"
                /\ \A q \in Requests \ {r} : pc'[q] = pc[q]
  <2>1. owner = r /\ pc[r] # "ok" /\ r \notin Direct
    BY <1>4 DEF Unit, Commit, Rollback, Crash, AInv, Steps
  <2>2. \/ Return(r, "ok") /\ pc[r] = "commit" /\ db' = work
        \/ Return(r, "error") /\ db' = db
    BY <1>4, <2>1 DEF Unit, Commit, Rollback, Crash, Discard
  <2>3. CASE Return(r, "ok") /\ pc[r] = "commit" /\ db' = work
    <3>1. Recorded(r)
      BY <2>1, <2>3 DEF AInv, Stage
    <3> QED BY <1>1, <2>1, <2>3, <3>1 DEF Return, Goto, WellTyped
  <2>4. CASE Return(r, "error") /\ db' = db
    BY <1>1, <2>1, <2>4 DEF Return, Goto, WellTyped
  <2> QED BY <2>2, <2>3, <2>4
<1>5. CASE UNCHANGED vars
  BY <1>5 DEF vars
<1> QED BY <1>2, <1>3, <1>4, <1>5 DEF Next, AllAnswered

LEMMA InitDurable == Init => DurableInv
<1> SUFFICES ASSUME Init PROVE DurableInv
  OBVIOUS
<1>1. AInv
  BY InitStages
<1>2. \A a \in Assets :
        /\ \A i \in 1..Len(db.audit[a]) : db.audit[a][i].by = Founder
        /\ db.audit[a] # <<>> => LastOf(db.audit[a]).ledger = <<>>
        /\ db.ledger[a] = <<>>
  BY DEF Init, InitialStores, Created, LastOf
<1>3. \A r \in Requests : Untouched(db, r) /\ pc[r] # "ok"
  BY <1>2, ConstantsAssumption DEF Init, Untouched, KeptLedger
<1> QED BY <1>1, <1>3 DEF DurableInv

LEMMA StepDurable == Direct = {} /\ DurableInv /\ [Next]_vars => DurableInv'
<1> SUFFICES ASSUME Direct = {}, DurableInv, [Next]_vars PROVE DurableInv'
  OBVIOUS
<1>1. AInv /\ AInv' /\ db \in StoreState
  BY StepStages DEF DurableInv, AInv, IInv, Sound
<1>2. CASE db' = db /\ \A q \in Requests : pc'[q] = "ok" <=> pc[q] = "ok"
  BY <1>1, <1>2 DEF DurableInv
<1>3. ASSUME NEW r \in Requests,
             Recorded(r), db' = work, pc[r] # "ok", pc'[r] = "ok",
             \A q \in Requests \ {r} : pc'[q] = pc[q]
      PROVE  DurableInv'
  <2>1. PICK a \in Assets : OneMore(db, work, r, a)
    BY <1>1, <1>3, RecordedIsOneMore
  <2>2. OnRecord(work, r)
    BY <1>1, <1>3, <2>1, CommitPutsOnRecord DEF DurableInv
  <2>3. \A q \in Requests \ {r} : IF pc[q] = "ok" THEN OnRecord(work, q) ELSE Untouched(work, q)
    BY <1>1, <2>1, OthersStayOnRecord DEF DurableInv
  <2> QED BY <1>1, <1>3, <2>2, <2>3 DEF DurableInv
<1> QED BY <1>1, <1>2, <1>3, SuccessIsACommit

LEMMA DurableIsDurable == DurableInv => SuccessIsDurable
<1> SUFFICES ASSUME DurableInv, NEW r \in Requests, pc[r] = "ok"
             PROVE  \E a \in Assets : \E i \in 1..Len(db.audit[a]) :
                      /\ RecordsOf(r) = {<<a, i>>}
                      /\ EventsOf(r, a) = {db.audit[a][i].event} \ {0}
  BY DEF SuccessIsDurable
<1>1. PICK a \in Assets : \E i \in 1..Len(db.audit[a]) : HasRecord(db, r, a, i)
  BY DEF DurableInv, OnRecord
<1>2. PICK i \in 1..Len(db.audit[a]) : HasRecord(db, r, a, i)
  BY <1>1
<1>3. RecordsOf(r) = {<<a, i>>}
  BY <1>2 DEF RecordsOf, HasRecord
<1>4. EventsOf(r, a) = {db.audit[a][i].event} \ {0}
  BY <1>2 DEF EventsOf, HasRecord
<1> QED BY <1>3, <1>4

\* A request that was answered with success keeps exactly one record and the
\* one event it names for ever, whatever is committed, deleted or rolled back
\* after it; a request that was not leaves nothing behind.
THEOREM SuccessEndures ==
  ASSUME Direct = {}
  PROVE  Spec => []SuccessIsDurable
<1>1. DurableInv /\ [Next]_vars => DurableInv'
  BY StepDurable
<1> QED BY <1>1, InitDurable, DurableIsDurable, PTL DEF Spec
\* All of this holds with reports beside the requests: a reader may take the
\* unit between any two of them, and the requests are as atomic, as well
\* recorded and as durable as without it.
THEOREM ReportsLeaveRequestsAlone ==
  ASSUME Direct = {}
  PROVE  ReportsSpec => /\ ImplementsAtomicCustody
                        /\ HistoryKept
                        /\ EveryChangeAudited
                        /\ []SuccessIsDurable
<1>1. ASSUME AInv, ReadNext PROVE UNCHANGED <<db, pc>> /\ AInv'
  BY <1>1, ReadsWriteNothing, ReadsKeep DEF AInv
<1>2. DurableInv /\ [ReportsNext]_allVars => DurableInv'
  <2> SUFFICES ASSUME DurableInv, [ReportsNext]_allVars PROVE DurableInv'
    OBVIOUS
  <2>1. CASE ReadNext
    BY <1>1, <2>1 DEF DurableInv
  <2>2. CASE [Next]_vars
    BY <2>2, StepDurable
  <2> QED BY <2>1, <2>2 DEF ReportsNext, allVars
<1>3. ASSUME AInv, [ReportsNext]_allVars
      PROVE  /\ AInv'
             /\ Grows(db') /\ Audited(db')
             /\ [Atomic!Next]_<<db, AnswerMap>>
  <2>1. CASE ReadNext
    <3>1. UNCHANGED <<db, pc>> /\ AInv'
      BY <1>1, <1>3, <2>1
    <3> QED BY <1>3, <3>1, NothingToTell DEF AnswerMap
  <2>2. CASE [Next]_vars
    BY <1>3, <2>2, StepStages, CommittedTells, StepIsAtomicStep
  <2> QED BY <1>3, <2>1, <2>2 DEF ReportsNext, allVars
<1>4. AInv /\ [ReportsNext]_allVars =>
        /\ [\A a \in Assets :
              /\ IsExtension(db'.ledger[a], db.ledger[a]) \/ ~Exists(db', a)
              /\ IsExtension(db'.audit[a], db.audit[a])]_vars
        /\ [\A a \in Assets : ChangedAsset(a) =>
              /\ Len(db'.audit[a]) = Len(db.audit[a]) + 1
              /\ AuditTells(a, LastOf(db'.audit[a]))]_vars
  BY <1>3 DEF Grows, Audited, Tells, ChangedAsset, AuditTells
<1>5. Init => Atomic!Init
  BY SameInit DEF Init, Atomic!Init
<1>6. ReportsSpec => ImplementsAtomicCustody
  BY <1>3, <1>5, InitStages, PTL
  DEF ReportsSpec, ReportsInit, ImplementsAtomicCustody, Atomic!Spec, Atomic!avars, AnswerMap
<1>7. ReportsSpec => HistoryKept /\ EveryChangeAudited
  BY <1>3, <1>4, InitStages, PTL DEF ReportsSpec, ReportsInit, HistoryKept, EveryChangeAudited
<1>8. ReportsSpec => []SuccessIsDurable
  BY <1>2, InitDurable, DurableIsDurable, PTL DEF ReportsSpec, ReportsInit
<1> QED BY <1>6, <1>7, <1>8
=============================================================================
