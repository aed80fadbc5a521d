-------------------------- MODULE LocationsProofs --------------------------
(***************************************************************************)
(* The forest of locations, for any locations, names, assets and clients.  *)
(* Ranks strictly decrease towards the root, and there are three of them;  *)
(* that this survives every commit needs what the unit that commits has    *)
(* checked (Planned), which still holds because only one unit is open.     *)
(***************************************************************************)
EXTENDS Locations, TLAPS

LEMMA Fresh == Admins \subseteq Clients /\ None \notin Locs \cup Clients
BY LocationsAssumption DEF LocationsAssumption

-----------------------------------------------------------------------------
(* The inductive invariant *)

\* The committed rows obey the rules of the service and of the database.
TreeInv ==
  /\ \A l \in Rows(locs) : ParentRanks(locs, locs[l]) /\ Unique(locs, l, locs[l])
  /\ \A a \in Assets : place[a] # None => IsRow(locs, place[a])

\* The row of the request is one that may be committed.
PlannedRow(r) ==
  /\ r.after \in Row
  /\ ParentRanks(locs, r.after) /\ r.after.parent # r.loc
  /\ \A k \in Children(locs, r.loc) : Rank(r.after.kind) < Rank(locs[k].kind)

\* What the checks of an open unit have found out.
Planned(r) ==
  /\ r.op = "place" => r.asset \in Assets /\ (r.loc # None => IsRow(locs, r.loc))
  /\ r.op # "place" => r.loc \in Locs /\ r.before = locs[r.loc]
  /\ r.op \in {"create", "update"} => PlannedRow(r)
  /\ r.op = "delete" => r.after = Deleted
  /\ r.step = "commit" => Constraints(r)

UnitInv == \A c \in Clients : req[c] # Idle => Planned(req[c])

IInv == TypeOK /\ TreeInv /\ UnitInv

-----------------------------------------------------------------------------
(* The table *)

\* A rank is one of 0, 1 and 2.
LEMMA Ranks == \A kind : Rank(kind) \in 0..2
BY DEF Rank

\* Rows are told from ids without one by their state.
LEMMA RowState ==
  /\ \A row \in Row : row.state = "row" /\ row.name \in Names /\ row.kind \in Kinds
                      /\ row.parent \in Locs \cup {None}
  /\ Unused.state # "row" /\ Deleted.state # "row"
  /\ NoRow = {Unused, Deleted}
BY DEF Row, Unused, Deleted, NoRow

\* What the type of the table says of its rows.
LEMMA TableType ==
  ASSUME TypeOK
  PROVE  \A l \in Rows(locs) : /\ l \in Locs /\ locs[l] \in Row
                               /\ locs[l].parent \in Locs \cup {None}
BY RowState DEF TypeOK, Rows, IsRow

\* A pending request is not an idle one.
LEMMA RequestType ==
  \A r \in Request : /\ r # Idle
                     /\ r.op \in {"create", "update", "delete", "place"}
                     /\ r.step \in {"write", "commit"}
                     /\ r.loc \in Locs \cup {None} /\ r.asset \in Assets \cup {None}
                     /\ r.before \in Row \cup NoRow /\ r.after \in Row \cup NoRow
BY DEF Request, Idle

-----------------------------------------------------------------------------
(* The start, and the steps that commit nothing *)

LEMMA InitEstablishes == Init => IInv
<1> SUFFICES ASSUME Init PROVE IInv
  OBVIOUS
<1>1. Rows(locs) = {}
  BY RowState DEF Init, Rows, IsRow
<1>2. TypeOK
  BY Fresh, RowState DEF Init, TypeOK
<1> QED
  BY <1>1, <1>2 DEF Init, IInv, TreeInv, UnitInv

\* A request whose checks have passed gets the unit.
LEMMA OpensUnit ==
  ASSUME IInv, NEW c \in Clients, NEW r \in Request, GetsUnit(c), Planned(r),
         req' = [req EXCEPT ![c] = r], UNCHANGED <<locs, place, audit>>
  PROVE  IInv'
<1>1. \A d \in Clients : req'[d] = IF d = c THEN r ELSE req[d]
  BY DEF IInv, TypeOK
<1>2. \A d \in Clients \ {c} : req[d] = Idle
  BY Fresh DEF IInv, TypeOK, GetsUnit
<1>3. TypeOK'
  BY <1>1, <1>2, RequestType DEF IInv, TypeOK, GetsUnit
<1>4. TreeInv'
  BY DEF IInv, TreeInv, Rows, IsRow, ParentRanks, Unique
<1>5. Planned(r)'
  BY DEF Planned, PlannedRow, ParentRanks, Children, Rows, IsRow, Constraints, ParentExists, Unique
<1>6. UnitInv'
  BY <1>1, <1>2, <1>5 DEF UnitInv
<1> QED
  BY <1>3, <1>4, <1>6 DEF IInv

\* An open unit ends without a trace.
LEMMA RollBackKeeps ==
  ASSUME IInv, NEW c \in Clients, req[c] # Idle, RollBack(c)
  PROVE  IInv'
<1>1. \A d \in Clients : req'[d] = Idle
  BY Fresh DEF IInv, TypeOK, RollBack
<1>2. TypeOK'
  BY <1>1, Fresh DEF IInv, TypeOK, RollBack
<1>3. TreeInv'
  BY DEF IInv, TreeInv, Rows, IsRow, ParentRanks, Unique, RollBack
<1> QED
  BY <1>1, <1>2, <1>3 DEF IInv, UnitInv

\* A statement that passes the constraints waits for COMMIT.
LEMMA WriteKeeps ==
  ASSUME IInv, NEW c \in Clients, Write(c)
  PROVE  IInv'
<1>1. req[c] # Idle
  BY DEF Write, Idle
<1>2. CASE ~Constraints(req[c])
  BY <1>1, <1>2, RollBackKeeps DEF Write
<1>3. CASE Constraints(req[c])
  <2> DEFINE r == [req[c] EXCEPT !.step = "commit"]
  <2>1. req[c] \in Request
    BY <1>1 DEF IInv, TypeOK
  <2>2. /\ r \in Request /\ r.op = req[c].op /\ r.loc = req[c].loc /\ r.after = req[c].after
        /\ r.before = req[c].before /\ r.asset = req[c].asset /\ r.step = "commit"
    BY <2>1 DEF Request
  <2>3. req' = [req EXCEPT ![c] = r] /\ UNCHANGED <<locs, place, owner, audit>>
    BY <1>3 DEF Write
  <2> HIDE DEF r
  <2>4. \A d \in Clients : req'[d] = IF d = c THEN r ELSE req[d]
    BY <2>3 DEF IInv, TypeOK
  <2>5. TypeOK'
    BY <1>1, <2>2, <2>3, <2>4, RequestType DEF IInv, TypeOK
  <2>6. TreeInv'
    BY <2>3 DEF IInv, TreeInv, Rows, IsRow, ParentRanks, Unique
  <2>7. Planned(r)
    BY <1>1, <1>3, <2>2 DEF IInv, UnitInv, Planned, PlannedRow, Constraints
  <2>8. \A q : Planned(q)' <=> Planned(q)
    BY <2>3 DEF Planned, PlannedRow, ParentRanks, Children, Rows, IsRow, Constraints,
       ParentExists, Unique
  <2>9. UnitInv'
    BY <2>4, <2>7, <2>8 DEF IInv, UnitInv
  <2> QED
    BY <2>5, <2>6, <2>9 DEF IInv
<1> QED
  BY <1>2, <1>3

-----------------------------------------------------------------------------
(* The requests *)

\* A row is neither an unused nor a deleted one.
LEMMA PlanIsRequest ==
  ASSUME TypeOK, NEW op \in {"create", "update", "delete"}, NEW l \in Locs,
         NEW after \in Row \cup NoRow
  PROVE  [op |-> op, step |-> "write", loc |-> l, before |-> locs[l], after |-> after,
          asset |-> None] \in Request
BY DEF TypeOK, Request

LEMMA CreateKeeps ==
  ASSUME IInv, NEW c \in Clients, CreateLocation(c)
  PROVE  IInv'
<1>1. PICK l \in Locs, row \in Row :
        /\ locs[l] = Unused
        /\ row.parent # None => ParentRanks(locs, row)
        /\ Plan(c, "create", l, row)
  BY DEF CreateLocation
<1> DEFINE r == [op |-> "create", step |-> "write", loc |-> l, before |-> locs[l],
                 after |-> row, asset |-> None]
<1>2. r \in Request
  BY PlanIsRequest DEF IInv
<1>3. row.parent # l
  BY <1>1, RowState, Fresh DEF ParentRanks, IsRow
<1>4. Children(locs, l) = {}
  BY <1>1, RowState, Fresh DEF IInv, TreeInv, ParentRanks, Children, IsRow
<1>5. PlannedRow(r)
  BY <1>1, <1>3, <1>4 DEF PlannedRow, ParentRanks
<1>6. Planned(r)
  BY <1>5 DEF Planned
<1> QED
  BY <1>1, <1>2, <1>6, OpensUnit DEF CreateLocation, Plan

LEMMA UpdateKeeps ==
  ASSUME IInv, NEW c \in Clients, UpdateLocation(c)
  PROVE  IInv'
<1>1. PICK l \in Rows(locs), row \in Row, moves \in BOOLEAN :
        /\ ~moves => row.kind = locs[l].kind /\ row.parent = locs[l].parent
        /\ row.parent # l
        /\ moves => ParentRanks(locs, row) /\ KindFits(locs, l, row)
        /\ Plan(c, "update", l, row)
  BY DEF UpdateLocation
<1>2. l \in Locs
  BY DEF Rows
<1> DEFINE r == [op |-> "update", step |-> "write", loc |-> l, before |-> locs[l],
                 after |-> row, asset |-> None]
<1>3. r \in Request
  BY <1>2, PlanIsRequest DEF IInv
<1>4. ParentRanks(locs, row)
  BY <1>1 DEF IInv, TreeInv, ParentRanks
<1>5. \A k \in Children(locs, l) : Rank(locs[l].kind) < Rank(locs[k].kind)
  BY <1>2, Fresh DEF IInv, TreeInv, ParentRanks, Children
<1>6. \A k \in Children(locs, l) : Rank(row.kind) < Rank(locs[k].kind)
  BY <1>1, <1>5 DEF KindFits
<1>7. PlannedRow(r)
  BY <1>1, <1>4, <1>6 DEF PlannedRow
<1>8. Planned(r)
  BY <1>2, <1>7 DEF Planned
<1> QED
  BY <1>1, <1>3, <1>8, OpensUnit DEF UpdateLocation, Plan

LEMMA DeleteKeeps ==
  ASSUME IInv, NEW c \in Clients, DeleteLocation(c)
  PROVE  IInv'
<1>1. PICK l \in Rows(locs) : Plan(c, "delete", l, Deleted)
  BY DEF DeleteLocation
<1>2. l \in Locs
  BY DEF Rows
<1> DEFINE r == [op |-> "delete", step |-> "write", loc |-> l, before |-> locs[l],
                 after |-> Deleted, asset |-> None]
<1>3. r \in Request
  BY <1>2, RowState, PlanIsRequest DEF IInv
<1>4. Planned(r)
  BY <1>2 DEF Planned
<1> QED
  BY <1>1, <1>3, <1>4, OpensUnit DEF DeleteLocation, Plan

LEMMA PlaceKeeps ==
  ASSUME IInv, NEW c \in Clients, PlaceAsset(c)
  PROVE  IInv'
<1>1. PICK a \in Assets, l \in Locs \cup {None} :
        /\ l # None => IsRow(locs, l)
        /\ req' = [req EXCEPT ![c] =
             [op |-> "place", step |-> "write", loc |-> l, before |-> Unused,
              after |-> Unused, asset |-> a]]
  BY DEF PlaceAsset
<1> DEFINE r == [op |-> "place", step |-> "write", loc |-> l, before |-> Unused,
                 after |-> Unused, asset |-> a]
<1>2. r \in Request
  BY RowState DEF Request
<1>3. Planned(r)
  BY <1>1 DEF Planned
<1> QED
  BY <1>1, <1>2, <1>3, OpensUnit DEF PlaceAsset

-----------------------------------------------------------------------------
(* COMMIT *)

\* The row that a create or an update leaves
LEMMA RowsCommit ==
  ASSUME TypeOK, TreeInv, NEW l \in Locs, NEW row \in Row,
         ParentRanks(locs, row), row.parent # l,
         \A k \in Children(locs, l) : Rank(row.kind) < Rank(locs[k].kind),
         Unique(locs, l, row),
         locs' = [locs EXCEPT ![l] = row], UNCHANGED place
  PROVE  TreeInv'
<1>1. \A k \in Locs : locs'[k] = IF k = l THEN row ELSE locs[k]
  BY DEF TypeOK
<1>2. Rows(locs') = Rows(locs) \cup {l}
  BY <1>1, RowState DEF Rows, IsRow
<1>3. \A k \in Rows(locs) : IsRow(locs', k)
  BY <1>2 DEF Rows
<1>4. ASSUME NEW k \in Rows(locs')
      PROVE  ParentRanks(locs', locs'[k])
  <2>1. CASE k = l
    BY <1>1, <2>1, RowState DEF ParentRanks, IsRow
  <2>2. CASE k # l
    <3>1. k \in Rows(locs) /\ k \in Locs /\ locs'[k] = locs[k]
      BY <1>1, <1>2, <2>2 DEF Rows
    <3>2. ParentRanks(locs, locs[k])
      BY <3>1 DEF TreeInv
    <3>3. locs[k].parent \in Locs \cup {None}
      BY <3>1, TableType
    <3>4. CASE locs[k].parent = l
      BY <1>1, <3>1, <3>4, RowState DEF ParentRanks, IsRow, Children
    <3>5. CASE locs[k].parent # l
      BY <1>1, <3>1, <3>2, <3>3, <3>5 DEF ParentRanks, IsRow
    <3> QED
      BY <3>4, <3>5
  <2> QED
    BY <2>1, <2>2
<1>5. ASSUME NEW k \in Rows(locs')
      PROVE  Unique(locs', k, locs'[k])
  <2>1. \A j \in Rows(locs) \ {l} : locs'[j] = locs[j] /\ Unique(locs, j, locs[j])
    BY <1>1 DEF TreeInv, Rows
  <2>2. locs'[l] = row
    BY <1>1
  <2>3. CASE k = l
    BY <1>2, <2>1, <2>2, <2>3 DEF Unique
  <2>4. CASE k # l
    <3>1. k \in Rows(locs) \ {l}
      BY <1>2, <2>4
    <3> SUFFICES ASSUME NEW j \in Rows(locs') \ {k}, locs'[j].parent = locs'[k].parent
                 PROVE  locs'[j].name # locs'[k].name
      BY DEF Unique
    <3>2. CASE j = l
      BY <2>1, <2>2, <3>1, <3>2 DEF Unique
    <3>3. CASE j # l
      BY <1>2, <2>1, <3>1, <3>3 DEF Unique
    <3> QED
      BY <3>2, <3>3
  <2> QED
    BY <2>3, <2>4
<1>6. \A a \in Assets : place'[a] # None => IsRow(locs', place'[a])
  BY <1>1, <1>3, Fresh DEF TypeOK, TreeInv, Rows
<1> QED
  BY <1>4, <1>5, <1>6 DEF TreeInv

\* The row that nothing refers to goes.
LEMMA DeleteCommits ==
  ASSUME TypeOK, TreeInv, NEW l \in Locs,
         Children(locs, l) = {}, \A a \in Assets : place[a] # l,
         locs' = [locs EXCEPT ![l] = Deleted], UNCHANGED place
  PROVE  TreeInv'
<1>1. \A k \in Locs : locs'[k] = IF k = l THEN Deleted ELSE locs[k]
  BY DEF TypeOK
<1>2. Rows(locs') = Rows(locs) \ {l}
  BY <1>1, RowState DEF Rows, IsRow
<1>3. ASSUME NEW k \in Rows(locs')
      PROVE  ParentRanks(locs', locs'[k]) /\ Unique(locs', k, locs'[k])
  <2>1. k \in Rows(locs) /\ k \in Locs /\ locs'[k] = locs[k]
    BY <1>1, <1>2 DEF Rows
  <2>2. locs[k].parent # l /\ locs[k].parent \in Locs \cup {None}
    BY <2>1, TableType DEF Children
  <2>3. ParentRanks(locs', locs'[k])
    BY <1>1, <2>1, <2>2 DEF TreeInv, ParentRanks, IsRow
  <2>4. Unique(locs', k, locs'[k])
    BY <1>1, <1>2, <2>1 DEF TreeInv, Unique, Rows
  <2> QED
    BY <2>3, <2>4
<1>4. \A a \in Assets : place'[a] # None => IsRow(locs', place'[a])
  BY <1>1 DEF TypeOK, TreeInv, IsRow
<1> QED
  BY <1>3, <1>4 DEF TreeInv

LEMMA CommitKeeps ==
  ASSUME IInv, NEW c \in Clients, Commit(c)
  PROVE  IInv'
<1> DEFINE r == req[c]
<1>1. r # Idle /\ r.step = "commit"
  BY DEF Commit, Idle
<1>2. r \in Request /\ Planned(r)
  BY <1>1 DEF IInv, TypeOK, UnitInv
<1>3. Constraints(r)
  BY <1>1, <1>2 DEF Planned
<1>4. \A d \in Clients : req'[d] = Idle
  BY <1>1, Fresh DEF IInv, TypeOK, Commit
<1> HIDE DEF r
<1>5. r.op = "place" \/ r.op \in {"create", "update"} \/ r.op = "delete"
  BY <1>2, RequestType
<1>6. IF r.op = "place"
      THEN place' = [place EXCEPT ![r.asset] = r.loc] /\ UNCHANGED <<locs, audit>>
      ELSE /\ locs' = [locs EXCEPT ![r.loc] = r.after]
           /\ audit' = [loc |-> r.loc, before |-> r.before, after |-> r.after]
           /\ UNCHANGED place
  BY DEF Commit, r
<1>7. TypeOK'
  <2>1. req' \in [Clients -> Request \cup {Idle}] /\ owner' = None
    BY <1>4 DEF IInv, TypeOK, Commit
  <2>2. CASE r.op = "place"
    BY <1>2, <1>4, <1>6, <2>1, <2>2, RequestType, Fresh DEF IInv, TypeOK
  <2>3. CASE r.op # "place"
    <3>1. r.loc \in Locs /\ r.before \in Row \cup NoRow /\ r.after \in Row \cup NoRow
      BY <1>2, <2>3, RequestType DEF Planned
    <3>2. audit' \in AuditRecord
      BY <1>6, <2>3, <3>1 DEF AuditRecord
    <3>3. locs' \in [Locs -> Row \cup NoRow]
      BY <1>6, <2>3, <3>1 DEF IInv, TypeOK
    <3> QED
      BY <1>4, <1>6, <2>1, <2>3, <3>2, <3>3, Fresh DEF IInv, TypeOK
  <2> QED
    BY <2>2, <2>3
<1>8. TreeInv'
  <2>1. CASE r.op = "place"
    <3>1. \A a \in Assets : place'[a] = IF a = r.asset THEN r.loc ELSE place[a]
      BY <1>6, <2>1 DEF IInv, TypeOK
    <3>2. UNCHANGED locs
      BY <1>6, <2>1
    <3> QED
      BY <1>2, <2>1, <3>1, <3>2 DEF IInv, TreeInv, Planned, Rows, IsRow, ParentRanks, Unique
  <2>2. CASE r.op \in {"create", "update"}
    BY <1>2, <1>3, <1>6, <2>2, RowsCommit DEF IInv, Planned, PlannedRow, Constraints
  <2>3. CASE r.op = "delete"
    BY <1>2, <1>3, <1>6, <2>3, DeleteCommits DEF IInv, Planned, Constraints
  <2> QED
    BY <1>5, <2>1, <2>2, <2>3
<1> QED
  BY <1>4, <1>7, <1>8 DEF IInv, UnitInv

-----------------------------------------------------------------------------
(* The theorems *)

LEMMA NextKeeps == IInv /\ [Next]_vars => IInv'
<1> SUFFICES ASSUME IInv, [Next]_vars PROVE IInv'
  OBVIOUS
<1>1. ASSUME NEW c \in Clients, CreateLocation(c) PROVE IInv'
  BY <1>1, CreateKeeps
<1>2. ASSUME NEW c \in Clients, UpdateLocation(c) PROVE IInv'
  BY <1>2, UpdateKeeps
<1>3. ASSUME NEW c \in Clients, DeleteLocation(c) PROVE IInv'
  BY <1>3, DeleteKeeps
<1>4. ASSUME NEW c \in Clients, PlaceAsset(c) PROVE IInv'
  BY <1>4, PlaceKeeps
<1>5. ASSUME NEW c \in Clients, Write(c) PROVE IInv'
  BY <1>5, WriteKeeps
<1>6. ASSUME NEW c \in Clients, Commit(c) PROVE IInv'
  BY <1>6, CommitKeeps
<1>7. ASSUME NEW c \in Clients, Abort(c) PROVE IInv'
  BY <1>7, RollBackKeeps DEF Abort
<1>8. CASE UNCHANGED vars
  BY <1>8 DEF vars, IInv, TypeOK, TreeInv, UnitInv, Planned, PlannedRow, ParentRanks, Children,
     Rows, IsRow, Constraints, ParentExists, Unique
<1> QED
  BY <1>1, <1>2, <1>3, <1>4, <1>5, <1>6, <1>7, <1>8 DEF Next

LEMMA InvariantHolds == Spec => []IInv
BY InitEstablishes, NextKeeps, PTL DEF Spec

\* Type correctness; a client with a pending write is the one whose unit is
\* open.
THEOREM TypeCorrect == Spec => []TypeOK
<1>1. IInv => TypeOK
  BY DEF IInv
<1> QED
  BY <1>1, InvariantHolds, PTL

\* Ranks decrease towards the root, so that two steps up there is a root.
LEMMA RowsLeadToRoots ==
  ASSUME IInv, NEW l \in Rows(locs)
  PROVE  LeadsToRoot(l)
<1>1. \A k \in Rows(locs) : k \in Locs /\ (locs[k].parent # None =>
        locs[k].parent \in Rows(locs) /\ Rank(locs[locs[k].parent].kind) < Rank(locs[k].kind))
  BY TableType DEF IInv, TreeInv, ParentRanks, Rows
<1>2. \A k \in Rows(locs) : Rank(locs[k].kind) \in 0..2
  BY Ranks
<1> QED
  BY <1>1, <1>2 DEF LeadsToRoot, Rows

\* The committed locations are a forest of at most three levels, and every
\* asset that has a place is somewhere in it.
THEOREM LocationsAreAForest == Spec => []Forest
<1>1. IInv => Forest
  <2> SUFFICES ASSUME IInv PROVE Forest
    OBVIOUS
  <2>1. \A a \in Assets : place[a] # None => place[a] \in Rows(locs)
    BY DEF IInv, TypeOK, TreeInv, Rows
  <2> QED
    BY <2>1, RowsLeadToRoots DEF Forest
<1> QED
  BY <1>1, InvariantHolds, PTL

\* A path of names leads to one location.
THEOREM PathsAreUnique == Spec => []PathsIdentify
<1>1. IInv => PathsIdentify
  <2> SUFFICES ASSUME IInv, NEW k \in Rows(locs), NEW l \in Rows(locs), Path(k) = Path(l)
               PROVE  k = l
    BY DEF PathsIdentify
  <2>1. \A i, j \in Rows(locs) :
          locs[i].parent = locs[j].parent /\ locs[i].name = locs[j].name => i = j
    BY DEF IInv, TreeInv, Unique
  <2>2. \A i \in Rows(locs) : LeadsToRoot(i)
    BY RowsLeadToRoots
  <2>3. \A i \in Rows(locs) : locs[i].parent # None => locs[i].parent \in Rows(locs)
    BY TableType DEF IInv, TreeInv, ParentRanks, Rows
  <2> QED
    BY <2>1, <2>2, <2>3 DEF Path, LeadsToRoot
<1> QED
  BY <1>1, InvariantHolds, PTL

\* Every committed change of a location is recorded with the row before and
\* the row after it.
THEOREM ChangesAreRecorded == Spec => AuditTruthful
<1>1. IInv /\ [Next]_vars => [Truthful]_vars
  <2> SUFFICES ASSUME IInv, Next PROVE Truthful
    OBVIOUS
  <2>1. CASE UNCHANGED locs
    BY <2>1 DEF Truthful
  <2>2. ASSUME NEW c \in Clients, Commit(c)
        PROVE  Truthful
    <3>1. req[c] # Idle /\ Planned(req[c])
      BY <2>2 DEF IInv, UnitInv, Commit, Idle
    <3> QED
      BY <2>2, <3>1 DEF Truthful, Commit, Planned, IInv, TypeOK
  <2>3. UNCHANGED locs \/ \E c \in Clients : Commit(c)
    BY DEF Next, CreateLocation, UpdateLocation, DeleteLocation, PlaceAsset, Plan, Write,
       RollBack, Abort
  <2> QED
    BY <2>1, <2>2, <2>3
<1> QED
  BY <1>1, InvariantHolds, PTL DEF Spec, AuditTruthful

=============================================================================
