----------------------------- MODULE Locations -----------------------------
(***************************************************************************)
(* The hierarchy of locations: sites, buildings and rooms, and the assets  *)
(* placed in them.  A request checks the rules on what it reads, writes    *)
(* one row, and commits; the rules that relate several rows (ranks) hold   *)
(* only because nobody else commits between its check and its commit, and  *)
(* those the database has as constraints (parents and places exist,        *)
(* siblings have different names) are checked a second time by the write.  *)
(*                                                                         *)
(* What a unit has written is the row "after" of its request until COMMIT. *)
(* An error response rolls back, so that a request that is refused takes   *)
(* no step.  Description and isActive play no part in the rules.           *)
(***************************************************************************)
EXTENDS Naturals

CONSTANTS
  Locs, Names, Assets,
  Clients,      \* technicians and administrators
  Admins,       \* those who may delete
  None          \* no parent, no place, nobody

ASSUME LocationsAssumption ==
  /\ Admins \subseteq Clients
  /\ None \notin Locs \cup Clients

VARIABLES
  locs,      \* the committed rows
  place,     \* the committed location of each asset
  owner,     \* the client whose unit is open, or None
  req,       \* what each client's unit is about to write or has written
  audit      \* the last committed audit record

vars == <<locs, place, owner, req, audit>>

-----------------------------------------------------------------------------
(* The table *)

Kinds == {"site", "building", "room"}

\* LOCATION_RANK
Rank(kind) == IF kind = "site" THEN 0 ELSE IF kind = "building" THEN 1 ELSE 2

Row == [state: {"row"}, name: Names, kind: Kinds, parent: Locs \cup {None}]

\* An id that was not given yet, and one whose row was deleted.
NoRow == {[state |-> "unused"], [state |-> "deleted"]}
Unused == [state |-> "unused"]
Deleted == [state |-> "deleted"]

IsRow(T, l) == T[l].state = "row"
Rows(T) == {l \in Locs : IsRow(T, l)}
Children(T, l) == {k \in Rows(T) : T[k].parent = l}

\* Mutant: names are unique below a parent only in the pre-check for roots.
MutUnique(T, l, row) ==
  row.parent = None => \A k \in Rows(T) \ {l} : T[k].parent = None => T[k].name # row.name

\* The unique indexes on (parent, name) and on the names of roots.
Unique(T, l, row) ==
  \A k \in Rows(T) \ {l} : T[k].parent = row.parent => T[k].name # row.name

\* The foreign key of a row's parent.
ParentExists(T, row) == row.parent # None => IsRow(T, row.parent)

-----------------------------------------------------------------------------
(* The checks of the service *)

\* checkParentRank
ParentRanks(T, row) ==
  row.parent # None => IsRow(T, row.parent) /\ Rank(T[row.parent].kind) < Rank(row.kind)

\* rootNameTaken
RootNameTaken(T, l, name) ==
  \E k \in Rows(T) \ {l} : T[k].parent = None /\ T[k].name = name

\* Mutant: children are compared with the kind the row had.
MutKindFits(T, l, row) ==
  T[l].kind # row.kind => \A k \in Children(T, l) : Rank(T[l].kind) < Rank(T[k].kind)

\* A row that changes its kind keeps ranking above its children.
KindFits(T, l, row) ==
  T[l].kind # row.kind => \A k \in Children(T, l) : Rank(row.kind) < Rank(T[k].kind)

-----------------------------------------------------------------------------
(* Requests *)

Idle == [op |-> "none", step |-> "idle", loc |-> None, before |-> Unused, after |-> Unused,
         asset |-> None]

Request ==
  [op: {"create", "update", "delete", "place"}, step: {"write", "commit"},
   loc: Locs \cup {None}, before: Row \cup NoRow, after: Row \cup NoRow,
   asset: Assets \cup {None}]

AuditRecord == [loc: Locs, before: Row \cup NoRow, after: Row \cup NoRow]

\* The roles that the routes ask for.
MayAsk(c, op) == c \in IF op = "delete" THEN Admins ELSE Clients

\* Mutant: requests do not wait for each other.
MutGetsUnit(c) == req[c] = Idle /\ owner' = None

\* The request has got the application unit.
GetsUnit(c) == req[c] = Idle /\ owner = None /\ owner' = c

\* The checks have passed on what the unit reads.
Plan(c, op, l, after) ==
  /\ req' = [req EXCEPT ![c] =
       [op |-> op, step |-> "write", loc |-> l, before |-> locs[l], after |-> after,
        asset |-> None]]
  /\ UNCHANGED <<locs, place, audit>>

CreateLocation(c) ==
  /\ MayAsk(c, "create")
  /\ GetsUnit(c)
  /\ \E l \in Locs, row \in Row :
       /\ locs[l] = Unused
       /\ IF row.parent = None THEN ~RootNameTaken(locs, l, row.name) ELSE ParentRanks(locs, row)
       /\ Plan(c, "create", l, row)

\* The patch may set any of name, kind and parent.  The ranks are checked
\* when kind or parent are set, the name of a root when it is new there.
UpdateLocation(c) ==
  /\ MayAsk(c, "update")
  /\ GetsUnit(c)
  /\ \E l \in Rows(locs), row \in Row, moves \in BOOLEAN :
       LET old == locs[l] IN
       /\ ~moves => row.kind = old.kind /\ row.parent = old.parent
       /\ row.parent # l
       /\ moves => ParentRanks(locs, row) /\ KindFits(locs, l, row)
       /\ row.parent = None /\ (row.name # old.name \/ old.parent # None) =>
            ~RootNameTaken(locs, l, row.name)
       /\ Plan(c, "update", l, row)

\* countLocationChildren and countAssets find nothing.
DeleteLocation(c) ==
  /\ MayAsk(c, "delete")
  /\ GetsUnit(c)
  /\ \E l \in Rows(locs) :
       /\ Children(locs, l) = {} /\ \A a \in Assets : place[a] # l
       /\ Plan(c, "delete", l, Deleted)

\* An asset is created in, moved to or taken out of a location.
PlaceAsset(c) ==
  /\ GetsUnit(c)
  /\ \E a \in Assets, l \in Locs \cup {None} :
       /\ l # None => IsRow(locs, l)
       /\ req' = [req EXCEPT ![c] =
            [op |-> "place", step |-> "write", loc |-> l, before |-> Unused, after |-> Unused,
             asset |-> a]]
  /\ UNCHANGED <<locs, place, audit>>

\* The constraints that the statement of the request is checked against.
Constraints(r) ==
  /\ r.op \in {"create", "update"} => ParentExists(locs, r.after) /\ Unique(locs, r.loc, r.after)
  /\ r.op = "delete" => Children(locs, r.loc) = {} /\ \A a \in Assets : place[a] # r.loc
  /\ r.op = "place" /\ r.loc # None => IsRow(locs, r.loc)

\* A failure, a refusal or a crash: nothing remains of the unit.
RollBack(c) ==
  /\ req' = [req EXCEPT ![c] = Idle]
  /\ owner' = None
  /\ UNCHANGED <<locs, place, audit>>

\* The nested unit with the one statement; a violated constraint is 409.
Write(c) ==
  /\ req[c].step = "write"
  /\ IF Constraints(req[c])
     THEN req' = [req EXCEPT ![c].step = "commit"] /\ UNCHANGED <<locs, place, owner, audit>>
     ELSE RollBack(c)

\* The audit record and COMMIT.
Commit(c) ==
  LET r == req[c] IN
  /\ r.step = "commit"
  /\ IF r.op = "place"
     THEN place' = [place EXCEPT ![r.asset] = r.loc] /\ UNCHANGED <<locs, audit>>
     ELSE /\ locs' = [locs EXCEPT ![r.loc] = r.after]
          /\ audit' = [loc |-> r.loc, before |-> r.before, after |-> r.after]
          /\ UNCHANGED place
  /\ req' = [req EXCEPT ![c] = Idle]
  /\ owner' = None

Abort(c) == req[c] # Idle /\ RollBack(c)

-----------------------------------------------------------------------------

Init ==
  /\ locs = [l \in Locs |-> Unused]
  /\ place = [a \in Assets |-> None]
  /\ owner = None
  /\ req = [c \in Clients |-> Idle]
  /\ audit = None

Next ==
  \E c \in Clients :
    \/ CreateLocation(c) \/ UpdateLocation(c) \/ DeleteLocation(c) \/ PlaceAsset(c)
    \/ Write(c) \/ Commit(c) \/ Abort(c)

Spec == Init /\ [][Next]_vars

-----------------------------------------------------------------------------
(* Properties *)

\* Types; a client with a pending write is the one whose unit is open.
TypeOK ==
  /\ locs \in [Locs -> Row \cup NoRow]
  /\ place \in [Assets -> Locs \cup {None}]
  /\ owner \in Clients \cup {None}
  /\ req \in [Clients -> Request \cup {Idle}]
  /\ audit \in AuditRecord \cup {None}
  /\ \A c \in Clients : req[c] # Idle <=> owner = c

\* l is a row whose parent, and that one's parent, lead to a root: no more
\* than three levels, and no way back.
LeadsToRoot(l) ==
  /\ IsRow(locs, l)
  /\ LET p == locs[l].parent IN
     p # None =>
       /\ IsRow(locs, p)
       /\ LET g == locs[p].parent IN
          g # None => IsRow(locs, g) /\ locs[g].parent = None

\* Whatever is moved, re-classified, deleted or placed at the same time: the
\* locations are a forest of at most three levels, and every asset that has
\* a place is somewhere in it.
Forest ==
  /\ \A l \in Rows(locs) : LeadsToRoot(l)
  /\ \A a \in Assets : place[a] # None => LeadsToRoot(place[a])

\* The names from a location up to its root.
Path(l) ==
  LET p == locs[l].parent IN
  IF p = None THEN <<locs[l].name>>
  ELSE LET g == locs[p].parent IN
       IF g = None THEN <<locs[l].name, locs[p].name>>
       ELSE <<locs[l].name, locs[p].name, locs[g].name>>

\* A path of names leads to one location: what the paths that the web client
\* shows rely on (an import refers to a location by its own name or its id),
\* and what the service's check of names at the root adds to the index.
PathsIdentify ==
  \A k, l \in Rows(locs) : Path(k) = Path(l) => k = l

\* Every committed change of a location is recorded with the row that it
\* replaced and the row that it left.
Truthful ==
  \A l \in Locs : locs'[l] # locs[l] =>
    audit' = [loc |-> l, before |-> locs[l], after |-> locs'[l]]

AuditTruthful == [][Truthful]_vars
=============================================================================
