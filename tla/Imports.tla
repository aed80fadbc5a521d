------------------------------ MODULE Imports ------------------------------
(***************************************************************************)
(* CSV imports and the exceptions they raise.  An import reads the         *)
(* locations once, writes a job, then handles each row in a unit of work   *)
(* of its own (UnitOfWork: all of it or nothing, one unit at a time), and  *)
(* closes the job in a last unit.  Between its units anybody may create,   *)
(* edit or delete, another import may run, a unit may fail, and the        *)
(* process may die.                                                        *)
(*                                                                         *)
(* A row is what matching looks at: its identity fields and the location   *)
(* it refers to.  A row without an identity stands for every row that its  *)
(* cells alone make an error.  The file is its own hash.                   *)
(*                                                                         *)
(* The match and the insert of a row are in one unit, so that the insert   *)
(* meets no identity that the match has not seen: the second match of      *)
(* processRow, after a unique violation, is never needed here.             *)
(***************************************************************************)
EXTENDS Naturals, FiniteSets, Sequences

CONSTANTS
  Runs,         \* requests to import
  Reviewers,    \* people deciding exceptions
  Keys,         \* the identity fields: asset_tag, serial_number, system_uuid
  Values,       \* their normalized values
  Locs,         \* locations
  Files,        \* the files imported: sequences of rows
  Given,        \* the identities that other requests give to assets
  None,
  MaxOthers,    \* bound: creations, edits and deletions by other requests
  MaxFaults     \* bound: failing units and crashes

Identities == [Keys -> Values \cup {None}]

ASSUME ImportsAssumption ==
  /\ MaxOthers \in Nat /\ MaxFaults \in Nat
  /\ None \notin Values \cup Locs \cup Runs
  /\ Given \subseteq Identities
  /\ Files \subseteq Seq([ident : Identities, loc : Locs \cup {None}])

VARIABLES
  assets,      \* committed assets, oldest first: identity, location, importing run
  locs,        \* the locations that exist
  jobs,        \* per run, the committed row of its job
  rows,        \* per run, the committed import rows
  exceptions,  \* committed exceptions, oldest first
  trail,       \* committed audit records of imported assets
  decisions,   \* committed audit records of decided exceptions
  run,         \* per run, what the service holds in memory
  seen,        \* per reviewer, the exception read as open, or 0
  others,      \* steps of other requests so far
  faults       \* faults so far

store == <<assets, locs, jobs, rows, exceptions, trail, decisions>>
vars == <<store, run, seen, others, faults>>

Outcomes == {"created", "skipped", "collision", "error"}
Modes == {"commit", "dry_run"}
Ended == {"done", "thrown", "crashed"}

NoCounts == [o \in Outcomes |-> 0]
Job(status, counts) == [status |-> status, counts |-> counts]
\* Before a request, and the file of one that was not sent.
Idle == [phase |-> "idle", mode |-> "dry_run", file |-> << >>, index |-> {},
         counts |-> NoCounts, earlier |-> {}, wrote |-> {}]

-----------------------------------------------------------------------------
(* The verdict on a row *)

RowNumber(r) == Len(rows[r]) + 1
CurrentRow(r) == run[r].file[RowNumber(r)]
Carried(row) == {k \in Keys : row.ident[k] # None}

\* A row plan can be built: an identity, and a location of the index.
Valid(r, row) == Carried(row) # {} /\ row.loc \in run[r].index \cup {None}

\* Mutant: rows clash in the file only if they are equal.
MutInFileDuplicate(r) ==
  \E i \in 1 .. Len(rows[r]) : run[r].file[i].ident = CurrentRow(r).ident

\* An identity of the row was claimed by an earlier valid row of the file.
InFileDuplicate(r) ==
  \E i \in 1 .. Len(rows[r]), k \in Carried(CurrentRow(r)) :
    /\ Valid(r, run[r].file[i])
    /\ run[r].file[i].ident[k] = CurrentRow(r).ident[k]

\* getAssetByIdentityKey
AssetsWith(key, value) == {a \in DOMAIN assets : assets[a].ident[key] = value}

\* The assets that have an identity of the row.
Matches(row) == UNION {AssetsWith(k, row.ident[k]) : k \in Carried(row)}

\* Every identity of the row is the asset's.
IsDuplicate(row, a) ==
  Matches(row) = {a} /\ \A k \in Carried(row) : assets[a].ident[k] = row.ident[k]

\* matchExisting, and processRow around it
Verdict(r) ==
  LET row == CurrentRow(r)
  IN  CASE ~Valid(r, row) \/ InFileDuplicate(r) -> "error"
        [] Valid(r, row) /\ ~InFileDuplicate(r) /\ Matches(row) = {} -> "created"
        [] Valid(r, row) /\ ~InFileDuplicate(r)
             /\ \E a \in DOMAIN assets : IsDuplicate(row, a) -> "skipped"
        [] OTHER -> "collision"

Creates(r) == Verdict(r) = "created" /\ run[r].mode = "commit"

\* Mutant: exceptions are raised whatever the mode.
MutCollides(r) == Verdict(r) = "collision"

Collides(r) == Verdict(r) = "collision" /\ run[r].mode = "commit"

\* collisionSignature
Signature(row) == [ident |-> row.ident, assets |-> Matches(row)]

\* A new exception
Open(signature, r) == [signature |-> signature, status |-> "open", job |-> r]

\* Mutant: only the exceptions of the same job are compared.
MutOpenSignatures(r) ==
  {exceptions[e].signature :
     e \in {x \in DOMAIN exceptions :
              exceptions[x].status = "open" /\ exceptions[x].job = r}}

\* Mutant: a decided exception keeps suppressing its conflict.
MutAllSignatures(r) == {exceptions[e].signature : e \in DOMAIN exceptions}

\* loadOpenCollisionSignatures
OpenSignatures(r) ==
  {exceptions[e].signature :
     e \in {x \in DOMAIN exceptions : exceptions[x].status = "open"}}

-----------------------------------------------------------------------------
(* The import *)

InPhase(r, phase) == run[r].phase = phase
Go(r, phase) == run' = [run EXCEPT ![r].phase = phase]

\* History: "wrote" collects, from the start of a dry run on, who has changed
\* the assets or the locations.  When it ends, only an empty set is of use.
Noting(R, who) ==
  [q \in Runs |->
     IF R[q].phase # "idle" /\ R[q].mode = "dry_run" /\ q # who
     THEN [R[q] EXCEPT !.wrote = @ \cup {who}]
     ELSE R[q]]

\* loadLocationIndex: one read on the store, outside of a unit.
LocationIndex == locs

\* The file parses and has at most MAX_IMPORT_ROWS rows.  "earlier" is history.
Start(r, mode, file) ==
  /\ InPhase(r, "idle")
  /\ run' = [run EXCEPT ![r] =
       [phase |-> "job", mode |-> mode, file |-> file, index |-> LocationIndex,
        counts |-> NoCounts, wrote |-> {},
        earlier |-> {q \in Runs : InPhase(q, "done") /\ run[q].wrote = {}}]]
  /\ UNCHANGED <<store, seen, others, faults>>

OpenJob(r) ==
  /\ InPhase(r, "job")
  /\ jobs' = [jobs EXCEPT ![r] = Job("running", NoCounts)]
  /\ Go(r, "rows")
  /\ UNCHANGED <<assets, locs, rows, exceptions, trail, decisions,
                 seen, others, faults>>

\* The import row: its outcome, and the asset it created or is a duplicate of.
Reported(r, new) ==
  [outcome |-> Verdict(r),
   asset |-> CASE Creates(r) -> new
               [] Verdict(r) = "skipped" -> CHOOSE a \in Matches(CurrentRow(r)) : TRUE
               [] OTHER -> 0]

\* The foreign key of assets.location_id
PlaceExists(row) == row.loc \in locs \cup {None}

\* The unit of one row commits, and only then the counters in memory advance.
ImportRow(r) ==
  LET row == CurrentRow(r)
      outcome == Verdict(r)
      counts == [run[r].counts EXCEPT ![outcome] = @ + 1]
      new == Len(assets) + 1
  IN  /\ InPhase(r, "rows")
      /\ RowNumber(r) <= Len(run[r].file)
      /\ IF Creates(r)
         THEN /\ PlaceExists(row)
              /\ assets' = Append(assets, [ident |-> row.ident, loc |-> row.loc, by |-> r])
              /\ trail' = trail \cup {[asset |-> new, job |-> r]}
         ELSE UNCHANGED <<assets, trail>>
      /\ IF Collides(r) /\ Signature(row) \notin OpenSignatures(r)
         THEN exceptions' = Append(exceptions, Open(Signature(row), r))
         ELSE UNCHANGED exceptions
      /\ rows' = [rows EXCEPT ![r] = Append(@, Reported(r, new))]
      /\ jobs' = [jobs EXCEPT ![r].counts = counts]
      /\ run' = LET R == [run EXCEPT ![r].counts = counts]
                IN  IF Creates(r) THEN Noting(R, r) ELSE R
      /\ UNCHANGED <<locs, decisions, seen, others, faults>>

\* The insert violates the foreign key; this is not the unique violation that
\* processRow handles, so that the unit rolls back and the run goes to its end.
RowRefused(r) ==
  /\ InPhase(r, "rows")
  /\ RowNumber(r) <= Len(run[r].file)
  /\ Creates(r) /\ ~PlaceExists(CurrentRow(r))
  /\ Go(r, "cleanup")
  /\ UNCHANGED <<store, seen, others, faults>>

CompleteJob(r) ==
  /\ InPhase(r, "rows")
  /\ RowNumber(r) > Len(run[r].file)
  /\ jobs' = [jobs EXCEPT ![r] = Job("completed", run[r].counts)]
  /\ Go(r, "done")
  /\ UNCHANGED <<assets, locs, rows, exceptions, trail, decisions,
                 seen, others, faults>>

\* Mutant: the counters in memory advance inside the unit.
MutUnitFails(r) ==
  /\ faults < MaxFaults
  /\ faults' = faults + 1
  /\ \/ InPhase(r, "job") /\ Go(r, "thrown")
     \/ /\ InPhase(r, "rows")
        /\ RowNumber(r) <= Len(run[r].file)
        /\ run' = [run EXCEPT ![r].phase = "cleanup", ![r].counts[Verdict(r)] = @ + 1]
     \/ InPhase(r, "cleanup") /\ Go(r, "thrown")
  /\ UNCHANGED <<store, seen, others>>

\* Mutant: the asset of a row is created outside of the unit of the row.
MutRowNotAtomic(r) ==
  /\ faults < MaxFaults
  /\ faults' = faults + 1
  /\ \/ InPhase(r, "rows") /\ RowNumber(r) <= Len(run[r].file) /\ Creates(r)
          /\ PlaceExists(CurrentRow(r))
          /\ assets' = Append(assets, [ident |-> CurrentRow(r).ident,
                                       loc |-> CurrentRow(r).loc, by |-> r])
          /\ Go(r, "cleanup")
     \/ InPhase(r, "cleanup") /\ Go(r, "thrown") /\ UNCHANGED assets
  /\ UNCHANGED <<locs, jobs, rows, exceptions, trail, decisions, seen, others>>

\* A unit of the run fails and rolls back.  The first one ends the request,
\* a later one goes to the cleanup, whose own failure is swallowed.
UnitFails(r) ==
  /\ faults < MaxFaults
  /\ faults' = faults + 1
  /\ \/ InPhase(r, "job") /\ Go(r, "thrown")
     \/ InPhase(r, "rows") /\ Go(r, "cleanup")
     \/ InPhase(r, "cleanup") /\ Go(r, "thrown")
  /\ UNCHANGED <<store, seen, others>>

\* The job is marked failed, and the first error is thrown again.
CleanUp(r) ==
  /\ InPhase(r, "cleanup")
  /\ jobs' = [jobs EXCEPT ![r] = Job("failed", run[r].counts)]
  /\ Go(r, "thrown")
  /\ UNCHANGED <<assets, locs, rows, exceptions, trail, decisions,
                 seen, others, faults>>

\* The process dies: nobody takes the job up again.
Crash(r) ==
  /\ faults < MaxFaults
  /\ faults' = faults + 1
  /\ ~InPhase(r, "idle") /\ run[r].phase \notin Ended
  /\ Go(r, "crashed")
  /\ UNCHANGED <<store, seen, others>>

-----------------------------------------------------------------------------
(* Decisions on exceptions.  The service does not rely on the unit of its  *)
(* request: it reads, and its update is guarded.                           *)

ReadException(v, e) ==
  /\ seen[v] = 0
  /\ exceptions[e].status = "open"
  /\ seen' = [seen EXCEPT ![v] = e]
  /\ UNCHANGED <<store, run, others, faults>>

\* Mutant: the update trusts what was read.
MutGuard(e) == TRUE

\* UPDATE ... WHERE status = 'open'
StillOpen(e) == exceptions[e].status = "open"

Decide(v, decision) ==
  /\ seen[v] # 0
  /\ IF StillOpen(seen[v])
     THEN /\ exceptions' = [exceptions EXCEPT ![seen[v]].status = decision]
          /\ decisions' = decisions \cup
               {[exception |-> seen[v], by |-> v, status |-> decision]}
     ELSE UNCHANGED <<exceptions, decisions>>
  /\ seen' = [seen EXCEPT ![v] = 0]
  /\ UNCHANGED <<assets, locs, jobs, rows, trail, run, others, faults>>

-----------------------------------------------------------------------------
(* The other requests *)

\* The unique indexes of the identity fields, but for the asset "except".
Unclaimed(ident, except) ==
  \A a \in DOMAIN assets \ {except}, k \in Keys :
    ident[k] # None => assets[a].ident[k] # ident[k]

ByOther ==
  /\ others < MaxOthers
  /\ others' = others + 1
  /\ run' = Noting(run, None)

CreateAsset(ident) ==
  /\ ByOther
  /\ Unclaimed(ident, 0)
  /\ assets' = Append(assets, [ident |-> ident, loc |-> None, by |-> None])
  /\ UNCHANGED <<locs, jobs, rows, exceptions, trail, decisions, seen, faults>>

EditAsset(a, ident) ==
  /\ ByOther
  /\ Unclaimed(ident, a) /\ assets[a].ident # ident
  /\ assets' = [assets EXCEPT ![a].ident = ident]
  /\ UNCHANGED <<locs, jobs, rows, exceptions, trail, decisions, seen, faults>>

DeleteLocation(l) ==
  /\ ByOther
  /\ l \in locs
  /\ \A a \in DOMAIN assets : assets[a].loc # l
  /\ locs' = locs \ {l}
  /\ UNCHANGED <<assets, jobs, rows, exceptions, trail, decisions, seen, faults>>

-----------------------------------------------------------------------------
Init ==
  /\ assets = << >>
  /\ locs = Locs
  /\ jobs = [r \in Runs |-> Job("none", NoCounts)]
  /\ rows = [r \in Runs |-> << >>]
  /\ exceptions = << >>
  /\ trail = {} /\ decisions = {}
  /\ run = [r \in Runs |-> Idle]
  /\ seen = [v \in Reviewers |-> 0]
  /\ others = 0 /\ faults = 0

Next ==
  \/ \E r \in Runs :
       \/ \E mode \in Modes, file \in Files : Start(r, mode, file)
       \/ OpenJob(r) \/ ImportRow(r) \/ RowRefused(r) \/ CompleteJob(r)
       \/ UnitFails(r) \/ CleanUp(r) \/ Crash(r)
  \/ \E v \in Reviewers :
       \/ \E e \in DOMAIN exceptions : ReadException(v, e)
       \/ \E decision \in {"resolved", "dismissed"} : Decide(v, decision)
  \/ \E ident \in Given :
       \/ CreateAsset(ident)
       \/ \E a \in DOMAIN assets : EditAsset(a, ident)
  \/ \E l \in Locs : DeleteLocation(l)

Spec == Init /\ [][Next]_vars

-----------------------------------------------------------------------------
(* Properties *)

\* The committed counters of a job are those of its committed rows, and a
\* completed job has reported all rows of the file.
CountersAgree ==
  \A r \in Runs :
    /\ \A o \in Outcomes :
         jobs[r].counts[o] = Cardinality({i \in DOMAIN rows[r] : rows[r][i].outcome = o})
    /\ jobs[r].status = "completed" => Len(rows[r]) = Len(run[r].file)
    /\ jobs[r].status = "none" => rows[r] = << >>

\* An asset that an import made is on the trail, and is the asset of exactly
\* one row.
ImportedIsRecorded ==
  \A a \in DOMAIN assets :
    LET r == assets[a].by
    IN  r # None =>
          /\ run[r].mode = "commit"
          /\ [asset |-> a, job |-> r] \in trail
          /\ Cardinality({i \in DOMAIN rows[r] :
               rows[r][i].outcome = "created" /\ rows[r][i].asset = a}) = 1

\* Whatever failed and whenever the process died, counters, rows, assets and
\* trail of an import tell the same (runAssetImport, "honest progress").
HonestProgress == CountersAgree /\ ImportedIsRecorded

\* No conflict is open twice, however many imports of the file run at a time,
\* and a dry run raises none (loadOpenCollisionSignatures).
OneOpenPerConflict ==
  \A d, e \in DOMAIN exceptions :
    /\ run[exceptions[e].job].mode = "commit"
    /\ d # e /\ exceptions[d].status = "open" /\ exceptions[e].status = "open"
         => exceptions[d].signature # exceptions[e].signature

\* When a collision is committed somebody is asked: an exception about it is
\* open, though an earlier one was decided (collisionSignature, "recurrence").
CollisionsAreReviewed ==
  [][\A r \in Runs :
       ImportRow(r) /\ run[r].mode = "commit" /\ rows'[r][RowNumber(r)].outcome = "collision"
         => \E e \in DOMAIN exceptions' :
              /\ exceptions'[e].status = "open"
              /\ exceptions'[e].signature.ident = CurrentRow(r).ident]_vars

\* Decisions are final: a decided exception has exactly one decision on
\* record, the one it shows (resolveException, concurrent resolves).
DecisionsAreFinal ==
  \A e \in DOMAIN exceptions :
    LET on == {d \in decisions : d.exception = e}
    IN  IF exceptions[e].status = "open"
        THEN on = {}
        ELSE \E d \in on : on = {d} /\ d.status = exceptions[e].status

\* A dry run foretells: if a dry run ended before a commit of the same file
\* began and nobody but that commit has changed assets or locations since the
\* dry run began, every row gets the outcome it was shown, though the rows
\* before it have been applied (runAssetImport, "identical per-row report").
DryRunForetells ==
  \A d, c \in Runs :
    (/\ d \in run[c].earlier /\ run[d].mode = "dry_run" /\ run[c].mode = "commit"
     /\ run[d].file = run[c].file /\ run[d].wrote \subseteq {c})
      => \A i \in DOMAIN rows[c] : rows[c][i].outcome = rows[d][i].outcome

\* What the route promises: failed rows are reported per row and do not abort
\* the run.  Checked where no unit fails and no process dies.
RowsNeverAbort == \A r \in Runs : ~InPhase(r, "thrown")
=============================================================================
