--------------------------- MODULE ImportsProofs ---------------------------
(***************************************************************************)
(* Imports and exceptions, for any runs, reviewers, files, identities and  *)
(* locations, and any number of other requests, failures and crashes.      *)
(*                                                                         *)
(* The counters in memory are at every moment those of the committed job,  *)
(* because they advance only after the unit of a row.  A dry run and the   *)
(* commit after it agree row by row because the verdict on a row is a      *)
(* function of the file, the locations and the identities that were there  *)
(* when the dry run ran: what the commit itself has created since does not *)
(* match a row that does not clash with an earlier one of the file.        *)
(***************************************************************************)
EXTENDS Imports, FiniteSetTheorems, TLAPS

-----------------------------------------------------------------------------
(* Types *)

FileRow == [ident : Identities, loc : Locs \cup {None}]
Asset == [ident : Identities, loc : Locs \cup {None}, by : Runs \cup {None}]
Counts == [Outcomes -> Nat]
JobRow == [status : {"none", "running", "completed", "failed"}, counts : Counts]
ImportedRow == [outcome : Outcomes, asset : Nat]
Conflict == [ident : Identities, assets : SUBSET Nat]
Exception ==
  [signature : Conflict, status : {"open", "resolved", "dismissed"}, job : Runs]
Phases == {"idle", "job", "rows", "cleanup"} \cup Ended
Memory ==
  [phase : Phases, mode : Modes, file : Seq(FileRow), index : SUBSET Locs,
   counts : Counts, earlier : SUBSET Runs, wrote : SUBSET (Runs \cup {None})]

\* Every variable has its type.
TypeOK ==
  /\ assets \in Seq(Asset)
  /\ locs \in SUBSET Locs
  /\ jobs \in [Runs -> JobRow]
  /\ rows \in [Runs -> Seq(ImportedRow)]
  /\ exceptions \in Seq(Exception)
  /\ trail \subseteq [asset : Nat, job : Runs]
  /\ decisions \subseteq [exception : Nat, by : Reviewers, status : {"resolved", "dismissed"}]
  /\ run \in [Runs -> Memory]
  /\ seen \in [Reviewers -> Nat]
  /\ others \in Nat /\ faults \in Nat

-----------------------------------------------------------------------------
(* Counters, rows, assets and trail *)

\* The rows of run r with outcome o; and those that created asset a.
RowsWith(r, o) == {i \in DOMAIN rows[r] : rows[r][i].outcome = o}
CreatingRows(r, a) == {i \in RowsWith(r, "created") : rows[r][i].asset = a}

Progress(r) ==
  /\ Len(rows[r]) <= Len(run[r].file)
  /\ run[r].phase \in {"idle", "job"} => rows[r] = << >> /\ jobs[r] = Job("none", NoCounts)
  /\ run[r].phase \in {"rows", "cleanup"} => jobs[r].status = "running"
  /\ run[r].phase = "done" => jobs[r].status = "completed"
  /\ jobs[r].status = "completed" =>
       run[r].phase = "done" /\ Len(rows[r]) = Len(run[r].file)
  /\ jobs[r].status = "none" => rows[r] = << >>
  /\ run[r].counts = jobs[r].counts
  /\ \A o \in Outcomes : jobs[r].counts[o] = Cardinality(RowsWith(r, o))
  /\ \A i \in DOMAIN rows[r] : rows[r][i].asset <= Len(assets)

ProgressInv == \A r \in Runs : Progress(r)

AssetsInv ==
  \A a \in DOMAIN assets :
    LET r == assets[a].by
    IN  r # None =>
          /\ run[r].mode = "commit" /\ run[r].phase # "idle"
          /\ [asset |-> a, job |-> r] \in trail
          /\ \E i \in DOMAIN rows[r] : CreatingRows(r, a) = {i}

-----------------------------------------------------------------------------
(* Exceptions and decisions *)

ExceptionsInv ==
  /\ \A e \in DOMAIN exceptions : ~InPhase(exceptions[e].job, "idle")
  /\ OneOpenPerConflict

DecisionsInv ==
  /\ \A v \in Reviewers : seen[v] \in {0} \cup DOMAIN exceptions
  /\ \A d \in decisions : d.exception \in DOMAIN exceptions
  /\ DecisionsAreFinal

-----------------------------------------------------------------------------
(* Dry runs *)

\* The verdict on row n of a file, given the locations of the index and the
\* identities that are known, by asset.
Fits(row, index) == Carried(row) # {} /\ row.loc \in index \cup {None}
Clashes(file, index, n) ==
  \E i \in 1 .. n - 1, k \in Carried(file[n]) :
    Fits(file[i], index) /\ file[i].ident[k] = file[n].ident[k]
Known(row, known) ==
  {a \in DOMAIN known : \E k \in Carried(row) : known[a][k] = row.ident[k]}
Same(row, known, a) ==
  Known(row, known) = {a} /\ \A k \in Carried(row) : known[a][k] = row.ident[k]

Foretold(file, index, known, n) ==
  IF ~Fits(file[n], index) \/ Clashes(file, index, n) THEN "error"
  ELSE IF Known(file[n], known) = {} THEN "created"
  ELSE IF \E a \in DOMAIN known : Same(file[n], known, a) THEN "skipped"
  ELSE "collision"

\* The identities of all assets, and of those that run c has not created.
Everything == [a \in DOMAIN assets |-> assets[a].ident]
NotBy(c) == {a \in DOMAIN assets : assets[a].by # c}
Before(c) == [a \in NotBy(c) |-> assets[a].ident]

DryRun(d) == run[d].mode = "dry_run" /\ ~InPhase(d, "idle")

\* While nobody writes, a dry run has told what would be told now.
Undisturbed(d) ==
  DryRun(d) /\ run[d].wrote = {} =>
    /\ run[d].index = locs
    /\ \A i \in DOMAIN rows[d] :
         rows[d][i].outcome = Foretold(run[d].file, run[d].index, Everything, i)

\* Commit c of the same file, begun after dry run d, is the only one to write.
Follows(d, c) ==
  /\ d \in run[c].earlier /\ run[d].mode = "dry_run" /\ run[c].mode = "commit"
  /\ run[d].file = run[c].file /\ run[d].wrote \subseteq {c}

\* Then nothing that it finds is new, but for what it has created.
Confirmed(d, c) ==
  Follows(d, c) =>
    /\ run[d].index = locs /\ run[c].index = locs
    /\ \A i \in DOMAIN rows[d] :
         rows[d][i].outcome = Foretold(run[d].file, run[d].index, Before(c), i)
    /\ \A a \in DOMAIN assets : assets[a].by = c =>
         \E i \in DOMAIN rows[c] :
           Fits(run[c].file[i], run[c].index) /\ assets[a].ident = run[c].file[i].ident
    /\ \A i \in DOMAIN rows[c] : rows[c][i].outcome = rows[d][i].outcome

DryInv ==
  /\ \A c \in Runs : \A d \in run[c].earlier : InPhase(d, "done")
  /\ \A r \in Runs : InPhase(r, "idle") => run[r].earlier = {}
  /\ \A d \in Runs : Undisturbed(d)
  /\ \A d, c \in Runs : Confirmed(d, c)

IInv ==
  /\ TypeOK
  /\ ProgressInv
  /\ AssetsInv
  /\ ExceptionsInv
  /\ DecisionsInv
  /\ DryInv
-----------------------------------------------------------------------------
(* Values *)

LEMMA Distinct ==
  None \notin Runs /\ None \notin Values /\ None \notin Locs
BY ImportsAssumption DEF ImportsAssumption

LEMMA IdleIsMemory == Idle \in Memory
BY DEF Idle, Memory, Phases, Ended, Modes, Counts, NoCounts, Outcomes

LEMMA JobTypes ==
  ASSUME NEW counts \in Counts, NEW status \in {"none", "running", "completed", "failed"}
  PROVE  /\ Job(status, counts) \in JobRow
         /\ Job(status, counts).status = status /\ Job(status, counts).counts = counts
BY DEF Job, JobRow

\* Only the outcome of the new row is counted once more.
LEMMA CountsStep ==
  ASSUME NEW counts \in Counts, NEW o \in Outcomes
  PROVE  /\ [counts EXCEPT ![o] = @ + 1] \in Counts
         /\ \A p \in Outcomes : [counts EXCEPT ![o] = @ + 1][p] =
                                IF p = o THEN counts[p] + 1 ELSE counts[p]
BY DEF Counts

\* Appending to a sequence, index by index.
LEMMA Appended ==
  ASSUME NEW S, NEW seq \in Seq(S), NEW e \in S
  PROVE  /\ Append(seq, e) \in Seq(S)
         /\ Len(Append(seq, e)) = Len(seq) + 1
         /\ DOMAIN seq = 1 .. Len(seq)
         /\ DOMAIN Append(seq, e) = DOMAIN seq \cup {Len(seq) + 1}
         /\ Len(seq) \in Nat
         /\ Len(seq) + 1 \notin DOMAIN seq
         /\ \A i \in DOMAIN seq : Append(seq, e)[i] = seq[i]
         /\ Append(seq, e)[Len(seq) + 1] = e
OBVIOUS

\* A sequence of typed elements, index by index.
LEMMA Elements ==
  ASSUME NEW S, NEW seq \in Seq(S)
  PROVE  /\ Len(seq) \in Nat /\ DOMAIN seq = 1 .. Len(seq)
         /\ \A i \in DOMAIN seq : seq[i] \in S
OBVIOUS

LEMMA RowTypes ==
  ASSUME TypeOK
  PROVE  /\ Len(assets) \in Nat /\ DOMAIN assets = 1 .. Len(assets)
         /\ \A a \in DOMAIN assets : /\ assets[a] \in Asset
                                     /\ assets[a].by \in Runs \cup {None}
         /\ Len(exceptions) \in Nat /\ DOMAIN exceptions = 1 .. Len(exceptions)
         /\ \A e \in DOMAIN exceptions : /\ exceptions[e] \in Exception
                                         /\ exceptions[e].job \in Runs
<1>1. assets \in Seq(Asset) /\ exceptions \in Seq(Exception)
  BY DEF TypeOK
<1>2. /\ Len(assets) \in Nat /\ DOMAIN assets = 1 .. Len(assets)
      /\ \A a \in DOMAIN assets : assets[a] \in Asset
  BY <1>1, Elements, Zenon
<1>3. /\ Len(exceptions) \in Nat /\ DOMAIN exceptions = 1 .. Len(exceptions)
      /\ \A e \in DOMAIN exceptions : exceptions[e] \in Exception
  BY <1>1, Elements, Zenon
<1>4. \A x \in Asset : x.by \in Runs \cup {None}
  BY DEF Asset
<1>5. \A x \in Exception : x.job \in Runs
  BY DEF Exception
<1> QED
  BY <1>2, <1>3, <1>4, <1>5

\* The rows with an outcome, after one more row.
LEMMA OneMoreRow ==
  ASSUME NEW seq \in Seq(ImportedRow), NEW e \in ImportedRow, NEW o \in Outcomes
  PROVE  LET with(s) == {i \in DOMAIN s : s[i].outcome = o}
         IN  /\ IsFiniteSet(with(seq))
             /\ with(Append(seq, e)) =
                  IF e.outcome = o THEN with(seq) \cup {Len(seq) + 1} ELSE with(seq)
             /\ Cardinality(with(Append(seq, e))) =
                  IF e.outcome = o THEN Cardinality(with(seq)) + 1 ELSE Cardinality(with(seq))
<1> DEFINE with(s) == {i \in DOMAIN s : s[i].outcome = o}
<1>1. /\ DOMAIN seq = 1 .. Len(seq) /\ Len(seq) \in Nat
      /\ DOMAIN Append(seq, e) = DOMAIN seq \cup {Len(seq) + 1}
      /\ \A i \in DOMAIN seq : Append(seq, e)[i] = seq[i]
      /\ Append(seq, e)[Len(seq) + 1] = e
      /\ Len(seq) + 1 \notin DOMAIN seq
  BY Appended
<1>2. IsFiniteSet(with(seq))
  <2>1. IsFiniteSet(1 .. Len(seq))
    BY <1>1, FS_Interval
  <2>2. with(seq) \in SUBSET (1 .. Len(seq))
    BY <1>1
  <2> QED
    BY <2>1, <2>2, FS_Subset
<1>3. with(Append(seq, e)) = IF e.outcome = o THEN with(seq) \cup {Len(seq) + 1} ELSE with(seq)
  BY <1>1
<1>4. Len(seq) + 1 \notin with(seq)
  BY <1>1
<1>5. Cardinality(with(seq) \cup {Len(seq) + 1}) = Cardinality(with(seq)) + 1
  BY <1>2, <1>4, FS_AddElement
<1> QED
  BY <1>2, <1>3, <1>5

-----------------------------------------------------------------------------
(* Verdicts *)

\* The verdict on the current row is a function of what is known.
LEMMA VerdictIsForetold ==
  ASSUME TypeOK, NEW r \in Runs, RowNumber(r) <= Len(run[r].file)
  PROVE  /\ Verdict(r) = Foretold(run[r].file, run[r].index, Everything, RowNumber(r))
         /\ Verdict(r) \in Outcomes
         /\ CurrentRow(r) \in FileRow
         /\ Verdict(r) = "skipped" => \E a \in DOMAIN assets : Matches(CurrentRow(r)) = {a}
         /\ Verdict(r) = "created" => /\ Fits(CurrentRow(r), run[r].index)
                                     /\ ~Clashes(run[r].file, run[r].index, RowNumber(r))
<1> DEFINE row == CurrentRow(r)
           file == run[r].file
           index == run[r].index
           n == RowNumber(r)
<1>1. /\ file \in Seq(FileRow) /\ n \in 1 .. Len(file) /\ row = file[n] /\ n - 1 = Len(rows[r])
  BY DEF TypeOK, Memory, RowNumber, CurrentRow
<1>2. row \in FileRow
  BY <1>1
<1>3. Valid(r, row) <=> Fits(row, index)
  BY DEF Valid, Fits
<1>4. InFileDuplicate(r) <=> Clashes(file, index, n)
  BY <1>1 DEF InFileDuplicate, Clashes, Valid, Fits
<1>5. Matches(row) = Known(row, Everything)
  <2>1. \A a : a \in Matches(row) <=>
          \E k \in Carried(row) : a \in {b \in DOMAIN assets : assets[b].ident[k] = row.ident[k]}
    BY Zenon DEF Matches, AssetsWith
  <2>2. \A a : a \in Matches(row) <=>
          a \in DOMAIN assets /\ \E k \in Carried(row) : assets[a].ident[k] = row.ident[k]
    BY <2>1
  <2>3. \A a : a \in Known(row, Everything) <=>
          a \in DOMAIN assets /\ \E k \in Carried(row) : assets[a].ident[k] = row.ident[k]
    BY DEF Known, Everything
  <2> HIDE DEF row
  <2> QED
    BY <2>2, <2>3
<1>6. DOMAIN Everything = DOMAIN assets
  BY DEF Everything
<1>7. \A a \in DOMAIN assets : IsDuplicate(row, a) <=> Same(row, Everything, a)
  BY <1>5 DEF IsDuplicate, Same, Everything
<1>8. Verdict(r) = IF ~Valid(r, row) \/ InFileDuplicate(r) THEN "error"
                   ELSE IF Matches(row) = {} THEN "created"
                   ELSE IF \E a \in DOMAIN assets : IsDuplicate(row, a) THEN "skipped"
                   ELSE "collision"
  <2> DEFINE E == ~Valid(r, row) \/ InFileDuplicate(r)
             C == Matches(row) = {}
             K == \E a \in DOMAIN assets : IsDuplicate(row, a)
  <2>1. K => ~C
    BY DEF IsDuplicate
  <2>2. Verdict(r) = CASE E -> "error" [] ~E /\ C -> "created" [] ~E /\ K -> "skipped"
                       [] OTHER -> "collision"
    BY Zenon DEF Verdict
  <2> HIDE DEF E, C, K
  <2> QED
    BY <2>1, <2>2 DEF E, C, K
<1>9. Verdict(r) = Foretold(file, index, Everything, n)
  BY <1>1, <1>3, <1>4, <1>5, <1>6, <1>7, <1>8 DEF Foretold
<1>10. Verdict(r) \in Outcomes
  BY <1>8 DEF Outcomes
<1>11. Verdict(r) = "skipped" => \E a \in DOMAIN assets : Matches(row) = {a}
  BY <1>8 DEF IsDuplicate
<1>12. Verdict(r) = "created" => Fits(row, index) /\ ~Clashes(file, index, n)
  BY <1>3, <1>4, <1>8
<1> QED
  BY <1>2, <1>9, <1>10, <1>11, <1>12

\* What an earlier row of the file has made known does not change the verdict
\* on a later one: it clashes, or does not match.
LEMMA OwnRowsDoNotMatter ==
  ASSUME NEW file, NEW index, NEW n \in Nat, NEW known, NEW some,
         DOMAIN some \subseteq DOMAIN known,
         \A a \in DOMAIN some : some[a] = known[a],
         \A a \in DOMAIN known \ DOMAIN some : \E i \in 1 .. n - 1 :
           Fits(file[i], index) /\ known[a] = file[i].ident
  PROVE  Foretold(file, index, known, n) = Foretold(file, index, some, n)
<1> DEFINE row == file[n]
<1> SUFFICES ASSUME ~Clashes(file, index, n)
             PROVE  Foretold(file, index, known, n) = Foretold(file, index, some, n)
  BY DEF Foretold
<1>1. \A a \in DOMAIN known \ DOMAIN some : \A k \in Carried(row) : known[a][k] # row.ident[k]
  BY DEF Clashes
<1>2. Known(row, known) = Known(row, some)
  BY <1>1 DEF Known
<1>3. \A a \in DOMAIN some : Same(row, known, a) <=> Same(row, some, a)
  BY <1>2 DEF Same
<1>4. \A a \in DOMAIN known : Same(row, known, a) => a \in DOMAIN some
  BY <1>2 DEF Same, Known
<1>5. (\E a \in DOMAIN known : Same(row, known, a)) <=> (\E a \in DOMAIN some : Same(row, some, a))
  BY <1>3, <1>4
<1> QED
  BY <1>2, <1>5 DEF Foretold
-----------------------------------------------------------------------------
(* The start *)

LEMMA InitEstablishes == Init => IInv
<1> SUFFICES ASSUME Init PROVE IInv
  OBVIOUS
<1>1. NoCounts \in Counts /\ Job("none", NoCounts) \in JobRow
  BY JobTypes DEF NoCounts, Counts
<1>2. /\ \A r \in Runs : run[r] = Idle /\ rows[r] = << >> /\ jobs[r] = Job("none", NoCounts)
      /\ assets = << >> /\ exceptions = << >> /\ decisions = {}
  BY DEF Init
<1>3. \A r \in Runs : /\ run[r].phase = "idle" /\ run[r].mode = "dry_run" /\ run[r].file = << >>
                      /\ run[r].counts = NoCounts /\ run[r].earlier = {}
  BY <1>2 DEF Idle
<1>4. TypeOK
  BY <1>1, IdleIsMemory DEF Init, TypeOK
<1>5. ProgressInv
  <2> SUFFICES ASSUME NEW r \in Runs PROVE Progress(r)
    BY DEF ProgressInv
  <2>1. \A o \in Outcomes : RowsWith(r, o) = {} /\ NoCounts[o] = 0
    BY <1>2 DEF RowsWith, NoCounts
  <2>2. Cardinality({}) = 0
    BY FS_EmptySet
  <2> QED
    <3>1. /\ rows[r] = << >> /\ run[r].phase = "idle" /\ run[r].file = << >>
          /\ run[r].counts = NoCounts /\ jobs[r] = Job("none", NoCounts)
          /\ jobs[r].status = "none" /\ jobs[r].counts = NoCounts
      BY <1>2, <1>3 DEF Job
    <3>2. Len(rows[r]) <= Len(run[r].file) /\ DOMAIN rows[r] = {}
      BY <3>1
    <3>3. \A o \in Outcomes : jobs[r].counts[o] = Cardinality(RowsWith(r, o))
      BY <3>1, <2>1, <2>2
    <3> QED
      BY <3>1, <3>2, <3>3 DEF Progress
<1>6. AssetsInv /\ ExceptionsInv
  BY <1>2 DEF AssetsInv, ExceptionsInv, OneOpenPerConflict
<1>7. DecisionsInv
  BY <1>2 DEF Init, DecisionsInv, DecisionsAreFinal
<1>8. DryInv
  BY <1>2, <1>3 DEF DryInv, Undisturbed, DryRun, InPhase, Confirmed, Follows
<1> QED
  BY <1>4, <1>5, <1>6, <1>7, <1>8 DEF IInv

-----------------------------------------------------------------------------
(* Steps that write neither assets, locations, rows nor exceptions *)

\* What dry runs have told stays true while nothing is written.
LEMMA DryFrame ==
  ASSUME DryInv, assets' = assets, locs' = locs, rows' = rows,
         \A q \in Runs : /\ run'[q].mode = run[q].mode /\ run'[q].file = run[q].file
                         /\ run'[q].index = run[q].index /\ run'[q].earlier = run[q].earlier
                         /\ run'[q].wrote = run[q].wrote
                         /\ run'[q].phase = "idle" <=> run[q].phase = "idle"
                         /\ run[q].phase = "done" => run'[q].phase = "done",
         \A q \in Runs : run[q].earlier \subseteq Runs
  PROVE  DryInv'
<1>1. /\ Everything' = Everything /\ \A c : Before(c)' = Before(c)
      /\ locs' = locs /\ rows' = rows /\ assets' = assets
  BY DEF Everything, Before, NotBy
<1>2. \A d \in Runs : DryRun(d)' <=> DryRun(d)
  BY DEF DryRun, InPhase
<1>3. \A d \in Runs : Undisturbed(d)'
  BY <1>1, <1>2 DEF DryInv, Undisturbed
<1>4. \A d, c \in Runs : Follows(d, c)' <=> Follows(d, c)
  BY DEF Follows
<1>5. \A d, c \in Runs : Confirmed(d, c)'
  BY <1>1, <1>4 DEF DryInv, Confirmed
<1>6. \A c \in Runs : \A d \in run'[c].earlier : run'[d].phase = "done"
  BY DEF DryInv, InPhase
<1>7. \A r \in Runs : run'[r].phase = "idle" => run'[r].earlier = {}
  BY DEF DryInv, InPhase
<1> QED
  BY <1>3, <1>5, <1>6, <1>7 DEF DryInv, InPhase

LEMMA PhaseOnly ==
  ASSUME TypeOK, NEW r \in Runs, NEW p \in Phases, run' = [run EXCEPT ![r].phase = p]
  PROVE  /\ run' \in [Runs -> Memory]
         /\ \A q \in Runs :
              /\ run'[q].mode = run[q].mode /\ run'[q].file = run[q].file
              /\ run'[q].index = run[q].index /\ run'[q].earlier = run[q].earlier
              /\ run'[q].wrote = run[q].wrote /\ run'[q].counts = run[q].counts
              /\ run'[q].phase = IF q = r THEN p ELSE run[q].phase
<1>1. run \in [Runs -> Memory] /\ run[r] \in Memory
  BY DEF TypeOK
<1> DEFINE m == [run[r] EXCEPT !.phase = p]
<1>2. /\ m \in Memory /\ m.phase = p
      /\ m.mode = run[r].mode /\ m.file = run[r].file /\ m.index = run[r].index
      /\ m.earlier = run[r].earlier /\ m.wrote = run[r].wrote /\ m.counts = run[r].counts
  BY <1>1 DEF Memory
<1>3. run' = [run EXCEPT ![r] = m]
  OBVIOUS
<1> HIDE DEF m
<1>4. run' \in [Runs -> Memory] /\ \A q \in Runs : run'[q] = IF q = r THEN m ELSE run[q]
  BY <1>1, <1>2, <1>3
<1> QED
  BY <1>2, <1>4

\* The request goes on to another phase, and perhaps writes the row of its job.
LEMMA MovesOn ==
  ASSUME IInv, NEW r \in Runs, NEW p \in Phases \ {"idle", "job"}, NEW j \in JobRow,
         run[r].phase \notin {"idle"} \cup Ended,
         run' = [run EXCEPT ![r].phase = p], jobs' = [jobs EXCEPT ![r] = j],
         j.counts = jobs[r].counts,
         p \in {"rows", "cleanup"} => j.status = "running",
         p = "done" => j.status = "completed",
         j.status = "completed" => p = "done" /\ Len(rows[r]) = Len(run[r].file),
         j.status = "none" => rows[r] = << >>,
         UNCHANGED <<assets, locs, rows, exceptions, trail, decisions, seen>>,
         others' \in Nat, faults' \in Nat
  PROVE  IInv'
<1>1. TypeOK /\ p \in Phases
  BY DEF IInv
<1>2. /\ run' \in [Runs -> Memory]
      /\ \A q \in Runs :
           /\ run'[q].mode = run[q].mode /\ run'[q].file = run[q].file
           /\ run'[q].index = run[q].index /\ run'[q].earlier = run[q].earlier
           /\ run'[q].wrote = run[q].wrote /\ run'[q].counts = run[q].counts
           /\ run'[q].phase = IF q = r THEN p ELSE run[q].phase
  BY <1>1, PhaseOnly, Zenon
<1>3. jobs' \in [Runs -> JobRow] /\ \A q \in Runs : jobs'[q] = IF q = r THEN j ELSE jobs[q]
  BY <1>1 DEF TypeOK
<1>4. TypeOK'
  BY <1>1, <1>2, <1>3 DEF TypeOK
<1>5. ProgressInv'
  <2> SUFFICES ASSUME NEW q \in Runs PROVE Progress(q)'
    BY DEF ProgressInv
  <2>1. Progress(q)
    BY DEF IInv, ProgressInv
  <2>2. \A o : RowsWith(q, o)' = RowsWith(q, o)
    BY DEF RowsWith
  <2>3. CASE q # r
    BY <1>2, <1>3, <2>1, <2>2, <2>3 DEF Progress
  <2>4. CASE q = r
    BY <1>2, <1>3, <2>1, <2>2, <2>4 DEF Progress
  <2> QED
    BY <2>3, <2>4
<1>6. AssetsInv'
  <2> SUFFICES ASSUME NEW a \in DOMAIN assets, assets[a].by # None
               PROVE  LET q == assets[a].by
                      IN  /\ run'[q].mode = "commit" /\ run'[q].phase # "idle"
                          /\ [asset |-> a, job |-> q] \in trail
                          /\ \E i \in DOMAIN rows[q] : CreatingRows(q, a) = {i}
    <3>1. \A q, a : CreatingRows(q, a)' = CreatingRows(q, a)
      BY DEF CreatingRows, RowsWith
    <3> QED
      BY <3>1 DEF AssetsInv
  <2>1. assets[a].by \in Runs
    BY <1>1, RowTypes
  <2> QED
    BY <1>2, <2>1 DEF IInv, AssetsInv
<1>7. ExceptionsInv'
  <2>1. \A e \in DOMAIN exceptions : exceptions[e].job \in Runs
    BY <1>1, RowTypes
  <2> QED
    BY <1>2, <2>1 DEF IInv, ExceptionsInv, OneOpenPerConflict, InPhase
<1>8. DecisionsInv'
  BY DEF IInv, DecisionsInv, DecisionsAreFinal
<1>9. DryInv'
  <2>1. \A q \in Runs : run[q].earlier \subseteq Runs
    BY <1>1 DEF TypeOK, Memory
  <2>2. \A q \in Runs : /\ run'[q].phase = "idle" <=> run[q].phase = "idle"
                        /\ run[q].phase = "done" => run'[q].phase = "done"
    BY <1>2 DEF Ended
  <2> QED
    BY <1>2, <2>1, <2>2, DryFrame DEF IInv
<1> QED
  BY <1>4, <1>5, <1>6, <1>7, <1>8, <1>9 DEF IInv

LEMMA OpenJobKeeps ==
  ASSUME IInv, NEW r \in Runs, OpenJob(r)
  PROVE  IInv'
<1>1. /\ Progress(r) /\ run[r].phase = "job" /\ TypeOK
  BY DEF IInv, ProgressInv, OpenJob, InPhase
<1>2. jobs[r].counts = NoCounts /\ NoCounts \in Counts
  BY <1>1 DEF Progress, Job, NoCounts, Counts
<1>3. /\ Job("running", NoCounts) \in JobRow /\ Job("running", NoCounts).status = "running"
      /\ Job("running", NoCounts).counts = NoCounts
  BY <1>2, JobTypes
<1> DEFINE j == Job("running", NoCounts)
<1>4. /\ "rows" \in Phases \ {"idle", "job"} /\ others' \in Nat /\ faults' \in Nat
      /\ "job" \notin {"idle"} \cup Ended
  BY <1>1 DEF Phases, OpenJob, TypeOK, Ended
<1> HIDE DEF j
<1> QED
  BY <1>1, <1>2, <1>3, <1>4, MovesOn DEF OpenJob, Go, j

LEMMA SameJob ==
  ASSUME TypeOK, NEW r \in Runs
  PROVE  jobs[r] \in JobRow /\ jobs = [jobs EXCEPT ![r] = jobs[r]]
BY DEF TypeOK

LEMMA RowRefusedKeeps ==
  ASSUME IInv, NEW r \in Runs, RowRefused(r)
  PROVE  IInv'
<1>1. /\ Progress(r) /\ run[r].phase = "rows" /\ TypeOK
      /\ run' = [run EXCEPT ![r].phase = "cleanup"]
      /\ jobs' = [jobs EXCEPT ![r] = jobs[r]] /\ jobs[r] \in JobRow
      /\ UNCHANGED <<assets, locs, rows, exceptions, trail, decisions, seen>>
  BY SameJob DEF IInv, ProgressInv, RowRefused, InPhase, Go, store
<1>2. jobs[r].status = "running"
  BY <1>1 DEF Progress
<1>3. /\ "cleanup" \in Phases \ {"idle", "job"} /\ others' \in Nat /\ faults' \in Nat
      /\ "rows" \notin {"idle"} \cup Ended
  BY <1>1 DEF Phases, RowRefused, TypeOK, Ended
<1> QED
  BY <1>1, <1>2, <1>3, MovesOn

LEMMA CompleteJobKeeps ==
  ASSUME IInv, NEW r \in Runs, CompleteJob(r)
  PROVE  IInv'
<1>1. /\ Progress(r) /\ run[r].phase = "rows" /\ TypeOK
  BY DEF IInv, ProgressInv, CompleteJob, InPhase
<1>2. run[r].counts \in Counts
  BY <1>1 DEF TypeOK, Memory
<1> DEFINE j == Job("completed", run[r].counts)
<1>3. j \in JobRow /\ j.status = "completed" /\ j.counts = jobs[r].counts
  BY <1>1, <1>2, JobTypes DEF Progress
<1>4. Len(rows[r]) = Len(run[r].file)
  BY <1>1 DEF CompleteJob, RowNumber, Progress, TypeOK, Memory
<1>5. /\ "done" \in Phases \ {"idle", "job"} /\ others' \in Nat /\ faults' \in Nat
      /\ "rows" \notin {"idle"} \cup Ended
  BY <1>1 DEF Phases, CompleteJob, TypeOK, Ended
<1>6. jobs' = [jobs EXCEPT ![r] = j]
  BY DEF CompleteJob
<1> HIDE DEF j
<1> QED
  BY <1>1, <1>3, <1>4, <1>5, <1>6, MovesOn DEF CompleteJob, Go

LEMMA CleanUpKeeps ==
  ASSUME IInv, NEW r \in Runs, CleanUp(r)
  PROVE  IInv'
<1>1. /\ Progress(r) /\ run[r].phase = "cleanup" /\ TypeOK
  BY DEF IInv, ProgressInv, CleanUp, InPhase
<1>2. run[r].counts \in Counts
  BY <1>1 DEF TypeOK, Memory
<1> DEFINE j == Job("failed", run[r].counts)
<1>3. j \in JobRow /\ j.status = "failed" /\ j.counts = jobs[r].counts
  BY <1>1, <1>2, JobTypes DEF Progress
<1>4. /\ "thrown" \in Phases \ {"idle", "job"} /\ others' \in Nat /\ faults' \in Nat
      /\ "cleanup" \notin {"idle"} \cup Ended
  BY <1>1 DEF Phases, CleanUp, TypeOK, Ended
<1>5. /\ jobs' = [jobs EXCEPT ![r] = j] /\ run' = [run EXCEPT ![r].phase = "thrown"]
      /\ UNCHANGED <<assets, locs, rows, exceptions, trail, decisions, seen>>
  BY DEF CleanUp, Go
<1> HIDE DEF j
<1> QED
  BY <1>1, <1>3, <1>4, <1>5, MovesOn

\* Neither a failing unit nor the end of the process writes anything.
LEMMA FaultKeeps ==
  ASSUME IInv, NEW r \in Runs, UnitFails(r) \/ Crash(r)
  PROVE  IInv'
<1>1. PICK p \in {"cleanup", "thrown", "crashed"} :
        /\ run' = [run EXCEPT ![r].phase = p]
        /\ p = "cleanup" => run[r].phase = "rows"
        /\ run[r].phase \notin {"idle"} \cup Ended
        /\ faults' = faults + 1
        /\ UNCHANGED <<store, seen, others>>
  BY DEF UnitFails, Crash, Go, InPhase, Ended
<1>2. Progress(r) /\ TypeOK
  BY DEF IInv, ProgressInv
<1>3. /\ jobs' = [jobs EXCEPT ![r] = jobs[r]] /\ jobs[r] \in JobRow
      /\ UNCHANGED <<assets, locs, rows, exceptions, trail, decisions, seen>>
  BY <1>1, <1>2, SameJob DEF store
<1>4. /\ p \in Phases \ {"idle", "job"} /\ p # "rows" /\ p # "done"
      /\ others' \in Nat /\ faults' \in Nat
  BY <1>1, <1>2 DEF Phases, TypeOK, Ended
<1>5. /\ jobs[r].status # "completed"
      /\ p = "cleanup" => jobs[r].status = "running"
      /\ jobs[r].status = "none" => rows[r] = << >>
  BY <1>1, <1>2 DEF Progress, Ended
<1> QED
  BY <1>1, <1>3, <1>4, <1>5, MovesOn
-----------------------------------------------------------------------------
(* A request to import *)

\* What an idle run has left: nothing.
LEMMA IdleRunsAreClean ==
  ASSUME IInv, NEW r \in Runs, InPhase(r, "idle")
  PROVE  /\ rows[r] = << >> /\ jobs[r] = Job("none", NoCounts)
         /\ run[r].counts = NoCounts /\ run[r].earlier = {}
         /\ \A a \in DOMAIN assets : assets[a].by # r
         /\ \A e \in DOMAIN exceptions : exceptions[e].job # r
<1>1. Progress(r) /\ run[r].phase = "idle"
  BY DEF IInv, ProgressInv, InPhase
<1>2. rows[r] = << >> /\ jobs[r] = Job("none", NoCounts) /\ run[r].counts = jobs[r].counts
  BY <1>1 DEF Progress
<1>3. jobs[r].counts = NoCounts
  BY <1>2 DEF Job
<1>4. \A a \in DOMAIN assets : assets[a].by # r
  BY <1>1, Distinct DEF IInv, AssetsInv
<1>5. \A e \in DOMAIN exceptions : exceptions[e].job # r
  BY <1>1 DEF IInv, ExceptionsInv, InPhase
<1> QED
  BY <1>1, <1>2, <1>3, <1>4, <1>5 DEF IInv, DryInv, InPhase

LEMMA StartKeeps ==
  ASSUME IInv, NEW r \in Runs, NEW mode \in Modes, NEW file \in Files, Start(r, mode, file)
  PROVE  IInv'
<1> DEFINE past == {q \in Runs : InPhase(q, "done") /\ run[q].wrote = {}}
           m == [phase |-> "job", mode |-> mode, file |-> file, index |-> locs,
                 counts |-> NoCounts, wrote |-> {}, earlier |-> past]
<1>1. /\ TypeOK /\ InPhase(r, "idle") /\ run' = [run EXCEPT ![r] = m]
      /\ UNCHANGED <<assets, locs, jobs, rows, exceptions, trail, decisions, seen, others, faults>>
  BY DEF IInv, Start, LocationIndex, store
<1>2. /\ rows[r] = << >> /\ jobs[r] = Job("none", NoCounts)
      /\ run[r].counts = NoCounts /\ run[r].earlier = {}
      /\ \A a \in DOMAIN assets : assets[a].by # r
      /\ \A e \in DOMAIN exceptions : exceptions[e].job # r
  BY <1>1, IdleRunsAreClean
<1>3. m \in Memory
  <2>1. file \in Seq(FileRow)
    BY ImportsAssumption DEF ImportsAssumption, FileRow
  <2>2. NoCounts \in Counts /\ past \subseteq Runs /\ locs \subseteq Locs
    BY <1>1 DEF NoCounts, Counts, TypeOK
  <2> QED
    BY <2>1, <2>2 DEF Memory, Phases
<1>4. /\ m.phase = "job" /\ m.mode = mode /\ m.file = file /\ m.index = locs
      /\ m.counts = NoCounts /\ m.wrote = {} /\ m.earlier = past
  OBVIOUS
<1> HIDE DEF m
<1>5. run' \in [Runs -> Memory] /\ \A q \in Runs : run'[q] = IF q = r THEN m ELSE run[q]
  BY <1>1, <1>3 DEF TypeOK
<1>6. TypeOK'
  BY <1>1, <1>5 DEF TypeOK
<1>7. ProgressInv'
  <2> SUFFICES ASSUME NEW q \in Runs PROVE Progress(q)'
    BY DEF ProgressInv
  <2>1. Progress(q) /\ \A o : RowsWith(q, o)' = RowsWith(q, o)
    BY <1>1 DEF IInv, ProgressInv, RowsWith
  <2>2. CASE q # r
    <3>1. run'[q] = run[q] /\ jobs'[q] = jobs[q] /\ rows'[q] = rows[q] /\ assets' = assets
      BY <1>1, <1>5, <2>2
    <3> QED
      BY <2>1, <3>1 DEF Progress
  <2>3. CASE q = r
    <3>1. /\ run'[q] = m /\ jobs'[q] = jobs[q] /\ rows'[q] = << >> /\ rows[q] = << >>
          /\ jobs[q].counts = NoCounts /\ jobs[q].status = "none"
      BY <1>1, <1>2, <1>5, <2>3 DEF Job
    <3>2. Len(<< >>) <= Len(file) /\ DOMAIN << >> = {}
      BY <1>3, <1>4 DEF Memory
    <3>3. m.file = file /\ m.phase = "job" /\ m.counts = NoCounts
      BY <1>4
    <3>4. /\ Len(rows'[q]) <= Len(run'[q].file)
          /\ \A i \in DOMAIN rows'[q] : rows'[q][i].asset <= Len(assets')
      BY <3>1, <3>2, <3>3
    <3>5. jobs'[q] = Job("none", NoCounts)
      BY <1>1, <1>2, <2>3
    <3>6. \A o \in Outcomes : jobs'[q].counts[o] = Cardinality(RowsWith(q, o)')
      BY <2>1, <3>1 DEF Progress
    <3> QED
      BY <3>1, <3>3, <3>4, <3>5, <3>6 DEF Progress
  <2> QED
    BY <2>2, <2>3
<1>8. AssetsInv'
  <2>1. \A q, a : CreatingRows(q, a)' = CreatingRows(q, a)
    BY <1>1 DEF CreatingRows, RowsWith
  <2>2. \A a \in DOMAIN assets : assets[a].by # None => run'[assets[a].by] = run[assets[a].by]
    BY <1>1, <1>2, <1>5, RowTypes
  <2> QED
    BY <1>1, <2>1, <2>2 DEF IInv, AssetsInv
<1>9. ExceptionsInv'
  <2>1. \A e \in DOMAIN exceptions : run'[exceptions[e].job] = run[exceptions[e].job]
    BY <1>1, <1>2, <1>5, RowTypes
  <2> QED
    BY <1>1, <2>1 DEF IInv, ExceptionsInv, OneOpenPerConflict, InPhase
<1>10. DecisionsInv'
  BY <1>1 DEF IInv, DecisionsInv, DecisionsAreFinal
<1>11. DryInv'
  <2>1. /\ Everything' = Everything /\ \A c : Before(c)' = Before(c)
        /\ locs' = locs /\ rows' = rows /\ assets' = assets
    BY <1>1 DEF Everything, Before, NotBy
  <2>2. DryInv /\ run[r].phase = "idle"
    BY <1>1 DEF IInv, InPhase
  <2>3. \A c \in Runs : \A d \in run'[c].earlier :
          d # r /\ run[d].phase = "done" /\ run'[d].phase = "done"
    <3> TAKE c \in Runs
    <3> TAKE d \in run'[c].earlier
    <3>1. d \in Runs
      BY <1>5 DEF Memory
    <3>2. run[d].phase = "done"
      BY <1>4, <1>5, <2>2 DEF DryInv, InPhase
    <3> QED
      BY <1>5, <2>2, <3>1, <3>2
  <2>4. \A q \in Runs : run'[q].phase = "idle" => run'[q].earlier = {}
    BY <1>4, <1>5, <2>2 DEF DryInv, InPhase
  <2>5. \A d \in Runs : Undisturbed(d)'
    <3> TAKE d \in Runs
    <3>1. CASE d = r
      <4>1. run'[d].index = locs' /\ DOMAIN rows'[d] = {}
        BY <1>2, <1>4, <1>5, <2>1, <3>1
      <4> QED
        BY <4>1 DEF Undisturbed
    <3>2. CASE d # r
      BY <1>5, <2>1, <2>2, <3>2 DEF DryInv, Undisturbed, DryRun, InPhase
    <3> QED
      BY <3>1, <3>2
  <2>6. \A d, c \in Runs : Confirmed(d, c)'
    <3> TAKE d, c \in Runs
    <3> SUFFICES ASSUME Follows(d, c)' PROVE Confirmed(d, c)'
      BY DEF Confirmed
    <3>1. d # r /\ run[d].phase = "done" /\ run'[d] = run[d]
      BY <1>5, <2>3 DEF Follows
    <3>2. CASE c # r
      <4>1. run'[c] = run[c]
        BY <1>5, <3>2
      <4>2. Follows(d, c)
        BY <3>1, <4>1 DEF Follows
      <4> QED
        BY <2>1, <2>2, <3>1, <4>1, <4>2 DEF DryInv, Confirmed
    <3>3. CASE c = r
      <4>1. run[d].wrote = {} /\ run[d].mode = "dry_run" /\ run'[c].index = locs
        BY <1>4, <1>5, <3>1, <3>3 DEF Follows
      <4>2. /\ run[d].index = locs
            /\ \A i \in DOMAIN rows[d] :
                 rows[d][i].outcome = Foretold(run[d].file, run[d].index, Everything, i)
        BY <2>2, <3>1, <4>1 DEF DryInv, Undisturbed, DryRun, InPhase
      <4>3. Before(c) = Everything
        BY <1>2, <3>3 DEF Before, NotBy, Everything
      <4>4. DOMAIN rows[c] = {} /\ \A a \in DOMAIN assets : assets[a].by # c
        BY <1>2, <3>3
      <4> QED
        BY <2>1, <3>1, <4>1, <4>2, <4>3, <4>4 DEF Confirmed
    <3> QED
      BY <3>2, <3>3
  <2> QED
    BY <2>3, <2>4, <2>5, <2>6 DEF DryInv, InPhase
<1> QED
  BY <1>6, <1>7, <1>8, <1>9, <1>10, <1>11 DEF IInv

-----------------------------------------------------------------------------
(* Decisions *)

LEMMA RowsFrame ==
  ASSUME ProgressInv, AssetsInv, UNCHANGED <<assets, jobs, rows, trail, run>>
  PROVE  ProgressInv' /\ AssetsInv'
<1>1. /\ \A q, o : RowsWith(q, o)' = RowsWith(q, o)
      /\ \A q, a : CreatingRows(q, a)' = CreatingRows(q, a)
  BY DEF RowsWith, CreatingRows
<1>2. \A q \in Runs : Progress(q)'
  <2> TAKE q \in Runs
  <2>1. Progress(q)
    BY DEF ProgressInv
  <2> QED
    BY <1>1, <2>1 DEF Progress
<1>3. AssetsInv'
  BY <1>1 DEF AssetsInv
<1> QED
  BY <1>2, <1>3 DEF ProgressInv

LEMMA ReadExceptionKeeps ==
  ASSUME IInv, NEW v \in Reviewers, NEW e \in DOMAIN exceptions, ReadException(v, e)
  PROVE  IInv'
<1>1. /\ UNCHANGED <<assets, locs, jobs, rows, exceptions, trail, decisions, run, others, faults>>
      /\ seen' = [seen EXCEPT ![v] = e] /\ TypeOK
  BY DEF IInv, ReadException, store
<1>2. e \in Nat
  BY <1>1, RowTypes
<1>3. TypeOK'
  BY <1>1, <1>2 DEF TypeOK
<1>4. ProgressInv' /\ AssetsInv' /\ ExceptionsInv'
  <2>1. ProgressInv' /\ AssetsInv'
    BY <1>1, RowsFrame DEF IInv
  <2>2. ExceptionsInv'
    BY <1>1 DEF IInv, ExceptionsInv, OneOpenPerConflict, InPhase
  <2> QED
    BY <2>1, <2>2
<1>5. DecisionsInv'
  BY <1>1 DEF IInv, DecisionsInv, DecisionsAreFinal, TypeOK
<1>6. DryInv'
  <2>1. \A q \in Runs : run[q].earlier \subseteq Runs
    BY <1>1 DEF TypeOK, Memory
  <2> QED
    BY <1>1, <2>1, DryFrame DEF IInv
<1> QED
  BY <1>3, <1>4, <1>5, <1>6 DEF IInv

LEMMA DecideKeeps ==
  ASSUME IInv, NEW v \in Reviewers, NEW decision \in {"resolved", "dismissed"},
         Decide(v, decision)
  PROVE  IInv'
<1> DEFINE e == seen[v]
<1>1. /\ UNCHANGED <<assets, locs, jobs, rows, trail, run, others, faults>>
      /\ seen' = [seen EXCEPT ![v] = 0] /\ TypeOK /\ e # 0
  BY DEF IInv, Decide
<1>2. e \in DOMAIN exceptions /\ e \in Nat
  BY <1>1, RowTypes DEF IInv, DecisionsInv
<1>3. CASE ~StillOpen(e)
  <2>1. UNCHANGED <<exceptions, decisions>>
    BY <1>3 DEF Decide
  <2>2. TypeOK'
    BY <1>1, <2>1 DEF TypeOK
  <2>3. ProgressInv' /\ AssetsInv' /\ ExceptionsInv'
    <3>1. ProgressInv' /\ AssetsInv'
      BY <1>1, RowsFrame DEF IInv
    <3>2. ExceptionsInv'
      BY <1>1, <2>1 DEF IInv, ExceptionsInv, OneOpenPerConflict, InPhase
    <3> QED
      BY <3>1, <3>2
  <2>4. DecisionsInv'
    BY <1>1, <2>1 DEF IInv, DecisionsInv, DecisionsAreFinal, TypeOK
  <2>5. \A q \in Runs : run[q].earlier \subseteq Runs
    BY <1>1 DEF TypeOK, Memory
  <2>6. DryInv'
    BY <1>1, <2>5, DryFrame DEF IInv
  <2> QED
    BY <2>2, <2>3, <2>4, <2>6 DEF IInv
<1>4. CASE StillOpen(e)
  <2> DEFINE x == [exceptions[e] EXCEPT !.status = decision]
             new == [exception |-> e, by |-> v, status |-> decision]
  <2>1. /\ exceptions' = [exceptions EXCEPT ![e] = x] /\ decisions' = decisions \cup {new}
        /\ exceptions[e].status = "open"
    BY <1>4 DEF Decide, StillOpen
  <2>2. exceptions \in Seq(Exception) /\ exceptions[e] \in Exception
    BY <1>1, <1>2, RowTypes DEF TypeOK
  <2>3. /\ x \in Exception /\ x.status = decision /\ decision # "open"
        /\ x.signature = exceptions[e].signature /\ x.job = exceptions[e].job
    BY <2>2 DEF Exception
  <2>4. new.exception = e /\ new.status = decision
    OBVIOUS
  <2>5. new \in [exception : Nat, by : Reviewers, status : {"resolved", "dismissed"}]
    BY <1>2
  <2> HIDE DEF x, new
  <2>6. /\ exceptions' \in Seq(Exception) /\ DOMAIN exceptions' = DOMAIN exceptions
        /\ \A d \in DOMAIN exceptions : exceptions'[d] = IF d = e THEN x ELSE exceptions[d]
    BY <1>2, <2>1, <2>2, <2>3
  <2>7. TypeOK'
    BY <1>1, <2>1, <2>5, <2>6 DEF TypeOK
  <2>8. ProgressInv' /\ AssetsInv'
    BY <1>1, RowsFrame DEF IInv
  <2>9. ExceptionsInv'
    BY <1>1, <2>3, <2>6 DEF IInv, ExceptionsInv, OneOpenPerConflict, InPhase
  <2>10. DecisionsInv'
    <3>1. \A w \in Reviewers : seen'[w] \in {0} \cup DOMAIN exceptions'
      BY <1>1, <2>6 DEF IInv, DecisionsInv, TypeOK
    <3>2. \A d \in decisions' : d.exception \in DOMAIN exceptions'
      BY <1>2, <2>1, <2>4, <2>6 DEF IInv, DecisionsInv
    <3>3. ASSUME NEW d \in DOMAIN exceptions, d # e
          PROVE  {c \in decisions' : c.exception = d} = {c \in decisions : c.exception = d}
      BY <2>1, <2>4, <3>3
    <3>4. {c \in decisions' : c.exception = e} = {new}
      <4>1. {c \in decisions : c.exception = e} = {}
        BY <1>2, <2>1 DEF IInv, DecisionsInv, DecisionsAreFinal
      <4> QED
        BY <2>1, <2>4, <4>1
    <3>5. DecisionsAreFinal'
      <4> SUFFICES ASSUME NEW d \in DOMAIN exceptions
                   PROVE  LET on == {c \in decisions' : c.exception = d}
                          IN  IF exceptions'[d].status = "open"
                              THEN on = {}
                              ELSE \E c \in on : on = {c} /\ c.status = exceptions'[d].status
        BY <2>6 DEF DecisionsAreFinal
      <4>1. CASE d = e
        BY <2>3, <2>4, <2>6, <3>4, <4>1
      <4>2. CASE d # e
        BY <2>6, <3>3, <4>2 DEF IInv, DecisionsInv, DecisionsAreFinal
      <4> QED
        BY <4>1, <4>2
    <3> QED
      BY <3>1, <3>2, <3>5 DEF DecisionsInv
  <2>11. \A q \in Runs : run[q].earlier \subseteq Runs
    BY <1>1 DEF TypeOK, Memory
  <2>12. DryInv'
    BY <1>1, <2>11, DryFrame DEF IInv
  <2> QED
    BY <2>7, <2>8, <2>9, <2>10, <2>12 DEF IInv
<1> QED
  BY <1>3, <1>4
-----------------------------------------------------------------------------
(* Who has written *)

LEMMA Noted ==
  ASSUME NEW R \in [Runs -> Memory], NEW w \in Runs \cup {None}
  PROVE  /\ Noting(R, w) \in [Runs -> Memory]
         /\ \A q \in Runs :
              /\ Noting(R, w)[q].mode = R[q].mode /\ Noting(R, w)[q].file = R[q].file
              /\ Noting(R, w)[q].index = R[q].index /\ Noting(R, w)[q].earlier = R[q].earlier
              /\ Noting(R, w)[q].counts = R[q].counts /\ Noting(R, w)[q].phase = R[q].phase
              /\ Noting(R, w)[q].wrote =
                   IF R[q].phase # "idle" /\ R[q].mode = "dry_run" /\ q # w
                   THEN R[q].wrote \cup {w} ELSE R[q].wrote
<1> DEFINE m(q) == [R[q] EXCEPT !.wrote = @ \cup {w}]
           cond(q) == R[q].phase # "idle" /\ R[q].mode = "dry_run" /\ q # w
<1>1. \A q \in Runs : R[q] \in Memory
  OBVIOUS
<1>2. ASSUME NEW q \in Runs
      PROVE  /\ m(q) \in Memory
             /\ m(q).mode = R[q].mode /\ m(q).file = R[q].file
             /\ m(q).index = R[q].index /\ m(q).earlier = R[q].earlier
             /\ m(q).counts = R[q].counts /\ m(q).phase = R[q].phase
             /\ m(q).wrote = R[q].wrote \cup {w}
  BY <1>1 DEF Memory
<1>3. Noting(R, w) = [q \in Runs |-> IF cond(q) THEN m(q) ELSE R[q]]
  BY DEF Noting
<1> HIDE DEF m
<1>4. \A q \in Runs : Noting(R, w)[q] = IF cond(q) THEN m(q) ELSE R[q]
  BY <1>3
<1>5. Noting(R, w) \in [Runs -> Memory]
  BY <1>1, <1>2, <1>3
<1> QED
  BY <1>2, <1>4, <1>5

\* Once another request has written, a dry run foretells nothing.
LEMMA Disturbs ==
  ASSUME TypeOK, DryInv, run' = Noting(run, None)
  PROVE  DryInv'
<1>1. run \in [Runs -> Memory] /\ None \in Runs \cup {None}
  BY DEF TypeOK
<1>2. \A q \in Runs :
        /\ run'[q].mode = run[q].mode /\ run'[q].earlier = run[q].earlier
        /\ run'[q].phase = run[q].phase
        /\ run[q].phase # "idle" /\ run[q].mode = "dry_run" => None \in run'[q].wrote
  <2>1. \A q \in Runs :
          /\ Noting(run, None)[q].mode = run[q].mode
          /\ Noting(run, None)[q].earlier = run[q].earlier
          /\ Noting(run, None)[q].phase = run[q].phase
          /\ Noting(run, None)[q].wrote =
               IF run[q].phase # "idle" /\ run[q].mode = "dry_run" /\ q # None
               THEN run[q].wrote \cup {None} ELSE run[q].wrote
    BY <1>1, Noted
  <2> QED
    BY <2>1, Distinct
<1>3. \A c \in Runs : \A d \in run'[c].earlier : run'[d].phase = "done" /\ d \in Runs
  BY <1>1, <1>2 DEF DryInv, InPhase, Memory
<1>4. \A q \in Runs : run'[q].phase = "idle" => run'[q].earlier = {}
  BY <1>2 DEF DryInv, InPhase
<1>5. \A d \in Runs : Undisturbed(d)'
  BY <1>2 DEF Undisturbed, DryRun, InPhase
<1>6. \A d, c \in Runs : Confirmed(d, c)'
  BY <1>2, <1>3, Distinct DEF Confirmed, Follows
<1> QED
  BY <1>3, <1>4, <1>5, <1>6 DEF DryInv, InPhase

\* A request of somebody else, who changes nothing of imports.
LEMMA OthersKeep ==
  ASSUME IInv, run' = Noting(run, None), assets' \in Seq(Asset), locs' \in SUBSET Locs,
         Len(assets') >= Len(assets),
         \A a \in DOMAIN assets : assets'[a].by = assets[a].by,
         \A a \in DOMAIN assets' \ DOMAIN assets : assets'[a].by = None,
         UNCHANGED <<jobs, rows, exceptions, trail, decisions, seen, faults>>,
         others' = others + 1
  PROVE  IInv'
<1>1. TypeOK /\ run \in [Runs -> Memory] /\ None \in Runs \cup {None}
  BY DEF IInv, TypeOK
<1>2. /\ run' \in [Runs -> Memory]
      /\ \A q \in Runs :
           /\ run'[q].mode = run[q].mode /\ run'[q].file = run[q].file
           /\ run'[q].counts = run[q].counts /\ run'[q].phase = run[q].phase
  BY <1>1, Noted
<1>3. TypeOK'
  BY <1>1, <1>2 DEF TypeOK
<1>4. Len(assets) \in Nat /\ Len(assets') \in Nat /\ DOMAIN assets \subseteq DOMAIN assets'
  BY <1>1, Elements DEF TypeOK
<1>5. ProgressInv'
  <2> SUFFICES ASSUME NEW q \in Runs PROVE Progress(q)'
    BY DEF ProgressInv
  <2>1. Progress(q) /\ \A o : RowsWith(q, o)' = RowsWith(q, o)
    BY DEF IInv, ProgressInv, RowsWith
  <2>2. \A i \in DOMAIN rows'[q] : rows'[q][i].asset <= Len(assets')
    <3>1. \A i \in DOMAIN rows[q] : rows[q][i].asset <= Len(assets) /\ rows[q][i].asset \in Nat
      <4>1. rows[q] \in Seq(ImportedRow)
        BY <1>1 DEF TypeOK
      <4>2. \A i \in DOMAIN rows[q] : rows[q][i] \in ImportedRow
        BY <4>1, Elements
      <4> QED
        BY <2>1, <4>2 DEF Progress, ImportedRow
    <3> QED
      BY <1>4, <3>1
  <2> QED
    BY <1>2, <2>1, <2>2 DEF Progress
<1>6. AssetsInv'
  <2>1. \A q, a : CreatingRows(q, a)' = CreatingRows(q, a)
    BY DEF CreatingRows, RowsWith
  <2> SUFFICES ASSUME NEW a \in DOMAIN assets', assets'[a].by # None
               PROVE  LET q == assets'[a].by
                      IN  /\ run'[q].mode = "commit" /\ run'[q].phase # "idle"
                          /\ [asset |-> a, job |-> q] \in trail
                          /\ \E i \in DOMAIN rows[q] : CreatingRows(q, a) = {i}
    BY <2>1 DEF AssetsInv
  <2>2. a \in DOMAIN assets /\ assets[a].by = assets'[a].by /\ assets[a].by \in Runs
    BY <1>1, RowTypes
  <2> QED
    BY <1>2, <2>2 DEF IInv, AssetsInv
<1>7. ExceptionsInv'
  <2>1. \A e \in DOMAIN exceptions : exceptions[e].job \in Runs
    BY <1>1, RowTypes
  <2> QED
    BY <1>2, <2>1 DEF IInv, ExceptionsInv, OneOpenPerConflict, InPhase
<1>8. DecisionsInv'
  BY DEF IInv, DecisionsInv, DecisionsAreFinal
<1>9. DryInv'
  BY <1>1, Disturbs DEF IInv
<1> QED
  BY <1>3, <1>5, <1>6, <1>7, <1>8, <1>9 DEF IInv

LEMMA OtherRequestsKeep ==
  ASSUME IInv,
         \/ \E ident \in Given :
              \/ CreateAsset(ident)
              \/ \E a \in DOMAIN assets : EditAsset(a, ident)
         \/ \E l \in Locs : DeleteLocation(l)
  PROVE  IInv'
<1>1. TypeOK /\ assets \in Seq(Asset) /\ locs \in SUBSET Locs /\ Given \subseteq Identities
  BY ImportsAssumption DEF IInv, TypeOK, ImportsAssumption
<1>2. Len(assets) \in Nat /\ DOMAIN assets = 1 .. Len(assets)
  BY <1>1, RowTypes
<1>3. ASSUME NEW ident \in Given, CreateAsset(ident)
      PROVE  IInv'
  <2> DEFINE x == [ident |-> ident, loc |-> None, by |-> None]
  <2>1. x \in Asset /\ x.by = None
    BY <1>1 DEF Asset
  <2>2. assets' = Append(assets, x)
    BY <1>3 DEF CreateAsset
  <2> HIDE DEF x
  <2>3. /\ assets' \in Seq(Asset) /\ Len(assets') = Len(assets) + 1
        /\ DOMAIN assets' = DOMAIN assets \cup {Len(assets) + 1}
        /\ \A a \in DOMAIN assets : assets'[a] = assets[a]
        /\ assets'[Len(assets) + 1] = x
    BY <1>1, <2>1, <2>2, Appended
  <2>4. Len(assets') >= Len(assets)
    BY <1>2, <2>3
  <2>5. \A a \in DOMAIN assets' \ DOMAIN assets : assets'[a].by = None
    BY <2>1, <2>3
  <2> QED
    BY <1>1, <1>3, <2>3, <2>4, <2>5, OthersKeep DEF CreateAsset, ByOther
<1>4. ASSUME NEW ident \in Given, NEW a \in DOMAIN assets, EditAsset(a, ident)
      PROVE  IInv'
  <2> DEFINE x == [assets[a] EXCEPT !.ident = ident]
  <2>1. assets[a] \in Asset
    BY <1>1, RowTypes
  <2>2. x \in Asset /\ x.by = assets[a].by
    BY <1>1, <2>1 DEF Asset
  <2>3. assets' = [assets EXCEPT ![a] = x]
    BY <1>4 DEF EditAsset
  <2> HIDE DEF x
  <2>4. /\ assets' \in Seq(Asset) /\ Len(assets') = Len(assets)
        /\ DOMAIN assets' = DOMAIN assets
        /\ \A b \in DOMAIN assets : assets'[b] = IF b = a THEN x ELSE assets[b]
    BY <1>1, <1>2, <2>2, <2>3
  <2>5. Len(assets') >= Len(assets) /\ \A b \in DOMAIN assets : assets'[b].by = assets[b].by
    BY <1>2, <2>2, <2>4
  <2> QED
    BY <1>1, <1>4, <2>4, <2>5, OthersKeep DEF EditAsset, ByOther
<1>5. ASSUME NEW l \in Locs, DeleteLocation(l)
      PROVE  IInv'
  <2>1. locs' \in SUBSET Locs /\ assets' = assets /\ Len(assets) >= Len(assets)
    BY <1>1, <1>2, <1>5 DEF DeleteLocation
  <2> QED
    BY <1>1, <1>5, <2>1, OthersKeep DEF DeleteLocation, ByOther
<1> QED
  BY <1>3, <1>4, <1>5
-----------------------------------------------------------------------------
(* The unit of a row: what it writes *)

NewRow(r) == Reported(r, Len(assets) + 1)

LEMMA RowIsDue ==
  ASSUME IInv, NEW r \in Runs, ImportRow(r)
  PROVE  /\ TypeOK /\ Progress(r) /\ run[r].phase = "rows" /\ jobs[r].status = "running"
         /\ RowNumber(r) = Len(rows[r]) + 1 /\ RowNumber(r) <= Len(run[r].file)
         /\ RowNumber(r) \in DOMAIN run[r].file
         /\ run[r].file \in Seq(FileRow) /\ rows[r] \in Seq(ImportedRow)
         /\ Len(rows[r]) \in Nat /\ DOMAIN rows[r] = 1 .. Len(rows[r])
         /\ Verdict(r) \in Outcomes /\ CurrentRow(r) \in FileRow
<1>1. TypeOK /\ Progress(r) /\ run[r].phase = "rows" /\ RowNumber(r) <= Len(run[r].file)
  BY DEF IInv, ProgressInv, ImportRow, InPhase
<1>2. jobs[r].status = "running"
  BY <1>1 DEF Progress
<1>3. run[r].file \in Seq(FileRow) /\ rows[r] \in Seq(ImportedRow)
  BY <1>1 DEF TypeOK, Memory
<1>4. RowNumber(r) = Len(rows[r]) + 1
  BY DEF RowNumber
<1>5. RowNumber(r) \in DOMAIN run[r].file /\ Len(rows[r]) \in Nat /\ DOMAIN rows[r] = 1 .. Len(rows[r])
  BY <1>1, <1>3, <1>4
<1> QED
  BY <1>1, <1>2, <1>3, <1>4, <1>5, VerdictIsForetold

\* The assets and the trail.
LEMMA RowCreates ==
  ASSUME IInv, NEW r \in Runs, ImportRow(r)
  PROVE  /\ assets' \in Seq(Asset) /\ trail \subseteq trail'
         /\ trail' \subseteq [asset : Nat, job : Runs]
         /\ Len(assets) \in Nat /\ Len(assets') \in Nat /\ Len(assets') >= Len(assets)
         /\ Len(assets) + 1 \notin DOMAIN assets
         /\ \A a \in DOMAIN assets : a \in DOMAIN assets' /\ assets'[a] = assets[a]
         /\ Creates(r) =>
              /\ DOMAIN assets' = DOMAIN assets \cup {Len(assets) + 1}
              /\ Len(assets') = Len(assets) + 1
              /\ assets'[Len(assets) + 1].ident = CurrentRow(r).ident
              /\ assets'[Len(assets) + 1].by = r
              /\ [asset |-> Len(assets) + 1, job |-> r] \in trail'
         /\ ~Creates(r) => assets' = assets
<1> DEFINE x == [ident |-> CurrentRow(r).ident, loc |-> CurrentRow(r).loc, by |-> r]
           t == [asset |-> Len(assets) + 1, job |-> r]
<1>1. TypeOK /\ assets \in Seq(Asset) /\ CurrentRow(r) \in FileRow
  BY RowIsDue DEF TypeOK
<1>2. x \in Asset /\ x.ident = CurrentRow(r).ident /\ x.by = r
  BY <1>1 DEF Asset, FileRow
<1>3. Len(assets) \in Nat /\ DOMAIN assets = 1 .. Len(assets)
  BY <1>1, RowTypes
<1>4. CASE Creates(r)
  <2>1. assets' = Append(assets, x) /\ trail' = trail \cup {t}
    BY <1>4 DEF ImportRow
  <2>2. t \in [asset : Nat, job : Runs]
    BY <1>3
  <2> HIDE DEF x, t
  <2>3. /\ assets' \in Seq(Asset) /\ Len(assets') = Len(assets) + 1
        /\ DOMAIN assets' = DOMAIN assets \cup {Len(assets) + 1}
        /\ Len(assets) + 1 \notin DOMAIN assets
        /\ \A a \in DOMAIN assets : assets'[a] = assets[a]
        /\ assets'[Len(assets) + 1] = x
    BY <1>1, <1>2, <2>1, Appended
  <2>4. trail \subseteq trail' /\ trail' \subseteq [asset : Nat, job : Runs] /\ t \in trail'
    BY <1>1, <2>1, <2>2 DEF TypeOK
  <2> QED
    BY <1>2, <1>3, <1>4, <2>3, <2>4 DEF t
<1>5. CASE ~Creates(r)
  <2>1. assets' = assets /\ trail' = trail
    BY <1>5 DEF ImportRow
  <2>2. Len(assets) >= Len(assets) /\ Len(assets) + 1 \notin DOMAIN assets
    BY <1>3
  <2>3. trail \subseteq [asset : Nat, job : Runs]
    BY <1>1 DEF TypeOK
  <2> QED
    BY <1>1, <1>3, <1>5, <2>1, <2>2, <2>3
<1> QED
  BY <1>4, <1>5

\* The import row.
LEMMA RowReports ==
  ASSUME IInv, NEW r \in Runs, ImportRow(r)
  PROVE  /\ NewRow(r) \in ImportedRow /\ NewRow(r).outcome = Verdict(r)
         /\ NewRow(r).asset <= Len(assets')
         /\ Creates(r) => NewRow(r).asset = Len(assets) + 1
         /\ ~Creates(r) => NewRow(r).asset <= Len(assets)
         /\ NewRow(r).outcome = "created" /\ ~Creates(r) => NewRow(r).asset = 0
         /\ rows' \in [Runs -> Seq(ImportedRow)]
         /\ rows'[r] = Append(rows[r], NewRow(r))
         /\ \A q \in Runs \ {r} : rows'[q] = rows[q]
         /\ DOMAIN rows'[r] = DOMAIN rows[r] \cup {RowNumber(r)}
         /\ RowNumber(r) \notin DOMAIN rows[r]
         /\ \A i \in DOMAIN rows[r] : rows'[r][i] = rows[r][i]
         /\ rows'[r][RowNumber(r)] = NewRow(r)
         /\ Len(rows'[r]) = Len(rows[r]) + 1
<1>1. /\ TypeOK /\ Verdict(r) \in Outcomes /\ rows[r] \in Seq(ImportedRow)
      /\ RowNumber(r) = Len(rows[r]) + 1 /\ RowNumber(r) <= Len(run[r].file)
  BY RowIsDue
<1>2. Len(assets) \in Nat /\ DOMAIN assets = 1 .. Len(assets)
  BY <1>1, RowTypes
<1> DEFINE like == CHOOSE a \in Matches(CurrentRow(r)) : TRUE
<1>3. Verdict(r) = "skipped" => like \in 1 .. Len(assets)
  <2>1. Verdict(r) = "skipped" => \E a \in DOMAIN assets : Matches(CurrentRow(r)) = {a}
    BY <1>1, VerdictIsForetold
  <2> QED
    BY <1>2, <2>1
<1>4. Creates(r) => Verdict(r) = "created"
  BY DEF Creates
<1> HIDE DEF like
<1>5. NewRow(r) = [outcome |-> Verdict(r),
                   asset |-> IF Creates(r) THEN Len(assets) + 1
                             ELSE IF Verdict(r) = "skipped" THEN like ELSE 0]
  <2> DEFINE C == Creates(r)
             K == Verdict(r) = "skipped"
  <2>1. NewRow(r) = [outcome |-> Verdict(r),
                     asset |-> CASE C -> Len(assets) + 1 [] K -> like [] OTHER -> 0]
    BY Zenon DEF NewRow, Reported, like
  <2>2. ~(C /\ K)
    BY <1>4
  <2> HIDE DEF C, K
  <2>3. (CASE C -> Len(assets) + 1 [] K -> like [] OTHER -> 0) =
          IF C THEN Len(assets) + 1 ELSE IF K THEN like ELSE 0
    BY <2>2
  <2> QED
    BY <2>1, <2>3 DEF C, K
<1>6. /\ NewRow(r) \in ImportedRow /\ NewRow(r).outcome = Verdict(r)
      /\ Creates(r) => NewRow(r).asset = Len(assets) + 1
      /\ ~Creates(r) => NewRow(r).asset <= Len(assets)
      /\ NewRow(r).outcome = "created" /\ ~Creates(r) => NewRow(r).asset = 0
  BY <1>1, <1>2, <1>3, <1>4, <1>5 DEF ImportedRow
<1>7. rows' = [rows EXCEPT ![r] = Append(rows[r], NewRow(r))] /\ rows \in [Runs -> Seq(ImportedRow)]
  BY <1>1 DEF ImportRow, NewRow, TypeOK
<1>8. /\ Append(rows[r], NewRow(r)) \in Seq(ImportedRow)
      /\ Len(Append(rows[r], NewRow(r))) = Len(rows[r]) + 1
      /\ DOMAIN Append(rows[r], NewRow(r)) = DOMAIN rows[r] \cup {Len(rows[r]) + 1}
      /\ Len(rows[r]) + 1 \notin DOMAIN rows[r]
      /\ \A i \in DOMAIN rows[r] : Append(rows[r], NewRow(r))[i] = rows[r][i]
      /\ Append(rows[r], NewRow(r))[Len(rows[r]) + 1] = NewRow(r)
  BY <1>1, <1>6, Appended
<1>9. /\ rows' \in [Runs -> Seq(ImportedRow)]
      /\ rows'[r] = Append(rows[r], NewRow(r))
      /\ \A q \in Runs \ {r} : rows'[q] = rows[q]
  BY <1>7, <1>8
<1>10. NewRow(r).asset <= Len(assets')
  <2>1. NewRow(r).asset \in Nat
    BY <1>6 DEF ImportedRow
  <2>2. /\ Len(assets') \in Nat /\ Len(assets') >= Len(assets)
        /\ Creates(r) => Len(assets') = Len(assets) + 1
    BY RowCreates
  <2> QED
    BY <1>2, <1>6, <2>1, <2>2
<1> QED
  BY <1>1, <1>6, <1>8, <1>9, <1>10

\* The counters of the job and of the request, and who has written.
LEMMA RowCounts ==
  ASSUME IInv, NEW r \in Runs, ImportRow(r)
  PROVE  /\ jobs' \in [Runs -> JobRow] /\ run' \in [Runs -> Memory]
         /\ \A q \in Runs \ {r} : jobs'[q] = jobs[q] /\ run'[q].counts = run[q].counts
         /\ jobs'[r].status = jobs[r].status /\ run'[r].counts = jobs'[r].counts
         /\ \A o \in Outcomes : jobs'[r].counts[o] =
              IF Verdict(r) = o THEN jobs[r].counts[o] + 1 ELSE jobs[r].counts[o]
         /\ \A q \in Runs :
              /\ run'[q].mode = run[q].mode /\ run'[q].file = run[q].file
              /\ run'[q].index = run[q].index /\ run'[q].earlier = run[q].earlier
              /\ run'[q].phase = run[q].phase
              /\ run'[q].wrote = IF Creates(r) /\ DryRun(q) THEN run[q].wrote \cup {r}
                                 ELSE run[q].wrote
<1> DEFINE counts == [run[r].counts EXCEPT ![Verdict(r)] = @ + 1]
           j == [jobs[r] EXCEPT !.counts = counts]
           m == [run[r] EXCEPT !.counts = counts]
           R == [run EXCEPT ![r] = m]
<1>1. /\ TypeOK /\ Verdict(r) \in Outcomes /\ Progress(r)
      /\ run \in [Runs -> Memory] /\ jobs \in [Runs -> JobRow]
  BY RowIsDue DEF TypeOK
<1>2. run[r] \in Memory /\ jobs[r] \in JobRow /\ run[r].counts \in Counts
      /\ run[r].counts = jobs[r].counts
  BY <1>1 DEF Memory, Progress
<1>3. /\ counts \in Counts
      /\ \A o \in Outcomes : counts[o] = IF Verdict(r) = o THEN jobs[r].counts[o] + 1
                                         ELSE jobs[r].counts[o]
  <2>1. /\ counts \in Counts
        /\ \A o \in Outcomes : counts[o] = IF o = Verdict(r) THEN run[r].counts[o] + 1
                                           ELSE run[r].counts[o]
    BY <1>1, <1>2, CountsStep
  <2> HIDE DEF counts
  <2> QED
    BY <1>2, <2>1
<1>4. /\ jobs' = [jobs EXCEPT ![r] = j]
      /\ run' = IF Creates(r) THEN Noting(R, r) ELSE R
  BY DEF ImportRow
<1> HIDE DEF counts
<1>5. j \in JobRow /\ j.status = jobs[r].status /\ j.counts = counts
  BY <1>2, <1>3 DEF JobRow
<1>6. /\ m \in Memory /\ m.counts = counts
      /\ m.mode = run[r].mode /\ m.file = run[r].file /\ m.index = run[r].index
      /\ m.earlier = run[r].earlier /\ m.phase = run[r].phase /\ m.wrote = run[r].wrote
  BY <1>2, <1>3 DEF Memory
<1> HIDE DEF j, m
<1>7. jobs' \in [Runs -> JobRow] /\ \A q \in Runs : jobs'[q] = IF q = r THEN j ELSE jobs[q]
  BY <1>1, <1>4, <1>5
<1>8. R \in [Runs -> Memory] /\ \A q \in Runs : R[q] = IF q = r THEN m ELSE run[q]
  BY <1>1, <1>6
<1> HIDE DEF R
<1>9. /\ Noting(R, r) \in [Runs -> Memory]
      /\ \A q \in Runs :
           /\ Noting(R, r)[q].mode = R[q].mode /\ Noting(R, r)[q].file = R[q].file
           /\ Noting(R, r)[q].index = R[q].index /\ Noting(R, r)[q].earlier = R[q].earlier
           /\ Noting(R, r)[q].counts = R[q].counts /\ Noting(R, r)[q].phase = R[q].phase
           /\ Noting(R, r)[q].wrote =
                IF R[q].phase # "idle" /\ R[q].mode = "dry_run" /\ q # r
                THEN R[q].wrote \cup {r} ELSE R[q].wrote
  <2>1. r \in Runs \cup {None} /\ R \in [Runs -> Memory]
    BY <1>8
  <2> QED
    BY <2>1, Noted
<1>10. Creates(r) => run[r].mode # "dry_run"
  BY DEF Creates
<1>11. \A q \in Runs : DryRun(q) <=> run[q].phase # "idle" /\ run[q].mode = "dry_run"
  BY DEF DryRun, InPhase
<1>12. ASSUME NEW q \in Runs
       PROVE  /\ run'[q].mode = run[q].mode /\ run'[q].file = run[q].file
              /\ run'[q].index = run[q].index /\ run'[q].earlier = run[q].earlier
              /\ run'[q].phase = run[q].phase
              /\ run'[q].counts = IF q = r THEN counts ELSE run[q].counts
              /\ run'[q].wrote = IF Creates(r) /\ DryRun(q) THEN run[q].wrote \cup {r}
                                 ELSE run[q].wrote
  <2>1. CASE Creates(r)
    <3>1. run' = Noting(R, r)
      BY <1>4, <2>1
    <3>2. /\ R[q].mode = run[q].mode /\ R[q].file = run[q].file
          /\ R[q].index = run[q].index /\ R[q].earlier = run[q].earlier
          /\ R[q].phase = run[q].phase /\ R[q].wrote = run[q].wrote
          /\ R[q].counts = IF q = r THEN counts ELSE run[q].counts
      BY <1>6, <1>8
    <3>3. Creates(r) /\ DryRun(q) <=>
            R[q].phase # "idle" /\ R[q].mode = "dry_run" /\ q # r
      BY <1>10, <1>11, <2>1, <3>2
    <3> QED
      BY <1>9, <3>1, <3>2, <3>3
  <2>2. CASE ~Creates(r)
    BY <1>4, <1>6, <1>8, <2>2
  <2> QED
    BY <2>1, <2>2
<1>13. run' \in [Runs -> Memory]
  BY <1>4, <1>8, <1>9
<1> QED
  BY <1>3, <1>5, <1>7, <1>12, <1>13
\* The exception, unless one like it is open.
LEMMA RowRaises ==
  ASSUME IInv, NEW r \in Runs, ImportRow(r)
  PROVE  /\ exceptions' \in Seq(Exception)
         /\ DOMAIN exceptions \subseteq DOMAIN exceptions'
         /\ \A e \in DOMAIN exceptions : exceptions'[e] = exceptions[e]
         /\ \A e \in DOMAIN exceptions' \ DOMAIN exceptions :
              /\ exceptions'[e].status = "open" /\ exceptions'[e].job = r
              /\ exceptions'[e].signature = Signature(CurrentRow(r))
              /\ run[r].mode = "commit"
              /\ Signature(CurrentRow(r)) \notin OpenSignatures(r)
         /\ \A d, e \in DOMAIN exceptions' \ DOMAIN exceptions : d = e
         /\ Collides(r) => \E e \in DOMAIN exceptions' :
              /\ exceptions'[e].status = "open"
              /\ exceptions'[e].signature = Signature(CurrentRow(r))
<1> DEFINE g == Signature(CurrentRow(r))
           x == Open(g, r)
<1>1. /\ TypeOK /\ exceptions \in Seq(Exception) /\ CurrentRow(r) \in FileRow
      /\ DOMAIN exceptions = 1 .. Len(exceptions) /\ DOMAIN assets = 1 .. Len(assets)
      /\ Len(assets) \in Nat
  BY RowIsDue, RowTypes DEF TypeOK
<1>2. g \in Conflict
  <2>1. Matches(CurrentRow(r)) \subseteq DOMAIN assets
    BY DEF Matches, AssetsWith
  <2> QED
    BY <1>1, <2>1 DEF Signature, Conflict, FileRow
<1> HIDE DEF g
<1>3. x \in Exception /\ x.status = "open" /\ x.job = r /\ x.signature = g
  BY <1>2 DEF Open, Exception
<1> HIDE DEF x
<1>4. CASE Collides(r) /\ g \notin OpenSignatures(r)
  <2>1. exceptions' = Append(exceptions, x)
    BY <1>4 DEF ImportRow, g, x
  <2>2. /\ exceptions' \in Seq(Exception)
        /\ DOMAIN exceptions' = DOMAIN exceptions \cup {Len(exceptions) + 1}
        /\ \A e \in DOMAIN exceptions : exceptions'[e] = exceptions[e]
        /\ exceptions'[Len(exceptions) + 1] = x
    BY <1>1, <1>3, <2>1, Appended
  <2>3. run[r].mode = "commit"
    BY <1>4 DEF Collides
  <2> QED
    BY <1>3, <1>4, <2>2, <2>3 DEF g
<1>5. CASE ~(Collides(r) /\ g \notin OpenSignatures(r))
  <2>1. exceptions' = exceptions
    BY <1>5 DEF ImportRow, g
  <2>2. Collides(r) => \E e \in DOMAIN exceptions : /\ exceptions[e].status = "open"
                                                    /\ exceptions[e].signature = g
    BY <1>5 DEF OpenSignatures
  <2> QED
    BY <1>1, <2>1, <2>2 DEF g
<1> QED
  BY <1>4, <1>5

-----------------------------------------------------------------------------
(* The unit of a row: what it keeps *)

LEMMA RowTypeOK ==
  ASSUME IInv, NEW r \in Runs, ImportRow(r)
  PROVE  TypeOK'
<1>1. TypeOK /\ UNCHANGED <<locs, decisions, seen, others, faults>>
  BY DEF IInv, ImportRow
<1>2. /\ assets' \in Seq(Asset) /\ trail' \subseteq [asset : Nat, job : Runs]
      /\ rows' \in [Runs -> Seq(ImportedRow)]
      /\ jobs' \in [Runs -> JobRow] /\ run' \in [Runs -> Memory]
      /\ exceptions' \in Seq(Exception)
  BY RowCreates, RowReports, RowCounts, RowRaises
<1> QED
  BY <1>1, <1>2 DEF TypeOK

LEMMA RowProgress ==
  ASSUME IInv, NEW r \in Runs, ImportRow(r)
  PROVE  ProgressInv'
<1>1. TypeOK /\ ProgressInv
  BY DEF IInv
<1>2. /\ Len(assets) \in Nat /\ Len(assets') \in Nat /\ Len(assets') >= Len(assets)
  BY RowCreates
<1> SUFFICES ASSUME NEW q \in Runs PROVE Progress(q)'
  BY DEF ProgressInv
<1>3. Progress(q) /\ rows[q] \in Seq(ImportedRow)
  BY <1>1 DEF ProgressInv, TypeOK
<1>4. \A i \in DOMAIN rows[q] : rows[q][i].asset <= Len(assets) /\ rows[q][i].asset \in Nat
  <2>1. \A i \in DOMAIN rows[q] : rows[q][i] \in ImportedRow
    BY <1>3, Elements
  <2> QED
    BY <1>3, <2>1 DEF Progress, ImportedRow
<1>5. /\ run'[q].file = run[q].file /\ run'[q].phase = run[q].phase
  BY RowCounts
<1>6. CASE q # r
  <2>1. rows'[q] = rows[q] /\ jobs'[q] = jobs[q] /\ run'[q].counts = run[q].counts
    BY <1>6, RowReports, RowCounts
  <2>2. \A o : RowsWith(q, o)' = RowsWith(q, o)
    BY <2>1 DEF RowsWith
  <2>3. \A i \in DOMAIN rows[q] : rows[q][i].asset <= Len(assets')
    BY <1>2, <1>4
  <2> QED
    BY <1>3, <1>5, <2>1, <2>2, <2>3 DEF Progress
<1>7. CASE q = r
  <2>1. /\ run[r].phase = "rows" /\ jobs[r].status = "running" /\ RowNumber(r) <= Len(run[r].file)
        /\ RowNumber(r) = Len(rows[r]) + 1
    BY RowIsDue
  <2>2. /\ NewRow(r) \in ImportedRow /\ NewRow(r).outcome = Verdict(r)
        /\ NewRow(r).asset <= Len(assets')
        /\ rows'[r] = Append(rows[r], NewRow(r))
        /\ DOMAIN rows'[r] = DOMAIN rows[r] \cup {RowNumber(r)}
        /\ \A i \in DOMAIN rows[r] : rows'[r][i] = rows[r][i]
        /\ rows'[r][RowNumber(r)] = NewRow(r)
        /\ Len(rows'[r]) = Len(rows[r]) + 1
    BY RowReports
  <2>3. /\ jobs'[r].status = jobs[r].status /\ run'[r].counts = jobs'[r].counts
        /\ \A o \in Outcomes : jobs'[r].counts[o] =
             IF Verdict(r) = o THEN jobs[r].counts[o] + 1 ELSE jobs[r].counts[o]
    BY RowCounts
  <2>4. \A o \in Outcomes : jobs'[r].counts[o] = Cardinality(RowsWith(r, o)')
    <3> TAKE o \in Outcomes
    <3>1. Cardinality(RowsWith(r, o)') =
            IF NewRow(r).outcome = o THEN Cardinality(RowsWith(r, o)) + 1
            ELSE Cardinality(RowsWith(r, o))
      <4> DEFINE with(s) == {i \in DOMAIN s : s[i].outcome = o}
      <4>1. rows[r] \in Seq(ImportedRow) /\ NewRow(r) \in ImportedRow
        BY <1>3, <1>7, <2>2
      <4>2. Cardinality(with(Append(rows[r], NewRow(r)))) =
              IF NewRow(r).outcome = o THEN Cardinality(with(rows[r])) + 1
              ELSE Cardinality(with(rows[r]))
        BY <4>1, OneMoreRow
      <4>3. RowsWith(r, o) = with(rows[r]) /\ RowsWith(r, o)' = with(Append(rows[r], NewRow(r)))
        BY <2>2 DEF RowsWith
      <4> QED
        BY <4>2, <4>3
    <3>2. jobs[r].counts[o] = Cardinality(RowsWith(r, o))
      BY <1>3, <1>7 DEF Progress
    <3> QED
      BY <2>2, <2>3, <3>1, <3>2
  <2>5. \A i \in DOMAIN rows'[r] : rows'[r][i].asset <= Len(assets')
    BY <1>2, <1>4, <1>7, <2>2
  <2>6. Len(rows'[r]) <= Len(run'[r].file)
    BY <1>5, <1>7, <2>1, <2>2
  <2> QED
    BY <1>5, <1>7, <2>1, <2>3, <2>4, <2>5, <2>6 DEF Progress
<1> QED
  BY <1>6, <1>7

LEMMA RowAssets ==
  ASSUME IInv, NEW r \in Runs, ImportRow(r)
  PROVE  AssetsInv'
<1>1. TypeOK /\ AssetsInv /\ ProgressInv
  BY DEF IInv
<1>2. /\ Len(assets) \in Nat /\ Len(assets) + 1 \notin DOMAIN assets
      /\ \A a \in DOMAIN assets : a \in DOMAIN assets' /\ assets'[a] = assets[a]
      /\ trail \subseteq trail'
      /\ Creates(r) => /\ DOMAIN assets' = DOMAIN assets \cup {Len(assets) + 1}
                       /\ assets'[Len(assets) + 1].by = r
                       /\ [asset |-> Len(assets) + 1, job |-> r] \in trail'
      /\ ~Creates(r) => assets' = assets
  BY RowCreates
<1>3. /\ NewRow(r).outcome = Verdict(r)
      /\ Creates(r) => NewRow(r).asset = Len(assets) + 1
      /\ NewRow(r).outcome = "created" /\ ~Creates(r) => NewRow(r).asset = 0
      /\ \A q \in Runs \ {r} : rows'[q] = rows[q]
      /\ DOMAIN rows'[r] = DOMAIN rows[r] \cup {RowNumber(r)}
      /\ RowNumber(r) \notin DOMAIN rows[r]
      /\ \A i \in DOMAIN rows[r] : rows'[r][i] = rows[r][i]
      /\ rows'[r][RowNumber(r)] = NewRow(r)
  BY RowReports
<1>4. \A q \in Runs : run'[q].mode = run[q].mode /\ run'[q].phase = run[q].phase
  BY RowCounts
<1>5. DOMAIN assets = 1 .. Len(assets) /\ \A a \in DOMAIN assets : assets[a].by \in Runs \cup {None}
  BY <1>1, RowTypes
<1>6. ASSUME NEW q \in Runs, NEW a \in DOMAIN assets
      PROVE  CreatingRows(q, a)' = CreatingRows(q, a)
  <2>1. a # Len(assets) + 1 /\ a # 0
    BY <1>2, <1>5
  <2>2. \A i : i \in CreatingRows(q, a)' <=>
          i \in DOMAIN rows'[q] /\ rows'[q][i].outcome = "created" /\ rows'[q][i].asset = a
    BY DEF CreatingRows, RowsWith
  <2>3. \A i : i \in CreatingRows(q, a) <=>
          i \in DOMAIN rows[q] /\ rows[q][i].outcome = "created" /\ rows[q][i].asset = a
    BY DEF CreatingRows, RowsWith
  <2>4. CASE q # r
    BY <1>3, <2>2, <2>3, <2>4
  <2>5. CASE q = r
    <3>1. ~(NewRow(r).outcome = "created" /\ NewRow(r).asset = a)
      BY <1>3, <2>1
    <3>2. RowNumber(r) \notin CreatingRows(q, a)' /\ RowNumber(r) \notin CreatingRows(q, a)
      BY <1>3, <2>2, <2>3, <2>5, <3>1
    <3>3. \A i \in DOMAIN rows[r] : i \in CreatingRows(q, a)' <=> i \in CreatingRows(q, a)
      BY <1>3, <2>2, <2>3, <2>5
    <3>4. /\ \A i \in CreatingRows(q, a)' : i \in DOMAIN rows[r] \cup {RowNumber(r)}
          /\ \A i \in CreatingRows(q, a) : i \in DOMAIN rows[r]
      BY <1>3, <2>2, <2>3, <2>5
    <3>5. \A i : i \in CreatingRows(q, a)' <=> i \in CreatingRows(q, a)
      BY <3>2, <3>3, <3>4
    <3> QED
      BY <3>5, <2>2, <2>3 DEF CreatingRows, RowsWith
  <2> QED
    BY <2>4, <2>5
<1>7. ASSUME Creates(r), NEW new, new = Len(assets) + 1
      PROVE  CreatingRows(r, new)' = {RowNumber(r)}
  <2>1. \A i \in DOMAIN rows[r] : rows[r][i].asset <= Len(assets) /\ rows[r][i].asset \in Nat
    <3>1. rows[r] \in Seq(ImportedRow) /\ Progress(r)
      BY <1>1 DEF TypeOK, ProgressInv
    <3>2. \A i \in DOMAIN rows[r] : rows[r][i] \in ImportedRow
      BY <3>1, Elements
    <3> QED
      BY <3>1, <3>2 DEF Progress, ImportedRow
  <2>2. \A i \in DOMAIN rows[r] : rows'[r][i].asset # new
    BY <1>2, <1>3, <1>7, <2>1
  <2>3. rows'[r][RowNumber(r)].outcome = "created" /\ rows'[r][RowNumber(r)].asset = new
    BY <1>3, <1>7 DEF Creates
  <2>4. \A i : i \in CreatingRows(r, new)' <=>
          i \in DOMAIN rows'[r] /\ rows'[r][i].outcome = "created" /\ rows'[r][i].asset = new
    BY DEF CreatingRows, RowsWith
  <2> QED
    BY <1>3, <2>2, <2>3, <2>4
<1>8. SUFFICES ASSUME NEW a \in DOMAIN assets', NEW q, q = assets'[a].by, q # None
               PROVE  /\ run'[q].mode = "commit" /\ run'[q].phase # "idle"
                      /\ [asset |-> a, job |-> q] \in trail'
                      /\ \E i \in DOMAIN rows'[q] : CreatingRows(q, a)' = {i}
  BY DEF AssetsInv
<1>9. CASE a \in DOMAIN assets
  <2>1. q = assets[a].by /\ q \in Runs
    BY <1>2, <1>5, <1>8, <1>9
  <2>2. CreatingRows(q, a)' = CreatingRows(q, a)
    BY <1>6, <1>9, <2>1
  <2>3. DOMAIN rows[q] \subseteq DOMAIN rows'[q]
    BY <1>3, <2>1
  <2>4. /\ run[q].mode = "commit" /\ run[q].phase # "idle"
        /\ [asset |-> a, job |-> q] \in trail
        /\ \E i \in DOMAIN rows[q] : CreatingRows(q, a) = {i}
    BY <1>1, <1>8, <1>9, <2>1 DEF AssetsInv
  <2> QED
    BY <1>2, <1>4, <2>1, <2>2, <2>3, <2>4
<1>10. CASE a \notin DOMAIN assets
  <2>1. Creates(r) /\ a = Len(assets) + 1 /\ q = r
    BY <1>2, <1>8, <1>10
  <2>2. CreatingRows(r, a)' = {RowNumber(r)}
    BY <1>7, <2>1
  <2>3. run[r].mode = "commit" /\ run[r].phase = "rows"
    BY <2>1, RowIsDue DEF Creates
  <2> QED
    BY <1>2, <1>3, <1>4, <2>1, <2>2, <2>3
<1> QED
  BY <1>9, <1>10
LEMMA RowExceptions ==
  ASSUME IInv, NEW r \in Runs, ImportRow(r)
  PROVE  ExceptionsInv'
<1>1. /\ ExceptionsInv /\ run[r].phase = "rows"
      /\ \A e \in DOMAIN exceptions : exceptions[e].job \in Runs
  BY RowIsDue, RowTypes DEF IInv
<1>2. \A q \in Runs : run'[q].mode = run[q].mode /\ run'[q].phase = run[q].phase
  BY RowCounts
<1>3. /\ DOMAIN exceptions \subseteq DOMAIN exceptions'
      /\ \A e \in DOMAIN exceptions : exceptions'[e] = exceptions[e]
      /\ \A e \in DOMAIN exceptions' \ DOMAIN exceptions :
           /\ exceptions'[e].status = "open" /\ exceptions'[e].job = r
           /\ exceptions'[e].signature = Signature(CurrentRow(r))
           /\ run[r].mode = "commit"
           /\ Signature(CurrentRow(r)) \notin OpenSignatures(r)
      /\ \A d, e \in DOMAIN exceptions' \ DOMAIN exceptions : d = e
  BY RowRaises
<1>4. \A e \in DOMAIN exceptions : exceptions[e].status = "open" =>
        exceptions[e].signature \in OpenSignatures(r)
  BY DEF OpenSignatures
<1>5. ASSUME NEW e \in DOMAIN exceptions'
      PROVE  exceptions'[e].job \in Runs /\ run'[exceptions'[e].job].phase # "idle"
             /\ run'[exceptions'[e].job].mode = "commit"
  BY <1>1, <1>2, <1>3 DEF ExceptionsInv, InPhase, OneOpenPerConflict
<1>6. ASSUME NEW d \in DOMAIN exceptions', NEW e \in DOMAIN exceptions', d # e,
             exceptions'[d].status = "open", exceptions'[e].status = "open"
      PROVE  exceptions'[d].signature # exceptions'[e].signature
  <2>1. CASE d \in DOMAIN exceptions /\ e \in DOMAIN exceptions
    BY <1>1, <1>3, <1>6, <2>1 DEF ExceptionsInv, OneOpenPerConflict
  <2>2. CASE d \in DOMAIN exceptions /\ e \notin DOMAIN exceptions
    BY <1>3, <1>4, <1>6, <2>2
  <2>3. CASE d \notin DOMAIN exceptions /\ e \in DOMAIN exceptions
    BY <1>3, <1>4, <1>6, <2>3
  <2> QED
    BY <1>3, <1>6, <2>1, <2>2, <2>3
<1> QED
  BY <1>5, <1>6 DEF ExceptionsInv, InPhase, OneOpenPerConflict

LEMMA RowDecisions ==
  ASSUME IInv, NEW r \in Runs, ImportRow(r)
  PROVE  DecisionsInv'
<1>1. DecisionsInv /\ UNCHANGED <<decisions, seen>>
  BY DEF IInv, ImportRow
<1>2. /\ DOMAIN exceptions \subseteq DOMAIN exceptions'
      /\ \A e \in DOMAIN exceptions : exceptions'[e] = exceptions[e]
      /\ \A e \in DOMAIN exceptions' \ DOMAIN exceptions : exceptions'[e].status = "open"
  BY RowRaises
<1>3. ASSUME NEW e \in DOMAIN exceptions'
      PROVE  LET on == {d \in decisions : d.exception = e}
             IN  IF exceptions'[e].status = "open"
                 THEN on = {}
                 ELSE \E d \in on : on = {d} /\ d.status = exceptions'[e].status
  <2>1. CASE e \in DOMAIN exceptions
    BY <1>1, <1>2, <2>1 DEF DecisionsInv, DecisionsAreFinal
  <2>2. CASE e \notin DOMAIN exceptions
    BY <1>1, <1>2, <2>2 DEF DecisionsInv
  <2> QED
    BY <2>1, <2>2
<1>4. DecisionsAreFinal'
  BY <1>1, <1>3 DEF DecisionsAreFinal
<1> QED
  BY <1>1, <1>2, <1>4 DEF DecisionsInv

\* A row of the commit has the verdict that the dry run gave it.
LEMMA CommitConfirms ==
  ASSUME IInv, NEW d \in Runs, NEW r \in Runs, ImportRow(r), Follows(d, r)
  PROVE  rows[d][RowNumber(r)].outcome = Verdict(r) /\ RowNumber(r) \in DOMAIN rows[d]
<1> DEFINE n == RowNumber(r)
           file == run[r].file
           index == run[r].index
<1>1. /\ TypeOK /\ n \in DOMAIN run[r].file /\ n \in Nat /\ n - 1 = Len(rows[r])
      /\ n <= Len(file) /\ DOMAIN rows[r] = 1 .. n - 1
  BY RowIsDue
<1>2. DryInv /\ ProgressInv
  BY DEF IInv
<1>3. run[d].phase = "done" /\ run[d].file = file
  BY <1>2 DEF DryInv, Follows, InPhase
<1>4. n \in DOMAIN rows[d]
  <2>1. Progress(d) /\ rows[d] \in Seq(ImportedRow)
    BY <1>1, <1>2 DEF ProgressInv, TypeOK
  <2>2. Len(rows[d]) = Len(file)
    BY <1>3, <2>1 DEF Progress
  <2> QED
    BY <1>1, <2>1, <2>2, RowIsDue
<1>5. /\ run[d].index = index
      /\ \A i \in DOMAIN rows[d] : rows[d][i].outcome = Foretold(file, index, Before(r), i)
      /\ \A a \in DOMAIN assets : assets[a].by = r =>
           \E i \in DOMAIN rows[r] : Fits(file[i], index) /\ assets[a].ident = file[i].ident
  <2>1. Confirmed(d, r)
    BY <1>2 DEF DryInv
  <2> QED
    BY <1>3, <2>1 DEF Confirmed
<1>6. Verdict(r) = Foretold(file, index, Everything, n)
  BY <1>1, VerdictIsForetold
<1>7. Foretold(file, index, Everything, n) = Foretold(file, index, Before(r), n)
  <2>1. /\ DOMAIN Before(r) = NotBy(r) /\ NotBy(r) \subseteq DOMAIN Everything
        /\ \A a \in NotBy(r) : Before(r)[a] = Everything[a]
    BY DEF Everything, Before, NotBy
  <2>2. \A a \in DOMAIN Everything \ NotBy(r) : \E i \in 1 .. n - 1 :
          Fits(file[i], index) /\ Everything[a] = file[i].ident
    BY <1>1, <1>5, <2>1 DEF Everything, NotBy
  <2>3. n \in Nat
    BY <1>1
  <2> HIDE DEF n, file, index
  <2> QED
    BY <2>1, <2>2, <2>3, OwnRowsDoNotMatter
<1> QED
  BY <1>4, <1>5, <1>6, <1>7

LEMMA RowDryRuns ==
  ASSUME IInv, NEW r \in Runs, ImportRow(r)
  PROVE  DryInv'
<1>1. /\ TypeOK /\ DryInv /\ run[r].phase = "rows" /\ locs' = locs
      /\ \A q \in Runs : run[q].earlier \subseteq Runs
      /\ Verdict(r) = Foretold(run[r].file, run[r].index, Everything, RowNumber(r))
  <2>1. TypeOK /\ run[r].phase = "rows" /\ RowNumber(r) <= Len(run[r].file)
    BY RowIsDue
  <2> QED
    BY <2>1, VerdictIsForetold DEF IInv, ImportRow, TypeOK, Memory
<1>2. \A q \in Runs :
        /\ run'[q].mode = run[q].mode /\ run'[q].file = run[q].file
        /\ run'[q].index = run[q].index /\ run'[q].earlier = run[q].earlier
        /\ run'[q].phase = run[q].phase
        /\ run'[q].wrote = IF Creates(r) /\ DryRun(q) THEN run[q].wrote \cup {r}
                           ELSE run[q].wrote
  BY RowCounts
<1>3. /\ NewRow(r).outcome = Verdict(r)
      /\ \A q \in Runs \ {r} : rows'[q] = rows[q]
      /\ DOMAIN rows'[r] = DOMAIN rows[r] \cup {RowNumber(r)}
      /\ \A i \in DOMAIN rows[r] : rows'[r][i] = rows[r][i]
      /\ rows'[r][RowNumber(r)] = NewRow(r)
  BY RowReports
<1>4. /\ \A a \in DOMAIN assets : a \in DOMAIN assets' /\ assets'[a] = assets[a]
      /\ Creates(r) => /\ DOMAIN assets' = DOMAIN assets \cup {Len(assets) + 1}
                       /\ assets'[Len(assets) + 1].ident = CurrentRow(r).ident
                       /\ assets'[Len(assets) + 1].by = r
      /\ ~Creates(r) => assets' = assets
  BY RowCreates
<1>5. \A q \in Runs : DryRun(q)' <=> DryRun(q)
  BY <1>2 DEF DryRun, InPhase
<1>6. Creates(r) => run[r].mode = "commit"
  BY DEF Creates
<1>7. ~Creates(r) => Everything' = Everything /\ \A c : Before(c)' = Before(c)
  BY <1>4 DEF Everything, Before, NotBy
<1>8. Before(r)' = Before(r)
  <2>1. CASE Creates(r)
    <3>1. \A a : a \in NotBy(r)' <=> a \in NotBy(r)
      BY <1>4, <2>1 DEF NotBy
    <3>2. NotBy(r)' = NotBy(r)
      BY <3>1 DEF NotBy
    <3>3. \A a \in NotBy(r) : assets'[a] = assets[a]
      BY <1>4 DEF NotBy
    <3> QED
      BY <3>2, <3>3 DEF Before
  <2> QED
    BY <1>7, <2>1
<1>9. \A d \in Runs : Undisturbed(d)'
  <2> TAKE d \in Runs
  <2> SUFFICES ASSUME DryRun(d), run'[d].wrote = {}
               PROVE  /\ run'[d].index = locs'
                      /\ \A i \in DOMAIN rows'[d] : rows'[d][i].outcome =
                           Foretold(run'[d].file, run'[d].index, Everything', i)
    BY <1>5 DEF Undisturbed
  <2>1. ~Creates(r) /\ run[d].wrote = {}
    BY <1>2
  <2>2. /\ run[d].index = locs
        /\ \A i \in DOMAIN rows[d] :
             rows[d][i].outcome = Foretold(run[d].file, run[d].index, Everything, i)
    BY <1>1, <2>1 DEF DryInv, Undisturbed
  <2>3. CASE d # r
    BY <1>1, <1>2, <1>3, <1>7, <2>1, <2>2, <2>3
  <2>4. CASE d = r
    BY <1>1, <1>2, <1>3, <1>7, <2>1, <2>2, <2>4
  <2> QED
    BY <2>3, <2>4
<1>10. \A d, c \in Runs : Confirmed(d, c)'
  <2> TAKE d, c \in Runs
  <2> SUFFICES ASSUME Follows(d, c)' PROVE Confirmed(d, c)'
    BY DEF Confirmed
  <2>1. Follows(d, c)
    BY <1>2 DEF Follows
  <2>2. run[d].phase = "done" /\ DryRun(d)
    BY <1>1, <2>1 DEF DryInv, Follows, InPhase, DryRun
  <2>3. d # r /\ rows'[d] = rows[d]
    BY <1>1, <1>3, <2>2
  <2>4. Creates(r) => c = r
    BY <1>2, <2>2 DEF Follows
  <2>5. Before(c)' = Before(c)
    BY <1>7, <1>8, <2>4
  <2>6. /\ run[d].index = locs /\ run[c].index = locs
        /\ \A i \in DOMAIN rows[d] :
             rows[d][i].outcome = Foretold(run[d].file, run[d].index, Before(c), i)
        /\ \A a \in DOMAIN assets : assets[a].by = c =>
             \E i \in DOMAIN rows[c] :
               Fits(run[c].file[i], run[c].index) /\ assets[a].ident = run[c].file[i].ident
        /\ \A i \in DOMAIN rows[c] : rows[c][i].outcome = rows[d][i].outcome
    BY <1>1, <2>1 DEF DryInv, Confirmed
  <2>7. \A a \in DOMAIN assets' : assets'[a].by = c =>
          \E i \in DOMAIN rows'[c] :
            Fits(run[c].file[i], run[c].index) /\ assets'[a].ident = run[c].file[i].ident
    <3> SUFFICES ASSUME NEW a \in DOMAIN assets', assets'[a].by = c
                 PROVE  \E i \in DOMAIN rows'[c] :
                          /\ Fits(run[c].file[i], run[c].index)
                          /\ assets'[a].ident = run[c].file[i].ident
      OBVIOUS
    <3>1. CASE a \in DOMAIN assets
      <4>1. DOMAIN rows[c] \subseteq DOMAIN rows'[c]
        BY <1>3
      <4> QED
        BY <1>4, <2>6, <3>1, <4>1
    <3>2. CASE a \notin DOMAIN assets
      <4>1. Creates(r) /\ c = r /\ assets'[a].ident = CurrentRow(r).ident
        BY <1>4, <2>4, <3>2
      <4>2. Fits(CurrentRow(r), run[r].index)
        BY <1>1, <4>1, RowIsDue, VerdictIsForetold DEF Creates
      <4> QED
        BY <1>3, <4>1, <4>2 DEF CurrentRow
    <3> QED
      BY <3>1, <3>2
  <2>8. \A i \in DOMAIN rows'[c] : rows'[c][i].outcome = rows[d][i].outcome
    <3>1. CASE c # r
      BY <1>3, <2>6, <3>1
    <3>2. CASE c = r
      <4>1. rows[d][RowNumber(r)].outcome = Verdict(r)
        BY <2>1, <3>2, CommitConfirms
      <4> QED
        BY <1>3, <2>6, <3>2, <4>1
    <3> QED
      BY <3>1, <3>2
  <2>9. /\ run'[d].index = run[d].index /\ run'[c].index = run[c].index
        /\ run'[d].file = run[d].file /\ run'[c].file = run[c].file
    BY <1>2
  <2> QED
    BY <1>1, <2>3, <2>5, <2>6, <2>7, <2>8, <2>9 DEF Confirmed
<1> QED
  BY <1>1, <1>2, <1>9, <1>10 DEF DryInv, InPhase

LEMMA ImportRowKeeps ==
  ASSUME IInv, NEW r \in Runs, ImportRow(r)
  PROVE  IInv'
BY RowTypeOK, RowProgress, RowAssets, RowExceptions, RowDecisions, RowDryRuns DEF IInv

-----------------------------------------------------------------------------
(* The theorems *)

LEMMA NextKeeps ==
  ASSUME IInv, [Next]_vars
  PROVE  IInv'
<1>1. CASE UNCHANGED vars
  <2>1. UNCHANGED <<assets, locs, jobs, rows, exceptions, trail, decisions, run, seen, others, faults>>
    BY <1>1 DEF vars, store
  <2>2. TypeOK' /\ DecisionsInv' /\ ExceptionsInv'
    BY <2>1 DEF IInv, TypeOK, DecisionsInv, DecisionsAreFinal, ExceptionsInv, OneOpenPerConflict, InPhase
  <2>3. ProgressInv' /\ AssetsInv'
    BY <2>1, RowsFrame DEF IInv
  <2>4. \A q \in Runs : run[q].earlier \subseteq Runs
    BY DEF IInv, TypeOK, Memory
  <2>5. DryInv'
    BY <2>1, <2>4, DryFrame DEF IInv
  <2> QED
    BY <2>2, <2>3, <2>5 DEF IInv
<1>2. ASSUME NEW r \in Runs,
             \/ \E mode \in Modes, file \in Files : Start(r, mode, file)
             \/ OpenJob(r) \/ ImportRow(r) \/ RowRefused(r) \/ CompleteJob(r)
             \/ UnitFails(r) \/ CleanUp(r) \/ Crash(r)
      PROVE  IInv'
  BY <1>2, StartKeeps, OpenJobKeeps, ImportRowKeeps, RowRefusedKeeps, CompleteJobKeeps,
     FaultKeeps, CleanUpKeeps
<1>3. ASSUME NEW v \in Reviewers,
             \/ \E e \in DOMAIN exceptions : ReadException(v, e)
             \/ \E decision \in {"resolved", "dismissed"} : Decide(v, decision)
      PROVE  IInv'
  BY <1>3, ReadExceptionKeeps, DecideKeeps
<1> QED
  BY <1>1, <1>2, <1>3, OtherRequestsKeep DEF Next

LEMMA Invariance == Spec => []IInv
BY InitEstablishes, NextKeeps, PTL DEF Spec

\* Every variable has its type in every reachable state.
THEOREM TypeCorrect == Spec => []TypeOK
<1>1. IInv => TypeOK
  BY DEF IInv
<1> QED
  BY <1>1, Invariance, PTL

\* Whatever failed and whenever the process died: the counters of a job are
\* those of its rows, and an imported asset has its trail and its one row.
THEOREM ProgressIsHonest == Spec => []HonestProgress
<1>1. IInv => HonestProgress
  <2> SUFFICES ASSUME IInv PROVE HonestProgress
    OBVIOUS
  <2>1. CountersAgree
    <3> SUFFICES ASSUME NEW r \in Runs
                 PROVE  /\ \A o \in Outcomes : jobs[r].counts[o] =
                             Cardinality({i \in DOMAIN rows[r] : rows[r][i].outcome = o})
                        /\ jobs[r].status = "completed" => Len(rows[r]) = Len(run[r].file)
                        /\ jobs[r].status = "none" => rows[r] = << >>
      BY DEF CountersAgree
    <3>1. Progress(r)
      BY DEF IInv, ProgressInv
    <3> QED
      BY <3>1 DEF Progress, RowsWith
  <2>2. ImportedIsRecorded
    <3> SUFFICES ASSUME NEW a \in DOMAIN assets, NEW r, r = assets[a].by, r # None
                 PROVE  /\ run[r].mode = "commit"
                        /\ [asset |-> a, job |-> r] \in trail
                        /\ Cardinality({i \in DOMAIN rows[r] :
                             rows[r][i].outcome = "created" /\ rows[r][i].asset = a}) = 1
      BY DEF ImportedIsRecorded
    <3>1. /\ run[r].mode = "commit" /\ [asset |-> a, job |-> r] \in trail
          /\ \E i \in DOMAIN rows[r] : CreatingRows(r, a) = {i}
      BY DEF IInv, AssetsInv
    <3>2. CreatingRows(r, a) =
            {i \in DOMAIN rows[r] : rows[r][i].outcome = "created" /\ rows[r][i].asset = a}
      BY DEF CreatingRows, RowsWith
    <3> QED
      BY <3>1, <3>2, FS_Singleton
  <2> QED
    BY <2>1, <2>2 DEF HonestProgress
<1> QED
  BY <1>1, Invariance, PTL

\* No conflict is open twice, however many imports run at a time.
THEOREM ConflictsOpenOnce == Spec => []OneOpenPerConflict
<1>1. IInv => OneOpenPerConflict
  BY DEF IInv, ExceptionsInv
<1> QED
  BY <1>1, Invariance, PTL

\* A decided exception has exactly one decision on record, the one it shows.
THEOREM DecisionsStand == Spec => []DecisionsAreFinal
<1>1. IInv => DecisionsAreFinal
  BY DEF IInv, DecisionsInv
<1> QED
  BY <1>1, Invariance, PTL

\* The commit of a file gives every row the outcome that a dry run has shown,
\* if nobody but the commit has written since the dry run began.
THEOREM DryRunsForetell == Spec => []DryRunForetells
<1>1. IInv => DryRunForetells
  BY DEF IInv, DryInv, Confirmed, Follows, DryRunForetells
<1> QED
  BY <1>1, Invariance, PTL

\* When a collision is committed, an exception about it is open.
THEOREM CollisionsAreAsked == Spec => CollisionsAreReviewed
<1> DEFINE Asked ==
      \A r \in Runs :
        ImportRow(r) /\ run[r].mode = "commit" /\ rows'[r][RowNumber(r)].outcome = "collision"
          => \E e \in DOMAIN exceptions' :
               /\ exceptions'[e].status = "open"
               /\ exceptions'[e].signature.ident = CurrentRow(r).ident
<1>1. IInv => Asked
  <2> SUFFICES ASSUME IInv, NEW r \in Runs, ImportRow(r), run[r].mode = "commit",
                      rows'[r][RowNumber(r)].outcome = "collision"
               PROVE  \E e \in DOMAIN exceptions' :
                        /\ exceptions'[e].status = "open"
                        /\ exceptions'[e].signature.ident = CurrentRow(r).ident
    OBVIOUS
  <2>1. Collides(r)
    BY RowReports DEF Collides
  <2>2. Signature(CurrentRow(r)).ident = CurrentRow(r).ident
    BY DEF Signature
  <2> QED
    BY <2>1, <2>2, RowRaises
<1>2. IInv /\ [Next]_vars => [Asked]_vars
  BY <1>1
<1> QED
  BY <1>2, Invariance, PTL DEF Spec, CollisionsAreReviewed
=============================================================================
