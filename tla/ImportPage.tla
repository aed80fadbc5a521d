----------------------------- MODULE ImportPage -----------------------------
(***************************************************************************)
(* The form of a CSV import in the browser: a text that is typed or read   *)
(* from a file, a dry run whose report is reviewed, and a commit of what   *)
(* was reviewed.  Files are read and reports arrive while the user goes on *)
(* editing; a revision number tells which of them still belong to the form.*)
(***************************************************************************)
EXTENDS Naturals, FiniteSets

CONSTANTS
  Texts, Names,   \* contents and names of files; both contain Empty
  Empty,
  MaxRevision     \* bound: edits and files chosen

ASSUME ImportPageAssumption == Empty \in Texts /\ Empty \in Names /\ MaxRevision \in Nat

Inputs == [csv : Texts, name : Names]
Nothing == [csv |-> Empty, name |-> Empty]

VARIABLES
  form,         \* csv and filename
  revision,     \* inputRevision
  readRequest,  \* fileReadRequest
  reading,      \* readingFile
  reads,        \* files being read, with what loadFile captured
  reviewed,     \* the input whose preview is on display, or Nothing
  running,      \* busy: "none", "dry_run", "commit"
  result,       \* the report on display: its input and mode, or None
  run,          \* the run on its way, with what its closure captured, or None
  previewed,    \* history: the inputs whose dry-run report was on display
  latest        \* history: the input as the user last gave it

None == [mode |-> "none"]

importVars == <<form, revision, readRequest, reading, reads, reviewed, running,
                result, run, previewed, latest>>

\* The controls are disabled while a commit runs.
Editable == running # "commit" /\ revision < MaxRevision

Forget == result' = None /\ reviewed' = Nothing

\* The two onChange handlers
Edit(input) ==
  /\ Editable
  /\ input # form /\ (input.csv = form.csv \/ input.name = form.name)
  /\ revision' = revision + 1
  /\ form' = input /\ latest' = input
  /\ Forget
  /\ UNCHANGED <<readRequest, reading, reads, running, run, previewed>>

\* loadFile, until its await
ChooseFile(input) ==
  /\ Editable
  /\ input.name # Empty
  /\ readRequest' = readRequest + 1
  /\ revision' = revision + 1
  /\ reading' = TRUE
  /\ Forget
  /\ reads' = reads \cup {[request |-> readRequest', revision |-> revision', input |-> input]}
  /\ latest' = input
  /\ UNCHANGED <<form, running, run, previewed>>

\* Mutant: whichever file is read last.
MutIsLatest(x) == TRUE

IsLatest(x) == x.request = readRequest /\ x.revision = revision

\* loadFile, after its await; nothing else was chosen or typed
FileRead(x) ==
  /\ reads' = reads \ {x}
  /\ reading' = (reading /\ x.request # readRequest)
  /\ IF IsLatest(x)
     THEN /\ revision' = revision + 1
          /\ form' = x.input
          /\ result' = None
     ELSE UNCHANGED <<revision, form, result>>
  /\ UNCHANGED <<readRequest, reviewed, running, run, previewed, latest>>

\* The file cannot be read: the form stays as it is, and says so.
FileFails(x) ==
  /\ reads' = reads \ {x}
  /\ reading' = (reading /\ x.request # readRequest)
  /\ latest' = IF IsLatest(x) THEN form ELSE latest
  /\ UNCHANGED <<form, revision, readRequest, reviewed, running, result, run, previewed>>

ReviewedIsCurrent == reviewed # Nothing /\ reviewed = form

\* run, until its await
Run(mode) ==
  /\ running = "none" /\ ~reading
  /\ form.csv # Empty
  /\ mode = "commit" => ReviewedIsCurrent
  /\ running' = mode
  /\ run' = [mode |-> mode, input |-> form, revision |-> revision]
  /\ IF mode = "dry_run" THEN Forget ELSE UNCHANGED <<result, reviewed>>
  /\ UNCHANGED <<form, revision, readRequest, reading, reads, previewed, latest>>

\* Mutant: the report of what was sent is displayed whatever was typed since.
MutStillMeant == TRUE

StillMeant == run.revision = revision

\* run, after its await: the report, displayed if the form is as it was.
Report ==
  /\ run # None
  /\ running' = "none" /\ run' = None
  /\ IF StillMeant
     THEN /\ result' = run
          /\ reviewed' = IF run.mode = "dry_run" THEN run.input ELSE Nothing
          /\ previewed' = IF run.mode = "dry_run"
                          THEN previewed \cup {run.input} ELSE previewed
     ELSE UNCHANGED <<result, reviewed, previewed>>
  /\ UNCHANGED <<form, revision, readRequest, reading, reads, latest>>

\* The server refuses, or the network fails.
RunFails ==
  /\ run # None
  /\ running' = "none" /\ run' = None
  /\ UNCHANGED <<form, revision, readRequest, reading, reads, result, reviewed,
                 previewed, latest>>

ImportInit ==
  /\ form = Nothing /\ latest = Nothing
  /\ revision = 0 /\ readRequest = 0 /\ reading = FALSE /\ reads = {}
  /\ reviewed = Nothing /\ running = "none" /\ result = None /\ run = None
  /\ previewed = {}

\* The page was left: what is read or reported now sets no state.
ImportLeft ==
  /\ form' = Nothing /\ latest' = Nothing
  /\ revision' = 0 /\ readRequest' = 0 /\ reading' = FALSE /\ reads' = {}
  /\ reviewed' = Nothing /\ running' = "none" /\ result' = None /\ run' = None
  /\ previewed' = {}

ImportStep ==
  \/ \E input \in Inputs : Edit(input) \/ ChooseFile(input)
  \/ \E x \in reads : FileRead(x) \/ FileFails(x)
  \/ \E mode \in {"dry_run", "commit"} : Run(mode)
  \/ Report \/ RunFails

-----------------------------------------------------------------------------
(* Properties *)

\* What is committed was seen: a commit on its way carries the very text and
\* name whose dry-run report was on display; and a report on display is
\* always that of the text and name in the form ("reviewed", inputRevision).
CommitsWhatWasReviewed ==
  /\ run # None /\ run.mode = "commit" => run.input \in previewed /\ run.input = form
  /\ result # None => result.input = form

\* The form is what its user gave it last: neither a file that was slow to
\* read nor one that failed replaces a later choice (fileReadRequest).
LatestInputWins == ~reading => form = latest
=============================================================================
