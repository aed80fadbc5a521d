-------------------------- MODULE WebClientProofs --------------------------
(***************************************************************************)
(* Proofs about WebClient, for any number of exceptions, assets, changes,  *)
(* clicks and texts.                                                       *)
(* Part 1: the form of an import.  Part 2: the list of exceptions.         *)
(* Part 3: the page of an asset.  Part 4: the browser that shows them.     *)
(*                                                                         *)
(* What shows is current because of what is on its way: of the answers to  *)
(* come only those count whose effect was not cancelled, those were asked  *)
(* for by the last effect, and unless a reload is due they were given      *)
(* after all that the page was told.                                       *)
(***************************************************************************)
EXTENDS WebClient, FiniteSetTheorems, TLAPS

-----------------------------------------------------------------------------
(* Part 1.  The form of an import                                          *)

ImportRuns == [mode : {"dry_run", "commit"}, input : Inputs, revision : Nat]

ImportTypes ==
  /\ form \in Inputs /\ latest \in Inputs
  /\ revision \in Nat /\ readRequest \in Nat /\ reading \in BOOLEAN
  /\ reads \subseteq [request : Nat, revision : Nat, input : Inputs]
  /\ run \in ImportRuns \cup {None} /\ result \in ImportRuns \cup {None}

\* The file that was chosen last is the only one that is still wanted, unless
\* the form was edited since.
ReadsInv ==
  /\ \A x \in reads : x.request <= readRequest /\ x.revision <= revision
  /\ \A x, y \in reads : x.request = y.request => x = y
  /\ \A x \in reads : x.request = readRequest =>
       reading /\ (IF x.revision = revision THEN latest = x.input ELSE latest = form)
  /\ ~reading => form = latest

\* A run whose revision is that of the form carries the form; nothing is
\* edited or read while a commit is on its way.
RunInv ==
  /\ run = None => running = "none"
  /\ run # None => /\ running = run.mode /\ run.revision <= revision
                   /\ run.revision = revision => run.input = form
  /\ running = "commit" => ~reading
  /\ reviewed # Nothing => reviewed \in previewed

ImportInv == ImportTypes /\ ReadsInv /\ RunInv /\ CommitsWhatWasReviewed

LEMMA InputFields ==
  ASSUME NEW x \in [request : Nat, revision : Nat, input : Inputs]
  PROVE  x.request \in Nat /\ x.revision \in Nat /\ x.input \in Inputs
  OBVIOUS

LEMMA NothingIsInput == Nothing \in Inputs
  BY ImportPageAssumption DEF Nothing, Inputs

LEMMA NoRunIsNone == \A r \in ImportRuns : r # None
  BY DEF ImportRuns, None

LEMMA ImportStarts ==
  /\ ImportInit => ImportInv
  /\ ImportLeft => ImportInv'
<1>1. ASSUME ImportInit PROVE ImportInv
  BY <1>1, NothingIsInput DEF ImportInit, ImportInv, ImportTypes, ReadsInv, RunInv,
     CommitsWhatWasReviewed, None
<1>2. ASSUME ImportLeft PROVE ImportInv'
  BY <1>2, NothingIsInput DEF ImportLeft, ImportInv, ImportTypes, ReadsInv, RunInv,
     CommitsWhatWasReviewed, None
<1> QED BY <1>1, <1>2

LEMMA EditKeeps ==
  ASSUME ImportInv, NEW input \in Inputs, Edit(input)
  PROVE  ImportInv'
<1> USE DEF ImportInv
<1>1. /\ running # "commit"
      /\ revision' = revision + 1 /\ form' = input /\ latest' = input
      /\ result' = None /\ reviewed' = Nothing
      /\ UNCHANGED <<readRequest, reading, reads, running, run, previewed>>
  BY DEF Edit, Editable, Forget
<1>2. ImportTypes'
  BY <1>1 DEF ImportTypes
<1>3. ReadsInv'
  <2>1. \A x \in reads : x.request \in Nat /\ x.revision \in Nat /\ x.revision # revision + 1
    BY DEF ImportTypes, ReadsInv
  <2> QED BY <1>1, <2>1 DEF ImportTypes, ReadsInv
<1>4. RunInv' /\ CommitsWhatWasReviewed'
  <2>1. run # None => run.revision \in Nat /\ run.mode # "commit"
    BY <1>1 DEF ImportTypes, ImportRuns, RunInv
  <2> QED BY <1>1, <2>1 DEF ImportTypes, RunInv, CommitsWhatWasReviewed
<1> QED BY <1>2, <1>3, <1>4

LEMMA ChooseFileKeeps ==
  ASSUME ImportInv, NEW input \in Inputs, ChooseFile(input)
  PROVE  ImportInv'
<1> USE DEF ImportInv
<1> DEFINE new == [request |-> readRequest + 1, revision |-> revision + 1, input |-> input]
<1>1. /\ running # "commit"
      /\ revision' = revision + 1 /\ readRequest' = readRequest + 1 /\ reading' = TRUE
      /\ latest' = input /\ reads' = reads \cup {new}
      /\ result' = None /\ reviewed' = Nothing
      /\ UNCHANGED <<form, running, run, previewed>>
  BY DEF ChooseFile, Editable, Forget
<1>2. /\ new \in [request : Nat, revision : Nat, input : Inputs]
      /\ new.request = readRequest + 1 /\ new.revision = revision + 1 /\ new.input = input
  BY DEF ImportTypes
<1> HIDE DEF new
<1>3. ImportTypes'
  BY <1>1, <1>2 DEF ImportTypes
<1>4. ReadsInv'
  <2>1. \A x \in reads : x.request \in Nat /\ x.revision \in Nat /\ x.request # readRequest + 1
    BY DEF ImportTypes, ReadsInv
  <2> QED BY <1>1, <1>2, <2>1 DEF ImportTypes, ReadsInv
<1>5. RunInv' /\ CommitsWhatWasReviewed'
  <2>1. run # None => run.revision \in Nat /\ run.mode # "commit"
    BY <1>1 DEF ImportTypes, ImportRuns, RunInv
  <2> QED BY <1>1, <2>1 DEF ImportTypes, RunInv, CommitsWhatWasReviewed
<1> QED BY <1>3, <1>4, <1>5

\* Whether the file is read or not, a file that is not the latest changes
\* nothing.
LEMMA FileKeeps ==
  ASSUME ImportInv, NEW x \in reads, FileRead(x) \/ FileFails(x)
  PROVE  ImportInv'
<1> USE DEF ImportInv
<1>1. /\ reads' = reads \ {x} /\ reading' = (reading /\ x.request # readRequest)
      /\ UNCHANGED <<readRequest, reviewed, running, run, previewed>>
  BY DEF FileRead, FileFails
<1>2. /\ x.request \in Nat /\ x.revision \in Nat /\ x.input \in Inputs
      /\ \A y \in reads : y.request \in Nat /\ y.revision \in Nat /\ y.input \in Inputs
  BY InputFields DEF ImportTypes
<1>3. \A y \in reads \ {x} : y.request # x.request
  BY DEF ReadsInv
<1>4. CASE IsLatest(x) /\ FileRead(x)
  <2>1. /\ revision' = revision + 1 /\ form' = x.input /\ latest' = latest /\ result' = None
        /\ x.request = readRequest /\ x.revision = revision
    BY <1>4 DEF FileRead, IsLatest
  <2>2. latest = x.input /\ reading
    BY <2>1 DEF ReadsInv
  <2>3. ImportTypes'
    BY <1>1, <1>2, <2>1 DEF ImportTypes
  <2>4. ReadsInv'
    BY <1>1, <1>2, <1>3, <2>1, <2>2 DEF ImportTypes, ReadsInv
  <2>5. RunInv' /\ CommitsWhatWasReviewed'
    <3>1. run # None => run.revision \in Nat /\ run.mode # "commit"
      BY <2>2 DEF ImportTypes, ImportRuns, RunInv
    <3> QED BY <1>1, <2>1, <2>2, <3>1 DEF ImportTypes, RunInv, CommitsWhatWasReviewed
  <2> QED BY <2>3, <2>4, <2>5
<1>5. CASE IsLatest(x) /\ FileFails(x)
  <2>1. /\ latest' = form /\ UNCHANGED <<form, revision, result>>
        /\ x.request = readRequest
    BY <1>5 DEF FileFails, IsLatest
  <2>2. ImportTypes'
    BY <1>1, <2>1 DEF ImportTypes
  <2>3. ReadsInv'
    BY <1>1, <1>3, <2>1 DEF ImportTypes, ReadsInv
  <2>4. RunInv' /\ CommitsWhatWasReviewed'
    BY <1>1, <2>1 DEF ImportTypes, RunInv, CommitsWhatWasReviewed
  <2> QED BY <2>2, <2>3, <2>4
<1>6. CASE ~IsLatest(x)
  <2>1. UNCHANGED <<form, latest, revision, result>>
    BY <1>6 DEF FileRead, FileFails
  <2>2. x.request = readRequest => form = latest
    BY <1>6 DEF IsLatest, ReadsInv
  <2>3. ImportTypes'
    BY <1>1, <2>1 DEF ImportTypes
  <2>4. ReadsInv'
    BY <1>1, <1>3, <2>1, <2>2 DEF ImportTypes, ReadsInv
  <2>5. RunInv' /\ CommitsWhatWasReviewed'
    BY <1>1, <2>1 DEF ImportTypes, RunInv, CommitsWhatWasReviewed
  <2> QED BY <2>3, <2>4, <2>5
<1> QED BY <1>4, <1>5, <1>6

LEMMA RunKeeps ==
  ASSUME ImportInv, NEW mode \in {"dry_run", "commit"}, Run(mode)
  PROVE  ImportInv'
<1> USE DEF ImportInv
<1> DEFINE new == [mode |-> mode, input |-> form, revision |-> revision]
<1>1. /\ ~reading /\ running' = mode /\ run' = new
      /\ UNCHANGED <<form, revision, readRequest, reading, reads, previewed, latest>>
      /\ \/ mode = "dry_run" /\ result' = None /\ reviewed' = Nothing
         \/ /\ mode = "commit" /\ reviewed # Nothing /\ reviewed = form
            /\ UNCHANGED <<result, reviewed>>
  BY DEF Run, Forget, ReviewedIsCurrent
<1>2. /\ new \in ImportRuns /\ new # None
      /\ new.mode = mode /\ new.input = form /\ new.revision = revision
  BY NoRunIsNone DEF ImportTypes, ImportRuns
<1> HIDE DEF new
<1>3. ImportTypes'
  BY <1>1, <1>2 DEF ImportTypes
<1>4. ReadsInv'
  BY <1>1 DEF ReadsInv
<1>5. RunInv'
  BY <1>1, <1>2 DEF RunInv, ImportTypes
<1>6. CommitsWhatWasReviewed'
  BY <1>1, <1>2 DEF RunInv, CommitsWhatWasReviewed
<1> QED BY <1>3, <1>4, <1>5, <1>6

LEMMA ReportKeeps == ImportInv /\ (Report \/ RunFails) => ImportInv'
<1> SUFFICES ASSUME ImportInv, Report \/ RunFails PROVE ImportInv'
  OBVIOUS
<1> USE DEF ImportInv
<1>1. /\ run # None /\ running' = "none" /\ run' = None
      /\ UNCHANGED <<form, revision, readRequest, reading, reads, latest>>
      /\ \/ UNCHANGED <<result, reviewed, previewed>>
         \/ /\ run.revision = revision /\ result' = run
            /\ reviewed' = IF run.mode = "dry_run" THEN run.input ELSE Nothing
            /\ previewed' = IF run.mode = "dry_run"
                            THEN previewed \cup {run.input} ELSE previewed
  BY DEF Report, RunFails, StillMeant
<1>2. ImportTypes'
  BY <1>1 DEF ImportTypes
<1>3. ReadsInv'
  BY <1>1 DEF ReadsInv
<1>4. RunInv' /\ CommitsWhatWasReviewed'
  BY <1>1 DEF RunInv, CommitsWhatWasReviewed
<1> QED BY <1>2, <1>3, <1>4

LEMMA ImportStepKeeps == ImportInv /\ (ImportStep \/ UNCHANGED importVars) => ImportInv'
<1>1. CASE ImportStep
  BY <1>1, EditKeeps, ChooseFileKeeps, FileKeeps, RunKeeps, ReportKeeps DEF ImportStep
<1>2. CASE UNCHANGED importVars
  BY <1>2 DEF importVars, ImportInv, ImportTypes, ReadsInv, RunInv, CommitsWhatWasReviewed
<1> QED BY <1>1, <1>2

-----------------------------------------------------------------------------
(* Part 2.  The list of exceptions                                         *)

Loads ==
  [filter : Filters, page : Nat, nonce : Nat, live : BOOLEAN,
   stage : {"sent", "listed", "answer", "401"},
   items : SUBSET Ids, total : Nat, knew : SUBSET Ids]

Chosen == [filter : Filters \cup {"none"}, page : Nat, nonce : Nat]

ListTypes ==
  /\ decided \subseteq Ids /\ acked \subseteq decided
  /\ deps \in Chosen /\ deps.filter \in Filters /\ ran \in Chosen
  /\ loads \subseteq Loads
  /\ reviewing \in Ids \cup {0}
  /\ posts \subseteq [exception : Ids, live : BOOLEAN, stage : {"sent", "ok", "409", "401"}]
  /\ \A p \in posts : p.stage = "ok" => p.exception \in decided

\* The loads that were not cancelled are those of the last effect.
LoadsInv ==
  /\ \A c \in loads : c.live =>
       c.filter = ran.filter /\ c.page = ran.page /\ c.nonce = ran.nonce
  /\ list.kind = "answer" => list.filter = ran.filter /\ list.page = ran.page
  /\ list.kind = "answer" => list.items \subseteq Ids

\* Unless a reload is due, what shows and what will show was read after the
\* last decision that the page was told of.
KnownInv ==
  /\ ran.nonce <= deps.nonce
  /\ ran.nonce = deps.nonce =>
       /\ list.kind = "answer" => acked \subseteq list.knew
       /\ \A c \in loads : c.live /\ c.stage \in {"listed", "answer"} => acked \subseteq c.knew

ListInv == ListTypes /\ LoadsInv /\ KnownInv

LEMMA MatchingCounts ==
  /\ \A filter \in Filters : Matching(filter) \subseteq Ids
  /\ \A filter \in Filters : Cardinality(Matching(filter)) \in Nat
  /\ \A filter \in Filters, page \in Nat : OnPage(filter, page) \subseteq Ids
<1>1. \A filter \in Filters : Matching(filter) \subseteq Ids
  BY DEF Matching
<1>2. IsFiniteSet(Ids)
  BY ExceptionsPageAssumption, FS_Interval DEF Ids
<1>3. \A filter \in Filters : Cardinality(Matching(filter)) \in Nat
  BY <1>1, <1>2, FS_Subset, FS_CardinalityType
<1>4. \A filter \in Filters, page \in Nat : OnPage(filter, page) \subseteq Ids
  BY <1>1 DEF OnPage
<1> QED BY <1>1, <1>3, <1>4

LEMMA ListStarts == ExceptionsInit => ListInv
<1> SUFFICES ASSUME ExceptionsInit PROVE ListInv
  OBVIOUS
<1>1. /\ deps = Mounted /\ ran = NotRun /\ list = Loading /\ loads = {} /\ posts = {}
      /\ decided = {} /\ acked = {} /\ reviewing = 0
  BY DEF ExceptionsInit
<1>2. /\ Mounted \in Chosen /\ Mounted.filter = "open" /\ Mounted.nonce = 0
      /\ NotRun \in Chosen /\ NotRun.nonce = 0
      /\ Loading.kind = "loading"
  BY DEF Mounted, NotRun, Chosen, Filters, Loading
<1> QED BY <1>1, <1>2 DEF ListInv, ListTypes, LoadsInv, KnownInv, Filters

\* The page is left, or rendered anew.
LEMMA ListLeft ==
  ASSUME ListInv, Remounted, loads' = {}, decided' = decided,
         NEW P \in SUBSET posts, posts' = {[p EXCEPT !.live = FALSE] : p \in P}
  PROVE  ListInv'
<1>1. /\ deps' = Mounted /\ ran' = NotRun /\ list' = Loading
      /\ acked' = {} /\ reviewing' = 0
  BY DEF Remounted
<1>2. /\ Mounted \in Chosen /\ Mounted.filter = "open" /\ Mounted.nonce = 0
      /\ NotRun \in Chosen /\ NotRun.nonce = 0
      /\ Loading.kind = "loading"
  BY DEF Mounted, NotRun, Chosen, Filters, Loading
<1>3. \A p \in P : /\ [p EXCEPT !.live = FALSE] \in
                        [exception : Ids, live : BOOLEAN, stage : {"sent", "ok", "409", "401"}]
                   /\ [p EXCEPT !.live = FALSE].stage = p.stage
                   /\ [p EXCEPT !.live = FALSE].exception = p.exception
  BY DEF ListInv, ListTypes
<1>4. ListTypes'
  BY <1>1, <1>2, <1>3 DEF ListInv, ListTypes, Filters
<1> QED BY <1>1, <1>2, <1>4 DEF ListInv, LoadsInv, KnownInv

LEMMA ListUnchanged == ListInv /\ UNCHANGED exceptionsVars => ListInv'
  BY DEF exceptionsVars, pageVars, ListInv, ListTypes, LoadsInv, KnownInv

\* A load goes one stage further.
LEMMA LoadServed ==
  ASSUME ListInv, NEW c \in loads, ServeList(c) \/ ServeCount(c)
  PROVE  ListInv'
<1>1. UNCHANGED <<decided, deps, ran, list, total, reviewing, posts, acked>>
  BY DEF ServeList, ServeCount
<1>2. PICK d : /\ loads' = (loads \ {c}) \cup {d} /\ d \in Loads
               /\ d.filter = c.filter /\ d.page = c.page /\ d.nonce = c.nonce /\ d.live = c.live
               /\ d.stage \in {"listed", "answer"} =>
                    \/ d.knew = decided
                    \/ c.stage \in {"listed", "answer"} /\ d.knew = c.knew
  <2>1. c \in Loads
    BY DEF ListInv, ListTypes
  <2>2. /\ c.filter \in Filters /\ c.page \in Nat
        /\ OnPage(c.filter, c.page) \in SUBSET Ids /\ Cardinality(Matching(c.filter)) \in Nat
    BY <2>1, MatchingCounts DEF Loads
  <2>3. decided \in SUBSET Ids
    BY DEF ListInv, ListTypes
  <2>4. CASE ServeList(c) /\ session
    <3> DEFINE d == [c EXCEPT !.stage = "listed", !.items = OnPage(c.filter, c.page),
                              !.knew = decided]
    <3>1. loads' = (loads \ {c}) \cup {d}
      BY <2>4 DEF ServeList
    <3>2. /\ d \in Loads /\ d.knew = decided
          /\ d.filter = c.filter /\ d.page = c.page /\ d.nonce = c.nonce /\ d.live = c.live
      BY <2>1, <2>2, <2>3 DEF Loads
    <3> QED BY <3>1, <3>2
  <2>5. CASE ServeList(c) /\ ~session
    <3>1. loads' = (loads \ {c}) \cup {Unauthorized(c)}
      BY <2>5 DEF ServeList
    <3>2. /\ Unauthorized(c) \in Loads /\ Unauthorized(c).stage = "401"
          /\ Unauthorized(c).filter = c.filter /\ Unauthorized(c).page = c.page
          /\ Unauthorized(c).nonce = c.nonce /\ Unauthorized(c).live = c.live
      BY <2>1 DEF Loads, Unauthorized
    <3> QED BY <3>1, <3>2
  <2>6. CASE ServeCount(c)
    <3> DEFINE d == [c EXCEPT !.stage = "answer", !.total = Cardinality(Matching(c.filter))]
    <3>1. loads' = (loads \ {c}) \cup {d} /\ c.stage = "listed"
      BY <2>6 DEF ServeCount
    <3>2. /\ d \in Loads /\ d.knew = c.knew
          /\ d.filter = c.filter /\ d.page = c.page /\ d.nonce = c.nonce /\ d.live = c.live
      BY <2>1, <2>2 DEF Loads
    <3> QED BY <3>1, <3>2
  <2> QED BY <2>4, <2>5, <2>6
<1>3. ListTypes'
  BY <1>1, <1>2 DEF ListInv, ListTypes
<1>4. LoadsInv'
  BY <1>1, <1>2 DEF ListInv, LoadsInv
<1>5. KnownInv'
  BY <1>1, <1>2 DEF ListInv, ListTypes, KnownInv
<1> QED BY <1>3, <1>4, <1>5 DEF ListInv

\* A load is answered, or fails: what it brings is that of the last effect.
LEMMA LoadAnswered ==
  ASSUME ListInv, NEW c \in loads, Answered(c) \/ LoadFails(c)
  PROVE  ListInv'
<1>1. /\ UNCHANGED <<decided, ran, reviewing, posts, acked>>
      /\ loads' = loads \ {c}
  BY DEF Answered, LoadFails
<1>2. c \in Loads
  BY DEF ListInv, ListTypes
<1>3. /\ c.filter \in Filters /\ c.page \in Nat /\ c.live \in BOOLEAN
      /\ c.items \subseteq Ids /\ deps.nonce \in Nat /\ ran.nonce \in Nat
  BY <1>2 DEF Loads, ListInv, ListTypes, Chosen
<1>4. \/ UNCHANGED <<deps, list>>
      \/ /\ c.live /\ c.stage = "answer" /\ c.page > 0
         /\ deps' = [deps EXCEPT !.page = c.page - 1] /\ list' = list
      \/ /\ c.live /\ c.stage = "answer" /\ deps' = deps
         /\ list' = [kind |-> "answer", filter |-> c.filter, page |-> c.page,
                     items |-> c.items, knew |-> c.knew]
      \/ deps' = deps /\ list' = Failed
  <2>1. CASE Answered(c)
    BY <1>3, <2>1 DEF Answered, PageBefore
  <2>2. CASE LoadFails(c)
    BY <1>3, <2>2 DEF LoadFails
  <2> QED BY <2>1, <2>2
<1>5. /\ deps' \in Chosen /\ deps'.filter = deps.filter /\ deps'.nonce = deps.nonce
  <2>1. deps \in Chosen
    BY DEF ListInv, ListTypes
  <2>2. c.page > 0 => c.page - 1 \in Nat
    BY <1>3
  <2> QED BY <1>4, <2>1, <2>2 DEF Chosen
<1>6. ListTypes'
  BY <1>1, <1>5 DEF ListInv, ListTypes
<1>7. LoadsInv' /\ KnownInv'
  <2>1. CASE UNCHANGED list \/ list' = Failed
    BY <1>1, <1>5, <2>1 DEF ListInv, LoadsInv, KnownInv, Failed
  <2>2. CASE /\ c.live /\ c.stage = "answer" /\ deps' = deps
             /\ list' = [kind |-> "answer", filter |-> c.filter, page |-> c.page,
                         items |-> c.items, knew |-> c.knew]
    <3>1. /\ list'.filter = c.filter /\ list'.page = c.page
          /\ list'.items = c.items /\ list'.knew = c.knew
      BY <2>2
    <3> QED BY <1>1, <1>3, <2>2, <3>1 DEF ListInv, LoadsInv, KnownInv
  <2> QED BY <1>4, <2>1, <2>2
<1> QED BY <1>6, <1>7 DEF ListInv

\* The effect cancels what is on its way, and loads what is chosen.
LEMMA EffectKeeps == ListInv /\ Effect => ListInv'
<1> SUFFICES ASSUME ListInv, Effect PROVE ListInv'
  OBVIOUS
<1> DEFINE new == [filter |-> deps.filter, page |-> deps.page, nonce |-> deps.nonce,
                   live |-> TRUE, stage |-> "sent", items |-> {}, total |-> 0, knew |-> {}]
<1>1. /\ ran' = deps /\ list' = Loading
      /\ loads' = {Cancelled(c) : c \in loads} \cup {new}
      /\ UNCHANGED <<decided, deps, reviewing, posts, acked>>
  BY DEF Effect
<1>2. /\ deps \in Chosen /\ deps.filter \in Filters /\ deps.nonce \in Nat
  BY DEF ListInv, ListTypes, Chosen
<1>3. /\ new \in Loads /\ new.stage = "sent"
      /\ new.filter = deps.filter /\ new.page = deps.page /\ new.nonce = deps.nonce
  BY <1>2 DEF Loads, Chosen
<1>4. \A c \in loads : Cancelled(c) \in Loads /\ ~Cancelled(c).live
  BY DEF ListInv, ListTypes, Loads, Cancelled
<1>5. Loading.kind = "loading"
  BY DEF Loading
<1> HIDE DEF new
<1>6. ListTypes'
  BY <1>1, <1>2, <1>3, <1>4 DEF ListInv, ListTypes
<1>7. LoadsInv' /\ KnownInv'
  BY <1>1, <1>2, <1>3, <1>4, <1>5 DEF LoadsInv, KnownInv
<1> QED BY <1>6, <1>7 DEF ListInv

\* The user chooses, reviews and submits.
LEMMA UserKeeps == ListInv /\ ExceptionsUser => ListInv'
<1> SUFFICES ASSUME ListInv, ExceptionsUser PROVE ListInv'
  OBVIOUS
<1>1. deps \in Chosen /\ deps.filter \in Filters /\ deps.nonce \in Nat /\ ran.nonce \in Nat
  BY DEF ListInv, ListTypes, Chosen
<1>2. ASSUME NEW filter \in Filters, SetFilter(filter) PROVE ListInv'
  <2>1. deps' \in Chosen /\ deps'.filter \in Filters /\ deps'.nonce = deps.nonce
    BY <1>1, <1>2 DEF SetFilter, Chosen
  <2>2. UNCHANGED <<decided, ran, list, loads, reviewing, posts, acked>>
    BY <1>2 DEF SetFilter
  <2> QED BY <2>1, <2>2 DEF ListInv, ListTypes, LoadsInv, KnownInv
<1>3. ASSUME NEW page \in Offsets, TurnPage(page) PROVE ListInv'
  <2>1. page \in Nat
    BY <1>3 DEF Offsets
  <2>2. deps' \in Chosen /\ deps'.filter = deps.filter /\ deps'.nonce = deps.nonce
    BY <1>1, <1>3, <2>1 DEF TurnPage, Chosen
  <2>3. UNCHANGED <<decided, ran, list, loads, reviewing, posts, acked>>
    BY <1>3 DEF TurnPage
  <2> QED BY <2>2, <2>3 DEF ListInv, ListTypes, LoadsInv, KnownInv
<1>4. ASSUME NEW e \in Ids, Review(e) PROVE ListInv'
  BY <1>4 DEF Review, ListInv, ListTypes, LoadsInv, KnownInv
<1>5. CASE Retry
  <2>1. deps' \in Chosen /\ deps'.filter = deps.filter /\ deps'.nonce = deps.nonce + 1
    BY <1>1, <1>5 DEF Retry, Chosen
  <2>2. UNCHANGED <<decided, ran, list, loads, reviewing, posts, acked>>
    BY <1>5 DEF Retry
  <2> QED BY <1>1, <2>1, <2>2 DEF ListInv, ListTypes, LoadsInv, KnownInv
<1>6. CASE CloseDialog
  BY <1>6 DEF CloseDialog, ListInv, ListTypes, LoadsInv, KnownInv
<1>7. CASE Submit
  <2> DEFINE new == [exception |-> reviewing, live |-> TRUE, stage |-> "sent"]
  <2>1. /\ posts' = posts \cup {new} /\ reviewing # 0
        /\ UNCHANGED <<decided, deps, ran, list, loads, reviewing, acked>>
    BY <1>7 DEF Submit, Modal
  <2>2. new \in [exception : Ids, live : BOOLEAN, stage : {"sent", "ok", "409", "401"}]
        /\ new.stage = "sent"
    BY <2>1 DEF ListInv, ListTypes
  <2> HIDE DEF new
  <2>3. ListTypes'
    BY <2>1, <2>2 DEF ListInv, ListTypes
  <2> QED BY <2>1, <2>3 DEF ListInv, LoadsInv, KnownInv
<1> QED BY <1>2, <1>3, <1>4, <1>5, <1>6, <1>7 DEF ExceptionsUser

\* Of a decision the page is told after it is made, and then it loads again.
LEMMA DecisionKeeps ==
  ASSUME ListInv, NEW p \in posts, ServeDecision(p) \/ Told(p)
  PROVE  ListInv'
<1>1. /\ p \in [exception : Ids, live : BOOLEAN, stage : {"sent", "ok", "409", "401"}]
      /\ p.exception \in Ids /\ decided \subseteq Ids
  BY DEF ListInv, ListTypes
<1>2. deps \in Chosen /\ deps.filter \in Filters /\ deps.nonce \in Nat /\ ran.nonce \in Nat
  BY DEF ListInv, ListTypes, Chosen
<1>3. CASE ServeDecision(p)
  <2>1. UNCHANGED <<deps, ran, list, loads, reviewing, acked>>
    BY <1>3 DEF ServeDecision
  <2>2. PICK q : /\ posts' = (posts \ {p}) \cup {q}
                 /\ q \in [exception : Ids, live : BOOLEAN, stage : {"sent", "ok", "409", "401"}]
                 /\ \/ q.stage = "401" /\ decided' = decided
                    \/ decided' = decided \cup {q.exception} /\ q.exception \in Ids
    <3>1. CASE session
      <4> DEFINE q == [p EXCEPT !.stage = IF p.exception \in decided THEN "409" ELSE "ok"]
      <4>1. posts' = (posts \ {p}) \cup {q} /\ decided' = decided \cup {p.exception}
        BY <1>3, <3>1 DEF ServeDecision
      <4>2. /\ q \in [exception : Ids, live : BOOLEAN, stage : {"sent", "ok", "409", "401"}]
            /\ q.exception = p.exception
        BY <1>1
      <4> QED BY <1>1, <4>1, <4>2
    <3>2. CASE ~session
      <4>1. posts' = (posts \ {p}) \cup {Unauthorized(p)} /\ decided' = decided
        BY <1>3, <3>2 DEF ServeDecision
      <4>2. /\ Unauthorized(p) \in
                 [exception : Ids, live : BOOLEAN, stage : {"sent", "ok", "409", "401"}]
            /\ Unauthorized(p).stage = "401"
        BY <1>1 DEF Unauthorized
      <4> QED BY <4>1, <4>2
    <3> QED BY <3>1, <3>2
  <2>3. ListTypes'
    BY <1>1, <2>1, <2>2 DEF ListInv, ListTypes
  <2> QED BY <2>1, <2>3 DEF ListInv, LoadsInv, KnownInv
<1>4. CASE Told(p) /\ ~(p.live /\ p.stage = "ok")
  <2>1. /\ posts' = posts \ {p} /\ reviewing' \in {reviewing, 0}
        /\ UNCHANGED <<decided, deps, ran, list, loads, acked>>
    BY <1>4 DEF Told
  <2>2. ListTypes'
    BY <2>1 DEF ListInv, ListTypes
  <2> QED BY <2>1, <2>2 DEF ListInv, LoadsInv, KnownInv
<1>5. CASE Told(p) /\ p.live /\ p.stage = "ok"
  <2>1. /\ posts' = posts \ {p} /\ reviewing' = 0
        /\ deps' = [deps EXCEPT !.nonce = @ + 1] /\ acked' = acked \cup {p.exception}
        /\ UNCHANGED <<decided, ran, list, loads>>
    BY <1>5 DEF Told, Reload
  <2>2. deps' \in Chosen /\ deps'.filter = deps.filter /\ deps'.nonce = deps.nonce + 1
    BY <1>2, <2>1 DEF Chosen
  <2>3. p.exception \in decided
    BY <1>5 DEF ListInv, ListTypes
  <2>4. ListTypes'
    BY <2>1, <2>2, <2>3 DEF ListInv, ListTypes
  <2>5. LoadsInv'
    BY <2>1 DEF ListInv, LoadsInv
  <2>6. KnownInv'
    BY <1>2, <2>1, <2>2 DEF ListInv, KnownInv
  <2> QED BY <2>4, <2>5, <2>6 DEF ListInv
<1> QED BY <1>3, <1>4, <1>5

LEMMA OthersDecideKeeps ==
  ASSUME ListInv, NEW e \in Ids, OtherDecides(e)
  PROVE  ListInv'
<1>1. decided' = decided \cup {e} /\ UNCHANGED <<deps, ran, list, loads, reviewing, posts, acked>>
  BY DEF OtherDecides, pageVars
<1> QED BY <1>1 DEF ListInv, ListTypes, LoadsInv, KnownInv

LEMMA ListInvIsCurrent == ListInv => ListIsCurrent
  BY DEF ListInv, LoadsInv, KnownInv, ListIsCurrent

-----------------------------------------------------------------------------
(* Part 3.  The page of an asset                                           *)

Rows == [changes : Nat, events : Nat]
Wanted == [id : AssetIds \cup {NoAsset}, nonce : Nat, page : Nat]

Fetches ==
  [what : {"detail", "history"}, id : AssetIds, page : Nat, live : BOOLEAN,
   stage : {"sent", "answer", "404", "401"}, row : Rows]

Saves ==
  [action : Actions, id : AssetIds, stage : {"sent", "ok", "refused", "401"},
   change : Nat, mounted : BOOLEAN, form : BOOLEAN]

AssetTypes ==
  /\ stored \in [AssetIds -> Rows] /\ told \in [AssetIds -> Nat]
  /\ want \in Wanted /\ done \in Wanted
  /\ fetches \subseteq Fetches /\ saves \subseteq Saves
  /\ dialog \in Actions \cup {"none"}
  /\ detail.kind \in {"null", "answer"} /\ (detail.kind = "null" => detail = Null)

\* Changes only grow, and nobody is told of one that was not made.
ToldInv ==
  /\ \A a \in AssetIds : stored[a].changes <= MaxChanges + 1 /\ told[a] <= stored[a].changes
  /\ \A s \in saves : s.stage = "ok" => s.change <= stored[s.id].changes

\* A page that was not entered for an asset has nothing to show, or to load.
NowhereInv ==
  want.id = NoAsset =>
    /\ want = NotDone /\ done = NotDone
    /\ detail = Null /\ problem = {} /\ dialog = "none"
    /\ \A s \in saves : ~s.mounted

\* What shows, and what will, is of the asset of the last effects.
OfAssetInv ==
  /\ \A f \in fetches : f.live =>
       f.id = done.id /\ (f.what = "history" => f.page = done.page)
  /\ \A x \in problem : x.id = done.id
  /\ detail # Null => detail.id = done.id
  /\ history.kind = "answer" => history.id = done.id /\ history.page = done.page

\* Unless a reload is due, it knows all changes that the page was told of.
FreshInv ==
  /\ done.nonce <= want.nonce
  /\ done.nonce = want.nonce =>
       /\ \A f \in fetches : f.live /\ f.stage = "answer" => f.row.changes >= told[f.id]
       /\ history.kind = "answer" => history.row.changes >= told[done.id]
       /\ Shown /\ ~(\E f \in fetches : f.live /\ f.what = "detail")
            => detail.row.changes >= told[done.id]

AssetInv == AssetTypes /\ ToldInv /\ NowhereInv /\ OfAssetInv /\ FreshInv

LEMMA AssetStarts ==
  ASSUME NEW a \in AssetIds \cup {NoAsset}, AssetInit(a)
  PROVE  AssetInv
<1>1. /\ stored = [x \in AssetIds |-> [changes |-> 0, events |-> 0]]
      /\ want = [id |-> a, nonce |-> 0, page |-> 0] /\ done = NotDone
      /\ detail = Null /\ problem = {} /\ history = Null
      /\ dialog = "none" /\ told = NothingTold /\ fetches = {} /\ saves = {}
  BY DEF AssetInit
<1>2. AssetTypes
  BY <1>1 DEF AssetTypes, Rows, Wanted, NotDone, NothingTold, Null
<1>3. ToldInv
  BY <1>1, AssetPageAssumption DEF ToldInv, NothingTold
<1>4. NowhereInv
  BY <1>1 DEF NowhereInv, NotDone
<1>5. OfAssetInv /\ FreshInv
  BY <1>1 DEF OfAssetInv, FreshInv, NotDone, Null, Shown
<1> QED BY <1>2, <1>3, <1>4, <1>5 DEF AssetInv

\* What becomes of the mutations that are on their way when the page is left.
LeftOver(S) == {[s EXCEPT !.mounted = FALSE, !.form = FALSE] : s \in S}

LEMMA AssetLeft ==
  ASSUME AssetInv, NEW a \in AssetIds \cup {NoAsset}, AssetMounted(a), NEW S \in SUBSET saves,
         fetches' = {}, stored' = stored,
         saves' = LeftOver(S)
  PROVE  AssetInv'
<1>1. /\ want' = [id |-> a, nonce |-> 0, page |-> 0] /\ done' = NotDone
      /\ detail' = Null /\ problem' = {} /\ history' = Null
      /\ dialog' = "none" /\ told' = NothingTold
  BY DEF AssetMounted
<1>2. \A s \in saves' : /\ s \in Saves /\ ~s.mounted
                        /\ \E r \in saves : s.stage = r.stage /\ s.change = r.change /\ s.id = r.id
  <2> TAKE s \in saves'
  <2>1. PICK r \in S : s = [r EXCEPT !.mounted = FALSE, !.form = FALSE]
    BY DEF LeftOver
  <2>2. r \in Saves /\ r \in saves
    BY DEF AssetInv, AssetTypes
  <2>3. s \in Saves /\ ~s.mounted /\ s.stage = r.stage /\ s.change = r.change /\ s.id = r.id
    BY <2>1, <2>2 DEF Saves
  <2> QED BY <2>2, <2>3
<1>3. AssetTypes'
  BY <1>1, <1>2 DEF AssetInv, AssetTypes, Rows, Wanted, NotDone, NothingTold, Null
<1>4. ToldInv'
  <2>1. \A x \in AssetIds : told'[x] = 0 /\ stored'[x].changes \in Nat
    BY <1>1 DEF AssetInv, AssetTypes, Rows, NothingTold
  <2>2. \A s \in saves' : s.stage = "ok" => s.change <= stored'[s.id].changes
    BY <1>2 DEF AssetInv, ToldInv
  <2> QED BY <2>1, <2>2 DEF AssetInv, ToldInv
<1>5. NowhereInv'
  BY <1>1, <1>2 DEF NowhereInv, NotDone
<1>6. OfAssetInv' /\ FreshInv'
  BY <1>1 DEF OfAssetInv, FreshInv, NotDone, Null, Shown
<1> QED BY <1>3, <1>4, <1>5, <1>6 DEF AssetInv

LEMMA AssetUnchanged == AssetInv /\ UNCHANGED assetVars => AssetInv'
  BY DEF assetVars, AssetInv, AssetTypes, ToldInv, NowhereInv, OfAssetInv, FreshInv, Shown

\* An accepted change is one more, and a deletion is beyond them all.
LEMMA ChangesGrow ==
  ASSUME AssetInv, NEW a \in AssetIds, NEW action \in Actions, Accepted(a, action)
  PROVE  /\ Changed(a, action) \in Rows
         /\ stored[a].changes + 1 <= Changed(a, action).changes
         /\ Changed(a, action).changes <= MaxChanges + 1
  BY AssetPageAssumption
     DEF AssetInv, AssetTypes, Rows, Accepted, Changed, Gone, Actions

LEMMA OthersChangeKeeps ==
  ASSUME AssetInv, NEW a \in AssetIds, NEW action \in Actions, OthersChange(a, action)
  PROVE  AssetInv'
<1>1. /\ Accepted(a, action) /\ stored' = [stored EXCEPT ![a] = Changed(a, action)]
      /\ UNCHANGED <<want, done, detail, problem, history, fetches, dialog, saving, saves, told>>
  BY DEF OthersChange
<1>2. /\ Changed(a, action) \in Rows
      /\ stored[a].changes + 1 <= Changed(a, action).changes
      /\ Changed(a, action).changes <= MaxChanges + 1
  BY <1>1, ChangesGrow
<1>3. /\ stored' \in [AssetIds -> Rows]
      /\ \A x \in AssetIds : /\ stored[x].changes <= stored'[x].changes
                             /\ stored'[x].changes <= MaxChanges + 1
  BY <1>1, <1>2, AssetPageAssumption DEF AssetInv, AssetTypes, ToldInv, Rows
<1>4. AssetTypes'
  BY <1>1, <1>3 DEF AssetInv, AssetTypes
<1>5. ToldInv'
  <2>1. \A x \in AssetIds : told'[x] <= stored'[x].changes
    BY <1>1, <1>3 DEF AssetInv, AssetTypes, ToldInv, Rows
  <2>2. \A s \in saves' : s.stage = "ok" => s.change <= stored'[s.id].changes
    BY <1>1, <1>3 DEF AssetInv, AssetTypes, ToldInv, Rows, Saves
  <2> QED BY <1>3, <2>1, <2>2 DEF ToldInv
<1>6. NowhereInv' /\ OfAssetInv' /\ FreshInv'
  BY <1>1 DEF AssetInv, NowhereInv, OfAssetInv, FreshInv, Shown
<1> QED BY <1>4, <1>5, <1>6 DEF AssetInv

LEMMA FetchServed ==
  ASSUME AssetInv, NEW f \in fetches, ServeFetch(f)
  PROVE  AssetInv'
<1>1. f \in Fetches /\ f.stage = "sent"
  BY DEF AssetInv, AssetTypes, ServeFetch
<1>2. PICK g : /\ fetches' = (fetches \ {f}) \cup {g}
               /\ g \in Fetches /\ g.what = f.what /\ g.id = f.id /\ g.page = f.page
               /\ g.live = f.live /\ (g.stage = "answer" => g.row = stored[f.id])
  <2> DEFINE ok == [f EXCEPT !.stage = "answer", !.row = stored[f.id]]
             no == [f EXCEPT !.stage = "404"]
             ex == [f EXCEPT !.stage = "401"]
  <2>1. /\ ok \in Fetches /\ ok.what = f.what /\ ok.id = f.id /\ ok.page = f.page
        /\ ok.live = f.live /\ ok.row = stored[f.id]
    BY <1>1 DEF Fetches, AssetInv, AssetTypes
  <2>2. /\ no \in Fetches /\ no.what = f.what /\ no.id = f.id /\ no.page = f.page
        /\ no.live = f.live /\ no.stage = "404"
    BY <1>1 DEF Fetches
  <2>3. /\ ex \in Fetches /\ ex.what = f.what /\ ex.id = f.id /\ ex.page = f.page
        /\ ex.live = f.live /\ ex.stage = "401"
    BY <1>1 DEF Fetches
  <2>4. fetches' = (fetches \ {f}) \cup
          {IF ~session THEN ex ELSE IF stored[f.id] = Gone THEN no ELSE ok}
    BY DEF ServeFetch, Unauthorized
  <2> HIDE DEF ok, no, ex
  <2> QED BY <2>1, <2>2, <2>3, <2>4
<1>3. UNCHANGED <<stored, want, done, detail, problem, history, dialog, saving, saves, told>>
  BY DEF ServeFetch
<1>4. AssetTypes'
  BY <1>2, <1>3 DEF AssetInv, AssetTypes
<1>5. ToldInv' /\ NowhereInv'
  BY <1>3 DEF AssetInv, ToldInv, NowhereInv
<1>6. OfAssetInv'
  BY <1>2, <1>3 DEF AssetInv, OfAssetInv
<1>7. FreshInv'
  <2>1. g.stage = "answer" => g.row.changes >= told[g.id]
    BY <1>1, <1>2 DEF AssetInv, AssetTypes, ToldInv, Rows, Fetches
  <2>2. (\E x \in fetches' : x.live /\ x.what = "detail")
          <=> (\E x \in fetches : x.live /\ x.what = "detail")
    BY <1>2
  <2> QED BY <1>2, <1>3, <2>1, <2>2 DEF AssetInv, FreshInv, Shown
<1> QED BY <1>4, <1>5, <1>6, <1>7 DEF AssetInv

LEMMA SaveServed ==
  ASSUME AssetInv, NEW s \in saves, ServeSave(s)
  PROVE  AssetInv'
<1>1. s \in Saves /\ s.stage = "sent" /\ s.id \in AssetIds /\ s.action \in Actions
  BY DEF AssetInv, AssetTypes, ServeSave, Saves
<1>2. PICK r : /\ saves' = (saves \ {s}) \cup {r}
               /\ r \in Saves /\ r.id = s.id /\ r.mounted = s.mounted
               /\ \/ r.stage \in {"401", "refused"} /\ stored' = stored
                  \/ /\ r.change = stored[s.id].changes + 1
                     /\ Accepted(s.id, s.action)
                     /\ stored' = [stored EXCEPT ![s.id] = Changed(s.id, s.action)]
  <2> DEFINE ok == [s EXCEPT !.stage = "ok", !.change = stored[s.id].changes + 1]
             no == [s EXCEPT !.stage = "refused"]
             ex == [s EXCEPT !.stage = "401"]
  <2>0. stored[s.id].changes + 1 \in Nat
    BY <1>1 DEF AssetInv, AssetTypes, Rows
  <2>1. /\ ok \in Saves /\ ok.id = s.id /\ ok.mounted = s.mounted
        /\ ok.change = stored[s.id].changes + 1
    BY <1>1, <2>0 DEF Saves
  <2>2. no \in Saves /\ no.id = s.id /\ no.mounted = s.mounted /\ no.stage = "refused"
    BY <1>1 DEF Saves
  <2>3. ex \in Saves /\ ex.id = s.id /\ ex.mounted = s.mounted /\ ex.stage = "401"
    BY <1>1 DEF Saves
  <2>4. \/ saves' = (saves \ {s}) \cup {ex} /\ stored' = stored
        \/ saves' = (saves \ {s}) \cup {no} /\ stored' = stored
        \/ /\ saves' = (saves \ {s}) \cup {ok} /\ Accepted(s.id, s.action)
           /\ stored' = [stored EXCEPT ![s.id] = Changed(s.id, s.action)]
    BY DEF ServeSave, Unauthorized
  <2> HIDE DEF ok, no, ex
  <2> QED BY <2>1, <2>2, <2>3, <2>4
<1>3. UNCHANGED <<want, done, detail, problem, history, fetches, dialog, saving, told>>
  BY DEF ServeSave
<1>4. /\ stored' \in [AssetIds -> Rows]
      /\ \A x \in AssetIds : /\ stored[x].changes <= stored'[x].changes
                             /\ stored'[x].changes <= MaxChanges + 1
      /\ r.stage = "ok" => r.change <= stored'[r.id].changes
  <2>1. CASE r.stage \in {"401", "refused"} /\ stored' = stored
    BY <2>1 DEF AssetInv, AssetTypes, ToldInv, Rows
  <2>2. CASE /\ r.change = stored[s.id].changes + 1
             /\ Accepted(s.id, s.action)
             /\ stored' = [stored EXCEPT ![s.id] = Changed(s.id, s.action)]
    <3>1. /\ Changed(s.id, s.action) \in Rows
          /\ stored[s.id].changes + 1 <= Changed(s.id, s.action).changes
          /\ Changed(s.id, s.action).changes <= MaxChanges + 1
      BY <1>1, <2>2, ChangesGrow
    <3> QED BY <1>1, <1>2, <2>2, <3>1, AssetPageAssumption
            DEF AssetInv, AssetTypes, ToldInv, Rows
  <2> QED BY <1>2, <2>1, <2>2
<1>5. AssetTypes'
  BY <1>2, <1>3, <1>4 DEF AssetInv, AssetTypes
<1>6. ToldInv'
  <2>1. \A x \in AssetIds : told'[x] <= stored'[x].changes
    BY <1>3, <1>4 DEF AssetInv, AssetTypes, ToldInv, Rows
  <2>2. \A q \in saves : q.stage = "ok" => q.change <= stored'[q.id].changes
    BY <1>4 DEF AssetInv, AssetTypes, ToldInv, Rows, Saves
  <2> QED BY <1>2, <1>4, <2>1, <2>2 DEF ToldInv
<1>7. NowhereInv' /\ OfAssetInv' /\ FreshInv'
  BY <1>2, <1>3 DEF AssetInv, NowhereInv, OfAssetInv, FreshInv, Shown
<1> QED BY <1>5, <1>6, <1>7 DEF AssetInv

LEMMA ActionsLeft ==
  ASSUME AssetInv, ActionsLeave
  PROVE  /\ dialog' = "none"
         /\ saves' \subseteq Saves
         /\ \A s \in saves' : \E r \in saves :
              s.stage = r.stage /\ s.change = r.change /\ s.id = r.id /\ s.mounted = r.mounted
<1>1. \A r \in Saves :
        /\ Unmounted(r) \in Saves /\ Unmounted(r).stage = r.stage
        /\ Unmounted(r).change = r.change /\ Unmounted(r).id = r.id
        /\ Unmounted(r).mounted = r.mounted
  BY DEF Unmounted, Saves
<1>2. saves \subseteq Saves
  BY DEF AssetInv, AssetTypes
<1>3. dialog' = "none" /\ \A s \in saves' : \E r \in saves : s = Unmounted(r)
  BY DEF ActionsLeave
<1> QED BY <1>1, <1>2, <1>3

\* Mutations say no more than before, wherever their form is.
LEMMA SavesKeep ==
  ASSUME AssetInv, UNCHANGED stored,
         saves' \subseteq Saves,
         \A s \in saves' : \E r \in saves :
           s.stage = r.stage /\ s.change = r.change /\ s.id = r.id /\ s.mounted = r.mounted
  PROVE  /\ \A s \in saves' : s.stage = "ok" => s.change <= stored'[s.id].changes
         /\ (want.id = NoAsset => \A s \in saves' : ~s.mounted)
  BY DEF AssetInv, ToldInv, NowhereInv

LEMMA DetailKeeps ==
  ASSUME AssetInv, NEW f \in fetches, DetailArrives(f)
  PROVE  AssetInv'
<1>1. /\ f \in Fetches /\ f.what = "detail" /\ fetches' = fetches \ {f}
      /\ UNCHANGED <<stored, want, done, history, told>>
  BY DEF AssetInv, AssetTypes, DetailArrives
<1>2. want.id # NoAsset \/ ~f.live
  BY <1>1, AssetPageAssumption
     DEF AssetInv, AssetTypes, NowhereInv, OfAssetInv, NotDone, Fetches
<1>3. CASE ~f.live
  <2>1. UNCHANGED <<detail, problem, dialog, saves>>
    BY <1>3 DEF DetailArrives
  <2>2. (\E x \in fetches' : x.live /\ x.what = "detail")
          <=> (\E x \in fetches : x.live /\ x.what = "detail")
    BY <1>1, <1>3
  <2>3. AssetTypes' /\ ToldInv' /\ NowhereInv' /\ OfAssetInv'
    BY <1>1, <2>1 DEF AssetInv, AssetTypes, ToldInv, NowhereInv, OfAssetInv
  <2>4. FreshInv'
    BY <1>1, <2>1, <2>2 DEF AssetInv, FreshInv, Shown
  <2> QED BY <2>3, <2>4 DEF AssetInv
<1>4. CASE f.live /\ f.stage = "answer"
  <2>1. /\ detail' = [kind |-> "answer", id |-> f.id, row |-> f.row] /\ problem' = {}
        /\ UNCHANGED <<dialog, saving, saves>>
    BY <1>4 DEF DetailArrives
  <2>2. detail'.kind = "answer" /\ detail'.id = f.id /\ detail'.row = f.row
    BY <2>1
  <2>3. f.id = done.id
    BY <1>4 DEF AssetInv, OfAssetInv
  <2>4. AssetTypes' /\ ToldInv'
    BY <1>1, <2>1, <2>2 DEF AssetInv, AssetTypes, ToldInv
  <2>5. NowhereInv' /\ OfAssetInv'
    BY <1>1, <1>2, <1>4, <2>1, <2>2, <2>3 DEF AssetInv, NowhereInv, OfAssetInv
  <2>6. done.nonce = want.nonce => f.row.changes >= told[done.id]
    BY <1>4, <2>3 DEF AssetInv, FreshInv
  <2>7. FreshInv'
    BY <1>1, <2>2, <2>6 DEF AssetInv, FreshInv
  <2> QED BY <2>4, <2>5, <2>7 DEF AssetInv
<1>5. CASE f.live /\ f.stage # "answer"
  <2>1. /\ problem' = problem \cup {[what |-> "absent", id |-> f.id]}
        /\ ActionsLeave /\ detail' = detail
    BY <1>5 DEF DetailArrives
  <2>2. /\ dialog' = "none" /\ saves' \subseteq Saves
        /\ \A s \in saves' : \E r \in saves :
             s.stage = r.stage /\ s.change = r.change /\ s.id = r.id /\ s.mounted = r.mounted
    BY <2>1, ActionsLeft
  <2>3. /\ \A s \in saves' : s.stage = "ok" => s.change <= stored'[s.id].changes
        /\ (want.id = NoAsset => \A s \in saves' : ~s.mounted)
    BY <1>1, <2>2, SavesKeep
  <2>4. f.id = done.id
    BY <1>5 DEF AssetInv, OfAssetInv
  <2>5. AssetTypes' /\ ToldInv'
    BY <1>1, <2>1, <2>2, <2>3 DEF AssetInv, AssetTypes, ToldInv
  <2>6. NowhereInv' /\ OfAssetInv'
    BY <1>1, <1>2, <1>5, <2>1, <2>4 DEF AssetInv, NowhereInv, OfAssetInv
  <2>7. problem' # {}
    BY <2>1
  <2>8. FreshInv'
    BY <1>1, <2>7 DEF AssetInv, FreshInv, Shown
  <2> QED BY <2>5, <2>6, <2>8 DEF AssetInv
<1> QED BY <1>3, <1>4, <1>5

LEMMA HistoryKeeps ==
  ASSUME AssetInv, NEW f \in fetches, HistoryArrives(f)
  PROVE  AssetInv'
<1>1. /\ f \in Fetches /\ f.what = "history" /\ fetches' = fetches \ {f}
      /\ f.stage \in {"answer", "404"}
      /\ UNCHANGED <<stored, want, done, detail, problem, dialog, saving, saves, told>>
  BY DEF AssetInv, AssetTypes, HistoryArrives
<1>2. \/ history' = history
      \/ history' = Unavailable
      \/ /\ f.live /\ f.stage = "answer"
         /\ history' = [kind |-> "answer", id |-> f.id, page |-> f.page, row |-> f.row]
  BY <1>1 DEF HistoryArrives
<1>3. AssetTypes' /\ ToldInv' /\ NowhereInv'
  BY <1>1 DEF AssetInv, AssetTypes, ToldInv, NowhereInv
<1>4. OfAssetInv'
  BY <1>1, <1>2 DEF AssetInv, OfAssetInv, Unavailable
<1>5. (\E x \in fetches' : x.live /\ x.what = "detail")
        <=> (\E x \in fetches : x.live /\ x.what = "detail")
  BY <1>1
<1>6. /\ done.nonce = want.nonce /\ history'.kind = "answer"
           => history'.row.changes >= told[done.id]
  BY <1>1, <1>2 DEF AssetInv, OfAssetInv, FreshInv, Unavailable
<1>7. FreshInv'
  BY <1>1, <1>5, <1>6 DEF AssetInv, FreshInv, Shown
<1> QED BY <1>3, <1>4, <1>7 DEF AssetInv

LEMMA FetchFailureKeeps ==
  ASSUME AssetInv, NEW f \in fetches, FetchFails(f)
  PROVE  AssetInv'
<1>1. /\ f \in Fetches /\ f.live /\ fetches' = fetches \ {f}
      /\ UNCHANGED <<stored, want, done, detail, told>>
  BY DEF AssetInv, AssetTypes, FetchFails
<1>2. want.id # NoAsset /\ f.id = done.id
  BY <1>1, AssetPageAssumption
     DEF AssetInv, AssetTypes, NowhereInv, OfAssetInv, NotDone, Fetches
<1>3. CASE f.what = "history"
  <2>1. history' = Unavailable /\ UNCHANGED <<problem, dialog, saving, saves>>
    BY <1>3 DEF FetchFails
  <2>2. (\E x \in fetches' : x.live /\ x.what = "detail")
          <=> (\E x \in fetches : x.live /\ x.what = "detail")
    BY <1>1, <1>3
  <2>3. AssetTypes' /\ ToldInv' /\ NowhereInv' /\ OfAssetInv'
    BY <1>1, <2>1
       DEF AssetInv, AssetTypes, ToldInv, NowhereInv, OfAssetInv, Unavailable
  <2>4. FreshInv'
    BY <1>1, <2>1, <2>2 DEF AssetInv, FreshInv, Shown, Unavailable
  <2> QED BY <2>3, <2>4 DEF AssetInv
<1>4. CASE f.what # "history"
  <2>1. /\ problem' = problem \cup {[what |-> "failed", id |-> f.id]}
        /\ ActionsLeave /\ history' = history
    BY <1>4 DEF FetchFails
  <2>2. /\ dialog' = "none" /\ saves' \subseteq Saves
        /\ \A s \in saves' : \E r \in saves :
             s.stage = r.stage /\ s.change = r.change /\ s.id = r.id /\ s.mounted = r.mounted
    BY <2>1, ActionsLeft
  <2>3. /\ \A s \in saves' : s.stage = "ok" => s.change <= stored'[s.id].changes
        /\ (want.id = NoAsset => \A s \in saves' : ~s.mounted)
    BY <1>1, <2>2, SavesKeep
  <2>4. AssetTypes' /\ ToldInv'
    BY <1>1, <2>1, <2>2, <2>3 DEF AssetInv, AssetTypes, ToldInv
  <2>5. NowhereInv' /\ OfAssetInv'
    BY <1>1, <1>2, <2>1 DEF AssetInv, NowhereInv, OfAssetInv
  <2>6. problem' # {}
    BY <2>1
  <2>7. FreshInv'
    BY <1>1, <2>1, <2>6 DEF AssetInv, FreshInv, Shown
  <2> QED BY <2>4, <2>5, <2>7 DEF AssetInv
<1> QED BY <1>3, <1>4

LEMMA AssetEffectsKeep == AssetInv /\ AssetEffects => AssetInv'
<1> SUFFICES ASSUME AssetInv, AssetEffects PROVE AssetInv'
  OBVIOUS
<1> DEFINE moved == want.id # done.id
           what == IF moved \/ want.nonce # done.nonce
                   THEN {"detail", "history"} ELSE {"history"}
<1>1. /\ want # done /\ done' = want
      /\ fetches' = {Dropped(f, what) : f \in fetches} \cup {Fetch(w, want) : w \in what}
      /\ history' = Null /\ stored' = stored /\ told' = told
      /\ IF moved
         THEN /\ want' = [want EXCEPT !.page = 0]
              /\ detail' = Null /\ problem' = {}
              /\ ActionsLeave
         ELSE UNCHANGED <<want, detail, problem, dialog, saving, saves>>
  BY DEF AssetEffects
<1>2. want \in Wanted /\ want.id \in AssetIds
  BY <1>1 DEF AssetInv, AssetTypes, NowhereInv, Wanted
<1>3. \A w \in {"detail", "history"} :
        /\ Fetch(w, want) \in Fetches /\ Fetch(w, want).what = w
        /\ Fetch(w, want).id = want.id /\ Fetch(w, want).page = want.page
        /\ Fetch(w, want).live /\ Fetch(w, want).stage = "sent"
  BY <1>2, AssetPageAssumption DEF Fetch, Fetches, Wanted, Rows, Gone
<1>4. \A f \in fetches :
        /\ Dropped(f, what) \in Fetches
        /\ Dropped(f, what).what = f.what /\ Dropped(f, what).id = f.id
        /\ Dropped(f, what).page = f.page /\ Dropped(f, what).stage = f.stage
        /\ Dropped(f, what).row = f.row
        /\ Dropped(f, what).live <=> f.live /\ f.what \notin what
  <2> TAKE f \in fetches
  <2>1. f \in Fetches /\ f.live \in BOOLEAN
    BY DEF AssetInv, AssetTypes, Fetches
  <2> DEFINE g == [f EXCEPT !.live = FALSE]
  <2>2. /\ g \in Fetches /\ g.what = f.what /\ g.id = f.id /\ g.page = f.page
        /\ g.stage = f.stage /\ g.row = f.row /\ g.live = FALSE
    BY <2>1 DEF Fetches
  <2>3. Dropped(f, what) = IF f.what \in what THEN g ELSE f
    BY DEF Dropped
  <2> HIDE DEF g, what
  <2>4. CASE f.what \in what
    BY <2>2, <2>3, <2>4
  <2>5. CASE f.what \notin what
    BY <2>1, <2>3, <2>5
  <2> QED BY <2>4, <2>5
<1>5. \A g \in fetches' :
        /\ g \in Fetches
        /\ \/ g.id = want.id /\ g.page = want.page /\ g.stage = "sent"
           \/ \E f \in fetches : /\ g.what = f.what /\ g.id = f.id /\ g.page = f.page
                                 /\ g.stage = f.stage /\ g.row = f.row
                                 /\ (g.live <=> f.live /\ f.what \notin what)
  <2>1. what \subseteq {"detail", "history"}
    OBVIOUS
  <2> HIDE DEF what
  <2> QED BY <1>1, <1>3, <1>4, <2>1
<1>6. ToldInv' /\ AssetTypes'
  <2>1. CASE moved
    <3>1. /\ dialog' = "none" /\ saves' \subseteq Saves
          /\ \A s \in saves' : \E r \in saves :
               s.stage = r.stage /\ s.change = r.change /\ s.id = r.id /\ s.mounted = r.mounted
      BY <1>1, <2>1, ActionsLeft
    <3>2. \A s \in saves' : s.stage = "ok" => s.change <= stored'[s.id].changes
      BY <1>1, <3>1, SavesKeep
    <3>3. want' \in Wanted /\ detail' = Null
      BY <1>1, <1>2, <2>1 DEF Wanted
    <3> QED BY <1>1, <1>5, <3>1, <3>2, <3>3 DEF AssetInv, AssetTypes, ToldInv, Null
  <2>2. CASE ~moved
    BY <1>1, <1>5, <2>2 DEF AssetInv, AssetTypes, ToldInv
  <2> QED BY <2>1, <2>2
<1>7. NowhereInv'
  BY <1>1, <1>2, AssetPageAssumption DEF NowhereInv, Wanted
<1>8. CASE moved
  <2>1. /\ \A g \in fetches' : g.live => g.id = want.id /\ g.page = want.page /\ g.stage = "sent"
        /\ want'.nonce = want.nonce
    <3>1. \A g \in fetches : g.what \in what
      BY <1>8 DEF AssetInv, AssetTypes, Fetches
    <3> HIDE DEF what
    <3> QED BY <1>1, <1>2, <1>5, <1>8, <3>1 DEF Wanted
  <2>2. detail' = Null /\ problem' = {}
    BY <1>1, <1>8
  <2>3. OfAssetInv'
    BY <1>1, <2>1, <2>2 DEF OfAssetInv, Null
  <2>4. FreshInv'
    BY <1>1, <1>2, <2>1, <2>2 DEF FreshInv, Null, Shown, Wanted
  <2> QED BY <1>6, <1>7, <2>3, <2>4 DEF AssetInv
<1>9. CASE ~moved /\ want.nonce # done.nonce
  <2>1. \A g \in fetches' : g.live => g.id = want.id /\ g.page = want.page /\ g.stage = "sent"
    <3>1. \A g \in fetches : g.what \in what
      BY <1>9 DEF AssetInv, AssetTypes, Fetches
    <3> HIDE DEF what
    <3> QED BY <1>5, <3>1
  <2>2. \E g \in fetches' : g.live /\ g.what = "detail"
    <3>1. "detail" \in what
      BY <1>9
    <3> HIDE DEF what
    <3> QED BY <1>1, <1>3, <3>1
  <2>3. UNCHANGED <<want, detail, problem>>
    BY <1>1, <1>9
  <2>4. OfAssetInv'
    BY <1>1, <1>9, <2>1, <2>3 DEF AssetInv, OfAssetInv, Null
  <2>5. FreshInv'
    BY <1>1, <1>2, <2>1, <2>2, <2>3 DEF FreshInv, Null, Shown, Wanted
  <2> QED BY <1>6, <1>7, <2>4, <2>5 DEF AssetInv
<1>10. CASE ~moved /\ want.nonce = done.nonce
  <2>1. UNCHANGED <<want, detail, problem>>
    BY <1>1, <1>10
  <2>2. what = {"history"}
    BY <1>10
  <2> HIDE DEF what
  <2>3. \A g \in fetches' : g.live =>
          \/ g.id = want.id /\ g.page = want.page /\ g.stage = "sent"
          \/ \E f \in fetches : /\ f.live /\ f.what = "detail" /\ g.what = f.what /\ g.id = f.id
                                /\ g.stage = f.stage /\ g.row = f.row
    <3>1. \A f \in fetches : f.what \in {"detail", "history"}
      BY DEF AssetInv, AssetTypes, Fetches
    <3> QED BY <1>5, <2>2, <3>1
  <2>4. \A f \in fetches : f.live /\ f.what = "detail" =>
          \E g \in fetches' : g.live /\ g.what = "detail"
    BY <1>1, <1>4, <2>2
  <2>5. OfAssetInv'
    BY <1>1, <1>10, <2>1, <2>3 DEF AssetInv, OfAssetInv, Null
  <2>6. FreshInv'
    BY <1>1, <1>2, <1>10, <2>1, <2>3, <2>4 DEF AssetInv, FreshInv, Null, Shown, Wanted
  <2> QED BY <1>6, <1>7, <2>5, <2>6 DEF AssetInv
<1> QED BY <1>8, <1>9, <1>10

LEMMA AssetUserKeeps == AssetInv /\ AssetUser => AssetInv'
<1> SUFFICES ASSUME AssetInv, AssetUser PROVE AssetInv'
  OBVIOUS
<1>1. ASSUME NEW a \in AssetIds, GoTo(a) PROVE AssetInv'
  <2>1. /\ want' = [want EXCEPT !.id = a]
        /\ UNCHANGED <<stored, done, detail, problem, history, fetches, dialog, saving, saves, told>>
    BY <1>1 DEF GoTo
  <2>2. want' \in Wanted /\ want'.id = a /\ want'.nonce = want.nonce
    BY <2>1 DEF AssetInv, AssetTypes, Wanted
  <2> QED BY <2>1, <2>2, AssetPageAssumption
          DEF AssetInv, AssetTypes, ToldInv, NowhereInv, OfAssetInv, FreshInv, Shown
<1>2. CASE RetryAsset
  <2>1. /\ problem # {} \/ Shown
        /\ want' = [want EXCEPT !.nonce = @ + 1]
        /\ UNCHANGED <<stored, done, detail, problem, history, fetches, dialog, saving, saves, told>>
    BY <1>2 DEF RetryAsset
  <2>2. want' \in Wanted /\ want'.id = want.id /\ want'.nonce = want.nonce + 1
    BY <2>1 DEF AssetInv, AssetTypes, Wanted
  <2>3. want'.id # NoAsset
    BY <2>1, <2>2 DEF AssetInv, NowhereInv, Shown
  <2>4. done'.nonce < want'.nonce
    BY <2>1, <2>2 DEF AssetInv, AssetTypes, FreshInv, Wanted
  <2>5. FreshInv'
    BY <2>1, <2>2, <2>4 DEF AssetInv, AssetTypes, FreshInv, Wanted
  <2> QED BY <2>1, <2>2, <2>3, <2>5
          DEF AssetInv, AssetTypes, ToldInv, NowhereInv, OfAssetInv
<1>3. CASE CloseAction
  <2>1. /\ dialog' = "none"
        /\ UNCHANGED <<stored, want, done, detail, problem, history, fetches, saving, saves, told>>
    BY <1>3 DEF CloseAction
  <2> QED BY <2>1
          DEF AssetInv, AssetTypes, ToldInv, NowhereInv, OfAssetInv, FreshInv, Shown
<1>4. CASE Save
  <2> DEFINE s == [action |-> dialog, id |-> want.id, stage |-> "sent",
                   change |-> 0, mounted |-> TRUE, form |-> TRUE]
  <2>1. /\ dialog # "none" /\ saves' = saves \cup {s}
        /\ UNCHANGED <<stored, want, done, detail, problem, history, fetches, dialog, told>>
    BY <1>4 DEF Save
  <2>2. want.id \in AssetIds
    BY <2>1 DEF AssetInv, AssetTypes, NowhereInv, Wanted
  <2>3. s \in Saves /\ s.stage = "sent"
    BY <2>1, <2>2 DEF AssetInv, AssetTypes, Saves
  <2> HIDE DEF s
  <2>4. AssetTypes' /\ ToldInv'
    BY <2>1, <2>3 DEF AssetInv, AssetTypes, ToldInv
  <2> QED BY <2>1, <2>2, <2>4, AssetPageAssumption
          DEF AssetInv, NowhereInv, OfAssetInv, FreshInv, Shown
<1>5. ASSUME NEW page \in 0 .. MaxChanges, TurnHistory(page) PROVE AssetInv'
  <2>1. /\ Shown /\ want' = [want EXCEPT !.page = page]
        /\ UNCHANGED <<stored, done, detail, problem, history, fetches, dialog, saving, saves, told>>
    BY <1>5 DEF TurnHistory
  <2>2. want' \in Wanted /\ want'.id = want.id /\ want'.nonce = want.nonce
    BY <2>1, AssetPageAssumption DEF AssetInv, AssetTypes, Wanted
  <2>3. want'.id # NoAsset
    BY <2>1, <2>2 DEF AssetInv, NowhereInv, Shown
  <2> QED BY <2>1, <2>2, <2>3
          DEF AssetInv, AssetTypes, ToldInv, NowhereInv, OfAssetInv, FreshInv, Shown
<1>6. ASSUME NEW action \in Actions, OpenDialog(action) PROVE AssetInv'
  <2>1. /\ Shown /\ dialog' = action
        /\ UNCHANGED <<stored, want, done, detail, problem, history, fetches, saving, saves, told>>
    BY <1>6 DEF OpenDialog
  <2>2. want.id # NoAsset
    BY <2>1 DEF AssetInv, NowhereInv, Shown
  <2> QED BY <2>1, <2>2
          DEF AssetInv, AssetTypes, ToldInv, NowhereInv, OfAssetInv, FreshInv, Shown
<1> QED BY <1>1, <1>2, <1>3, <1>4, <1>5, <1>6 DEF AssetUser

LEMMA SavedKeeps ==
  ASSUME AssetInv, NEW s \in saves, Saved(s)
  PROVE  AssetInv'
<1>1. /\ s \in Saves /\ s.stage \in {"ok", "refused"} /\ saves' = saves \ {s}
      /\ dialog' \in {dialog, "none"}
      /\ UNCHANGED <<stored, done, detail, problem, history, fetches>>
  BY DEF AssetInv, AssetTypes, Saved
<1>2. CASE ~(s.mounted /\ s.stage = "ok")
  <2>1. UNCHANGED <<want, told>>
    BY <1>2 DEF Saved
  <2> QED BY <1>1, <2>1
          DEF AssetInv, AssetTypes, ToldInv, NowhereInv, OfAssetInv, FreshInv, Shown
<1>3. CASE s.mounted /\ s.stage = "ok"
  <2>1. /\ want' = [want EXCEPT !.nonce = @ + 1]
        /\ told' = [told EXCEPT ![s.id] = IF s.change > @ THEN s.change ELSE @]
    BY <1>3 DEF Saved, OnChanged
  <2>2. want' \in Wanted /\ want'.id = want.id /\ want'.nonce = want.nonce + 1
    BY <2>1 DEF AssetInv, AssetTypes, Wanted
  <2>3. want'.id # NoAsset
    BY <1>3, <2>2 DEF AssetInv, NowhereInv
  <2>4. /\ s.id \in AssetIds /\ s.change \in Nat
        /\ s.change <= stored[s.id].changes
    BY <1>1, <1>3 DEF AssetInv, ToldInv, Saves
  <2>5. told' \in [AssetIds -> Nat] /\ \A a \in AssetIds : told'[a] <= stored[a].changes
    BY <2>1, <2>4 DEF AssetInv, AssetTypes, ToldInv
  <2>6. AssetTypes' /\ ToldInv'
    BY <1>1, <2>2, <2>5 DEF AssetInv, AssetTypes, ToldInv
  <2>7. done'.nonce < want'.nonce
    BY <1>1, <2>2 DEF AssetInv, AssetTypes, FreshInv, Wanted
  <2>8. FreshInv'
    BY <1>1, <2>2, <2>7 DEF AssetInv, AssetTypes, FreshInv, Wanted
  <2> QED BY <1>1, <2>3, <2>6, <2>8 DEF AssetInv, NowhereInv, OfAssetInv
<1> QED BY <1>2, <1>3

LEMMA AssetInvIsCurrent == AssetInv => AssetIsCurrent
  BY DEF AssetInv, OfAssetInv, FreshInv, AssetIsCurrent

-----------------------------------------------------------------------------
(* Part 4.  The browser                                                    *)
(*                                                                         *)
(* At every moment one page is on display; the others are as they were     *)
(* when they were left, and what they asked for still arrives.             *)

WInv == ImportInv /\ ListInv /\ AssetInv

LEMMA LeaveKeeps ==
  ASSUME WInv, NEW a \in AssetIds \cup {NoAsset}, NEW P \in SUBSET posts,
         NEW S \in SUBSET saves, Leave(a, P, S)
  PROVE  WInv'
<1>1. ImportInv'
  BY ImportStarts DEF Leave
<1>2. ListInv'
  BY ListLeft DEF WInv, Leave
<1>3. AssetInv'
  BY AssetLeft DEF WInv, Leave, LeftOver
<1> QED BY <1>1, <1>2, <1>3 DEF WInv

LEMMA BrowserStarts == Init => WInv
<1> SUFFICES ASSUME Init PROVE WInv
  OBVIOUS
<1>1. ImportInv /\ ListInv
  BY ImportStarts, ListStarts DEF Init
<1>2. PICK a \in Shows(view) : AssetInit(a)
  BY DEF Init
<1>3. a \in AssetIds \cup {NoAsset}
  BY <1>2, FirstAssetsAssumption DEF Shows
<1> QED BY <1>1, <1>2, <1>3, AssetStarts DEF WInv

LEMMA BrowserStep == WInv /\ [Next]_vars => WInv'
<1> SUFFICES ASSUME WInv, [Next]_vars PROVE WInv'
  OBVIOUS
<1>1. want.id \in AssetIds \cup {NoAsset}
  BY DEF WInv, AssetInv, AssetTypes, Wanted
<1>2. CASE UNCHANGED <<exceptionsVars, importVars, assetVars>>
  BY <1>2, ListUnchanged, AssetUnchanged, ImportStepKeeps DEF WInv
<1>3. CASE OnExceptions
  <2>1. UNCHANGED importVars /\ UNCHANGED assetVars
    BY <1>3 DEF OnExceptions
  <2>2. ImportInv' /\ AssetInv'
    BY <2>1, ImportStepKeeps, AssetUnchanged DEF WInv
  <2>3. \/ ExceptionsUser \/ Effect
        \/ \E c \in loads : LoadFails(c)
        \/ \E e \in Ids : OtherDecides(e)
    BY <1>3 DEF OnExceptions
  <2>4. ListInv'
    BY <2>3, UserKeeps, EffectKeeps, LoadAnswered, OthersDecideKeeps DEF WInv
  <2> QED BY <2>2, <2>4 DEF WInv
<1>4. CASE OnImport
  BY <1>4, ImportStepKeeps, ListUnchanged, AssetUnchanged DEF WInv, OnImport
<1>5. CASE OnAsset
  <2>1. UNCHANGED importVars /\ UNCHANGED exceptionsVars
    BY <1>5 DEF OnAsset
  <2>2. ImportInv' /\ ListInv'
    BY <2>1, ImportStepKeeps, ListUnchanged DEF WInv
  <2>3. \/ AssetUser \/ AssetEffects
        \/ \E f \in fetches : FetchFails(f)
        \/ \E a \in AssetIds, action \in Actions : OthersChange(a, action)
    BY <1>5 DEF OnAsset
  <2>4. AssetInv'
    BY <2>3, AssetUserKeeps, AssetEffectsKeep, FetchFailureKeeps, OthersChangeKeeps DEF WInv
  <2> QED BY <2>2, <2>4 DEF WInv
<1>6. CASE ExceptionsGoOn
  <2>1. UNCHANGED importVars /\ UNCHANGED assetVars /\ (LoadGoesOn \/ DecisionGoesOn)
    BY <1>6 DEF ExceptionsGoOn
  <2>2. ImportInv' /\ AssetInv'
    BY <2>1, ImportStepKeeps, AssetUnchanged DEF WInv
  <2>3. ListInv'
    BY <2>1, LoadServed, LoadAnswered, DecisionKeeps DEF WInv, LoadGoesOn, DecisionGoesOn
  <2> QED BY <2>2, <2>3 DEF WInv
<1>7. CASE AssetsGoOn
  <2>1. UNCHANGED importVars /\ UNCHANGED exceptionsVars /\ (FetchGoesOn \/ SaveGoesOn)
    BY <1>7 DEF AssetsGoOn
  <2>2. ImportInv' /\ ListInv'
    BY <2>1, ImportStepKeeps, ListUnchanged DEF WInv
  <2>3. AssetInv'
    BY <2>1, FetchServed, DetailKeeps, HistoryKeeps, SaveServed, SavedKeeps
       DEF WInv, FetchGoesOn, SaveGoesOn
  <2> QED BY <2>2, <2>3 DEF WInv
<1>8. CASE SessionExpired
  <2>1. PICK P \in SUBSET posts, S \in SUBSET saves : Leave(want.id, P, S)
    BY <1>8 DEF SessionExpired
  <2> QED BY <1>1, <2>1, LeaveKeeps
<1>9. CASE \E page \in Pages : \E a \in Shows(page) : Navigate(page, a)
  <2>1. PICK page \in Pages : \E a \in Shows(page) : Navigate(page, a)
    BY <1>9
  <2>2. PICK a \in Shows(page) : Navigate(page, a)
    BY <2>1
  <2>3. a \in AssetIds \cup {NoAsset}
    BY <2>2, FirstAssetsAssumption DEF Shows
  <2> QED BY <2>2, <2>3, LeaveKeeps DEF Navigate
<1>10. CASE \E s \in saves : Deleted(s)
  <2>1. PICK S \in SUBSET saves : Leave(NoAsset, posts, S)
    BY <1>10 DEF Deleted
  <2> QED BY <2>1, LeaveKeeps
<1>11. CASE Expire \/ SignIn \/ ServeLate
  BY <1>2, <1>11 DEF Expire, SignIn, ServeLate
<1>12. CASE UNCHANGED vars
  BY <1>2, <1>12 DEF vars
<1> QED BY <1>3, <1>4, <1>5, <1>6, <1>7, <1>8, <1>9, <1>10, <1>11, <1>12 DEF Next

\* WInv is what the browser keeps whatever is shown, served or answered.
LEMMA BrowserInvariant == Spec => []WInv
  BY BrowserStarts, BrowserStep, PTL DEF Spec

\* What the list of exceptions and the page of an asset show is current as far
\* as this browser was told, however requests overtake one another
\* (Exceptions.tsx and AssetDetail.tsx: the effects' "cancelled").
THEOREM CurrentIsShown == Spec => []ShownIsCurrent
<1>1. WInv => ShownIsCurrent
  BY ListInvIsCurrent, AssetInvIsCurrent DEF WInv, ShownIsCurrent
<1> QED BY <1>1, BrowserInvariant, PTL

\* A commit writes what a dry run has shown, and a result that is on display
\* is of what is in the form (Import.tsx: the revision).
THEOREM ReviewedIsCommitted == Spec => []CommitsWhatWasReviewed
<1>1. WInv => CommitsWhatWasReviewed
  BY DEF WInv, ImportInv
<1> QED BY <1>1, BrowserInvariant, PTL

\* Neither a file that was slow to read nor one that failed replaces a later
\* choice of the user (Import.tsx: fileReadRequest).
THEOREM LastInputIsKept == Spec => []LatestInputWins
<1>1. WInv => LatestInputWins
  BY DEF WInv, ImportInv, ReadsInv, LatestInputWins
<1> QED BY <1>1, BrowserInvariant, PTL
=============================================================================
