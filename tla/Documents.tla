----------------------------- MODULE Documents -----------------------------
(***************************************************************************)
(* The document studio: operating procedures with numbered, immutable      *)
(* revisions, of which an administrator publishes one to the readers.      *)
(*                                                                         *)
(* A change is a chain of store calls in the application unit: "work" is   *)
(* what the open unit sees, "db" what is committed.  A read is two calls   *)
(* on the root store, so that changes commit between the two.  Nobody      *)
(* holds a lock between reading a revision and asking for a change: the    *)
(* number a client sends along, expectedRevision, is all that ties them.   *)
(*                                                                         *)
(* A document stands for its code: codes are unique and no document is     *)
(* ever deleted.  The text of a revision is abstracted to its author.      *)
(***************************************************************************)
EXTENDS Naturals, Sequences

CONSTANTS
  Docs,          \* the documents (their codes)
  Technicians, Admins, Readers,   \* the clients, by role
  None,          \* no client, no document, no text
  MaxRevision,   \* bound: revisions of one document
  MaxChanges     \* bound: committed changes of one document

Clients == Technicians \cup Admins \cup Readers
Revisions == 1..MaxRevision

ASSUME DocumentsAssumption ==
  /\ None \notin Clients \cup Docs
  /\ Readers \cap (Technicians \cup Admins) = {}
  /\ Technicians \cap Admins = {}
  /\ MaxRevision \in Nat \ {0} /\ MaxChanges \in Nat

VARIABLES
  db,      \* the committed documents
  work,    \* the documents as the open unit sees them (db while none is open)
  owner,   \* the client whose request holds the unit, or None
  req,     \* the request of each client and the call that comes next
  seen,    \* the revisions whose text a client has read or written
  told     \* the revisions of which a client was told that they are the latest

vars == <<db, work, owner, req, seen, told>>

-----------------------------------------------------------------------------
(* The tables *)

\* A row of documents; published = 0 stands for null.
DocumentRow ==
  [status: {"absent", "draft", "published", "archived"},
   latest: 0..MaxRevision, published: 0..MaxRevision]

Absent == [status |-> "absent", latest |-> 0, published |-> 0]

\* The rows of document_revisions, by number: who wrote each.
Texts == [Revisions -> Clients \cup {None}]

AuditEntry ==
  [action: {"create", "revise", "publish", "archive"}, actor: Clients,
   before: DocumentRow, after: DocumentRow]

Document == [head: DocumentRow, text: Texts, trail: Seq(AuditEntry)]

NoDocument == [head |-> Absent, text |-> [n \in Revisions |-> None], trail |-> <<>>]

\* Mutant: archived documents are updated as well.
MutCurrentArchived(h, expected) == h.latest = expected

\* The condition of the UPDATE of appendDocumentRevision and transitionDocument.
Current(h, expected) == h.latest = expected /\ h.status # "archived"

NewHead == [status |-> "draft", latest |-> 1, published |-> 0]
RevisedHead(h, expected) == [h EXCEPT !.latest = expected + 1]
PublishedHead(h, expected) == [h EXCEPT !.status = "published", !.published = expected]
ArchivedHead(h, expected) == [h EXCEPT !.status = "archived"]

-----------------------------------------------------------------------------
(* Requests *)

Changes == {"create", "revise", "publish", "archive"}

Idle == [op |-> "none", step |-> "idle", doc |-> None, number |-> 0, before |-> Absent]

Request ==
  [op: Changes \cup {"read"}, step: {"check", "head", "text", "audit", "commit", "fetch"},
   doc: Docs, number: 0..MaxRevision, before: DocumentRow]

Goto(c, step) == req' = [req EXCEPT ![c].step = step]

\* The open unit of client c stands at this step of one of these changes.
At(c, step, ops) == owner = c /\ req[c].step = step /\ req[c].op \in ops

HeadOf(c) == work[req[c].doc].head

\* The expectedRevision a client sends along: one it was told is the latest;
\* to publish it, the page must be showing it as well.  None for a create.
Expected(c, op, d, n) ==
  /\ op = "create" => n = 0
  /\ op # "create" => <<d, n>> \in told[c]
  /\ op = "publish" => <<d, n>> \in seen[c]

\* A POST arrives and gets the application unit.
Ask(c, op, d, n) ==
  /\ req[c] = Idle /\ owner = None
  /\ Expected(c, op, d, n)
  /\ op = "revise" => n < MaxRevision
  /\ Len(db[d].trail) < MaxChanges
  /\ owner' = c
  /\ req' = [req EXCEPT ![c] =
       [op |-> op, step |-> "check", doc |-> d, number |-> n, before |-> Absent]]
  /\ UNCHANGED <<db, work, seen, told>>

\* Mutant: an error response does not undo what was written.
MutDiscardKeepsWork(c) ==
  /\ owner' = None
  /\ req' = [req EXCEPT ![c] = Idle]
  /\ UNCHANGED <<db, work, seen, told>>

\* The request is over and what its unit wrote is undone: an error response,
\* an exception, a failed COMMIT, a crash.
Discard(c) ==
  /\ work' = db
  /\ owner' = None
  /\ req' = [req EXCEPT ![c] = Idle]
  /\ UNCHANGED <<db, seen, told>>

Abort(c) == owner = c /\ Discard(c)

\* The roles that may make a change.
MayChange(c, op) ==
  c \in (IF op \in {"create", "revise"} THEN Technicians \cup Admins ELSE Admins)

\* The role, the code that is not taken or the document that exists and can
\* be edited.
Accepted(c) ==
  LET h == HeadOf(c) IN
  /\ MayChange(c, req[c].op)
  /\ IF req[c].op = "create" THEN h = Absent ELSE h # Absent
  /\ req[c].op = "revise" => h.status # "archived"

Check(c) ==
  /\ At(c, "check", Changes)
  /\ IF Accepted(c)
     THEN /\ req' = [req EXCEPT ![c].step = "head", ![c].before = HeadOf(c)]
          /\ UNCHANGED <<db, work, owner, seen, told>>
     ELSE Discard(c)

\* Mutant: the row is written through the root store, not the unit's.
MutHeadOnRoot(c, h, next) ==
  /\ work' = [work EXCEPT ![req[c].doc].head = h]
  /\ db' = [db EXCEPT ![req[c].doc].head = h]
  /\ Goto(c, next)
  /\ UNCHANGED <<owner, seen, told>>

WriteHead(c, h, next) ==
  /\ work' = [work EXCEPT ![req[c].doc].head = h]
  /\ Goto(c, next)
  /\ UNCHANGED <<db, owner, seen, told>>

\* INSERT INTO documents.
CreateHead(c) == At(c, "head", {"create"}) /\ WriteHead(c, NewHead, "text")

\* Mutant: the store numbers the revision after the latest one, whatever the
\* author expected.
MutReviseLatest(c) ==
  /\ At(c, "head", {"revise"})
  /\ HeadOf(c).latest < MaxRevision
  /\ work' = [work EXCEPT ![req[c].doc].head.latest = @ + 1]
  /\ req' = [req EXCEPT ![c].step = "text", ![c].number = HeadOf(c).latest]
  /\ UNCHANGED <<db, owner, seen, told>>

\* UPDATE documents ... RETURNING: no row is a conflict.
ReviseHead(c) ==
  /\ At(c, "head", {"revise"})
  /\ IF Current(HeadOf(c), req[c].number)
     THEN WriteHead(c, RevisedHead(HeadOf(c), req[c].number), "text")
     ELSE Discard(c)

\* Mutant: approval applies to whatever is the latest revision by then.
MutApproveLatest(c) ==
  /\ At(c, "head", {"publish", "archive"})
  /\ WriteHead(c, IF req[c].op = "publish"
                  THEN PublishedHead(HeadOf(c), HeadOf(c).latest)
                  ELSE ArchivedHead(HeadOf(c), HeadOf(c).latest), "audit")

Transition(c) ==
  /\ At(c, "head", {"publish", "archive"})
  /\ IF Current(HeadOf(c), req[c].number)
     THEN WriteHead(c, IF req[c].op = "publish"
                       THEN PublishedHead(HeadOf(c), req[c].number)
                       ELSE ArchivedHead(HeadOf(c), req[c].number), "audit")
     ELSE Discard(c)

\* INSERT INTO document_revisions, whose key is the document and the number.
InsertText(c) ==
  LET d == req[c].doc
      n == req[c].number + 1 IN
  /\ At(c, "text", {"create", "revise"})
  /\ IF work[d].text[n] = None
     THEN /\ work' = [work EXCEPT ![d].text[n] = c]
          /\ Goto(c, "audit")
          /\ UNCHANGED <<db, owner, seen, told>>
     ELSE Discard(c)

\* Mutant: the audit record is written through the root store.
MutAuditOnRoot(c) ==
  /\ At(c, "audit", Changes)
  /\ LET e == [action |-> req[c].op, actor |-> c,
               before |-> req[c].before, after |-> HeadOf(c)] IN
     /\ work' = [work EXCEPT ![req[c].doc].trail = Append(@, e)]
     /\ db' = [db EXCEPT ![req[c].doc].trail = Append(@, e)]
  /\ Goto(c, "commit")
  /\ UNCHANGED <<owner, seen, told>>

AppendAudit(c) ==
  /\ At(c, "audit", Changes)
  /\ work' = [work EXCEPT ![req[c].doc].trail =
       Append(@, [action |-> req[c].op, actor |-> c,
                  before |-> req[c].before, after |-> HeadOf(c)])]
  /\ Goto(c, "commit")
  /\ UNCHANGED <<db, owner, seen, told>>

\* A response with the text of this revision and the row, whose latest
\* revision this is.
Learn(c, number, latest) ==
  /\ seen' = [seen EXCEPT ![c] = @ \cup {<<req[c].doc, number>>}]
  /\ told' = [told EXCEPT ![c] = @ \cup {<<req[c].doc, latest>>}]

\* COMMIT; the response tells the author the number of the new revision.
Commit(c) ==
  /\ At(c, "commit", Changes)
  /\ db' = work
  /\ owner' = None
  /\ req' = [req EXCEPT ![c] = Idle]
  /\ IF req[c].op \in {"create", "revise"}
     THEN Learn(c, req[c].number + 1, req[c].number + 1)
     ELSE UNCHANGED <<seen, told>>
  /\ UNCHANGED work

-----------------------------------------------------------------------------
(* Reading *)

\* The revisions that readDocument gives a client of this row: to a reader
\* the published one, to the others the latest or the one they select.
Readable(c, h) ==
  IF c \in Readers
  THEN IF h.status = "published" THEN {h.published} \ {0} ELSE {}
  ELSE 1..h.latest

\* readDocument: getDocument, then getDocumentRevision.
Open(c, d) ==
  /\ req[c] = Idle
  /\ \E n \in Readable(c, db[d].head) :
       req' = [req EXCEPT ![c] =
         [op |-> "read", step |-> "fetch", doc |-> d, number |-> n, before |-> db[d].head]]
  /\ UNCHANGED <<db, work, owner, seen, told>>

Found(c) == db[req[c].doc].text[req[c].number] # None

Fetch(c) ==
  /\ req[c].step = "fetch"
  /\ IF Found(c) THEN Learn(c, req[c].number, req[c].before.latest)
                 ELSE UNCHANGED <<seen, told>>
  /\ req' = [req EXCEPT ![c] = Idle]
  /\ UNCHANGED <<db, work, owner>>

-----------------------------------------------------------------------------

Init ==
  /\ db = [d \in Docs |-> NoDocument]
  /\ work = db
  /\ owner = None
  /\ req = [c \in Clients |-> Idle]
  /\ seen = [c \in Clients |-> {}]
  /\ told = [c \in Clients |-> {}]

Next ==
  \E c \in Clients :
    \/ \E op \in Changes, d \in Docs, n \in 0..MaxRevision : Ask(c, op, d, n)
    \/ Check(c)
    \/ CreateHead(c) \/ ReviseHead(c) \/ InsertText(c)
    \/ Transition(c)
    \/ AppendAudit(c)
    \/ Commit(c) \/ Abort(c)
    \/ \E d \in Docs : Open(c, d)
    \/ Fetch(c)

Spec == Init /\ [][Next]_vars

-----------------------------------------------------------------------------
(* Properties *)

\* Types; no more than one unit is open and while none is, nothing is
\* uncommitted.
TypeOK ==
  /\ db \in [Docs -> Document]
  /\ work \in [Docs -> Document]
  /\ owner \in Clients \cup {None}
  /\ req \in [Clients -> Request \cup {Idle}]
  /\ seen \in [Clients -> SUBSET (Docs \X Revisions)]
  /\ told \in [Clients -> SUBSET (Docs \X Revisions)]
  /\ owner = None => work = db
  /\ \A c \in Clients : req[c].op \in Changes <=> owner = c

\* Whoever wrote revision n + 1 of a document knew of revision n: nobody's
\* revision is replaced unnoticed (expectedRevision prevents lost updates).
NoLostUpdate ==
  \A d \in Docs : \A n \in 1..(MaxRevision - 1) :
    db[d].text[n + 1] # None =>
      /\ db[d].text[n] # None
      /\ <<d, n>> \in told[db[d].text[n + 1]]

\* An administrator who had read this very revision published it.
Approved(trail, known, d, n) ==
  \E i \in DOMAIN trail :
    LET e == trail[i] IN
    /\ e.action = "publish" /\ e.after.published = n
    /\ e.actor \in Admins
    /\ <<d, n>> \in known[e.actor]

\* A reader gets no text but an approved revision, whatever is revised,
\* published or archived between the two calls of a read.
ReadersSeeApproved ==
  \A c \in Readers : \A r \in seen[c] : Approved(db[r[1]].trail, seen, r[1], r[2])

\* The second call of a read finds the revision that the first one named: a
\* committed row never points to a revision that is not there.
ReadsFindTheirRevision == \A c \in Clients : req[c].step = "fetch" => Found(c)

Unbroken(D) ==
  /\ \A i \in DOMAIN D.trail :
       D.trail[i].before = IF i = 1 THEN Absent ELSE D.trail[i - 1].after
  /\ D.head = IF D.trail = <<>> THEN Absent ELSE D.trail[Len(D.trail)].after

\* The audit records of a document are one unbroken account of it, from its
\* creation to the row as it stands.
AuditChain == \A d \in Docs : Unbroken(db[d])

\* A revision, once committed, never changes or disappears, and an archived
\* document stays as it is.
RetainedHistory ==
  \A d \in Docs :
    /\ \A n \in Revisions : db[d].text[n] # None => db'[d].text[n] = db[d].text[n]
    /\ db[d].head.status = "archived" => db'[d] = db[d]

HistoryRetained == [][RetainedHistory]_vars

=============================================================================
