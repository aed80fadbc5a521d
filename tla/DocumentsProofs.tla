-------------------------- MODULE DocumentsProofs --------------------------
(***************************************************************************)
(* The safety properties of Documents, for any clients, any documents and  *)
(* any bounds.  The inductive invariant ties what the open unit has        *)
(* written so far to what is committed (UnitInv), a half-done read to the  *)
(* committed revisions (FetchInv), and describes each committed document   *)
(* (DocInv).                                                               *)
(***************************************************************************)
EXTENDS Documents, TLAPS

LEMMA Bound == MaxRevision \in Nat /\ MaxRevision >= 1 /\ None \notin Clients
BY DocumentsAssumption DEF DocumentsAssumption

USE Bound

-----------------------------------------------------------------------------
(* One change of one document, as a whole *)

NewRow(h, op, n) ==
  IF op = "create" THEN NewHead
  ELSE IF op = "revise" THEN RevisedHead(h, n)
  ELSE IF op = "publish" THEN PublishedHead(h, n)
  ELSE ArchivedHead(h, n)

NewText(t, op, n, c) == IF op \in {"create", "revise"} THEN [t EXCEPT ![n + 1] = c] ELSE t

Entry(op, c, h, n) ==
  [action |-> op, actor |-> c, before |-> h, after |-> NewRow(h, op, n)]

\* The number fits the change, whatever the document is.
Fits(op, n) ==
  /\ op = "create" => n = 0
  /\ op = "revise" => n < MaxRevision
  /\ op # "create" => n \in Revisions

\* The document exists, or for a create does not.
Stands(h, op) ==
  /\ op = "create" => h = Absent
  /\ op # "create" => h # Absent

\* The store lets the row change.
Goes(h, op, n) == op # "create" => Current(h, n)

Changed(D, op, c, n) ==
  [head |-> NewRow(D.head, op, n), text |-> NewText(D.text, op, n, c),
   trail |-> Append(D.trail, Entry(op, c, D.head, n))]

\* The rows of a document fit together.
Rows(D) ==
  /\ D.head.status = "absent" => D = NoDocument
  /\ D.head.status # "absent" => D.head.latest >= 1
  /\ D.head.published <= D.head.latest
  /\ \A n \in Revisions : D.text[n] # None <=> n <= D.head.latest
  /\ Unbroken(D)

\* The new row is a row.
LEMMA NewRowType ==
  ASSUME NEW h \in DocumentRow, NEW op \in Changes, NEW n \in 0..MaxRevision, Fits(op, n)
  PROVE  NewRow(h, op, n) \in DocumentRow
<1>1. CASE op = "create"
  BY <1>1 DEF NewRow, NewHead, DocumentRow
<1>2. CASE op = "revise"
  <2>1. n + 1 \in 0..MaxRevision
    BY <1>2 DEF Fits
  <2> QED
    BY <1>2, <2>1 DEF NewRow, RevisedHead, DocumentRow
<1>3. CASE op = "publish"
  BY <1>3 DEF NewRow, PublishedHead, DocumentRow
<1>4. CASE op = "archive"
  BY <1>4 DEF NewRow, ArchivedHead, DocumentRow
<1> QED
  BY <1>1, <1>2, <1>3, <1>4 DEF Changes

LEMMA NewTextType ==
  ASSUME NEW t \in Texts, NEW op \in Changes, NEW n \in 0..MaxRevision, Fits(op, n),
         NEW c \in Clients
  PROVE  NewText(t, op, n, c) \in Texts
BY DEF NewText, Texts, Changes, Fits, Revisions

LEMMA EntryType ==
  ASSUME NEW h \in DocumentRow, NEW op \in Changes, NEW n \in 0..MaxRevision, Fits(op, n),
         NEW c \in Clients
  PROVE  Entry(op, c, h, n) \in AuditEntry
BY NewRowType DEF Entry, AuditEntry, Changes

\* A document is its row, its texts and its audit records.
LEMMA DocumentParts ==
  ASSUME NEW D \in Document, NEW h
  PROVE  /\ D = [head |-> D.head, text |-> D.text, trail |-> D.trail]
         /\ [D EXCEPT !.head = h] = [head |-> h, text |-> D.text, trail |-> D.trail]
BY DEF Document

\* A change keeps the rows of a document fitting together and the texts it
\* had, and writes the text that follows the expected one.
LEMMA ChangeKeepsRows ==
  ASSUME NEW D \in Document, Rows(D),
         NEW op \in Changes, NEW c \in Clients, NEW n \in 0..MaxRevision,
         Fits(op, n), Stands(D.head, op), Goes(D.head, op, n)
  PROVE  /\ Changed(D, op, c, n) \in Document
         /\ Rows(Changed(D, op, c, n))
         /\ D.head.status # "archived"
         /\ \A i \in Revisions : D.text[i] # None => Changed(D, op, c, n).text[i] = D.text[i]
<1> DEFINE E == Changed(D, op, c, n)
           h == D.head
           k == NewRow(h, op, n)
<1>0. /\ h \in DocumentRow /\ D.text \in Texts /\ D.trail \in Seq(AuditEntry)
      /\ h.latest \in Nat /\ n \in Nat
  BY DEF Document, DocumentRow
<1>1. /\ k \in DocumentRow /\ NewText(D.text, op, n, c) \in Texts
      /\ Entry(op, c, h, n) \in AuditEntry
  BY <1>0, NewRowType, NewTextType, EntryType
<1>2. E \in Document
  BY <1>0, <1>1 DEF Changed, Document
<1>3. op # "create" => h.status # "absent" /\ h.latest = n
  BY DEF Stands, Goes, Current, Rows, NoDocument
<1>4. op = "create" => h.latest = 0 /\ h.status = "absent"
  BY DEF Stands, Absent
<1>5. h.status # "archived"
  BY <1>4 DEF Goes, Current
<1>6. k.status # "absent" /\ k.latest >= 1 /\ k.published <= k.latest
  BY <1>0, <1>3, <1>4
     DEF NewRow, NewHead, RevisedHead, PublishedHead, ArchivedHead, DocumentRow, Changes, Rows
<1>7. \A i \in Revisions : E.text[i] # None <=> i <= k.latest
  <2>1. CASE op = "create"
    BY <2>1, <1>0, <1>4 DEF Changed, NewRow, NewHead, NewText, Texts, Rows, Fits, Revisions
  <2>2. CASE op = "revise"
    <3>1. k.latest = n + 1 /\ n + 1 \in Revisions
      BY <2>2, <1>0, <1>3 DEF NewRow, RevisedHead, DocumentRow, Fits, Revisions, Rows
    <3>2. \A i \in Revisions : E.text[i] = IF i = n + 1 THEN c ELSE D.text[i]
      BY <2>2, <1>0 DEF Changed, NewText, Texts
    <3>3. \A i \in Revisions : D.text[i] # None <=> i <= n
      BY <2>2, <1>3 DEF Rows
    <3> QED
      BY <3>1, <3>2, <3>3 DEF Revisions
  <2>3. CASE op \in {"publish", "archive"}
    BY <2>3, <1>0, <1>3
       DEF Changed, NewRow, PublishedHead, ArchivedHead, NewText, Texts, Rows, DocumentRow
  <2> QED
    BY <2>1, <2>2, <2>3 DEF Changes
<1>8. \A i \in Revisions : D.text[i] # None => E.text[i] = D.text[i]
  BY <1>0, <1>3, <1>4 DEF Changed, NewText, Texts, Rows, Fits, Revisions, Changes
<1>9. Unbroken(E)
  <2> DEFINE t == D.trail
             e == Entry(op, c, h, n)
  <2>1. /\ E.trail = Append(t, e) /\ E.head = k /\ e.before = h /\ e.after = k
    BY DEF Changed, Entry
  <2>2. /\ Len(E.trail) = Len(t) + 1 /\ E.trail # <<>>
        /\ DOMAIN E.trail = 1..(Len(t) + 1)
        /\ E.trail[Len(t) + 1] = e
        /\ \A i \in 1..Len(t) : E.trail[i] = t[i]
    BY <2>1, <1>0, <1>1
  <2>3. /\ DOMAIN t = 1..Len(t) /\ Len(t) \in Nat
        /\ t = <<>> <=> Len(t) = 0
    BY <1>0
  <2>4. \A i \in 1..Len(t) : t[i].before = IF i = 1 THEN Absent ELSE t[i - 1].after
    BY <2>3 DEF Rows, Unbroken
  <2>5. h = IF Len(t) = 0 THEN Absent ELSE t[Len(t)].after
    BY <2>3 DEF Rows, Unbroken
  <2>6. ASSUME NEW i \in 1..(Len(t) + 1)
        PROVE  E.trail[i].before = IF i = 1 THEN Absent ELSE E.trail[i - 1].after
    <3>1. CASE i \in 1..Len(t)
      BY <3>1, <2>2, <2>3, <2>4
    <3>2. CASE i = Len(t) + 1
      BY <3>2, <2>1, <2>2, <2>3, <2>5
    <3> QED
      BY <3>1, <3>2, <2>3
  <2> QED
    BY <2>1, <2>2, <2>6 DEF Unbroken
<1> QED
  <2>1. E.head = k
    BY DEF Changed
  <2> QED
    BY <2>1, <1>2, <1>5, <1>6, <1>7, <1>8, <1>9 DEF Rows

-----------------------------------------------------------------------------
(* The inductive invariant *)

DocOf(c) == req[c].doc
Wrote(c) == req[c].step \in {"text", "audit", "commit"}

\* What the unit of c has made of its document after so many of its calls.
Staged(c) ==
  LET D == db[DocOf(c)]
      E == Changed(D, req[c].op, c, req[c].number) IN
  [head |-> E.head,
   text |-> IF req[c].step = "text" THEN D.text ELSE E.text,
   trail |-> IF req[c].step = "commit" THEN E.trail ELSE D.trail]

\* The request that holds the unit asks for something it may know of; what it
\* has checked still holds of the committed document; and its uncommitted
\* document is the committed one with its own writes.
UnitInv ==
  \A c \in Clients : owner = c =>
    LET q == req[c]
        h == db[DocOf(c)].head IN
    /\ q.step # "fetch"
    /\ Fits(q.op, q.number)
    /\ q.op # "create" => <<q.doc, q.number>> \in told[c]
    /\ q.op = "publish" => <<q.doc, q.number>> \in seen[c]
    /\ q.step # "check" => q.before = h /\ Stands(h, q.op) /\ MayChange(c, q.op)
    /\ q.step = "text" => q.op \in {"create", "revise"}
    /\ IF Wrote(c)
       THEN Goes(h, q.op, q.number) /\ work = [db EXCEPT ![DocOf(c)] = Staged(c)]
       ELSE work = db

\* A read is about to fetch a revision that is there; to a reader it is an
\* approved one.
FetchInv ==
  \A c \in Clients :
    /\ req[c].step = "fetch" <=> req[c].op = "read"
    /\ req[c].step = "fetch" =>
         /\ req[c].number \in Revisions /\ req[c].before.latest \in Revisions
         /\ Found(c)
         /\ c \in Readers => Approved(db[req[c].doc].trail, seen, req[c].doc, req[c].number)

\* The committed documents.
DocInv ==
  /\ \A d \in Docs :
       /\ Rows(db[d])
       /\ db[d].head.published # 0 => Approved(db[d].trail, seen, d, db[d].head.published)
  /\ NoLostUpdate
  /\ ReadersSeeApproved

IInv == TypeOK /\ UnitInv /\ FetchInv /\ DocInv

\* Nothing is known or stored at first.
LEMMA InitEstablishes == Init => IInv
<1> SUFFICES ASSUME Init PROVE IInv
  OBVIOUS
<1>1. NoDocument \in Document
  BY DEF NoDocument, Document, Absent, DocumentRow, Texts
<1>2. TypeOK
  BY <1>1 DEF Init, TypeOK, Idle, Changes
<1>3. UnitInv
  BY DEF Init, UnitInv
<1>4. FetchInv
  BY DEF Init, FetchInv, Idle
<1>5. Rows(NoDocument)
  BY DEF Rows, NoDocument, Absent, Unbroken, Revisions
<1>6. DocInv
  <2>1. \A d \in Docs : db[d] = NoDocument
    BY DEF Init
  <2>2. /\ \A d \in Docs : Rows(db[d])
        /\ \A d \in Docs : db[d].head.published = 0
    <3>1. \A d \in Docs : Rows(db[d])
      BY <1>5, <2>1, Zenon
    <3>2. NoDocument.head.published = 0
      BY DEF NoDocument, Absent
    <3>3. \A d \in Docs : db[d].head.published = 0
      BY <2>1, <3>2, Zenon
    <3> QED
      BY <3>1, <3>3
  <2>3. NoLostUpdate
    BY <2>1 DEF NoLostUpdate, NoDocument, Revisions
  <2>4. ReadersSeeApproved
    BY DEF Init, ReadersSeeApproved, Clients
  <2> QED
    BY <2>2, <2>3, <2>4 DEF DocInv
<1> QED
  BY <1>2, <1>3, <1>4, <1>6 DEF IInv

\* Clients forget nothing, and audit records are only added.
KnowledgeGrows ==
  \A b \in Clients : seen[b] \subseteq seen'[b] /\ told[b] \subseteq told'[b]

TrailsGrow ==
  \A d \in Docs : \A i \in DOMAIN db[d].trail :
    i \in DOMAIN db'[d].trail /\ db'[d].trail[i] = db[d].trail[i]

\* What is approved stays approved.
LEMMA ApprovalStays ==
  ASSUME KnowledgeGrows, TrailsGrow, NEW d \in Docs, NEW n, Approved(db[d].trail, seen, d, n)
  PROVE  Approved(db'[d].trail, seen', d, n)
<1>1. PICK i \in DOMAIN db[d].trail :
        LET e == db[d].trail[i] IN
        /\ e.action = "publish" /\ e.after.published = n
        /\ e.actor \in Admins
        /\ <<d, n>> \in seen[e.actor]
  BY DEF Approved
<1>2. db[d].trail[i].actor \in Clients
  BY <1>1 DEF Clients
<1>3. i \in DOMAIN db'[d].trail /\ db'[d].trail[i] = db[d].trail[i]
  BY DEF TrailsGrow
<1> QED
  BY <1>1, <1>2, <1>3 DEF Approved, KnowledgeGrows

\* A step inside the unit, or its end without COMMIT, touches nothing that is
\* committed and nobody's knowledge.
LEMMA NothingCommitted ==
  ASSUME TypeOK, FetchInv, DocInv, UNCHANGED <<db, seen, told>>,
         NEW c \in Clients, \A b \in Clients \ {c} : req'[b] = req[b],
         req[c].step # "fetch", req'[c].step # "fetch", req'[c].op # "read"
  PROVE  FetchInv' /\ DocInv'
<1>2. DocInv'
  BY DEF DocInv, NoLostUpdate, ReadersSeeApproved, Approved
<1>3. ASSUME NEW b \in Clients, b # c
      PROVE  /\ req'[b].step = "fetch" <=> req'[b].op = "read"
             /\ req'[b].step = "fetch" =>
                  /\ req'[b].number \in Revisions /\ req'[b].before.latest \in Revisions
                  /\ Found(b)'
                  /\ b \in Readers => Approved(db'[req[b].doc].trail, seen', req[b].doc, req[b].number)
  BY <1>3 DEF FetchInv, Found, Approved
<1>4. FetchInv'
  BY <1>3 DEF FetchInv
<1> QED
  BY <1>2, <1>4

-----------------------------------------------------------------------------
(* Each action keeps the invariant *)

\* What the invariant says of the client that holds the unit.
LEMMA Holder ==
  ASSUME IInv, NEW c \in Clients, owner = c
  PROVE  /\ req[c] \in Request
         /\ req[c].op \in Changes
         /\ DocOf(c) \in Docs /\ db[DocOf(c)] \in Document
         /\ req[c].step # "fetch"
         /\ \A b \in Clients \ {c} : req[b].op \notin Changes
         /\ owner # None
<1>1. req[c] \in Request \cup {Idle} /\ req[c].op \in Changes
  BY DEF IInv, TypeOK
<1>2. req[c] \in Request
  BY <1>1 DEF Idle, Changes
<1> QED
  BY <1>1, <1>2 DEF IInv, TypeOK, UnitInv, DocOf, Request

LEMMA DiscardKeeps ==
  ASSUME IInv, NEW c \in Clients, owner = c, Discard(c)
  PROVE  IInv'
<1>1. TypeOK'
  BY Holder DEF IInv, TypeOK, Discard, Idle, Changes
<1>2. UnitInv'
  BY DEF Discard, UnitInv
<1>3. FetchInv' /\ DocInv'
  <2>1. \A b \in Clients \ {c} : req'[b] = req[b]
    BY DEF Discard, IInv, TypeOK
  <2>2. req'[c] = Idle
    BY DEF Discard, IInv, TypeOK
  <2> QED
    BY <2>1, <2>2, Holder, NothingCommitted DEF IInv, Discard, Idle
<1> QED
  BY <1>1, <1>2, <1>3 DEF IInv

\* A step of the open unit that leaves it open: it is enough to look at what
\* it makes of the unit's document and of the request.
LEMMA InsideKeeps ==
  ASSUME IInv, NEW c \in Clients, owner = c, UNCHANGED <<db, owner, seen, told>>,
         NEW q \in Request, req' = [req EXCEPT ![c] = q],
         q.op = req[c].op, q.doc = req[c].doc, q.number = req[c].number, q.step # "fetch",
         work' \in [Docs -> Document],
         LET h == db[q.doc].head IN
         /\ q.step # "check" => q.before = h /\ Stands(h, q.op) /\ MayChange(c, q.op)
         /\ q.step = "text" => q.op \in {"create", "revise"}
         /\ IF q.step \in {"text", "audit", "commit"}
            THEN Goes(h, q.op, q.number) /\ work' = [db EXCEPT ![q.doc] = Staged(c)']
            ELSE work' = db
  PROVE  IInv'
<1>1. /\ req'[c] = q /\ \A b \in Clients \ {c} : req'[b] = req[b]
  BY DEF IInv, TypeOK
<1>2. TypeOK'
  BY <1>1, Holder DEF IInv, TypeOK
<1>3. FetchInv' /\ DocInv'
  BY <1>1, Holder, NothingCommitted DEF IInv, Changes
<1>4. UnitInv'
  <2>1. /\ Fits(q.op, q.number)
        /\ q.op # "create" => <<q.doc, q.number>> \in told[c]
        /\ q.op = "publish" => <<q.doc, q.number>> \in seen[c]
    BY DEF IInv, UnitInv
  <2> QED
    BY <1>1, <2>1 DEF UnitInv, Wrote, DocOf
<1> QED
  BY <1>2, <1>3, <1>4 DEF IInv

LEMMA AskKeeps ==
  ASSUME IInv, NEW c \in Clients, NEW op \in Changes, NEW d \in Docs, NEW n \in 0..MaxRevision,
         Ask(c, op, d, n)
  PROVE  IInv'
<1> DEFINE q == [op |-> op, step |-> "check", doc |-> d, number |-> n, before |-> Absent]
<1>1. q \in Request
  BY DEF Request, Absent, DocumentRow
<1>2. /\ req'[c] = q /\ \A b \in Clients \ {c} : req'[b] = req[b]
      /\ owner = None /\ owner' = c /\ work = db
      /\ UNCHANGED <<db, work, seen, told>>
  BY DEF Ask, IInv, TypeOK
<1>3. TypeOK'
  BY <1>1, <1>2 DEF IInv, TypeOK, Ask
<1>4. Fits(op, n)
  BY DEF Ask, Expected, Fits, IInv, TypeOK
<1>5. UnitInv'
  BY <1>2, <1>4 DEF Ask, Expected, UnitInv, Wrote
<1>6. FetchInv' /\ DocInv'
  <2>1. req[c].step # "fetch"
    BY DEF Ask, Idle
  <2> QED
    BY <1>2, <2>1, NothingCommitted DEF IInv, Changes
<1> QED
  BY <1>3, <1>5, <1>6 DEF IInv

LEMMA CheckKeeps ==
  ASSUME IInv, NEW c \in Clients, Check(c)
  PROVE  IInv'
<1>1. owner = c /\ req[c].step = "check"
  BY DEF Check, At
<1>2. CASE Accepted(c)
  <2> DEFINE q == [req[c] EXCEPT !.step = "head", !.before = HeadOf(c)]
  <2>1. work = db
    BY <1>1 DEF IInv, UnitInv, Wrote
  <2>2. HeadOf(c) \in DocumentRow /\ q \in Request /\ q.step = "head"
        /\ q.before = db[q.doc].head
        /\ q.op = req[c].op /\ q.doc = req[c].doc /\ q.number = req[c].number
    BY <1>1, <2>1, Holder DEF HeadOf, Request, DocOf, Document
  <2>3. Stands(db[q.doc].head, q.op) /\ MayChange(c, q.op)
    BY <1>2, <2>1, <2>2 DEF Accepted, Stands, HeadOf
  <2>4. req' = [req EXCEPT ![c] = q] /\ UNCHANGED <<db, work, owner, seen, told>>
    BY <1>2 DEF Check
  <2>5. work' \in [Docs -> Document] /\ work' = db
    BY <2>1, <2>4 DEF IInv, TypeOK
  <2> HIDE DEF q
  <2> QED
    BY <1>1, <2>2, <2>3, <2>4, <2>5, InsideKeeps
<1>3. CASE ~Accepted(c)
  BY <1>1, <1>3, DiscardKeeps DEF Check
<1> QED
  BY <1>2, <1>3

\* The first write of a change leaves the new row to the unit.
LEMMA WriteHeadKeeps ==
  ASSUME IInv, NEW c \in Clients, owner = c, req[c].step = "head",
         Goes(db[req[c].doc].head, req[c].op, req[c].number),
         NEW h, h = NewRow(db[req[c].doc].head, req[c].op, req[c].number),
         NEW next, next = (IF req[c].op \in {"create", "revise"} THEN "text" ELSE "audit"),
         WriteHead(c, h, next)
  PROVE  IInv'
<1> DEFINE d == req[c].doc
           D == db[d]
           q == [req[c] EXCEPT !.step = next]
<1>1. /\ req[c] \in Request /\ d \in Docs /\ D \in Document /\ req[c].op \in Changes
      /\ db \in [Docs -> Document]
  BY Holder DEF DocOf, IInv, TypeOK
<1>2. /\ work = db /\ Fits(req[c].op, req[c].number)
      /\ req[c].before = D.head /\ Stands(D.head, req[c].op) /\ MayChange(c, req[c].op)
  BY DEF IInv, UnitInv, Wrote, DocOf
<1>3. /\ q \in Request /\ q.step = next /\ q.before = req[c].before
      /\ q.op = req[c].op /\ q.doc = d /\ q.number = req[c].number
      /\ req' = [req EXCEPT ![c] = q] /\ req'[c] = q
      /\ next \in {"text", "audit"}
  BY <1>1 DEF WriteHead, Goto, Request, IInv, TypeOK
<1>4. UNCHANGED <<db, owner, seen, told>>
  BY DEF WriteHead
<1>5. h \in DocumentRow
  <2>1. D.head \in DocumentRow /\ req[c].number \in 0..MaxRevision
    BY <1>1 DEF Document, Request
  <2> QED
    BY <2>1, <1>1, <1>2, NewRowType
<1>6. Staged(c)' = [head |-> h, text |-> D.text, trail |-> D.trail]
  BY <1>1, <1>3, <1>4 DEF Staged, DocOf, Changed, NewText
<1>7. [D EXCEPT !.head = h] = [head |-> h, text |-> D.text, trail |-> D.trail]
  BY <1>1, DocumentParts
<1>8. work' = [db EXCEPT ![d] = Staged(c)']
  BY <1>1, <1>2, <1>6, <1>7 DEF WriteHead
<1>9. work' \in [Docs -> Document]
  <2>1. Staged(c)' \in Document
    BY <1>1, <1>5, <1>6 DEF Document
  <2> QED
    BY <1>1, <1>8, <2>1
<1> HIDE DEF q
<1> QED
  BY <1>2, <1>3, <1>4, <1>8, <1>9, InsideKeeps

LEMMA HeadsKeep ==
  ASSUME IInv, NEW c \in Clients, CreateHead(c) \/ ReviseHead(c) \/ Transition(c)
  PROVE  IInv'
<1> DEFINE h == db[req[c].doc].head
<1>1. /\ owner = c /\ req[c].step = "head" /\ HeadOf(c) = h
      /\ req[c].op \in Changes
  <2>1. owner = c /\ req[c].step = "head"
    BY DEF CreateHead, ReviseHead, Transition, At
  <2> QED
    BY <2>1, Holder DEF IInv, UnitInv, Wrote, HeadOf
<1>2. CASE CreateHead(c)
  BY <1>1, <1>2, WriteHeadKeeps DEF CreateHead, At, NewRow, Goes
<1>3. CASE ReviseHead(c) /\ Current(h, req[c].number)
  BY <1>1, <1>3, WriteHeadKeeps DEF ReviseHead, At, NewRow, Goes
<1>4. CASE Transition(c) /\ Current(h, req[c].number)
  <2>1. /\ req[c].op \in {"publish", "archive"}
        /\ Goes(h, req[c].op, req[c].number)
        /\ WriteHead(c, NewRow(h, req[c].op, req[c].number), "audit")
    BY <1>1, <1>4 DEF Transition, At, NewRow, Goes
  <2> QED
    BY <1>1, <2>1, WriteHeadKeeps
<1>5. CASE (ReviseHead(c) \/ Transition(c)) /\ ~Current(h, req[c].number)
  BY <1>1, <1>5, DiscardKeeps DEF ReviseHead, Transition
<1> QED
  BY <1>2, <1>3, <1>4, <1>5

\* The invariant at a step after the first write.
LEMMA AfterWrite ==
  ASSUME IInv, NEW c \in Clients, owner = c, Wrote(c)
  PROVE  LET D == db[req[c].doc] IN
         /\ work = [db EXCEPT ![req[c].doc] = Staged(c)]
         /\ work[req[c].doc] = Staged(c)
         /\ Fits(req[c].op, req[c].number) /\ req[c].number \in 0..MaxRevision
         /\ Goes(D.head, req[c].op, req[c].number)
         /\ req[c].before = D.head /\ Stands(D.head, req[c].op) /\ MayChange(c, req[c].op)
         /\ Rows(D)
         /\ Changed(D, req[c].op, c, req[c].number) \in Document
         /\ db \in [Docs -> Document]
<1> DEFINE D == db[req[c].doc]
<1>1. /\ work = [db EXCEPT ![req[c].doc] = Staged(c)]
      /\ Fits(req[c].op, req[c].number)
      /\ Goes(D.head, req[c].op, req[c].number)
      /\ req[c].before = D.head /\ Stands(D.head, req[c].op) /\ MayChange(c, req[c].op)
  BY DEF IInv, UnitInv, Wrote, DocOf
<1>2. /\ req[c].doc \in Docs /\ D \in Document /\ req[c].op \in Changes
      /\ req[c].number \in 0..MaxRevision /\ db \in [Docs -> Document]
  BY Holder DEF DocOf, Request, IInv, TypeOK
<1>3. Rows(D)
  BY <1>2 DEF IInv, DocInv
<1>4. Changed(D, req[c].op, c, req[c].number) \in Document
  BY <1>1, <1>2, <1>3, ChangeKeepsRows
<1> QED
  BY <1>1, <1>2, <1>3, <1>4

LEMMA InsertTextKeeps ==
  ASSUME IInv, NEW c \in Clients, InsertText(c)
  PROVE  IInv'
<1> DEFINE d == req[c].doc
           D == db[d]
           n == req[c].number + 1
           E == Changed(D, req[c].op, c, req[c].number)
           q == [req[c] EXCEPT !.step = "audit"]
<1>1. /\ owner = c /\ req[c].step = "text" /\ req[c].op \in {"create", "revise"}
      /\ Wrote(c) /\ d \in Docs
  <2>1. owner = c /\ req[c].step = "text" /\ req[c].op \in {"create", "revise"}
    BY DEF InsertText, At
  <2> QED
    BY <2>1, Holder DEF DocOf, Wrote
<1>2. CASE work[d].text[n] = None
  <2>1. /\ work' = [work EXCEPT ![d].text[n] = c]
        /\ req' = [req EXCEPT ![c] = q]
        /\ UNCHANGED <<db, owner, seen, told>>
    BY <1>2 DEF InsertText, Goto
  <2>2. /\ q \in Request /\ q.step = "audit" /\ q.before = req[c].before
        /\ q.op = req[c].op /\ q.doc = d /\ q.number = req[c].number /\ req'[c] = q
    BY <1>1, <2>1, Holder DEF Request, IInv, TypeOK
  <2>3. Staged(c) = [head |-> E.head, text |-> D.text, trail |-> D.trail]
    BY <1>1 DEF Staged, DocOf
  <2>4. Staged(c)' = [head |-> E.head, text |-> E.text, trail |-> D.trail]
    BY <2>1, <2>2 DEF Staged, DocOf, Changed
  <2>5. E.text = [D.text EXCEPT ![n] = c]
    BY <1>1 DEF Changed, NewText
  <2>6. [Staged(c) EXCEPT !.text[n] = c] = Staged(c)'
    BY <2>3, <2>4, <2>5
  <2>7. work' = [db EXCEPT ![d] = Staged(c)']
    BY <1>1, <2>1, <2>6, AfterWrite
  <2>8. work' \in [Docs -> Document]
    BY <1>1, <2>4, <2>7, AfterWrite DEF Document
  <2>9. /\ q.before = D.head /\ Stands(D.head, q.op) /\ MayChange(c, q.op)
        /\ Goes(D.head, q.op, q.number)
    BY <1>1, <2>2, AfterWrite
  <2> HIDE DEF q
  <2> QED
    BY <1>1, <2>1, <2>2, <2>7, <2>8, <2>9, InsideKeeps
<1>3. CASE work[d].text[n] # None
  BY <1>1, <1>3, DiscardKeeps DEF InsertText
<1> QED
  BY <1>2, <1>3

LEMMA AppendAuditKeeps ==
  ASSUME IInv, NEW c \in Clients, AppendAudit(c)
  PROVE  IInv'
<1> DEFINE d == req[c].doc
           D == db[d]
           E == Changed(D, req[c].op, c, req[c].number)
           q == [req[c] EXCEPT !.step = "commit"]
<1>1. /\ owner = c /\ req[c].step = "audit" /\ req[c].op \in Changes
      /\ Wrote(c) /\ d \in Docs
  <2>1. owner = c /\ req[c].step = "audit" /\ req[c].op \in Changes
    BY DEF AppendAudit, At
  <2> QED
    BY <2>1, Holder DEF DocOf, Wrote
<1>2. Staged(c) = [head |-> E.head, text |-> E.text, trail |-> D.trail]
  BY <1>1 DEF Staged, DocOf
<1>3. /\ HeadOf(c) = E.head /\ E.head = NewRow(D.head, req[c].op, req[c].number)
      /\ req[c].before = D.head
  <2>1. work[d] = Staged(c) /\ req[c].before = D.head
    BY <1>1, AfterWrite
  <2>2. HeadOf(c) = E.head
    BY <1>2, <2>1 DEF HeadOf
  <2>3. E.head = NewRow(D.head, req[c].op, req[c].number)
    BY DEF Changed
  <2> QED
    BY <2>1, <2>2, <2>3
<1>4. /\ work' = [work EXCEPT ![d].trail = Append(@, Entry(req[c].op, c, D.head, req[c].number))]
      /\ req' = [req EXCEPT ![c] = q]
      /\ UNCHANGED <<db, owner, seen, told>>
  BY <1>3 DEF AppendAudit, Goto, Entry
<1>5. /\ q \in Request /\ q.step = "commit" /\ q.before = req[c].before
      /\ q.op = req[c].op /\ q.doc = d /\ q.number = req[c].number /\ req'[c] = q
  BY <1>1, <1>4, Holder DEF Request, IInv, TypeOK
<1>6. Staged(c)' = [head |-> E.head, text |-> E.text, trail |-> E.trail]
  BY <1>4, <1>5 DEF Staged, DocOf, Changed
<1>7. E.trail = Append(D.trail, Entry(req[c].op, c, D.head, req[c].number))
  BY DEF Changed
<1>8. work' = [work EXCEPT ![d].trail = E.trail]
  <2>1. work[d].trail = D.trail
    BY <1>1, <1>2, AfterWrite
  <2> QED
    BY <1>4, <1>7, <2>1
<1>9. work' = [db EXCEPT ![d] = Staged(c)']
  <2>1. [Staged(c) EXCEPT !.trail = E.trail] = Staged(c)'
    BY <1>2, <1>6
  <2> QED
    BY <1>1, <1>8, <2>1, AfterWrite
<1>10. work' \in [Docs -> Document]
  BY <1>1, <1>6, <1>9, AfterWrite DEF Document
<1>11. /\ q.before = D.head /\ Stands(D.head, q.op) /\ MayChange(c, q.op)
       /\ Goes(D.head, q.op, q.number)
  BY <1>1, <1>5, AfterWrite
<1> HIDE DEF q
<1> QED
  BY <1>1, <1>4, <1>5, <1>9, <1>10, <1>11, InsideKeeps

\* What a commit makes of the unit's document.
LEMMA CommitMakes ==
  ASSUME IInv, NEW c \in Clients, Commit(c)
  PROVE  LET d == req[c].doc
             op == req[c].op
             n == req[c].number
             E == Changed(db[d], op, c, n) IN
         /\ owner = c /\ op \in Changes /\ d \in Docs /\ req[c] \in Request
         /\ db[d] \in Document /\ Rows(db[d]) /\ n \in 0..MaxRevision
         /\ Fits(op, n) /\ Stands(db[d].head, op) /\ Goes(db[d].head, op, n)
         /\ MayChange(c, op)
         /\ E \in Document /\ Rows(E) /\ db[d].head.status # "archived"
         /\ \A i \in Revisions : db[d].text[i] # None => E.text[i] = db[d].text[i]
         /\ db \in [Docs -> Document] /\ db' = [db EXCEPT ![d] = E] /\ work' = db'
         /\ db'[d] = E /\ \A x \in Docs \ {d} : db'[x] = db[x]
<1> DEFINE d == req[c].doc
           op == req[c].op
           n == req[c].number
           D == db[d]
           E == Changed(D, op, c, n)
           e == Entry(op, c, D.head, n)
<1>1. /\ owner = c /\ req[c].step = "commit" /\ op \in Changes
      /\ Wrote(c) /\ d \in Docs /\ req[c] \in Request
  <2>1. owner = c /\ req[c].step = "commit" /\ op \in Changes
    BY DEF Commit, At
  <2> QED
    BY <2>1, Holder DEF DocOf, Wrote
<1>2. /\ D \in Document /\ Rows(D) /\ n \in 0..MaxRevision
      /\ Fits(op, n) /\ Stands(D.head, op) /\ Goes(D.head, op, n) /\ MayChange(c, op)
  BY <1>1, Holder, AfterWrite DEF DocOf
<1>4. /\ E \in Document /\ Rows(E) /\ D.head.status # "archived"
      /\ \A i \in Revisions : D.text[i] # None => E.text[i] = D.text[i]
  BY <1>1, <1>2, ChangeKeepsRows
<1>5. Staged(c) = E
  <2>1. Staged(c) = [head |-> E.head, text |-> E.text, trail |-> E.trail]
    BY <1>1 DEF Staged, DocOf
  <2> QED
    BY <1>4, <2>1, DocumentParts
<1>6. /\ db \in [Docs -> Document] /\ db' = [db EXCEPT ![d] = E] /\ work' = db'
      /\ db'[d] = E /\ \A x \in Docs \ {d} : db'[x] = db[x]
  <2>1. db \in [Docs -> Document] /\ work = [db EXCEPT ![d] = E]
    BY <1>1, <1>5, AfterWrite
  <2>2. db' = work /\ work' = work
    BY DEF Commit
  <2> QED
    BY <2>1, <2>2, <1>1
<1> QED
  BY <1>1, <1>2, <1>4, <1>6

LEMMA CommitKeeps ==
  ASSUME IInv, NEW c \in Clients, Commit(c)
  PROVE  IInv'
<1> DEFINE d == req[c].doc
           op == req[c].op
           n == req[c].number
           D == db[d]
           E == Changed(D, op, c, n)
           e == Entry(op, c, D.head, n)
<1>1. /\ owner = c /\ op \in Changes /\ d \in Docs /\ req[c] \in Request
  BY CommitMakes
<1>2. /\ D \in Document /\ Rows(D) /\ n \in 0..MaxRevision
      /\ Fits(op, n) /\ Stands(D.head, op) /\ Goes(D.head, op, n) /\ MayChange(c, op)
  BY CommitMakes
<1>3. /\ op # "create" => <<d, n>> \in told[c]
      /\ op = "publish" => <<d, n>> \in seen[c]
  BY <1>1 DEF IInv, UnitInv
<1>4. /\ E \in Document /\ Rows(E)
      /\ \A i \in Revisions : D.text[i] # None => E.text[i] = D.text[i]
  BY CommitMakes
<1>6. /\ db \in [Docs -> Document] /\ db' = [db EXCEPT ![d] = E] /\ work' = db'
      /\ db'[d] = E /\ \A x \in Docs \ {d} : db'[x] = db[x]
  BY CommitMakes
<1>7. /\ owner' = None /\ req' = [req EXCEPT ![c] = Idle]
      /\ req'[c] = Idle /\ \A b \in Clients \ {c} : req'[b] = req[b]
  BY DEF Commit, IInv, TypeOK
<1>8. /\ KnowledgeGrows
      /\ seen' \in [Clients -> SUBSET (Docs \X Revisions)]
      /\ told' \in [Clients -> SUBSET (Docs \X Revisions)]
      /\ \A b \in Readers : seen'[b] = seen[b]
  <2>1. /\ seen \in [Clients -> SUBSET (Docs \X Revisions)]
        /\ told \in [Clients -> SUBSET (Docs \X Revisions)]
    BY DEF IInv, TypeOK
  <2>2. CASE op \in {"create", "revise"}
    <3>1. n + 1 \in Revisions
      BY <1>2, <2>2 DEF Fits, Revisions
    <3>2. /\ seen' = [seen EXCEPT ![c] = @ \cup {<<d, n + 1>>}]
          /\ told' = [told EXCEPT ![c] = @ \cup {<<d, n + 1>>}]
      BY <2>2 DEF Commit, Learn
    <3>3. c \notin Readers
      BY <1>2, <2>2, DocumentsAssumption DEF MayChange, DocumentsAssumption
    <3>4. /\ seen'[c] = seen[c] \cup {<<d, n + 1>>}
          /\ told'[c] = told[c] \cup {<<d, n + 1>>}
          /\ \A b \in Clients \ {c} : seen'[b] = seen[b] /\ told'[b] = told[b]
      BY <2>1, <3>2
    <3>5. KnowledgeGrows
      BY <3>4 DEF KnowledgeGrows
    <3>6. <<d, n + 1>> \in Docs \X Revisions
      BY <1>1, <3>1
    <3>7. /\ seen' \in [Clients -> SUBSET (Docs \X Revisions)]
          /\ told' \in [Clients -> SUBSET (Docs \X Revisions)]
      BY <2>1, <3>2, <3>6
    <3>8. \A b \in Readers : seen'[b] = seen[b]
      BY <3>3, <3>4 DEF Clients
    <3> QED
      BY <3>5, <3>7, <3>8
  <2>3. CASE op \notin {"create", "revise"}
    BY <2>1, <2>3 DEF Commit, KnowledgeGrows
  <2> QED
    BY <2>2, <2>3
<1>9. TypeOK'
  <2>1. db' \in [Docs -> Document]
    BY <1>4, <1>6
  <2> QED
    BY <1>1, <1>6, <1>7, <1>8, <2>1, Holder DEF TypeOK, IInv, Idle, Changes
<1>10. UnitInv'
  BY <1>7 DEF UnitInv
<1>11. /\ E.trail = Append(D.trail, e) /\ D.trail \in Seq(AuditEntry)
       /\ Len(D.trail) + 1 \in DOMAIN E.trail /\ E.trail[Len(D.trail) + 1] = e
       /\ \A i \in DOMAIN D.trail : i \in DOMAIN E.trail /\ E.trail[i] = D.trail[i]
  <2>1. E.trail = Append(D.trail, e) /\ D.trail \in Seq(AuditEntry)
    BY <1>2 DEF Changed, Document
  <2>2. e \in AuditEntry
    <3>1. D.head \in DocumentRow
      BY <1>2 DEF Document
    <3> QED
      BY <1>1, <1>2, <3>1, EntryType
  <2> HIDE DEF E, D, e
  <2> QED
    BY <2>1, <2>2
<1>12. TrailsGrow
  BY <1>6, <1>11 DEF TrailsGrow
<1>13. \A x \in Docs : \A i \in Revisions : db[x].text[i] # None => db'[x].text[i] = db[x].text[i]
  BY <1>4, <1>6
<1>14. FetchInv'
  <2>1. ASSUME NEW b \in Clients, b # c, req[b].step = "fetch"
        PROVE  /\ Found(b)'
               /\ b \in Readers => Approved(db'[req[b].doc].trail, seen', req[b].doc, req[b].number)
    <3>1. /\ req[b].doc \in Docs /\ req[b].number \in Revisions /\ Found(b)
          /\ b \in Readers => Approved(db[req[b].doc].trail, seen, req[b].doc, req[b].number)
      BY <2>1 DEF IInv, TypeOK, FetchInv, Request, Idle
    <3>2. Found(b)'
      BY <1>7, <1>13, <2>1, <3>1 DEF Found
    <3> QED
      BY <1>8, <1>12, <3>1, <3>2, ApprovalStays
  <2>2. ASSUME NEW b \in Clients, b # c, req'[b].step = "fetch"
        PROVE  b \in Readers => Approved(db'[req[b].doc].trail, seen', req[b].doc, req[b].number)
    BY <1>7, <2>1, <2>2
  <2>3. \A b \in Clients \ {c} : req'[b].step = "fetch" /\ b \in Readers =>
           Approved(db'[req'[b].doc].trail, seen', req'[b].doc, req'[b].number)
    BY <1>7, <2>2
  <2> QED
    BY <1>7, <2>1, <2>3 DEF IInv, FetchInv, Idle
<1>15. DocInv'
  <2>1. \A x \in Docs : Rows(db'[x])
    BY <1>4, <1>6 DEF IInv, DocInv
  <2>2. ASSUME NEW x \in Docs, db'[x].head.published # 0
        PROVE  Approved(db'[x].trail, seen', x, db'[x].head.published)
    <3>1. CASE db'[x].head.published = db[x].head.published
      BY <1>8, <1>12, <2>2, <3>1, ApprovalStays DEF IInv, DocInv
    <3>2. CASE db'[x].head.published # db[x].head.published
      <4>1. x = d /\ E.head = NewRow(D.head, op, n)
        BY <1>6, <3>2 DEF Changed
      <4>2. D.head \in DocumentRow
        BY <1>2 DEF Document
      <4>3. op = "publish" /\ E.head.published = n
        BY <1>1, <1>6, <2>2, <3>2, <4>1, <4>2
           DEF Changes, NewRow, NewHead, RevisedHead, PublishedHead, ArchivedHead, DocumentRow
      <4>4. e.action = "publish" /\ e.after.published = n /\ e.actor = c /\ c \in Admins
        BY <1>2, <4>1, <4>3 DEF Entry, MayChange
      <4>5. <<d, n>> \in seen'[c]
        BY <1>3, <1>8, <4>3 DEF KnowledgeGrows
      <4>6. Approved(E.trail, seen', d, n)
        <5> HIDE DEF E, D, e
        <5> QED
          BY <1>11, <4>4, <4>5 DEF Approved
      <4>7. db'[x].trail = E.trail /\ db'[x].head.published = n
        BY <1>6, <4>1, <4>3
      <4> QED
        BY <4>1, <4>6, <4>7
    <3> QED
      BY <3>1, <3>2
  <2>3. NoLostUpdate'
    <3>1. ASSUME NEW x \in Docs, NEW m \in 1..(MaxRevision - 1), db'[x].text[m + 1] # None
          PROVE  /\ db'[x].text[m] # None
                 /\ <<x, m>> \in told'[db'[x].text[m + 1]]
      <4>1. m \in Revisions /\ m + 1 \in Revisions
        BY DEF Revisions
      <4>2. CASE db[x].text[m + 1] # None
        <5>1. db[x].text[m] # None /\ <<x, m>> \in told[db[x].text[m + 1]]
          BY <4>2 DEF IInv, DocInv, NoLostUpdate
        <5>2. db[x].text[m + 1] \in Clients
          BY <1>6, <4>1, <4>2 DEF Document, Texts
        <5> QED
          BY <1>8, <1>13, <4>1, <4>2, <5>1, <5>2 DEF KnowledgeGrows
      <4>3. CASE db[x].text[m + 1] = None
        <5>1. x = d /\ E.text = NewText(D.text, op, n, c)
          BY <1>6, <3>1, <4>3 DEF Changed
        <5>2. D.text \in Texts
          BY <1>2 DEF Document
        <5>3. op \in {"create", "revise"} /\ m = n /\ E.text[m + 1] = c
          BY <1>2, <1>6, <3>1, <4>1, <4>3, <5>1, <5>2 DEF NewText, Texts
        <5>4. op = "revise"
          BY <1>2, <5>3 DEF Fits
        <5>5. D.text[n] # None
          BY <1>2, <4>1, <5>3, <5>4 DEF Rows, Goes, Current, Revisions
        <5> QED
          BY <1>3, <1>6, <1>8, <1>13, <4>1, <5>1, <5>3, <5>4, <5>5 DEF KnowledgeGrows
      <4> QED
        BY <4>2, <4>3
    <3> QED
      BY <3>1 DEF NoLostUpdate
  <2>4. ASSUME NEW b \in Readers, NEW r \in seen'[b]
        PROVE  Approved(db'[r[1]].trail, seen', r[1], r[2])
    <3>1. r \in seen[b] /\ r[1] \in Docs
      BY <1>8, <2>4 DEF Clients
    <3>2. Approved(db[r[1]].trail, seen, r[1], r[2])
      BY <3>1 DEF IInv, DocInv, ReadersSeeApproved
    <3> QED
      BY <1>8, <1>12, <3>1, <3>2, ApprovalStays
  <2> QED
    BY <2>1, <2>2, <2>3, <2>4 DEF DocInv, ReadersSeeApproved
<1> QED
  BY <1>9, <1>10, <1>14, <1>15 DEF IInv

LEMMA OpenKeeps ==
  ASSUME IInv, NEW c \in Clients, NEW d \in Docs, Open(c, d)
  PROVE  IInv'
<1> DEFINE D == db[d]
<1>1. PICK n \in Readable(c, D.head) :
        req' = [req EXCEPT ![c] =
          [op |-> "read", step |-> "fetch", doc |-> d, number |-> n, before |-> D.head]]
  BY DEF Open
<1> DEFINE q == [op |-> "read", step |-> "fetch", doc |-> d, number |-> n, before |-> D.head]
<1>2. /\ req[c] = Idle /\ UNCHANGED <<db, work, owner, seen, told>>
      /\ req'[c] = q /\ \A b \in Clients \ {c} : req'[b] = req[b]
  BY <1>1 DEF Open, IInv, TypeOK
<1>3. /\ D \in Document /\ D.head \in DocumentRow /\ Rows(D)
      /\ D.head.published # 0 => Approved(D.trail, seen, d, D.head.published)
  BY DEF IInv, TypeOK, DocInv, Document
<1>4. n \in Revisions /\ D.text[n] # None /\ D.head.latest \in Revisions
  <2>1. D.head.latest \in 0..MaxRevision
    BY <1>3 DEF DocumentRow
  <2>2. CASE c \in Readers
    <3>1. n = D.head.published /\ n # 0
      BY <2>2 DEF Readable
    <3> QED
      BY <1>3, <2>1, <3>1 DEF Rows, Revisions, DocumentRow
  <2>3. CASE c \notin Readers
    <3>1. n \in 1..D.head.latest
      BY <2>3 DEF Readable
    <3> QED
      BY <1>3, <2>1, <3>1 DEF Rows, Revisions
  <2> QED
    BY <2>2, <2>3
<1>5. q \in Request
  BY <1>3, <1>4 DEF Request, Revisions
<1>6. TypeOK'
  <2>1. owner # c /\ q.op \notin Changes
    BY <1>2, Holder DEF Idle, Changes
  <2>2. req' \in [Clients -> Request \cup {Idle}]
    BY <1>1, <1>5 DEF IInv, TypeOK
  <2> HIDE DEF q
  <2> QED
    BY <1>2, <2>1, <2>2 DEF IInv, TypeOK
<1>7. UnitInv'
  <2>1. owner # c
    BY <1>2, Holder DEF Idle, Changes
  <2>2. \A b \in Clients \ {c} : Wrote(b)' = Wrote(b) /\ DocOf(b)' = DocOf(b)
    BY <1>2 DEF Wrote, DocOf
  <2>3. \A b \in Clients \ {c} : Staged(b)' = Staged(b)
    BY <1>2 DEF Staged, DocOf
  <2> QED
    BY <1>2, <2>1, <2>2, <2>3 DEF IInv, UnitInv
<1>8. DocInv'
  BY <1>2 DEF IInv, DocInv, NoLostUpdate, ReadersSeeApproved
<1>9. FetchInv'
  <2>1. c \in Readers => Approved(D.trail, seen, d, n)
    BY <1>3 DEF Readable
  <2>2. Found(c)'
    BY <1>2, <1>4 DEF Found
  <2>3. ASSUME NEW b \in Clients, b # c
        PROVE  Found(b)' = Found(b)
    BY <1>2, <2>3 DEF Found
  <2> QED
    BY <1>2, <1>4, <2>1, <2>2, <2>3 DEF IInv, FetchInv
<1> QED
  BY <1>6, <1>7, <1>8, <1>9 DEF IInv

LEMMA FetchKeeps ==
  ASSUME IInv, NEW c \in Clients, Fetch(c)
  PROVE  IInv'
<1> DEFINE d == req[c].doc
           n == req[c].number
           m == req[c].before.latest
<1>1. /\ req[c].step = "fetch" /\ UNCHANGED <<db, work, owner>>
      /\ req'[c] = Idle /\ \A b \in Clients \ {c} : req'[b] = req[b]
      /\ req' = [req EXCEPT ![c] = Idle]
  BY DEF Fetch, IInv, TypeOK
<1>2. /\ d \in Docs /\ n \in Revisions /\ m \in Revisions /\ Found(c)
      /\ req[c].op = "read" /\ owner # c
      /\ c \in Readers => Approved(db[d].trail, seen, d, n)
  BY <1>1 DEF IInv, FetchInv, TypeOK, Request, Idle, Changes
<1>3. /\ seen' = [seen EXCEPT ![c] = @ \cup {<<d, n>>}]
      /\ told' = [told EXCEPT ![c] = @ \cup {<<d, m>>}]
  BY <1>2 DEF Fetch, Learn
<1>4. /\ seen \in [Clients -> SUBSET (Docs \X Revisions)]
      /\ told \in [Clients -> SUBSET (Docs \X Revisions)]
  BY DEF IInv, TypeOK
<1>5. /\ seen'[c] = seen[c] \cup {<<d, n>>}
      /\ told'[c] = told[c] \cup {<<d, m>>}
      /\ \A b \in Clients \ {c} : seen'[b] = seen[b] /\ told'[b] = told[b]
  BY <1>3, <1>4
<1>6. KnowledgeGrows /\ TrailsGrow
  BY <1>1, <1>5 DEF KnowledgeGrows, TrailsGrow
<1>7. TypeOK'
  <2>1. <<d, n>> \in Docs \X Revisions /\ <<d, m>> \in Docs \X Revisions
    BY <1>2
  <2>2. /\ seen' \in [Clients -> SUBSET (Docs \X Revisions)]
        /\ told' \in [Clients -> SUBSET (Docs \X Revisions)]
    BY <1>3, <1>4, <2>1
  <2> QED
    BY <1>1, <1>2, <2>2 DEF IInv, TypeOK, Idle, Changes
<1>8. UnitInv'
  <2>1. \A b \in Clients \ {c} : Wrote(b)' = Wrote(b) /\ DocOf(b)' = DocOf(b)
    BY <1>1 DEF Wrote, DocOf
  <2>2. \A b \in Clients \ {c} : Staged(b)' = Staged(b)
    BY <1>1 DEF Staged, DocOf
  <2> QED
    BY <1>1, <1>2, <1>5, <2>1, <2>2 DEF IInv, UnitInv
<1>9. FetchInv'
  <2>1. ASSUME NEW b \in Clients, b # c
        PROVE  Found(b)' = Found(b)
    BY <1>1, <2>1 DEF Found
  <2>2. ASSUME NEW b \in Readers, b # c, req[b].step = "fetch"
        PROVE  Approved(db'[req[b].doc].trail, seen', req[b].doc, req[b].number)
    <3>1. b \in Clients /\ req[b].doc \in Docs
      BY <2>2 DEF Clients, IInv, TypeOK, Request, Idle
    <3>2. Approved(db[req[b].doc].trail, seen, req[b].doc, req[b].number)
      BY <2>2, <3>1 DEF IInv, FetchInv
    <3> QED
      BY <1>6, <3>1, <3>2, ApprovalStays
  <2> QED
    BY <1>1, <2>1, <2>2 DEF IInv, FetchInv, Idle
<1>10. DocInv'
  <2>1. ASSUME NEW x \in Docs, db'[x].head.published # 0
        PROVE  Approved(db'[x].trail, seen', x, db'[x].head.published)
    BY <1>1, <1>6, <2>1, ApprovalStays DEF IInv, DocInv
  <2>2. NoLostUpdate'
    <3>1. ASSUME NEW x \in Docs, NEW i \in 1..(MaxRevision - 1), db[x].text[i + 1] # None
          PROVE  <<x, i>> \in told'[db[x].text[i + 1]]
      <4>1. i + 1 \in Revisions
        BY DEF Revisions
      <4>2. db[x].text[i + 1] \in Clients
        BY <3>1, <4>1 DEF IInv, TypeOK, Document, Texts
      <4> QED
        BY <1>6, <3>1, <4>2 DEF IInv, DocInv, NoLostUpdate, KnowledgeGrows
    <3> QED
      BY <1>1, <3>1 DEF IInv, DocInv, NoLostUpdate
  <2>3. ASSUME NEW b \in Readers, NEW r \in seen'[b]
        PROVE  Approved(db'[r[1]].trail, seen', r[1], r[2])
    <3>1. CASE r \in seen[b]
      <4>1. r[1] \in Docs
        BY <1>4, <2>3, <3>1 DEF Clients
      <4> QED
        BY <1>6, <2>3, <3>1, <4>1, ApprovalStays DEF IInv, DocInv, ReadersSeeApproved
    <3>2. CASE r \notin seen[b]
      <4>1. b = c /\ r = <<d, n>>
        BY <1>5, <2>3, <3>2 DEF Clients
      <4> QED
        BY <1>2, <1>6, <4>1, ApprovalStays
    <3> QED
      BY <3>1, <3>2
  <2> QED
    BY <1>1, <2>1, <2>2, <2>3 DEF IInv, DocInv, ReadersSeeApproved
<1> QED
  BY <1>7, <1>8, <1>9, <1>10 DEF IInv

-----------------------------------------------------------------------------
(* The theorems *)

\* Every step keeps the inductive invariant.
LEMMA NextKeeps == IInv /\ [Next]_vars => IInv'
<1> SUFFICES ASSUME IInv, [Next]_vars PROVE IInv'
  OBVIOUS
<1>1. ASSUME NEW c \in Clients, NEW op \in Changes, NEW d \in Docs,
             NEW n \in 0..MaxRevision, Ask(c, op, d, n)
      PROVE  IInv'
  BY <1>1, AskKeeps
<1>2. ASSUME NEW c \in Clients, Check(c) PROVE IInv'
  BY <1>2, CheckKeeps
<1>3. ASSUME NEW c \in Clients, CreateHead(c) \/ ReviseHead(c) \/ Transition(c) PROVE IInv'
  BY <1>3, HeadsKeep
<1>4. ASSUME NEW c \in Clients, InsertText(c) PROVE IInv'
  BY <1>4, InsertTextKeeps
<1>5. ASSUME NEW c \in Clients, AppendAudit(c) PROVE IInv'
  BY <1>5, AppendAuditKeeps
<1>6. ASSUME NEW c \in Clients, Commit(c) PROVE IInv'
  BY <1>6, CommitKeeps
<1>7. ASSUME NEW c \in Clients, Abort(c) PROVE IInv'
  BY <1>7, DiscardKeeps DEF Abort
<1>8. ASSUME NEW c \in Clients, NEW d \in Docs, Open(c, d) PROVE IInv'
  BY <1>8, OpenKeeps
<1>9. ASSUME NEW c \in Clients, Fetch(c) PROVE IInv'
  BY <1>9, FetchKeeps
<1>10. CASE UNCHANGED vars
  <2>1. \A c \in Clients : Staged(c)' = Staged(c)
    BY <1>10 DEF vars, Staged, DocOf
  <2> QED
    BY <1>10, <2>1 DEF vars, IInv, TypeOK, UnitInv, Wrote, DocOf, FetchInv, Found, DocInv,
       NoLostUpdate, ReadersSeeApproved
<1> QED
  BY <1>1, <1>2, <1>3, <1>4, <1>5, <1>6, <1>7, <1>8, <1>9, <1>10 DEF Next

LEMMA InvariantHolds == Spec => []IInv
BY InitEstablishes, NextKeeps, PTL DEF Spec

\* Type correctness; nothing is uncommitted while no unit is open.
THEOREM TypeCorrect == Spec => []TypeOK
<1>1. IInv => TypeOK
  BY DEF IInv
<1> QED
  BY <1>1, InvariantHolds, PTL

\* Nobody's revision is replaced by an author who did not know of it.
THEOREM UpdatesAreNotLost == Spec => []NoLostUpdate
<1>1. IInv => NoLostUpdate
  BY DEF IInv, DocInv
<1> QED
  BY <1>1, InvariantHolds, PTL

\* Readers get approved texts only.
THEOREM ReadersSeeApprovedOnly == Spec => []ReadersSeeApproved
<1>1. IInv => ReadersSeeApproved
  BY DEF IInv, DocInv
<1> QED
  BY <1>1, InvariantHolds, PTL

\* The revision that the first call of a read names is there for the second.
THEOREM ReadsFind == Spec => []ReadsFindTheirRevision
<1>1. IInv => ReadsFindTheirRevision
  BY DEF IInv, FetchInv, ReadsFindTheirRevision
<1> QED
  BY <1>1, InvariantHolds, PTL

\* The audit records account for the document as it stands.
THEOREM AuditAccountsForAll == Spec => []AuditChain
<1>1. IInv => AuditChain
  BY DEF IInv, DocInv, Rows, AuditChain
<1> QED
  BY <1>1, InvariantHolds, PTL

\* Committed revisions stay as they are, and so do archived documents.
THEOREM HistoryIsRetained == Spec => HistoryRetained
<1>1. IInv /\ [Next]_vars => [RetainedHistory]_vars
  <2> SUFFICES ASSUME IInv, Next PROVE RetainedHistory \/ UNCHANGED vars
    OBVIOUS
  <2>1. CASE UNCHANGED db
    BY <2>1 DEF RetainedHistory
  <2>2. ASSUME NEW c \in Clients, Commit(c)
        PROVE  RetainedHistory
    BY <2>2, CommitMakes DEF RetainedHistory
  <2>3. UNCHANGED db \/ \E c \in Clients : Commit(c)
    BY DEF Next, Ask, Check, Discard, CreateHead, ReviseHead, Transition, WriteHead, InsertText,
       AppendAudit, Abort, Open, Fetch
  <2> QED
    BY <2>1, <2>2, <2>3
<1> QED
  BY <1>1, InvariantHolds, PTL DEF Spec, HistoryRetained

=============================================================================
