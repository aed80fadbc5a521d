\* One document with up to three revisions, a technician and an
\* administrator who compete as authors, a reader.
CONSTANTS
  Docs = {d1}
  Technicians = {t1}
  Admins = {a1}
  Readers = {r1}
  None = None
  MaxRevision = 3
  MaxChanges = 5
SPECIFICATION Spec
INVARIANTS
  NoLostUpdate
  ReadersSeeApproved
  ReadsFindTheirRevision
  AuditChain
PROPERTIES
  HistoryRetained
