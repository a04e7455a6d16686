SPECIFICATION Spec
CONSTANTS
  note = note  memo = memo  bank = bank  csv = csv  cash = cash
  t1 = t1  t2 = t2  t3 = t3  t4 = t4
  s1 = s1  s2 = s2  s3 = s3
  Event = {note, bank, csv}
  TextEvent = {note}
  Manual = {cash}
  Txn = {t1, t2, t3, t4}
  Session = {s1, s2}
  Likeness <- MCLikeness
  SameRef <- MCSameRef
  NoTxn = NoTxn
  Other = Other
  NoContent = NoContent
SYMMETRY Sym
INVARIANTS
  TypeOK
  OnePosting
  Agreement
  AuditReplays
CHECK_DEADLOCK FALSE
