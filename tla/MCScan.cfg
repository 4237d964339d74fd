\* Every scan of the small projects of MCScan: forty-five programs, a diff filter
\* that keeps any subset of the files, one edit at any moment.
CONSTANTS
  H = H
  A = A
  B = B
  hnd = hnd
  f1 = f1
  f2 = f2
  f3 = f3
  m = m
  db = db
  sql = sql
  fetch = fetch
  Files = {H, A, B}
  Fns = {hnd, f1, f2, f3, m}
  Methods = {m}
  FileOf <- MCFileOf
  Axes = {db, sql, fetch}
  DB = db
  Counted = {db, fetch}
  Texts <- MCTexts
  NoText = NoText
  NoSignal = NoSignal
  MaxIter = 4
  MaxEdits = 1
SPECIFICATION FairSpec
INVARIANTS
  TypeOK
  FlagsJustified
  CountedWitness
  ShallowFlowsReported
PROPERTIES
  ImplementsContract
  Terminates
