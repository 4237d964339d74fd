\* MCScan on one project: a chain of three helpers to a sink on an axis
\* the signal does not count.
CONSTANTS
  H = H
  A = A
  B = B
  hnd = hnd
  f1 = f1
  f2 = f2
  f3 = f3
  m = m
  db = db
  sql = sql
  fetch = fetch
  Files = {H, A, B}
  Fns = {hnd, f1, f2, f3, m}
  Methods = {m}
  FileOf <- MCFileOf
  Axes = {db, sql, fetch}
  DB = db
  Counted = {db, fetch}
  Texts <- SqlChainTexts
  NoText = NoText
  NoSignal = NoSignal
  MaxIter = 4
  MaxEdits = 0
SPECIFICATION Spec
INVARIANT
  EveryAxisWitness
