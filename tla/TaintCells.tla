----------------------------- MODULE TaintCells -----------------------------
(***************************************************************************)
(* The taint lattice of stryx_taint: a Cell is a mark plus a shape, and a  *)
(* shape maps offsets to cells.  Here a cell is one function from the      *)
(* access paths it has an entry for to their marks: <<>> is the value      *)
(* itself, a path's prefixes have entries too, and a path without an entry *)
(* is one the code would fall off its shape at.  Labels (there is one) and *)
(* the Arg placeholder (never merged) are left out.                        *)
(***************************************************************************)
EXTENDS Naturals, Sequences, FiniteSets, SequencesExt

CONSTANT Offsets    \* field names and indexes

Path == Seq(Offsets)
Mark == {"none", "tainted", "clean"}

IsCell(c) ==
  /\ c \in [DOMAIN c -> Mark] /\ DOMAIN c \subseteq Path /\ IsFiniteSet(DOMAIN c)
  /\ <<>> \in DOMAIN c
  /\ \A p \in DOMAIN c : Prefixes(p) \subseteq DOMAIN c

Whole(mark) == [p \in {<<>>} |-> mark]
Bot == Whole("none")
TaintedCell == Whole("tainted")

Below(c, p) == {q \in DOMAIN c : IsStrictPrefix(p, q)}
HasTainted(c) == \E p \in DOMAIN c : c[p] = "tainted"
CountTainted(c) == Cardinality({p \in DOMAIN c : c[p] = "tainted"})

-----------------------------------------------------------------------------
\* The mark a path inherits: that of the last entry on the way to it.
Nearest(c, p) ==
  CHOOSE q \in Prefixes(p) \cap DOMAIN c :
    \A r \in Prefixes(p) \cap DOMAIN c : Len(r) <= Len(q)
MarkAt(c, p) == c[Nearest(c, p)]

\* tainted_at: an entry overrides what is above it; an undecided one asks below.
TaintedAt(c, p) ==
  \/ MarkAt(c, p) = "tainted"
  \/ p \in DOMAIN c /\ c[p] = "none" /\ \E q \in Below(c, p) : c[q] = "tainted"

\* project_path: the entry's own sub-tree, else what the path inherits.
Project(c, p) ==
  IF p \in DOMAIN c
    THEN [q \in {SubSeq(r, Len(p) + 1, Len(r)) : r \in Below(c, p) \cup {p}} |-> c[p \o q]]
    ELSE IF MarkAt(c, p) = "tainted" THEN TaintedCell ELSE Bot

\* mark_clean_at: entries made on the way inherit, what was below is dropped.
MarkClean(c, p) ==
  [q \in (DOMAIN c \ Below(c, p)) \cup Prefixes(p) |->
     IF q = p THEN "clean" ELSE MarkAt(c, q)]

-----------------------------------------------------------------------------
MergeMark(a, b) ==
  IF "tainted" \in {a, b} THEN "tainted"
  ELSE IF a = "clean" /\ b = "clean" THEN "clean" ELSE "none"

(***************************************************************************)
(* merge_into(t, s).  A sub-tree that only s has is cloned whole where t   *)
(* has no shape; where t has one, its root is merged with an empty cell.   *)
(***************************************************************************)
Merge(t, s) ==
  [p \in DOMAIN t \cup DOMAIN s |->
     IF p \notin DOMAIN s THEN t[p]
     ELSE IF p \in DOMAIN t THEN MergeMark(t[p], s[p])
     ELSE IF Front(p) \in DOMAIN t /\ Below(t, Front(p)) # {} THEN MergeMark("none", s[p])
     ELSE s[p]]

\* The cell with the sub-tree at p replaced by s, entries without a mark of
\* their own made on the way.
Graft(c, p, s) ==
  [q \in (DOMAIN c \ Below(c, p)) \cup Prefixes(p) \cup {p \o r : r \in DOMAIN s} |->
     IF IsPrefix(p, q) THEN s[SubSeq(q, Len(p) + 1, Len(q))]
     ELSE IF q \in DOMAIN c THEN c[q] ELSE "none"]
SubCell(c, p) == IF p \in DOMAIN c THEN Project(c, p) ELSE Bot

InsertShape(c, p, s) == Graft(c, p, Merge(SubCell(c, p), s))
InsertTainted(c, p) == Graft(c, p, [SubCell(c, p) EXCEPT ![<<>>] = "tainted"])

(***************************************************************************)
(* canonicalize: nothing below a clean entry, no entry that neither has a  *)
(* mark nor leads to one.  An empty result is the code's None.             *)
(***************************************************************************)
Shown(c) == {p \in DOMAIN c : \A q \in Prefixes(p) \ {p} : c[q] # "clean"}
Informative(c) == {p \in Shown(c) : \E q \in Shown(c) : IsPrefix(p, q) /\ c[q] # "none"}
Canonicalize(c) == [p \in Informative(c) |-> c[p]]

(***************************************************************************)
(* instantiate_tainted: every topmost tainted entry of a return shape is   *)
(* replaced by the caller's cell, what was below it merged in.             *)
(***************************************************************************)
Topmost(c) == {p \in DOMAIN c : c[p] = "tainted" /\ \A q \in Prefixes(p) \ {p} : c[q] # "tainted"}
Substituted(c, p, r) ==
  IF Below(c, p) = {} THEN r ELSE Merge(r, [Project(c, p) EXCEPT ![<<>>] = "none"])
Kept(c) == {q \in DOMAIN c : Prefixes(q) \cap Topmost(c) = {}}
Over(c, q) == CHOOSE p \in Topmost(c) : IsPrefix(p, q)
Placed(c, p, r) == {p \o x : x \in DOMAIN Substituted(c, p, r)}
Instantiate(c, r) ==
  [q \in Kept(c) \cup UNION {Placed(c, p, r) : p \in Topmost(c)} |->
     IF q \in Kept(c) THEN c[q]
     ELSE Substituted(c, Over(c, q), r)[SubSeq(q, Len(Over(c, q)) + 1, Len(q))]]

TopTaintedOffsets(c) == {o \in Offsets : <<o>> \in DOMAIN c /\ HasTainted(Project(c, <<o>>))}
=============================================================================
