--------------------------- MODULE TaintCellsProofs -------------------------
(***************************************************************************)
(* What the operations of TaintCells do to cells: first to cells one field *)
(* deep, then to cells of any depth.                                       *)
(***************************************************************************)
EXTENDS TaintCells, SequenceTheorems, FiniteSetTheorems, WellFoundedInduction, TLAPS

\* Paths of one field, and the paths of a cell one field deep.
Singles == {<<x>> : x \in Offsets}
FlatPath == {<<>>} \cup Singles
FlatCell == {c \in UNION {[D -> Mark] : D \in SUBSET FlatPath} : <<>> \in DOMAIN c}

\* The path operators on such paths.
LEMMA FlatPaths ==
  ASSUME NEW x
  PROVE  /\ <<x>> # <<>> /\ Len(<<x>>) = 1 /\ Len(<<>>) = 0
         /\ Prefixes(<<>>) = {<<>>} /\ Prefixes(<<x>>) = {<<>>, <<x>>}
         /\ IsPrefix(<<>>, <<>>) /\ IsPrefix(<<>>, <<x>>) /\ ~IsPrefix(<<x>>, <<>>)
         /\ Front(<<x>>) = <<>>
         /\ SubSeq(<<x>>, 1, 1) = <<x>> /\ SubSeq(<<x>>, 2, 1) = <<>>
         /\ \A y : IsPrefix(<<x>>, <<y>>) <=> x = y
<1>1. /\ SubSeq(<<x>>, 1, 0) = <<>> /\ SubSeq(<<>>, 1, 0) = <<>> /\ SubSeq(<<x>>, 2, 1) = <<>>
  BY SubSeqEmpty
<1>2. \A y : SubSeq(<<y>>, 1, 1) = <<y>>
  <2>1. TAKE y
  <2>2. <<y>> \in Seq({y}) /\ Len(<<y>>) = 1
    OBVIOUS
  <2> QED  BY <2>2, SubSeqFull
<1>3. 0..0 = {0} /\ 0..1 = {0, 1}
  OBVIOUS
<1>4. \A y : <<y>> # <<>> /\ Len(<<y>>) = 1 /\ Len(<<>>) = 0 /\ <<y>>[1] = y
  OBVIOUS
<1>5. Prefixes(<<>>) = {<<>>} /\ Prefixes(<<x>>) = {<<>>, <<x>>}
  BY <1>1, <1>2, <1>3, <1>4 DEF Prefixes
<1>6. /\ IsPrefix(<<>>, <<>>) /\ IsPrefix(<<>>, <<x>>) /\ ~IsPrefix(<<x>>, <<>>)
      /\ Front(<<x>>) = <<>>
  BY <1>1, <1>4 DEF IsPrefix, Front
<1>7. \A y : IsPrefix(<<x>>, <<y>>) <=> x = y
  <2>1. TAKE y
  <2>2. IsPrefix(<<x>>, <<y>>) <=> <<x>> = <<y>>
    BY <1>2, <1>4 DEF IsPrefix
  <2> QED  BY <2>2, <1>4
<1> QED
  BY <1>1, <1>2, <1>4, <1>5, <1>6, <1>7

LEMMA EmptyPath == Prefixes(<<>>) = {<<>>} /\ Len(<<>>) = 0 /\ IsPrefix(<<>>, <<>>)
<1>1. PICK x : x = 0
  OBVIOUS
<1> QED  BY FlatPaths

LEMMA FlatCellType ==
  ASSUME NEW c
  PROVE  c \in FlatCell <=>
           c \in [DOMAIN c -> Mark] /\ DOMAIN c \subseteq FlatPath /\ <<>> \in DOMAIN c
BY DEF FlatCell

\* Nothing lies below a field, and every field below the whole.
LEMMA FlatBelow ==
  ASSUME NEW c \in FlatCell
  PROVE  /\ Below(c, <<>>) = DOMAIN c \ {<<>>}
         /\ \A x \in Offsets : Below(c, <<x>>) = {}
<1>1. DOMAIN c \subseteq FlatPath /\ <<>> \in DOMAIN c
  BY FlatCellType
<1>2. \A q \in FlatPath : IsStrictPrefix(<<>>, q) <=> q # <<>>
  BY FlatPaths DEF IsStrictPrefix, FlatPath, Singles
<1>3. \A x \in Offsets, q \in FlatPath : ~IsStrictPrefix(<<x>>, q)
  <2>1. TAKE x \in Offsets, q \in FlatPath
  <2>2. CASE q = <<>>
    BY <2>2, FlatPaths DEF IsStrictPrefix
  <2>3. ASSUME NEW y \in Offsets, q = <<y>>  PROVE ~IsStrictPrefix(<<x>>, q)
    BY <2>3, FlatPaths DEF IsStrictPrefix
  <2> QED  BY <2>2, <2>3 DEF FlatPath, Singles
<1> QED
  BY <1>1, <1>2, <1>3 DEF Below

LEMMA FlatNearest ==
  ASSUME NEW c \in FlatCell
  PROVE  /\ MarkAt(c, <<>>) = c[<<>>]
         /\ \A x \in Offsets :
              MarkAt(c, <<x>>) = IF <<x>> \in DOMAIN c THEN c[<<x>>] ELSE c[<<>>]
<1>1. <<>> \in DOMAIN c
  BY FlatCellType
<1>2. Nearest(c, <<>>) = <<>>
  <2>1. Prefixes(<<>>) \cap DOMAIN c = {<<>>} /\ Len(<<>>) <= Len(<<>>)
    BY <1>1, EmptyPath
  <2> QED  BY <2>1 DEF Nearest
<1>3. ASSUME NEW x \in Offsets
      PROVE  Nearest(c, <<x>>) = IF <<x>> \in DOMAIN c THEN <<x>> ELSE <<>>
  <2>1. Prefixes(<<x>>) = {<<>>, <<x>>} /\ Len(<<x>>) = 1 /\ Len(<<>>) = 0 /\ <<x>> # <<>>
    BY FlatPaths
  <2>2. CASE <<x>> \in DOMAIN c
    <3>1. \A r \in Prefixes(<<x>>) \cap DOMAIN c : Len(r) <= Len(<<x>>)
      BY <2>1
    <3>2. \A q \in Prefixes(<<x>>) \cap DOMAIN c :
            (\A r \in Prefixes(<<x>>) \cap DOMAIN c : Len(r) <= Len(q)) => q = <<x>>
      <4>1. ~(Len(<<x>>) <= Len(<<>>))
        BY <2>1
      <4> QED  BY <2>1, <2>2, <4>1
    <3> QED  BY <2>1, <2>2, <3>1, <3>2 DEF Nearest
  <2>3. CASE <<x>> \notin DOMAIN c
    <3>1. Prefixes(<<x>>) \cap DOMAIN c = {<<>>}
      BY <1>1, <2>1, <2>3
    <3> QED  BY <2>1, <2>3, <3>1 DEF Nearest
  <2> QED  BY <2>2, <2>3
<1> QED
  BY <1>2, <1>3 DEF MarkAt

\* How a field of such a cell reads: its own entry decides, else the whole's.
LEMMA FlatReads ==
  ASSUME NEW c \in FlatCell, NEW x \in Offsets
  PROVE  TaintedAt(c, <<x>>) <=>
           IF <<x>> \in DOMAIN c THEN c[<<x>>] = "tainted" ELSE c[<<>>] = "tainted"
BY FlatNearest, FlatBelow DEF TaintedAt

\* Validating one field makes it read clean and leaves the others as they were.
LEMMA FlatMarkClean ==
  ASSUME NEW c \in FlatCell, NEW x \in Offsets
  PROVE  /\ MarkClean(c, <<x>>) \in FlatCell
         /\ MarkClean(c, <<x>>)[<<>>] = c[<<>>]
         /\ ~TaintedAt(MarkClean(c, <<x>>), <<x>>)
         /\ \A y \in Offsets \ {x} :
              TaintedAt(MarkClean(c, <<x>>), <<y>>) <=> TaintedAt(c, <<y>>)
<1> DEFINE m == MarkClean(c, <<x>>)
<1>1. /\ c \in [DOMAIN c -> Mark] /\ DOMAIN c \subseteq FlatPath /\ <<>> \in DOMAIN c
  BY FlatCellType
<1>2. DOMAIN m = DOMAIN c \cup {<<x>>} /\ \A q \in DOMAIN m : m[q] = IF q = <<x>> THEN "clean" ELSE MarkAt(c, q)
  BY <1>1, FlatBelow, FlatPaths DEF MarkClean
<1>3. \A q \in DOMAIN c : MarkAt(c, q) = c[q]
  BY <1>1, FlatNearest DEF FlatPath, Singles
<1>4. <<x>> # <<>> /\ \A y \in Offsets \ {x} : <<y>> # <<x>>
  BY FlatPaths
<1>5. m \in FlatCell
  <2>1. m \in [DOMAIN m -> Mark]
    BY <1>1, <1>2, <1>3 DEF Mark, MarkClean
  <2> QED  BY <1>1, <1>2, <2>1, FlatCellType DEF FlatPath, Singles
<1>6. m[<<>>] = c[<<>>]
  BY <1>1, <1>2, <1>3, <1>4
<1>7. ~TaintedAt(m, <<x>>)
  BY <1>2, <1>5, FlatReads
<1>8. \A y \in Offsets \ {x} : TaintedAt(m, <<y>>) <=> TaintedAt(c, <<y>>)
  <2>1. TAKE y \in Offsets \ {x}
  <2>2. <<y>> \in DOMAIN m <=> <<y>> \in DOMAIN c
    BY <1>2, <1>4
  <2>3. <<y>> \in DOMAIN c => m[<<y>>] = c[<<y>>]
    BY <1>2, <1>3, <1>4
  <2> QED  BY <1>5, <1>6, <2>2, <2>3, FlatReads
<1> QED  BY <1>5, <1>6, <1>7, <1>8

LEMMA WholeCell ==
  ASSUME NEW mark \in Mark
  PROVE  /\ Whole(mark) \in FlatCell /\ DOMAIN Whole(mark) = {<<>>} /\ Whole(mark)[<<>>] = mark
         /\ TaintedAt(Whole(mark), <<>>) <=> mark = "tainted"
         /\ \A x \in Offsets : TaintedAt(Whole(mark), <<x>>) <=> mark = "tainted"
<1>1. DOMAIN Whole(mark) = {<<>>} /\ Whole(mark)[<<>>] = mark
  BY DEF Whole
<1>2. Whole(mark) \in FlatCell
  BY <1>1, FlatCellType DEF Whole, FlatPath
<1>3. \A x \in Offsets : <<x>> \notin DOMAIN Whole(mark)
  BY <1>1, FlatPaths
<1>4. Below(Whole(mark), <<>>) = {} /\ MarkAt(Whole(mark), <<>>) = mark
  BY <1>1, <1>2, FlatBelow, FlatNearest
<1> QED
  BY <1>1, <1>2, <1>3, <1>4, FlatReads DEF TaintedAt

\* Reading a field out: the whole of what is read is as tainted as the field was.
LEMMA FlatProject ==
  ASSUME NEW c \in FlatCell, NEW x \in Offsets
  PROVE  /\ Project(c, <<x>>) \in FlatCell
         /\ TaintedAt(Project(c, <<x>>), <<>>) <=> TaintedAt(c, <<x>>)
         /\ TaintedAt(c, <<x>>) => Project(c, <<x>>) = TaintedCell
<1>1. /\ c \in [DOMAIN c -> Mark] /\ <<>> \in DOMAIN c
  BY FlatCellType
<1>2. CASE <<x>> \in DOMAIN c
  <2>1. {SubSeq(r, Len(<<x>>) + 1, Len(r)) : r \in Below(c, <<x>>) \cup {<<x>>}} = {<<>>}
    <3>1. Below(c, <<x>>) \cup {<<x>>} = {<<x>>} /\ SubSeq(<<x>>, 2, 1) = <<>> /\ Len(<<x>>) = 1
      BY FlatBelow, FlatPaths
    <3>2. SubSeq(<<x>>, Len(<<x>>) + 1, Len(<<x>>)) = <<>>
      BY <3>1
    <3> QED  BY <3>1, <3>2, Zenon
  <2>2. <<x>> \o <<>> = <<x>>
    OBVIOUS
  <2>3. Project(c, <<x>>) = Whole(c[<<x>>])
    BY <1>2, <2>1, <2>2 DEF Project, Whole
  <2> QED  BY <1>1, <1>2, <2>3, WholeCell, FlatReads DEF TaintedCell
<1>3. CASE <<x>> \notin DOMAIN c
  <2>1. Project(c, <<x>>) = IF c[<<>>] = "tainted" THEN TaintedCell ELSE Bot
    BY <1>3, FlatNearest DEF Project
  <2> QED  BY <1>3, <2>1, WholeCell, FlatReads DEF TaintedCell, Bot, Mark
<1> QED  BY <1>2, <1>3

\* Canonicalizing a cell that is not clean as a whole loses no taint, and what
\* is left says something.
LEMMA FlatCanonicalize ==
  ASSUME NEW c \in FlatCell, c[<<>>] # "clean"
  PROVE  \/ Canonicalize(c) = [p \in {} |-> "none"]
         \/ /\ Canonicalize(c) \in FlatCell
            /\ Canonicalize(c)[<<>>] = c[<<>>] /\ Canonicalize(c) # Bot
            /\ \A x \in Offsets : TaintedAt(c, <<x>>) => TaintedAt(Canonicalize(c), <<x>>)
<1> DEFINE d == Canonicalize(c)
<1>1. /\ c \in [DOMAIN c -> Mark] /\ DOMAIN c \subseteq FlatPath /\ <<>> \in DOMAIN c
  BY FlatCellType
<1>2. Shown(c) = DOMAIN c
  <2>1. \A p \in FlatPath : Prefixes(p) \ {p} \subseteq {<<>>}
    BY EmptyPath, FlatPaths DEF FlatPath, Singles
  <2> QED  BY <1>1, <2>1 DEF Shown
<1>3. DOMAIN d = Informative(c) /\ \A p \in DOMAIN d : d[p] = c[p]
  BY DEF Canonicalize
<1>4. Informative(c) \subseteq DOMAIN c
  BY <1>2 DEF Informative
<1>5. \A p \in DOMAIN c : c[p] # "none" => p \in Informative(c)
  <2>1. \A p \in FlatPath : IsPrefix(p, p)
    BY EmptyPath, FlatPaths DEF FlatPath, Singles
  <2> QED  BY <1>1, <1>2, <2>1 DEF Informative
<1>6. \A q \in Informative(c) : <<>> \in Informative(c)
  <2>1. \A p \in FlatPath : IsPrefix(<<>>, p)
    BY EmptyPath, FlatPaths DEF FlatPath, Singles
  <2> QED  BY <1>1, <1>2, <2>1 DEF Informative
<1>7. CASE Informative(c) = {}
  BY <1>7 DEF Canonicalize
<1>8. CASE Informative(c) # {}
  <2>1. <<>> \in DOMAIN d
    BY <1>3, <1>6, <1>8
  <2>2. d \in [DOMAIN d -> Mark]
    BY <1>1, <1>3, <1>4 DEF Canonicalize
  <2>3. d \in FlatCell
    BY <1>1, <1>3, <1>4, <2>1, <2>2, FlatCellType
  <2>4. d[<<>>] = c[<<>>]
    BY <1>3, <2>1
  <2>5. \A x \in Offsets : TaintedAt(c, <<x>>) => TaintedAt(d, <<x>>)
    BY <1>3, <1>4, <1>5, <2>3, <2>4, FlatReads
  <2>6. d # Bot
    <3>1. PICK q \in DOMAIN c : c[q] # "none"
      BY <1>2, <1>8 DEF Informative
    <3>2. q \in DOMAIN d /\ d[q] # "none"
      BY <1>3, <1>5, <3>1
    <3>3. DOMAIN Bot = {<<>>} /\ Bot[<<>>] = "none"
      BY WholeCell DEF Bot, Mark
    <3> HIDE DEF d
    <3> QED  BY <3>2, <3>3
  <2> QED  BY <2>3, <2>4, <2>5, <2>6
<1> QED  BY <1>7, <1>8

-----------------------------------------------------------------------------
\* Merging cells one field deep, entry by entry.
LEMMA FlatMerge ==
  ASSUME NEW t \in FlatCell, NEW s \in FlatCell
  PROVE  /\ Merge(t, s) \in FlatCell
         /\ DOMAIN Merge(t, s) = DOMAIN t \cup DOMAIN s
         /\ Merge(t, s)[<<>>] = MergeMark(t[<<>>], s[<<>>])
         /\ \A p \in DOMAIN t \cap DOMAIN s : Merge(t, s)[p] = MergeMark(t[p], s[p])
         /\ \A p \in DOMAIN t \ DOMAIN s : Merge(t, s)[p] = t[p]
         /\ \A p \in DOMAIN s \ DOMAIN t :
              Merge(t, s)[p] = IF DOMAIN t = {<<>>} THEN s[p] ELSE MergeMark("none", s[p])
<1> DEFINE m == Merge(t, s)
<1>1. /\ t \in [DOMAIN t -> Mark] /\ DOMAIN t \subseteq FlatPath /\ <<>> \in DOMAIN t
      /\ s \in [DOMAIN s -> Mark] /\ DOMAIN s \subseteq FlatPath /\ <<>> \in DOMAIN s
  BY FlatCellType
<1>2. DOMAIN m = DOMAIN t \cup DOMAIN s
  BY DEF Merge
<1>3. /\ \A p \in DOMAIN t \cap DOMAIN s : m[p] = MergeMark(t[p], s[p])
      /\ \A p \in DOMAIN t \ DOMAIN s : m[p] = t[p]
  BY DEF Merge
<1>4. ASSUME NEW p \in DOMAIN s \ DOMAIN t
      PROVE  m[p] = IF DOMAIN t = {<<>>} THEN s[p] ELSE MergeMark("none", s[p])
  <2>1. Front(p) = <<>>
    <3>1. PICK x \in Offsets : p = <<x>>
      BY <1>1 DEF FlatPath, Singles
    <3> QED  BY <3>1, FlatPaths
  <2>2. Below(t, <<>>) # {} <=> DOMAIN t # {<<>>}
    BY <1>1, FlatBelow
  <2> QED  BY <1>1, <2>1, <2>2 DEF Merge
<1>5. \A a, b \in Mark : MergeMark(a, b) \in Mark
  BY DEF MergeMark, Mark
<1>6. m \in FlatCell
  <2>1. \A p \in DOMAIN m : m[p] \in Mark
    BY <1>1, <1>2, <1>3, <1>4, <1>5 DEF Mark
  <2>2. m \in [DOMAIN m -> Mark]
    BY <2>1 DEF Merge
  <2> QED  BY <1>1, <1>2, <2>2, FlatCellType
<1> QED  BY <1>1, <1>2, <1>3, <1>4, <1>6

\* A return shape with a tainted whole: the caller's cell takes its place.
LEMMA FlatInstantiateWhole ==
  ASSUME NEW c \in FlatCell, NEW r \in FlatCell, c[<<>>] = "tainted"
  PROVE  Instantiate(c, r) = IF DOMAIN c = {<<>>} THEN r ELSE Merge(r, [c EXCEPT ![<<>>] = "none"])
<1>1. /\ c \in [DOMAIN c -> Mark] /\ DOMAIN c \subseteq FlatPath /\ <<>> \in DOMAIN c
  BY FlatCellType
<1>2. \A p \in FlatPath : <<>> \in Prefixes(p) /\ (p # <<>> => <<>> \in Prefixes(p) \ {p})
  BY EmptyPath, FlatPaths DEF FlatPath, Singles
<1>3. Topmost(c) = {<<>>}
  BY <1>1, <1>2, EmptyPath DEF Topmost
<1>4. Kept(c) = {}
  BY <1>1, <1>2, <1>3 DEF Kept
<1>5. \A p \in FlatPath : SubSeq(p, 1, Len(p)) = p /\ <<>> \o p = p /\ IsPrefix(<<>>, p)
  <2>1. SubSeq(<<>>, 1, 0) = <<>>
    BY SubSeqEmpty
  <2>2. SubSeq(<<>>, 1, Len(<<>>)) = <<>> /\ <<>> \o <<>> = <<>> /\ IsPrefix(<<>>, <<>>)
    BY <2>1, EmptyPath
  <2>3. \A x \in Offsets :
          SubSeq(<<x>>, 1, Len(<<x>>)) = <<x>> /\ <<>> \o <<x>> = <<x>> /\ IsPrefix(<<>>, <<x>>)
    <3>1. \A x \in Offsets : <<>> \o <<x>> = <<x>>
      OBVIOUS
    <3> QED  BY <3>1, FlatPaths
  <2> QED  BY <2>2, <2>3 DEF FlatPath, Singles
<1>6. Project(c, <<>>) = c
  <2>1. Below(c, <<>>) \cup {<<>>} = DOMAIN c
    BY <1>1, FlatBelow
  <2>2. {SubSeq(q, Len(<<>>) + 1, Len(q)) : q \in DOMAIN c} = DOMAIN c
    <3>1. \A q \in DOMAIN c : SubSeq(q, Len(<<>>) + 1, Len(q)) = q
      BY <1>1, <1>5, EmptyPath
    <3> QED  BY <3>1
  <2>3. Project(c, <<>>) = [q \in DOMAIN c |-> c[<<>> \o q]]
    BY <1>1, <2>1, <2>2 DEF Project
  <2> QED  BY <1>1, <1>5, <2>3
<1> DEFINE new == Substituted(c, <<>>, r)
<1>7. new = IF DOMAIN c = {<<>>} THEN r ELSE Merge(r, [c EXCEPT ![<<>>] = "none"])
  BY <1>1, <1>6, FlatBelow DEF Substituted
<1>8. new \in FlatCell
  <2>1. [c EXCEPT ![<<>>] = "none"] \in FlatCell
    BY <1>1, FlatCellType DEF Mark
  <2>2. Merge(r, [c EXCEPT ![<<>>] = "none"]) \in FlatCell
    BY <2>1, FlatMerge
  <2> QED  BY <1>7, <2>2
<1>9. Instantiate(c, r) = new
  <2>1. /\ new \in [DOMAIN new -> Mark] /\ DOMAIN new \subseteq FlatPath
    BY <1>8, FlatCellType
  <2>2. UNION {Placed(c, p, r) : p \in {<<>>}} = DOMAIN new
    <3>1. Placed(c, <<>>, r) = DOMAIN new
      BY <1>5, <2>1 DEF Placed
    <3> QED  BY <3>1
  <2>3. Instantiate(c, r) =
          [q \in DOMAIN new |-> Substituted(c, Over(c, q), r)[SubSeq(q, Len(Over(c, q)) + 1, Len(q))]]
    BY <1>3, <1>4, <2>2 DEF Instantiate
  <2>4. ASSUME NEW q \in DOMAIN new
        PROVE  Over(c, q) = <<>> /\ SubSeq(q, Len(<<>>) + 1, Len(q)) = q
    BY <1>3, <1>5, <2>1, EmptyPath DEF Over
  <2> QED  BY <2>1, <2>3, <2>4
<1> QED  BY <1>7, <1>9

\* A whole value handed to a callee: what comes back is the return shape itself.
LEMMA FlatInstantiateTainted ==
  ASSUME NEW c \in FlatCell, c[<<>>] # "clean"
  PROVE  Instantiate(c, TaintedCell) = c
<1>1. /\ c \in [DOMAIN c -> Mark] /\ DOMAIN c \subseteq FlatPath /\ <<>> \in DOMAIN c
  BY FlatCellType
<1>2. /\ TaintedCell \in FlatCell /\ DOMAIN TaintedCell = {<<>>} /\ TaintedCell[<<>>] = "tainted"
  BY WholeCell DEF TaintedCell, Mark
<1>3. CASE c[<<>>] = "tainted"
  <2>1. CASE DOMAIN c = {<<>>}
    <3>1. c = TaintedCell
      BY <1>1, <1>2, <1>3, <2>1 DEF TaintedCell, Whole
    <3> QED  BY <1>2, <1>3, <2>1, <3>1, FlatInstantiateWhole
  <2>2. CASE DOMAIN c # {<<>>}
    <3> DEFINE s == [c EXCEPT ![<<>>] = "none"]
    <3>1. /\ s \in FlatCell /\ DOMAIN s = DOMAIN c /\ s[<<>>] = "none"
          /\ \A p \in DOMAIN c \ {<<>>} : s[p] = c[p]
      BY <1>1, FlatCellType DEF Mark
    <3>2. Instantiate(c, TaintedCell) = Merge(TaintedCell, s)
      BY <1>2, <1>3, <2>2, FlatInstantiateWhole
    <3> HIDE DEF s
    <3>3. Merge(TaintedCell, s) \in FlatCell /\ DOMAIN Merge(TaintedCell, s) = DOMAIN c
      <4>1. /\ Merge(TaintedCell, s) \in FlatCell
            /\ DOMAIN Merge(TaintedCell, s) = DOMAIN TaintedCell \cup DOMAIN s
        BY <1>2, <3>1, FlatMerge
      <4> QED  BY <1>1, <1>2, <3>1, <4>1
    <3>4. Merge(TaintedCell, s)[<<>>] = c[<<>>]
      BY <1>1, <1>2, <1>3, <3>1, FlatMerge DEF MergeMark
    <3>5. ASSUME NEW p \in DOMAIN c, p # <<>>
          PROVE  Merge(TaintedCell, s)[p] = c[p]
      <4>1. p \in DOMAIN s \ DOMAIN TaintedCell
        BY <1>2, <3>1, <3>5
      <4> QED  BY <1>2, <3>1, <3>5, <4>1, FlatMerge
    <3>6. Merge(TaintedCell, s) \in [DOMAIN c -> Mark]
      BY <3>3, FlatCellType
    <3> QED  BY <1>1, <3>2, <3>4, <3>5, <3>6
  <2> QED  BY <2>1, <2>2
<1>4. CASE c[<<>>] # "tainted"
  <2> DEFINE T == {p \in DOMAIN c : c[p] = "tainted"}
  <2>1. \A p \in DOMAIN c : p = <<>> \/ \E x \in Offsets : p = <<x>>
    BY <1>1 DEF FlatPath, Singles
  <2>2. Topmost(c) = T
    <3>1. \A p \in DOMAIN c : Prefixes(p) \subseteq {<<>>, p}
      BY <2>1, EmptyPath, FlatPaths
    <3> QED  BY <1>4, <3>1 DEF Topmost
  <2>3. Kept(c) = DOMAIN c \ T
    <3>1. \A p \in DOMAIN c : p \in Prefixes(p) /\ Prefixes(p) \subseteq {<<>>, p}
      BY <2>1, EmptyPath, FlatPaths
    <3> QED  BY <1>4, <2>2, <3>1 DEF Kept
  <2>4. ASSUME NEW p \in T
        PROVE  /\ Substituted(c, p, TaintedCell) = TaintedCell
               /\ Over(c, p) = p /\ p \o <<>> = p /\ SubSeq(p, Len(p) + 1, Len(p)) = <<>>
    <3>1. PICK x \in Offsets : p = <<x>>
      BY <1>4, <2>1
    <3>2. \A q \in T : IsPrefix(q, p) => q = p
      <4>1. \A q \in T : \E y \in Offsets : q = <<y>>
        BY <1>4, <2>1
      <4> QED  BY <3>1, <4>1, FlatPaths
    <3>3. IsPrefix(p, p)
      BY <3>1, FlatPaths
    <3>4. Over(c, p) = p
      BY <2>2, <3>2, <3>3 DEF Over
    <3>5. Substituted(c, p, TaintedCell) = TaintedCell
      BY <3>1, FlatBelow DEF Substituted
    <3>6. p \o <<>> = p
      BY <3>1
    <3>7. SubSeq(p, Len(p) + 1, Len(p)) = <<>>
      BY <3>1, FlatPaths
    <3> QED  BY <3>4, <3>5, <3>6, <3>7
  <2>5. UNION {Placed(c, p, TaintedCell) : p \in T} = T
    <3>1. ASSUME NEW p \in T
          PROVE  Placed(c, p, TaintedCell) = {p}
      <4>1. DOMAIN Substituted(c, p, TaintedCell) = {<<>>} /\ p \o <<>> = p
        BY <1>2, <2>4
      <4> QED  BY <4>1 DEF Placed
    <3> HIDE DEF T
    <3> QED  BY <3>1
  <2>6. Instantiate(c, TaintedCell) =
          [q \in DOMAIN c |-> IF q \in DOMAIN c \ T THEN c[q]
             ELSE Substituted(c, Over(c, q), TaintedCell)[SubSeq(q, Len(Over(c, q)) + 1, Len(q))]]
    <3>1. (DOMAIN c \ T) \cup T = DOMAIN c
      OBVIOUS
    <3> QED  BY <2>2, <2>3, <2>5, <3>1 DEF Instantiate
  <2>7. \A q \in T : Substituted(c, Over(c, q), TaintedCell)[SubSeq(q, Len(Over(c, q)) + 1, Len(q))] = c[q]
    BY <1>2, <2>4
  <2> HIDE DEF T
  <2> QED  BY <1>1, <2>6, <2>7
<1> QED  BY <1>3, <1>4

\* A return shape tainted as a whole, and the caller's cell in its place: what
\* both read tainted is tainted in the result.
LEMMA FlatInstantiate ==
  ASSUME NEW c \in FlatCell, NEW r \in FlatCell, c[<<>>] = "tainted", r[<<>>] # "clean"
  PROVE  /\ Instantiate(c, r) \in FlatCell
         /\ Instantiate(c, r)[<<>>] # "clean"
         /\ \A x \in Offsets : TaintedAt(c, <<x>>) /\ TaintedAt(r, <<x>>)
                                => TaintedAt(Instantiate(c, r), <<x>>)
<1>1. /\ c \in [DOMAIN c -> Mark] /\ DOMAIN c \subseteq FlatPath /\ <<>> \in DOMAIN c
      /\ r \in [DOMAIN r -> Mark] /\ DOMAIN r \subseteq FlatPath /\ <<>> \in DOMAIN r
  BY FlatCellType
<1>2. CASE DOMAIN c = {<<>>}
  BY <1>2, FlatInstantiateWhole
<1>3. CASE DOMAIN c # {<<>>}
  <2> DEFINE s == [c EXCEPT ![<<>>] = "none"]
  <2>1. /\ s \in FlatCell /\ DOMAIN s = DOMAIN c /\ s[<<>>] = "none"
        /\ \A p \in DOMAIN c \ {<<>>} : s[p] = c[p]
    BY <1>1, FlatCellType DEF Mark
  <2>2. Instantiate(c, r) = Merge(r, s)
    BY <1>3, FlatInstantiateWhole
  <2> HIDE DEF s
  <2>3. Merge(r, s) \in FlatCell /\ DOMAIN Merge(r, s) = DOMAIN r \cup DOMAIN s
    BY <2>1, FlatMerge
  <2>4. Merge(r, s)[<<>>] = MergeMark(r[<<>>], "none")
    BY <2>1, FlatMerge
  <2>5. /\ \A p \in DOMAIN r \cap DOMAIN s : Merge(r, s)[p] = MergeMark(r[p], s[p])
        /\ \A p \in DOMAIN r \ DOMAIN s : Merge(r, s)[p] = r[p]
        /\ \A p \in DOMAIN s \ DOMAIN r :
             Merge(r, s)[p] = IF DOMAIN r = {<<>>} THEN s[p] ELSE MergeMark("none", s[p])
    BY <2>1, FlatMerge
  <2>6. \A a : MergeMark("tainted", a) = "tainted" /\ MergeMark(a, "tainted") = "tainted"
    BY DEF MergeMark
  <2>7. ASSUME NEW x \in Offsets, TaintedAt(c, <<x>>), TaintedAt(r, <<x>>)
        PROVE  TaintedAt(Merge(r, s), <<x>>)
    <3>1. <<x>> # <<>>
      BY FlatPaths
    <3>2. CASE <<x>> \in DOMAIN r
      <4>1. r[<<x>>] = "tainted"
        BY <2>7, <3>2, FlatReads
      <4>2. Merge(r, s)[<<x>>] = "tainted"
        BY <2>5, <2>6, <3>2, <4>1
      <4> QED  BY <2>3, <3>2, <4>2, FlatReads
    <3>3. CASE <<x>> \notin DOMAIN r /\ <<x>> \in DOMAIN s
      <4>1. s[<<x>>] = "tainted"
        BY <2>1, <2>7, <3>1, <3>3, FlatReads
      <4>2. Merge(r, s)[<<x>>] = "tainted"
        BY <2>5, <2>6, <3>3, <4>1
      <4> QED  BY <2>3, <3>3, <4>2, FlatReads
    <3>4. CASE <<x>> \notin DOMAIN r /\ <<x>> \notin DOMAIN s
      <4>1. r[<<>>] = "tainted"
        BY <2>7, <3>4, FlatReads
      <4>2. Merge(r, s)[<<>>] = "tainted"
        BY <2>4, <2>6, <4>1
      <4> QED  BY <2>3, <3>4, <4>2, FlatReads
    <3> QED  BY <3>2, <3>3, <3>4
  <2>8. Merge(r, s)[<<>>] # "clean"
    BY <2>4 DEF MergeMark
  <2> QED  BY <2>2, <2>3, <2>7, <2>8
<1> QED  BY <1>2, <1>3

-----------------------------------------------------------------------------
\* Paths of any length: a prefix is a path that the other goes on from.
LEMMA PrefixAgrees ==
  ASSUME NEW p \in Path, NEW q \in Path
  PROVE  IsPrefix(p, q) <=> Len(p) <= Len(q) /\ \A i \in 1..Len(p) : p[i] = q[i]
<1>1. SubSeq(p, 1, Len(p)) = p
  BY SubSeqFull DEF Path
<1>2. ASSUME Len(p) <= Len(q) PROVE SubSeq(q, 1, Len(p)) = p <=> \A i \in 1..Len(p) : p[i] = q[i]
  <2>0. Len(p) \in Nat /\ Len(q) \in Nat
    BY DEF Path
  <2>1. \A i \in 1..Len(p) : q[i] \in Offsets
    BY <1>2, <2>0, ElementOfSeq DEF Path
  <2>2. /\ SubSeq(q, 1, Len(p)) \in Path /\ Len(SubSeq(q, 1, Len(p))) = Len(p)
        /\ \A i \in 1..Len(p) : SubSeq(q, 1, Len(p))[i] = q[i]
    BY <2>0, <2>1, SubSeqProperties DEF Path
  <2> QED BY <2>0, <2>2, SeqEqual DEF Path
<1> QED BY <1>1, <1>2 DEF IsPrefix

\* What is left of a path after its first k steps.
LEMMA PathRest ==
  ASSUME NEW q \in Path, NEW k \in 0..Len(q)
  PROVE  /\ SubSeq(q, k + 1, Len(q)) \in Path /\ Len(SubSeq(q, k + 1, Len(q))) = Len(q) - k
         /\ \A i \in 1..(Len(q) - k) : SubSeq(q, k + 1, Len(q))[i] = q[k + i]
<1>1. Len(q) \in Nat /\ k + 1 \in Int /\ Len(q) \in Int
  BY DEF Path
<1>2. \A i \in (k + 1)..Len(q) : q[i] \in Offsets
  BY <1>1, ElementOfSeq DEF Path
<1>3. /\ SubSeq(q, k + 1, Len(q)) \in Seq(Offsets)
      /\ Len(SubSeq(q, k + 1, Len(q))) = (IF k + 1 <= Len(q) THEN Len(q) - (k + 1) + 1 ELSE 0)
      /\ \A i \in 1..(Len(q) - (k + 1) + 1) : SubSeq(q, k + 1, Len(q))[i] = q[(k + 1) + i - 1]
  BY <1>1, <1>2, SubSeqProperties
<1>4. \A i \in 1..(Len(q) - k) : i \in 1..(Len(q) - (k + 1) + 1) /\ (k + 1) + i - 1 = k + i
  BY <1>1
<1> QED BY <1>1, <1>3, <1>4 DEF Path

LEMMA PathConcat ==
  ASSUME NEW p \in Path, NEW r \in Path
  PROVE  /\ p \o r \in Path /\ IsPrefix(p, p \o r) /\ Len(p \o r) = Len(p) + Len(r)
         /\ SubSeq(p \o r, Len(p) + 1, Len(p \o r)) = r
<1>1. /\ p \o r \in Path /\ Len(p \o r) = Len(p) + Len(r) /\ Len(p) \in Nat /\ Len(r) \in Nat
      /\ \A i \in 1..Len(p) + Len(r) : (p \o r)[i] = IF i <= Len(p) THEN p[i] ELSE r[i - Len(p)]
  BY ConcatProperties, LenProperties DEF Path
<1>2. IsPrefix(p, p \o r)
  <2>1. \A i \in 1..Len(p) : i \in 1..Len(p) + Len(r) /\ i <= Len(p)
    BY <1>1
  <2>2. Len(p) <= Len(p \o r) /\ \A i \in 1..Len(p) : p[i] = (p \o r)[i]
    BY <1>1, <2>1
  <2> QED BY <1>1, <2>2, PrefixAgrees
<1>3. SubSeq(p \o r, Len(p) + 1, Len(p \o r)) = r
  <2> DEFINE q == p \o r
             s == SubSeq(q, Len(p) + 1, Len(q))
  <2>1. Len(p) \in 0..Len(q) /\ q \in Path
    BY <1>1
  <2> HIDE DEF q
  <2>2. s \in Path /\ Len(s) = Len(q) - Len(p) /\ \A i \in 1..(Len(q) - Len(p)) : s[i] = q[Len(p) + i]
    BY <2>1, PathRest
  <2>3. Len(q) - Len(p) = Len(r)
    BY <1>1 DEF q
  <2>4. \A i \in 1..Len(r) : q[Len(p) + i] = r[i]
    <3>1. TAKE i \in 1..Len(r)
    <3>2. Len(p) + i \in 1..Len(p) + Len(r) /\ ~(Len(p) + i <= Len(p)) /\ (Len(p) + i) - Len(p) = i
      BY <1>1
    <3> QED BY <1>1, <3>2 DEF q
  <2> HIDE DEF s
  <2>5. s = r
    BY <2>2, <2>3, <2>4, SeqEqual DEF Path
  <2> QED BY <2>5 DEF s, q
<1> QED BY <1>1, <1>2, <1>3

LEMMA PathSplit ==
  ASSUME NEW p \in Path, NEW q \in Path, IsPrefix(p, q)
  PROVE  /\ SubSeq(q, Len(p) + 1, Len(q)) \in Path
         /\ q = p \o SubSeq(q, Len(p) + 1, Len(q))
<1>1. Len(p) \in Nat /\ Len(q) \in Nat /\ Len(p) <= Len(q)
  BY DEF Path, IsPrefix
<1>2. SubSeq(q, Len(p) + 1, Len(q)) \in Path
  BY <1>1, PathRest
<1>3. SubSeq(q, 1, Len(p)) \o SubSeq(q, Len(p) + 1, Len(q)) = SubSeq(q, 1, Len(q))
  <2>1. 1 \in 1..Len(q) + 1 /\ Len(p) \in 1 - 1..Len(q) /\ Len(q) \in Len(p)..Len(q)
    BY <1>1
  <2> QED BY <2>1, ConcatAdjacentSubSeq DEF Path
<1>4. SubSeq(q, 1, Len(q)) = q /\ SubSeq(p, 1, Len(p)) = p
  BY SubSeqFull DEF Path
<1> QED BY <1>2, <1>3, <1>4 DEF IsPrefix

\* The prefixes of a path are paths, finitely many, and what leads to them leads to it.
LEMMA PathPrefixes ==
  ASSUME NEW q \in Path
  PROVE  /\ Prefixes(q) = {p \in Path : IsPrefix(p, q)} /\ IsFiniteSet(Prefixes(q))
         /\ q \in Prefixes(q) /\ <<>> \in Prefixes(q) /\ <<>> \in Path
         /\ \A p \in Prefixes(q) : Prefixes(p) \subseteq Prefixes(q)
<1>0. Len(q) \in Nat
  BY DEF Path
<1>1. \A l \in 0..Len(q) : /\ SubSeq(q, 1, l) \in Path /\ Len(SubSeq(q, 1, l)) = l
                           /\ \A i \in 1..l : SubSeq(q, 1, l)[i] = q[i]
  <2>1. TAKE l \in 0..Len(q)
  <2>2. \A i \in 1..l : q[i] \in Offsets
    BY <1>0, ElementOfSeq DEF Path
  <2> QED BY <1>0, <2>2, SubSeqProperties DEF Path
<1>2. \A l \in 0..Len(q) : IsPrefix(SubSeq(q, 1, l), q)
  <2>1. TAKE l \in 0..Len(q)
  <2>2. l <= Len(q)
    BY <1>0
  <2> QED BY <1>1, <2>2, PrefixAgrees
<1>3. ASSUME NEW p \in Path, IsPrefix(p, q) PROVE p \in Prefixes(q)
  <2>1. Len(p) \in 0..Len(q) /\ SubSeq(p, 1, Len(p)) = p
    BY <1>0, <1>3, SubSeqFull DEF IsPrefix, Path
  <2> QED BY <1>3, <2>1 DEF IsPrefix, Prefixes
<1>4. Prefixes(q) = {p \in Path : IsPrefix(p, q)}
  BY <1>1, <1>2, <1>3 DEF Prefixes
<1>5. IsFiniteSet(Prefixes(q))
  <2>1. IsFiniteSet(0..Len(q))
    BY <1>0, FS_Interval
  <2> DEFINE f == [l \in 0..Len(q) |-> SubSeq(q, 1, l)]
  <2>2. f \in Surjection(0..Len(q), Prefixes(q))
    BY DEF Surjection, Prefixes
  <2> QED BY <2>1, <2>2, FS_Surjection
<1>6. <<>> \in Path /\ IsPrefix(<<>>, q) /\ IsPrefix(q, q)
  <2>1. <<>> \in Path /\ Len(<<>>) = 0
    BY DEF Path
  <2> QED BY <1>0, <2>1, PrefixAgrees
<1>7. ASSUME NEW p \in Path, IsPrefix(p, q), NEW r \in Prefixes(p) PROVE r \in Prefixes(q)
  <2>1. r \in Path /\ IsPrefix(r, p)
    <3>1. Len(p) \in Nat
      BY DEF Path
    <3>2. PICK l \in 0..Len(p) : r = SubSeq(p, 1, l)
      BY DEF Prefixes
    <3>3. \A i \in 1..l : p[i] \in Offsets
      BY <3>1, ElementOfSeq DEF Path
    <3>4. r \in Path /\ Len(r) = l /\ \A i \in 1..l : r[i] = p[i]
      BY <3>1, <3>2, <3>3, SubSeqProperties DEF Path
    <3> QED BY <3>1, <3>4, PrefixAgrees
  <2>2. IsPrefix(r, q)
    <3>1. Len(r) \in Nat /\ Len(p) \in Nat
      BY <2>1 DEF Path
    <3> QED BY <1>0, <1>7, <2>1, <3>1, PrefixAgrees
  <2> QED BY <1>4, <2>1, <2>2
<1> QED BY <1>4, <1>5, <1>6, <1>7

\* Two prefixes of a path: one leads to the other.
LEMMA PrefixOrder ==
  ASSUME NEW q \in Path, NEW p \in Prefixes(q), NEW x \in Prefixes(q)
  PROVE  /\ x \in Prefixes(p) \/ p \in Prefixes(x)
         /\ x \in Prefixes(p) /\ p \in Prefixes(x) => x = p
         /\ Len(x) >= Len(p) => p \in Prefixes(x)
<1>1. p \in Path /\ x \in Path /\ IsPrefix(p, q) /\ IsPrefix(x, q)
  BY PathPrefixes
<1>2. Len(p) \in Nat /\ Len(x) \in Nat
  BY <1>1 DEF Path
<1>3. /\ \A i \in 1..Len(p) : p[i] = q[i]
      /\ \A i \in 1..Len(x) : x[i] = q[i]
  BY <1>1, PrefixAgrees
<1>4. ASSUME Len(x) <= Len(p) PROVE IsPrefix(x, p)
  <2>1. \A i \in 1..Len(x) : i \in 1..Len(p)
    BY <1>2, <1>4
  <2> QED BY <1>1, <1>3, <1>4, <2>1, PrefixAgrees
<1>5. ASSUME Len(p) <= Len(x) PROVE IsPrefix(p, x)
  <2>1. \A i \in 1..Len(p) : i \in 1..Len(x)
    BY <1>2, <1>5
  <2> QED BY <1>1, <1>3, <1>5, <2>1, PrefixAgrees
<1>6. ASSUME IsPrefix(x, p), IsPrefix(p, x) PROVE x = p
  <2>1. Len(x) = Len(p)
    BY <1>2, <1>6 DEF IsPrefix
  <2> QED BY <1>1, <1>3, <2>1, SeqEqual DEF Path
<1>7. \A y, z \in Path : y \in Prefixes(z) <=> IsPrefix(y, z)
  BY PathPrefixes
<1>8. Len(x) <= Len(p) \/ Len(p) <= Len(x)
  BY <1>2
<1> QED BY <1>1, <1>2, <1>4, <1>5, <1>6, <1>7, <1>8

\* The prefixes of a path put after another.
LEMMA ConcatPrefixes ==
  ASSUME NEW p \in Path, NEW r \in Path
  PROVE  /\ p \in Prefixes(p \o r)
         /\ \A x \in Prefixes(p \o r) : x \in Prefixes(p) \/ \E y \in Prefixes(r) : x = p \o y
         /\ \A y \in Prefixes(r) : p \o y \in Prefixes(p \o r)
<1>1. p \o r \in Path /\ p \in Prefixes(p \o r)
  BY PathConcat, PathPrefixes
<1>2. \A y, z \in Path : y \in Prefixes(z) <=> IsPrefix(y, z)
  BY PathPrefixes
<1>3. Len(p) \in Nat /\ Len(r) \in Nat
  BY DEF Path
<1>4. /\ Len(p \o r) = Len(p) + Len(r)
      /\ \A i \in 1..Len(p) + Len(r) : (p \o r)[i] = IF i <= Len(p) THEN p[i] ELSE r[i - Len(p)]
  BY ConcatProperties DEF Path
<1>5. ASSUME NEW y \in Path
      PROVE  IsPrefix(p \o y, p \o r) <=> IsPrefix(y, r)
  <2>1. /\ Len(p \o y) = Len(p) + Len(y) /\ Len(y) \in Nat /\ p \o y \in Path
        /\ \A i \in 1..Len(p) + Len(y) : (p \o y)[i] = IF i <= Len(p) THEN p[i] ELSE y[i - Len(p)]
    BY ConcatProperties DEF Path
  <2>2. ASSUME IsPrefix(p \o y, p \o r) PROVE IsPrefix(y, r)
    <3>1. Len(y) <= Len(r) /\ \A i \in 1..Len(p) + Len(y) : (p \o y)[i] = (p \o r)[i]
      <4>1. Len(p \o y) <= Len(p \o r) /\ \A i \in 1..Len(p \o y) : (p \o y)[i] = (p \o r)[i]
        BY <1>1, <2>1, <2>2, PrefixAgrees
      <4> QED BY <1>3, <1>4, <2>1, <4>1
    <3>2. ASSUME NEW j \in 1..Len(y) PROVE y[j] = r[j]
      <4>1. /\ Len(p) + j \in 1..Len(p) + Len(y) /\ Len(p) + j \in 1..Len(p) + Len(r)
            /\ ~(Len(p) + j <= Len(p)) /\ (Len(p) + j) - Len(p) = j
        BY <1>3, <2>1, <3>1
      <4> QED BY <1>4, <2>1, <3>1, <4>1
    <3> QED BY <3>1, <3>2, PrefixAgrees
  <2>3. ASSUME IsPrefix(y, r) PROVE IsPrefix(p \o y, p \o r)
    <3>1. Len(y) <= Len(r) /\ \A j \in 1..Len(y) : y[j] = r[j]
      BY <2>3, PrefixAgrees
    <3>2. ASSUME NEW i \in 1..Len(p) + Len(y) PROVE (p \o y)[i] = (p \o r)[i]
      <4>1. i \in 1..Len(p) + Len(r) /\ (~(i <= Len(p)) => i - Len(p) \in 1..Len(y))
        BY <1>3, <2>1, <3>1
      <4> QED BY <1>4, <2>1, <3>1, <4>1
    <3>3. Len(p \o y) <= Len(p \o r)
      BY <1>3, <1>4, <2>1, <3>1
    <3> QED BY <1>1, <2>1, <3>2, <3>3, PrefixAgrees
  <2> QED BY <2>2, <2>3
<1>6. ASSUME NEW x \in Prefixes(p \o r), x \notin Prefixes(p)
      PROVE  \E y \in Prefixes(r) : x = p \o y
  <2>1. x \in Path /\ IsPrefix(p, x)
    BY <1>1, <1>2, <1>6, PrefixOrder, PathPrefixes
  <2>2. PICK y \in Path : x = p \o y
    BY <2>1, PathSplit
  <2>3. IsPrefix(p \o y, p \o r)
    BY <1>1, <1>2, <2>1, <2>2
  <2> QED BY <1>2, <1>5, <2>2, <2>3
<1>7. ASSUME NEW y \in Prefixes(r) PROVE p \o y \in Prefixes(p \o r)
  <2>1. y \in Path /\ IsPrefix(y, r)
    BY PathPrefixes
  <2>2. p \o y \in Path /\ IsPrefix(p \o y, p \o r)
    BY <1>5, <2>1, PathConcat
  <2> QED BY <1>1, <1>2, <2>2
<1> QED BY <1>1, <1>6, <1>7

-----------------------------------------------------------------------------
\* Cells of any depth.
LEMMA CellParts ==
  ASSUME NEW c, IsCell(c)
  PROVE  /\ c \in [DOMAIN c -> Mark] /\ DOMAIN c \subseteq Path /\ <<>> \in DOMAIN c
         /\ \A q \in DOMAIN c : c[q] \in Mark
         /\ \A q \in DOMAIN c : Prefixes(q) \subseteq DOMAIN c
BY DEF IsCell

LEMMA BelowPaths ==
  ASSUME NEW c, IsCell(c), NEW p \in Path
  PROVE  \A q \in DOMAIN c : q \in Below(c, p) \cup {p} => IsPrefix(p, q)
<1>1. IsPrefix(p, p)
  BY PathPrefixes
<1> QED BY <1>1 DEF Below, IsStrictPrefix

\* The sub-tree at an entry is a cell.
LEMMA ProjectCell ==
  ASSUME NEW c, IsCell(c), NEW p \in DOMAIN c
  PROVE  /\ IsCell(Project(c, p))
         /\ DOMAIN Project(c, p) = {r \in Path : p \o r \in DOMAIN c}
         /\ \A r \in DOMAIN Project(c, p) : Project(c, p)[r] = c[p \o r]
<1>1. /\ c \in [DOMAIN c -> Mark] /\ DOMAIN c \subseteq Path /\ <<>> \in DOMAIN c /\ p \in Path
      /\ \A q \in DOMAIN c : Prefixes(q) \subseteq DOMAIN c
  BY CellParts
<1> DEFINE cut(q) == SubSeq(q, Len(p) + 1, Len(q))
           D == {cut(q) : q \in Below(c, p) \cup {p}}
           d == Project(c, p)
<1>2. d = [q \in D |-> c[p \o q]]
  BY DEF Project
<1>3. D = {r \in Path : p \o r \in DOMAIN c}
  <2>1. ASSUME NEW q \in Below(c, p) \cup {p} PROVE cut(q) \in Path /\ p \o cut(q) \in DOMAIN c
    <3>1. q \in DOMAIN c /\ q \in Path
      BY <1>1 DEF Below
    <3>2. IsPrefix(p, q)
      BY <1>1, <3>1, BelowPaths
    <3> QED BY <1>1, <3>1, <3>2, PathSplit
  <2>2. ASSUME NEW r \in Path, p \o r \in DOMAIN c PROVE r \in D
    <3>1. cut(p \o r) = r /\ IsPrefix(p, p \o r)
      BY <1>1, PathConcat
    <3>2. p \o r \in Below(c, p) \cup {p}
      BY <2>2, <3>1 DEF Below, IsStrictPrefix
    <3> QED BY <3>1, <3>2
  <2> QED BY <2>1, <2>2
<1>4. IsFiniteSet(D)
  <2>1. IsFiniteSet(Below(c, p) \cup {p})
    <3>1. IsFiniteSet(DOMAIN c) /\ Below(c, p) \cup {p} \subseteq DOMAIN c
      BY DEF IsCell, Below
    <3> QED BY <3>1, FS_Subset
  <2> DEFINE f == [q \in Below(c, p) \cup {p} |-> cut(q)]
  <2>2. f \in Surjection(Below(c, p) \cup {p}, D)
    BY DEF Surjection
  <2> QED BY <2>1, <2>2, FS_Surjection
<1>5. \A r \in D : c[p \o r] \in Mark
  BY <1>1, <1>3
<1>6. <<>> \in D
  BY <1>1, <1>3, PathPrefixes, ConcatEmptySeq DEF Path
<1>7. ASSUME NEW r \in D, NEW y \in Prefixes(r) PROVE y \in D
  <2>1. r \in Path /\ p \o r \in DOMAIN c
    BY <1>3
  <2>2. p \o y \in DOMAIN c /\ y \in Path
    BY <1>1, <2>1, ConcatPrefixes, PathPrefixes
  <2> QED BY <1>3, <2>2
<1> HIDE DEF D
<1>8. DOMAIN d = D /\ \A r \in D : d[r] = c[p \o r]
  BY <1>2
<1>9. IsCell(d)
  <2>1. d \in [D -> Mark]
    BY <1>2, <1>5
  <2>2. D \subseteq Path
    BY <1>3
  <2> HIDE DEF d
  <2> QED BY <1>4, <1>6, <1>7, <1>8, <2>1, <2>2 DEF IsCell
<1> QED BY <1>3, <1>8, <1>9

LEMMA WholeIsCell == \A mark \in Mark : IsCell(Whole(mark))
<1>1. TAKE mark \in Mark
<1>2. DOMAIN Whole(mark) = {<<>>} /\ Whole(mark) \in [{<<>>} -> Mark] /\ <<>> \in Path
  BY DEF Whole, Path
<1>3. Prefixes(<<>>) = {<<>>}
  BY EmptyPath
<1>4. IsFiniteSet({<<>>})
  BY FS_Singleton
<1> QED BY <1>2, <1>3, <1>4 DEF IsCell

\* A merged cell has the entries of both, and no taint is lost.
LEMMA MergeCell ==
  ASSUME NEW t, NEW s, IsCell(t), IsCell(s)
  PROVE  /\ IsCell(Merge(t, s)) /\ DOMAIN Merge(t, s) = DOMAIN t \cup DOMAIN s
         /\ \A p \in DOMAIN t : t[p] = "tainted" => Merge(t, s)[p] = "tainted"
         /\ \A p \in DOMAIN s : s[p] = "tainted" => Merge(t, s)[p] = "tainted"
         /\ Merge(t, s)[<<>>] = MergeMark(t[<<>>], s[<<>>])
<1> DEFINE m == Merge(t, s)
<1>1. /\ \A p \in DOMAIN t : t[p] \in Mark /\ p \in Path /\ Prefixes(p) \subseteq DOMAIN t
      /\ \A p \in DOMAIN s : s[p] \in Mark /\ p \in Path /\ Prefixes(p) \subseteq DOMAIN s
      /\ <<>> \in DOMAIN t /\ <<>> \in DOMAIN s
  BY CellParts
<1>2. \A a, b \in Mark : MergeMark(a, b) \in Mark /\ ("tainted" \in {a, b} => MergeMark(a, b) = "tainted")
  BY DEF MergeMark, Mark
<1>3. DOMAIN m = DOMAIN t \cup DOMAIN s
  BY DEF Merge
<1>4. /\ \A p \in DOMAIN t \cap DOMAIN s : m[p] = MergeMark(t[p], s[p])
      /\ \A p \in DOMAIN t \ DOMAIN s : m[p] = t[p]
      /\ \A p \in DOMAIN s \ DOMAIN t : m[p] = MergeMark("none", s[p]) \/ m[p] = s[p]
  BY DEF Merge
<1>5. "none" \in Mark
  BY DEF Mark
<1>6. m \in [DOMAIN m -> Mark]
  <2>1. \A p \in DOMAIN m : m[p] \in Mark
    BY <1>1, <1>2, <1>3, <1>4, <1>5
  <2> QED BY <2>1 DEF Merge
<1>7. IsFiniteSet(DOMAIN t \cup DOMAIN s)
  BY FS_Union DEF IsCell
<1>8. IsCell(m)
  <2> HIDE DEF m
  <2> QED BY <1>1, <1>3, <1>6, <1>7 DEF IsCell
<1>9. /\ \A p \in DOMAIN t : t[p] = "tainted" => m[p] = "tainted"
      /\ \A p \in DOMAIN s : s[p] = "tainted" => m[p] = "tainted"
      /\ m[<<>>] = MergeMark(t[<<>>], s[<<>>])
  BY <1>1, <1>2, <1>4, <1>5
<1> QED BY <1>3, <1>8, <1>9

\* A cell with another put at a path.
LEMMA GraftCell ==
  ASSUME NEW c, NEW s, IsCell(c), IsCell(s), NEW p \in Path
  PROVE  /\ IsCell(Graft(c, p, s))
         /\ \A r \in DOMAIN s : p \o r \in DOMAIN Graft(c, p, s) /\ Graft(c, p, s)[p \o r] = s[r]
         /\ \A q \in DOMAIN c : ~IsPrefix(p, q) =>
              q \in DOMAIN Graft(c, p, s) /\ Graft(c, p, s)[q] = c[q]
<1> DEFINE g == Graft(c, p, s)
           old == DOMAIN c \ Below(c, p)
           new == {p \o r : r \in DOMAIN s}
           D == old \cup Prefixes(p) \cup new
<1>1. /\ \A q \in DOMAIN c : c[q] \in Mark /\ q \in Path /\ Prefixes(q) \subseteq DOMAIN c
      /\ \A r \in DOMAIN s : s[r] \in Mark /\ r \in Path /\ Prefixes(r) \subseteq DOMAIN s
      /\ <<>> \in DOMAIN c /\ <<>> \in DOMAIN s /\ "none" \in Mark
  BY CellParts DEF Mark
<1>2. \A q \in Path : \A x : x \in Prefixes(q) <=> x \in Path /\ IsPrefix(x, q)
  BY PathPrefixes
<1>3. \A r \in Path : p \o r \in Path /\ IsPrefix(p, p \o r) /\ SubSeq(p \o r, Len(p) + 1, Len(p \o r)) = r
  BY PathConcat
<1>4. p \in new
  BY <1>1, ConcatEmptySeq DEF Path
<1>5. \A q \in D : q \in Path
  <2>1. TAKE q \in D
  <2>2. CASE q \in old
    BY <1>1, <2>2
  <2>3. CASE q \in Prefixes(p)
    BY <1>2, <2>3
  <2>4. CASE q \in new
    <3>1. PICK r \in DOMAIN s : q = p \o r
      BY <2>4
    <3> QED BY <1>1, <1>3, <3>1
  <2> QED BY <2>2, <2>3, <2>4
<1>6. \A q \in D : IsPrefix(p, q) => q \in new
  <2>1. TAKE q \in D
  <2>2. HAVE IsPrefix(p, q)
  <2>3. CASE q \in old
    BY <1>4, <2>2, <2>3 DEF Below, IsStrictPrefix
  <2>4. CASE q \in Prefixes(p)
    <3>1. p \in Prefixes(p) /\ p \in Prefixes(q)
      BY <1>2, <1>5, <2>2, PathPrefixes
    <3> QED BY <1>4, <2>4, <3>1, PrefixOrder
  <2> QED BY <2>3, <2>4
<1>7. /\ DOMAIN g = D
      /\ \A q \in D : g[q] = IF IsPrefix(p, q) THEN s[SubSeq(q, Len(p) + 1, Len(q))]
                             ELSE IF q \in DOMAIN c THEN c[q] ELSE "none"
  BY DEF Graft
<1>8. \A r \in DOMAIN s : p \o r \in D /\ g[p \o r] = s[r]
  BY <1>1, <1>3, <1>7
<1>9. \A q \in DOMAIN c : ~IsPrefix(p, q) => q \in D /\ g[q] = c[q]
  BY <1>7 DEF Below, IsStrictPrefix
<1>10. IsFiniteSet(D)
  <2>1. IsFiniteSet(new)
    <3> DEFINE f == [r \in DOMAIN s |-> p \o r]
    <3>1. f \in Surjection(DOMAIN s, new) /\ IsFiniteSet(DOMAIN s)
      BY DEF Surjection, IsCell
    <3> QED BY <3>1, FS_Surjection
  <2>2. IsFiniteSet(old)
    BY FS_Subset DEF IsCell
  <2>3. IsFiniteSet(Prefixes(p))
    BY PathPrefixes
  <2> HIDE DEF old, new
  <2> QED BY <2>1, <2>2, <2>3, FS_Union
<1>11. \A q \in D : g[q] \in Mark
  <2>1. TAKE q \in D
  <2>2. CASE IsPrefix(p, q)
    <3>1. PICK r \in DOMAIN s : q = p \o r
      BY <1>6, <2>2
    <3> QED BY <1>1, <1>8, <3>1
  <2>3. CASE ~IsPrefix(p, q)
    BY <1>1, <1>7, <2>3
  <2> QED BY <2>2, <2>3
<1>12. ASSUME NEW q \in D, NEW x \in Prefixes(q) PROVE x \in D
  <2>1. CASE q \in old
    <3>1. x \in DOMAIN c /\ q \in Path
      BY <1>1, <2>1
    <3>2. ASSUME x \in Below(c, p) PROVE FALSE
      <4>1. p \in Prefixes(x) /\ p # x
        BY <1>1, <1>2, <3>1, <3>2 DEF Below, IsStrictPrefix
      <4>2. p \in Prefixes(q)
        BY <3>1, <4>1, PathPrefixes
      <4>3. q # p
        BY <3>1, <4>1, <4>2, PrefixOrder
      <4> QED BY <1>2, <2>1, <3>1, <4>2, <4>3 DEF Below, IsStrictPrefix
    <3> QED BY <3>1, <3>2
  <2>2. CASE q \in Prefixes(p)
    BY <2>2, PathPrefixes
  <2>3. CASE q \in new
    <3>1. PICK r \in DOMAIN s : q = p \o r
      BY <2>3
    <3>2. x \in Prefixes(p) \/ \E y \in Prefixes(r) : x = p \o y
      BY <1>1, <3>1, ConcatPrefixes
    <3> QED BY <1>1, <3>2
  <2> QED BY <2>1, <2>2, <2>3
<1>13. g \in [D -> Mark]
  BY <1>7, <1>11 DEF Graft
<1>14. <<>> \in D
  BY PathPrefixes
<1> HIDE DEF D, g
<1>15. IsCell(g)
  BY <1>5, <1>7, <1>10, <1>12, <1>13, <1>14 DEF IsCell
<1> QED BY <1>7, <1>8, <1>9, <1>15 DEF g

\* The sub-tree there, or an empty cell.
LEMMA SubCellIsCell ==
  ASSUME NEW c, IsCell(c), NEW p \in Path
  PROVE  /\ IsCell(SubCell(c, p))
         /\ \A q \in DOMAIN c : IsPrefix(p, q) =>
              \E r \in DOMAIN SubCell(c, p) : q = p \o r /\ SubCell(c, p)[r] = c[q]
<1>1. CASE p \notin DOMAIN c
  <2>1. \A q \in DOMAIN c : ~IsPrefix(p, q)
    BY <1>1, CellParts, PathPrefixes
  <2> QED BY <1>1, <2>1, WholeIsCell DEF SubCell, Bot, Mark
<1>2. CASE p \in DOMAIN c
  <2>1. SubCell(c, p) = Project(c, p)
    BY <1>2 DEF SubCell
  <2>2. ASSUME NEW q \in DOMAIN c, IsPrefix(p, q)
        PROVE  \E r \in DOMAIN Project(c, p) : q = p \o r /\ Project(c, p)[r] = c[q]
    <3>1. PICK r \in Path : q = p \o r
      BY <2>2, CellParts, PathSplit
    <3> QED BY <1>2, <3>1, ProjectCell
  <2> QED BY <1>2, <2>1, <2>2, ProjectCell
<1> QED BY <1>1, <1>2

\* What is inserted into a shape adds to its taint and takes none away.
LEMMA InsertCell ==
  ASSUME NEW c, IsCell(c), NEW p \in Path
  PROVE  /\ IsCell(InsertTainted(c, p)) /\ HasTainted(InsertTainted(c, p))
         /\ \A s : IsCell(s) =>
              /\ IsCell(InsertShape(c, p, s))
              /\ HasTainted(c) \/ HasTainted(s) => HasTainted(InsertShape(c, p, s))
<1> DEFINE sub == SubCell(c, p)
<1>1. /\ IsCell(sub)
      /\ \A q \in DOMAIN c : IsPrefix(p, q) => \E r \in DOMAIN sub : q = p \o r /\ sub[r] = c[q]
  BY SubCellIsCell
<1> HIDE DEF sub
<1>2. IsCell(InsertTainted(c, p)) /\ HasTainted(InsertTainted(c, p))
  <2> DEFINE s == [sub EXCEPT ![<<>>] = "tainted"]
  <2>1. DOMAIN s = DOMAIN sub /\ <<>> \in DOMAIN s /\ s[<<>>] = "tainted"
    BY <1>1, CellParts
  <2>2. s \in [DOMAIN sub -> Mark]
    BY <1>1, CellParts DEF Mark
  <2>3. IsCell(s)
    BY <1>1, <2>1, <2>2 DEF IsCell
  <2>4. InsertTainted(c, p) = Graft(c, p, s)
    BY DEF InsertTainted, sub
  <2> HIDE DEF s
  <2> QED BY <2>1, <2>3, <2>4, GraftCell DEF HasTainted
<1>3. ASSUME NEW s, IsCell(s)
      PROVE  /\ IsCell(InsertShape(c, p, s))
             /\ HasTainted(c) \/ HasTainted(s) => HasTainted(InsertShape(c, p, s))
  <2> DEFINE m == Merge(sub, s)
  <2>1. /\ IsCell(m)
        /\ \A r \in DOMAIN sub : sub[r] = "tainted" => r \in DOMAIN m /\ m[r] = "tainted"
        /\ \A r \in DOMAIN s : s[r] = "tainted" => r \in DOMAIN m /\ m[r] = "tainted"
    <3>1. /\ IsCell(Merge(sub, s)) /\ DOMAIN Merge(sub, s) = DOMAIN sub \cup DOMAIN s
          /\ \A r \in DOMAIN sub : sub[r] = "tainted" => Merge(sub, s)[r] = "tainted"
          /\ \A r \in DOMAIN s : s[r] = "tainted" => Merge(sub, s)[r] = "tainted"
      <4>1. IsCell(sub)
        BY <1>1
      <4> QED BY <4>1, <1>3, MergeCell, Zenon
    <3> HIDE DEF m
    <3>2. m = Merge(sub, s)
      BY DEF m
    <3> QED BY <3>1, <3>2
  <2> HIDE DEF m
  <2>2. InsertShape(c, p, s) = Graft(c, p, m)
    BY DEF InsertShape, sub, m
  <2>3. HasTainted(m) => HasTainted(Graft(c, p, m))
    BY <2>1, GraftCell DEF HasTainted
  <2>4. HasTainted(s) => HasTainted(m)
    BY <2>1 DEF HasTainted
  <2>5. ASSUME NEW q \in DOMAIN c, c[q] = "tainted" PROVE HasTainted(Graft(c, p, m))
    <3>1. CASE IsPrefix(p, q)
      BY <1>1, <2>1, <2>3, <2>5, <3>1 DEF HasTainted
    <3>2. CASE ~IsPrefix(p, q)
      BY <2>1, <2>5, <3>2, GraftCell DEF HasTainted
    <3> QED BY <3>1, <3>2
  <2> QED BY <2>1, <2>2, <2>3, <2>4, <2>5, GraftCell DEF HasTainted
<1> QED BY <1>2, <1>3

\* An entry of its own is the nearest to a path.
LEMMA NearestOwn ==
  ASSUME NEW c, IsCell(c), NEW q \in DOMAIN c
  PROVE  Nearest(c, q) = q /\ MarkAt(c, q) = c[q]
<1>1. q \in Path /\ q \in Prefixes(q) /\ Len(q) \in Nat
  BY CellParts, PathPrefixes DEF Path
<1>2. \A r \in Prefixes(q) : Len(r) <= Len(q) /\ (Len(q) <= Len(r) => r = q)
  <2>1. TAKE r \in Prefixes(q)
  <2>2. r \in Path /\ IsPrefix(r, q) /\ Len(r) \in Nat
    BY <1>1, PathPrefixes DEF Path
  <2>3. Len(r) >= Len(q) => q \in Prefixes(r)
    BY <1>1, PrefixOrder
  <2> QED BY <1>1, <2>2, <2>3, PrefixOrder DEF IsPrefix
<1>3. Nearest(c, q) = q
  BY <1>1, <1>2 DEF Nearest
<1> QED BY <1>3 DEF MarkAt

\* The entry a path inherits from: the last on the way to it.
LEMMA NearestIs ==
  ASSUME NEW c, IsCell(c), NEW q \in Path
  PROVE  /\ Nearest(c, q) \in Prefixes(q) \cap DOMAIN c
         /\ \A r \in Prefixes(q) \cap DOMAIN c : r \in Prefixes(Nearest(c, q))
<1> DEFINE E == Prefixes(q) \cap DOMAIN c
           Short == {Len(q) - Len(r) : r \in E}
<1>1. \A r \in Prefixes(q) : r \in Path /\ Len(r) \in Nat /\ Len(r) <= Len(q)
  BY PathPrefixes DEF Path, IsPrefix
<1>2. Len(q) \in Nat /\ <<>> \in E
  BY CellParts, PathPrefixes DEF Path
<1>3. \E k \in E : \A r \in E : Len(r) <= Len(k)
  <2>1. \A r \in E : Len(q) - Len(r) \in Nat
    BY <1>1, <1>2
  <2>2. Short \subseteq Nat /\ Short # {}
    BY <1>2, <2>1
  <2>3. PICK l \in Short : \A n \in Short : ~ (<<n, l>> \in OpToRel(<, Nat))
    BY <2>2, NatLessThanWellFounded, WFMin
  <2>4. PICK k \in E : l = Len(q) - Len(k)
    BY <2>3
  <2>5. \A r \in E : Len(q) - Len(r) \in Short
    OBVIOUS
  <2>6. \A r \in E : ~ (Len(q) - Len(r) < l)
    BY <2>2, <2>3, <2>5 DEF OpToRel
  <2>7. \A r \in E : Len(r) <= Len(k)
    BY <1>1, <1>2, <2>4, <2>6
  <2> QED BY <2>7
<1>4. Nearest(c, q) \in E /\ \A r \in E : Len(r) <= Len(Nearest(c, q))
  BY <1>3 DEF Nearest
<1>5. \A r \in E : r \in Prefixes(Nearest(c, q))
  <2>1. TAKE r \in E
  <2>2. Len(Nearest(c, q)) >= Len(r)
    BY <1>1, <1>4
  <2> QED BY <1>4, <2>2, PrefixOrder
<1> QED BY <1>4, <1>5

LEMMA NearestUnique ==
  ASSUME NEW c, IsCell(c), NEW q \in Path, NEW n \in Prefixes(q) \cap DOMAIN c,
         \A r \in Prefixes(q) \cap DOMAIN c : r \in Prefixes(n)
  PROVE  Nearest(c, q) = n /\ MarkAt(c, q) = c[n]
<1>1. /\ Nearest(c, q) \in Prefixes(q) \cap DOMAIN c
      /\ n \in Prefixes(Nearest(c, q)) /\ Nearest(c, q) \in Prefixes(n)
  BY NearestIs
<1>2. Nearest(c, q) = n
  BY <1>1, PrefixOrder
<1> QED BY <1>2 DEF MarkAt

\* Below in terms of prefixes.
LEMMA BelowIs ==
  ASSUME NEW c, IsCell(c), NEW p \in Path
  PROVE  Below(c, p) = {q \in DOMAIN c : p \in Prefixes(q) /\ q # p}
<1>1. \A q \in DOMAIN c : q \in Path
  BY CellParts
<1>2. \A q \in DOMAIN c : p \in Prefixes(q) <=> IsPrefix(p, q)
  BY <1>1, PathPrefixes
<1> QED BY <1>2 DEF Below, IsStrictPrefix

\* Validating a path leaves a cell: entries lead to the path, none lies below it.
LEMMA CleanedCell ==
  ASSUME NEW c, IsCell(c), NEW p \in Path
  PROVE  /\ IsCell(MarkClean(c, p))
         /\ DOMAIN MarkClean(c, p) = (DOMAIN c \ Below(c, p)) \cup Prefixes(p)
         /\ MarkClean(c, p)[p] = "clean"
         /\ \A q \in DOMAIN MarkClean(c, p) : q # p => MarkClean(c, p)[q] = MarkAt(c, q)
<1> DEFINE m == MarkClean(c, p)
           D == (DOMAIN c \ Below(c, p)) \cup Prefixes(p)
<1>1. /\ DOMAIN c \subseteq Path /\ <<>> \in DOMAIN c
      /\ \A q \in DOMAIN c : c[q] \in Mark
      /\ \A q \in DOMAIN c : Prefixes(q) \subseteq DOMAIN c
  BY CellParts
<1>2. p \in Prefixes(p) /\ <<>> \in Prefixes(p) /\ Prefixes(p) \subseteq Path
  BY PathPrefixes
<1>3. DOMAIN m = D /\ m[p] = "clean" /\ \A q \in D : q # p => m[q] = MarkAt(c, q)
  BY <1>2 DEF MarkClean
<1>4. D \subseteq Path
  BY <1>1, <1>2
<1>5. \A q \in D : MarkAt(c, q) \in Mark
  <2>1. TAKE q \in D
  <2>2. Nearest(c, q) \in DOMAIN c
    BY <1>4, NearestIs
  <2> QED BY <1>1, <2>2 DEF MarkAt
<1>6. IsFiniteSet(D)
  <2>1. IsFiniteSet(DOMAIN c \ Below(c, p)) /\ IsFiniteSet(Prefixes(p))
    BY PathPrefixes, FS_Subset DEF IsCell
  <2> QED BY <2>1, FS_Union
<1>7. ASSUME NEW q \in D, NEW y \in Prefixes(q) PROVE y \in D
  <2>1. CASE q \in Prefixes(p)
    BY <2>1, PathPrefixes
  <2>2. CASE q \in DOMAIN c \ Below(c, p)
    <3>1. y \in DOMAIN c /\ q \in Path
      BY <1>1, <2>2
    <3>2. ASSUME y \in Below(c, p) PROVE FALSE
      <4>1. p \in Prefixes(y) /\ p # y
        BY <3>2, BelowIs
      <4>2. p \in Prefixes(q)
        BY <3>1, <4>1, PathPrefixes
      <4>3. q # p
        BY <3>1, <4>1, <4>2, PrefixOrder
      <4> QED BY <2>2, <4>2, <4>3, BelowIs
    <3> QED BY <3>1, <3>2
  <2> QED BY <2>1, <2>2
<1>8. m \in [D -> Mark]
  BY <1>3, <1>5 DEF MarkClean, Mark
<1> HIDE DEF D, m
<1>9. <<>> \in D
  BY <1>2 DEF D
<1>10. IsCell(m)
  BY <1>3, <1>4, <1>6, <1>7, <1>8, <1>9 DEF IsCell
<1> QED BY <1>3, <1>10 DEF m, D

\* Validating one field of a cell of any depth leaves a cell, its root as it was.
LEMMA MarkCleanCell ==
  ASSUME NEW c, IsCell(c), NEW x \in Offsets
  PROVE  /\ IsCell(MarkClean(c, <<x>>)) /\ MarkClean(c, <<x>>)[<<>>] = c[<<>>]
         /\ MarkClean(c, <<x>>) # Bot
<1> DEFINE p == <<x>>
           m == MarkClean(c, p)
<1>1. p \in Path /\ Prefixes(p) = {<<>>, p} /\ p # <<>>
  BY FlatPaths DEF Path
<1> HIDE DEF p
<1>2. /\ IsCell(m) /\ DOMAIN m = (DOMAIN c \ Below(c, p)) \cup Prefixes(p)
      /\ \A q \in DOMAIN m : q # p => m[q] = MarkAt(c, q)
  BY <1>1, CleanedCell
<1>3. m[<<>>] = c[<<>>]
  BY <1>1, <1>2, CellParts, NearestOwn
<1>4. m # Bot
  BY <1>1, <1>2 DEF Bot, Whole
<1> QED BY <1>2, <1>3, <1>4 DEF p

\* A canonical form is a cell with its root's mark and something in it, or nothing.
LEMMA CanonicalCell ==
  ASSUME NEW c, IsCell(c), Informative(c) # {}
  PROVE  /\ IsCell(Canonicalize(c)) /\ Canonicalize(c)[<<>>] = c[<<>>]
         /\ Canonicalize(c) # Bot
<1> DEFINE D == Informative(c)
           k == Canonicalize(c)
<1>1. /\ DOMAIN c \subseteq Path /\ <<>> \in DOMAIN c
      /\ \A q \in DOMAIN c : c[q] \in Mark
      /\ \A q \in DOMAIN c : Prefixes(q) \subseteq DOMAIN c
  BY CellParts
<1>2. D \subseteq Shown(c) /\ Shown(c) \subseteq DOMAIN c
  BY DEF Informative, Shown
<1>3. DOMAIN k = D /\ \A q \in D : k[q] = c[q]
  BY DEF Canonicalize
<1>4. \A q \in Path : \A y : y \in Prefixes(q) <=> y \in Path /\ IsPrefix(y, q)
  BY PathPrefixes
<1>5. ASSUME NEW q \in D, NEW y \in Prefixes(q) PROVE y \in D
  <2>1. PICK z \in Shown(c) : IsPrefix(q, z) /\ c[z] # "none"
    BY DEF Informative
  <2>2. q \in Path /\ z \in Path /\ y \in DOMAIN c /\ y \in Path
    BY <1>1, <1>2
  <2>3. y \in Shown(c)
    <3>1. ASSUME NEW w \in Prefixes(y) \ {y} PROVE c[w] # "clean"
      <4>1. w \in Prefixes(q)
        BY <2>2, PathPrefixes
      <4>2. w # q
        BY <2>2, <3>1, PrefixOrder, PathPrefixes
      <4> QED BY <1>2, <4>1, <4>2 DEF Shown
    <3> QED BY <2>2, <3>1 DEF Shown
  <2>4. IsPrefix(y, z)
    <3>1. q \in Prefixes(z)
      BY <1>4, <2>1, <2>2
    <3>2. y \in Prefixes(z)
      BY <2>2, <3>1, PathPrefixes
    <3> QED BY <1>4, <2>2, <3>2
  <2> QED BY <2>1, <2>3, <2>4 DEF Informative
<1>6. <<>> \in D
  <2>1. PICK q : q \in D
    OBVIOUS
  <2>2. <<>> \in Prefixes(q)
    BY <1>1, <1>2, <2>1, PathPrefixes
  <2> QED BY <1>5, <2>1, <2>2
<1>7. IsFiniteSet(D)
  BY <1>2, FS_Subset DEF IsCell
<1>8. k \in [D -> Mark] /\ D \subseteq Path
  BY <1>1, <1>2 DEF Canonicalize
<1>9. k # Bot
  <2>1. PICK z \in Shown(c) : IsPrefix(<<>>, z) /\ c[z] # "none"
    BY <1>6 DEF Informative
  <2>2. z \in D
    <3>1. IsPrefix(z, z)
      BY <1>1, <1>2, PathPrefixes
    <3> QED BY <2>1, <3>1 DEF Informative
  <2>3. k[z] # "none"
    BY <1>3, <2>1, <2>2
  <2> QED BY <1>3, <2>2, <2>3 DEF Bot, Whole
<1> HIDE DEF D, k
<1>10. IsCell(k)
  BY <1>3, <1>5, <1>6, <1>7, <1>8 DEF IsCell
<1> QED BY <1>3, <1>6, <1>9, <1>10 DEF k

\* What instantiate_tainted puts at a leaf is the caller's cell, never clean as a
\* whole if that was not.
LEMMA SubstitutedCell ==
  ASSUME NEW c, NEW r, IsCell(c), IsCell(r), NEW p \in DOMAIN c
  PROVE  /\ IsCell(Substituted(c, p, r))
         /\ r[<<>>] # "clean" => Substituted(c, p, r)[<<>>] # "clean"
<1> DEFINE d == Project(c, p)
           e == [d EXCEPT ![<<>>] = "none"]
<1>1. IsCell(d)
  BY ProjectCell
<1> HIDE DEF d
<1>2. DOMAIN e = DOMAIN d /\ e \in [DOMAIN d -> Mark] /\ e[<<>>] = "none"
  BY <1>1, CellParts DEF Mark
<1> HIDE DEF e
<1>3. IsCell(e)
  BY <1>1, <1>2 DEF IsCell
<1>4. IsCell(Merge(r, e)) /\ Merge(r, e)[<<>>] = MergeMark(r[<<>>], e[<<>>])
  BY <1>3, MergeCell
<1>5. r[<<>>] # "clean" => MergeMark(r[<<>>], e[<<>>]) # "clean"
  BY <1>2 DEF MergeMark
<1>6. Substituted(c, p, r) = r \/ Substituted(c, p, r) = Merge(r, e)
  BY DEF Substituted, e, d
<1> QED BY <1>4, <1>5, <1>6

\* So the call's return shape is a cell, and its root as little clean.
LEMMA InstantiateCell ==
  ASSUME NEW c, NEW r, IsCell(c), IsCell(r)
  PROVE  /\ IsCell(Instantiate(c, r))
         /\ c[<<>>] # "clean" /\ r[<<>>] # "clean" => Instantiate(c, r)[<<>>] # "clean"
         /\ \A p \in Topmost(c), x \in Path :
              /\ p \o x \in DOMAIN Instantiate(c, r) <=> x \in DOMAIN Substituted(c, p, r)
              /\ x \in DOMAIN Substituted(c, p, r) => Instantiate(c, r)[p \o x] = Substituted(c, p, r)[x]
         /\ \A q \in DOMAIN Instantiate(c, r) :
              \/ q \in Kept(c) /\ Instantiate(c, r)[q] = c[q]
              \/ \E p \in Topmost(c) : p \in Prefixes(q)
<1> DEFINE T == Topmost(c)
           K == Kept(c)
           sub(p) == Substituted(c, p, r)
           U == UNION {Placed(c, p, r) : p \in T}
           D == K \cup U
           n == Instantiate(c, r)
<1>1. /\ DOMAIN c \subseteq Path /\ <<>> \in DOMAIN c
      /\ \A q \in DOMAIN c : c[q] \in Mark
      /\ \A q \in DOMAIN c : Prefixes(q) \subseteq DOMAIN c
  BY CellParts
<1>2. /\ T \subseteq DOMAIN c
      /\ \A p \in T : c[p] = "tainted" /\ \A q \in Prefixes(p) \ {p} : c[q] # "tainted"
  BY DEF Topmost
<1>3. K \subseteq DOMAIN c /\ \A q \in K : Prefixes(q) \cap T = {}
  BY DEF Kept
<1>4. /\ \A p \in T : IsCell(sub(p)) /\ p \in Path
      /\ \A p \in T : r[<<>>] # "clean" => sub(p)[<<>>] # "clean"
  BY <1>1, <1>2, SubstitutedCell
<1>5. \A p \in T : Placed(c, p, r) = {p \o x : x \in DOMAIN sub(p)}
  BY DEF Placed
<1>6. /\ DOMAIN n = D
      /\ \A q \in D : n[q] = IF q \in K THEN c[q]
                             ELSE sub(Over(c, q))[SubSeq(q, Len(Over(c, q)) + 1, Len(q))]
  BY DEF Instantiate
<1>7. \A q \in Path : \A y : y \in Prefixes(q) <=> y \in Path /\ IsPrefix(y, q)
  BY PathPrefixes
<1>8. n \in [D -> {n[q] : q \in D}]
  BY DEF Instantiate
<1> HIDE DEF n, T, K, sub
<1>9. ASSUME NEW p \in T, NEW x \in DOMAIN sub(p)
      PROVE  /\ p \o x \in Path /\ p \o x \in U /\ x \in Path
             /\ p \o x \notin K /\ n[p \o x] = sub(p)[x]
  <2>1. x \in Path /\ p \in Path
    BY <1>4, CellParts
  <2>2. p \o x \in Path /\ IsPrefix(p, p \o x) /\ SubSeq(p \o x, Len(p) + 1, Len(p \o x)) = x
    BY <2>1, PathConcat
  <2>3. p \o x \in U
    BY <1>5
  <2>4. p \in Prefixes(p \o x)
    BY <1>7, <2>1, <2>2
  <2>5. p \o x \notin K
    BY <1>3, <2>4
  <2>6. ASSUME NEW t \in T, IsPrefix(t, p \o x) PROVE t = p
    <3>1. t \in Prefixes(p \o x)
      BY <1>4, <1>7, <2>2, <2>6
    <3>2. t \in Prefixes(p) \/ p \in Prefixes(t)
      BY <2>2, <2>4, <3>1, PrefixOrder
    <3> QED BY <1>2, <3>2
  <2>7. Over(c, p \o x) = p
    BY <2>2, <2>6 DEF Over, T
  <2> QED BY <1>6, <2>1, <2>2, <2>3, <2>5, <2>7
<1>10. ASSUME NEW q \in U PROVE \E p \in T : \E x \in DOMAIN sub(p) : q = p \o x
  BY <1>5, <1>10
<1>11. \A q \in D : q \in Path /\ n[q] \in Mark
  <2>1. TAKE q \in D
  <2>2. CASE q \in K
    BY <1>1, <1>3, <1>6, <2>2
  <2>3. CASE q \in U
    <3>0. PICK p \in T : \E x \in DOMAIN sub(p) : q = p \o x
      BY <1>10, <2>3
    <3>1. PICK x \in DOMAIN sub(p) : q = p \o x
      BY <3>0
    <3> QED BY <1>4, <1>9, <3>1, CellParts
  <2> QED BY <2>2, <2>3
<1>12. IsFiniteSet(D)
  <2>1. IsFiniteSet(T) /\ IsFiniteSet(K)
    BY <1>2, <1>3, FS_Subset DEF IsCell
  <2>2. ASSUME NEW p \in T PROVE IsFiniteSet(Placed(c, p, r))
    <3> DEFINE f == [x \in DOMAIN sub(p) |-> p \o x]
    <3>1. f \in Surjection(DOMAIN sub(p), Placed(c, p, r))
      BY <1>5 DEF Surjection
    <3>2. IsFiniteSet(DOMAIN sub(p))
      BY <1>4 DEF IsCell
    <3> QED BY <3>1, <3>2, FS_Surjection
  <2>3. IsFiniteSet(U)
    <3> DEFINE g == [p \in T |-> Placed(c, p, r)]
               W == {Placed(c, p, r) : p \in T}
    <3>1. g \in Surjection(T, W)
      BY DEF Surjection
    <3>2. IsFiniteSet(W)
      BY <2>1, <3>1, FS_Surjection
    <3>3. \A w \in W : IsFiniteSet(w)
      BY <2>2
    <3> QED BY <3>2, <3>3, FS_UNION
  <2> QED BY <2>1, <2>3, FS_Union
<1>13. ASSUME NEW q \in DOMAIN c, Prefixes(q) \cap T = {} PROVE q \in K
  BY <1>13 DEF K, T, Kept
<1>14. ASSUME NEW q \in D, NEW y \in Prefixes(q) PROVE y \in D
  <2>1. CASE q \in K
    <3>1. y \in DOMAIN c /\ Prefixes(y) \subseteq Prefixes(q)
      BY <1>1, <1>3, <2>1, PathPrefixes
    <3> QED BY <1>3, <1>13, <2>1, <3>1
  <2>2. CASE q \in U
    <3>0. PICK p \in T : \E x \in DOMAIN sub(p) : q = p \o x
      BY <1>10, <2>2
    <3>1. PICK x \in DOMAIN sub(p) : q = p \o x
      BY <3>0
    <3>2. x \in Path /\ p \in Path /\ IsCell(sub(p))
      BY <1>4, <1>9
    <3>3. ASSUME NEW z \in Prefixes(x) PROVE p \o z \in D
      BY <1>9, <3>2, <3>3, CellParts
    <3>4. CASE y \in Prefixes(p)
      <4>1. CASE y = p
        <5>1. p \o <<>> = p /\ <<>> \in Prefixes(x)
          BY <3>2, PathPrefixes, ConcatEmptySeq DEF Path
        <5> QED BY <3>3, <4>1, <5>1
      <4>2. CASE y # p
        <5>1. y \in DOMAIN c /\ y \in Path
          BY <1>1, <1>2, <3>4
        <5>2. ASSUME NEW t \in Prefixes(y) \cap T PROVE FALSE
          <6>1. t \in Prefixes(p)
            BY <3>2, <3>4, PathPrefixes
          <6>2. t # p
            BY <3>2, <3>4, <4>2, PrefixOrder, PathPrefixes
          <6> QED BY <1>2, <6>1, <6>2
        <5> QED BY <1>13, <5>1, <5>2
      <4> QED BY <4>1, <4>2
    <3>5. CASE \E z \in Prefixes(x) : y = p \o z
      BY <3>3, <3>5
    <3>6. \A v \in Prefixes(p \o x) : v \in Prefixes(p) \/ \E z \in Prefixes(x) : v = p \o z
      BY <3>2, ConcatPrefixes
    <3>7. y \in Prefixes(p \o x)
      BY <3>1
    <3> QED BY <3>4, <3>5, <3>6, <3>7
  <2> QED BY <2>1, <2>2
<1>15. <<>> \in D /\ (c[<<>>] # "clean" /\ r[<<>>] # "clean" => n[<<>>] # "clean")
  <2>1. CASE <<>> \in T
    <3>1. <<>> \in DOMAIN sub(<<>>) /\ <<>> \o <<>> = <<>>
      BY <1>4, <2>1, CellParts
    <3>2. <<>> \o <<>> \in U /\ n[<<>> \o <<>>] = sub(<<>>)[<<>>]
      BY <1>9, <2>1, <3>1
    <3> QED BY <1>4, <2>1, <3>1, <3>2
  <2>2. CASE <<>> \notin T
    <3>1. Prefixes(<<>>) \cap T = {}
      BY <2>2, EmptyPath
    <3>2. <<>> \in K
      BY <1>1, <1>13, <3>1
    <3> QED BY <1>6, <3>2
  <2> QED BY <2>1, <2>2
<1> HIDE DEF D
<1>16. n \in [D -> Mark]
  BY <1>8, <1>11
<1>17. IsCell(n)
  BY <1>6, <1>11, <1>12, <1>14, <1>15, <1>16 DEF IsCell
<1>18. ASSUME NEW q \in D PROVE \/ q \in K /\ n[q] = c[q]
                               \/ \E p \in T : p \in Prefixes(q)
  <2>1. CASE q \in K
    BY <1>6, <2>1
  <2>2. CASE q \in U
    <3>0. PICK p \in T : \E x \in DOMAIN sub(p) : q = p \o x
      BY <1>10, <2>2
    <3>1. PICK x \in DOMAIN sub(p) : q = p \o x
      BY <3>0
    <3>2. p \in Prefixes(q)
      BY <1>4, <1>9, <3>1, ConcatPrefixes
    <3> QED BY <3>2
  <2> QED BY <2>1, <2>2 DEF D
<1>19. ASSUME NEW p \in T, NEW x \in Path, p \o x \in D PROVE x \in DOMAIN sub(p)
  <2>1. p \in Path /\ p \o x \in Path /\ p \in Prefixes(p \o x)
    BY <1>4, PathConcat, ConcatPrefixes
  <2>2. p \o x \in U
    BY <1>3, <1>19, <2>1 DEF D
  <2>3. PICK t \in T : \E y \in DOMAIN sub(t) : p \o x = t \o y
    BY <1>10, <2>2
  <2>4. PICK y \in DOMAIN sub(t) : p \o x = t \o y
    BY <2>3
  <2>5. t \in Path /\ y \in Path /\ t \in Prefixes(p \o x)
    BY <1>4, <1>9, <2>4, ConcatPrefixes
  <2>6. t \in Prefixes(p) \/ p \in Prefixes(t)
    BY <2>1, <2>5, PrefixOrder
  <2>7. t = p
    BY <1>2, <2>6
  <2>8. x = y
    <3>1. SubSeq(p \o x, Len(p) + 1, Len(p \o x)) = x /\ SubSeq(p \o y, Len(p) + 1, Len(p \o y)) = y
      BY <2>1, <2>5, PathConcat
    <3> QED BY <2>4, <2>7, <3>1
  <2> QED BY <2>4, <2>7, <2>8
<1>20. \A p \in T, x \in Path :
         /\ p \o x \in DOMAIN n <=> x \in DOMAIN sub(p)
         /\ x \in DOMAIN sub(p) => n[p \o x] = sub(p)[x]
  <2>1. \A p \in T : \A x \in DOMAIN sub(p) : p \o x \in D
    BY <1>9 DEF D
  <2> QED BY <1>6, <1>9, <1>19, <2>1
<1> QED BY <1>6, <1>15, <1>17, <1>18, <1>20 DEF n, T, K, sub

-----------------------------------------------------------------------------
\* What the operations do to what a path of any length reads.

\* mark_clean_at, cells and paths of any depth: the path and all below it read
\* clean, no path reads tainted that did not, and a path that neither leads to it
\* nor lies below it reads as it did.
THEOREM CleaningIsLocal ==
  ASSUME NEW c, IsCell(c), NEW p \in Path
  PROVE  /\ IsCell(MarkClean(c, p))
         /\ \A q \in Path : p \in Prefixes(q) => ~TaintedAt(MarkClean(c, p), q)
         /\ \A q \in Path : TaintedAt(MarkClean(c, p), q) => TaintedAt(c, q)
         /\ \A q \in Path : p \notin Prefixes(q) /\ q \notin Prefixes(p) =>
              (TaintedAt(MarkClean(c, p), q) <=> TaintedAt(c, q))
<1> DEFINE m == MarkClean(c, p)
<1>1. /\ IsCell(m) /\ DOMAIN m = (DOMAIN c \ Below(c, p)) \cup Prefixes(p)
      /\ m[p] = "clean" /\ \A q \in DOMAIN m : q # p => m[q] = MarkAt(c, q)
  BY CleanedCell
<1> HIDE DEF m
<1>2. /\ DOMAIN c \subseteq Path /\ \A q \in DOMAIN c : Prefixes(q) \subseteq DOMAIN c
      /\ DOMAIN m \subseteq Path /\ p \in Prefixes(p)
  BY <1>1, CellParts, PathPrefixes
<1>3. ASSUME NEW q \in Path, p \in Prefixes(q) PROVE ~TaintedAt(m, q)
  <2>1. ASSUME NEW r \in Prefixes(q) \cap DOMAIN m PROVE r \in Prefixes(p)
    <3>1. r \in Prefixes(p) \/ p \in Prefixes(r)
      BY <1>3, PrefixOrder
    <3>2. CASE p \in Prefixes(r) /\ r \notin Prefixes(p)
      <4>1. r \in DOMAIN c /\ r \notin Below(c, p)
        BY <1>1, <3>2
      <4> QED BY <1>2, <3>2, <4>1, BelowIs
    <3> QED BY <3>1, <3>2
  <2>2. p \in Prefixes(q) \cap DOMAIN m
    BY <1>1, <1>2, <1>3
  <2>3. Nearest(m, q) = p /\ MarkAt(m, q) = "clean"
    BY <1>1, <2>1, <2>2, NearestUnique
  <2>4. q \in DOMAIN m => q = p
    BY <1>1, <2>3, NearestOwn
  <2> QED BY <1>1, <2>3, <2>4 DEF TaintedAt
<1>4. ASSUME NEW q \in Path, p \notin Prefixes(q) PROVE MarkAt(m, q) = MarkAt(c, q)
  <2> DEFINE n == Nearest(m, q)
             k == Nearest(c, q)
  <2>1. n \in Prefixes(q) \cap DOMAIN m /\ \A r \in Prefixes(q) \cap DOMAIN m : r \in Prefixes(n)
    BY <1>1, NearestIs
  <2>2. k \in Prefixes(q) \cap DOMAIN c /\ \A r \in Prefixes(q) \cap DOMAIN c : r \in Prefixes(k)
    BY NearestIs
  <2>3. MarkAt(m, q) = m[n] /\ MarkAt(c, q) = c[k]
    BY DEF MarkAt
  <2> HIDE DEF n, k
  <2>4. k \in Prefixes(n)
    <3>1. k \notin Below(c, p)
      <4>1. p \notin Prefixes(k)
        BY <1>4, <2>2, PathPrefixes
      <4> QED BY <4>1, BelowIs
    <3> QED BY <1>1, <2>1, <2>2, <3>1
  <2>5. \A r \in Prefixes(n) \cap DOMAIN c : r \in Prefixes(k)
    BY <2>1, <2>2, PathPrefixes
  <2>6. n \in Path /\ n # p
    BY <1>2, <1>4, <2>1
  <2>7. MarkAt(c, n) = c[k]
    BY <2>2, <2>4, <2>5, <2>6, NearestUnique
  <2> QED BY <1>1, <2>1, <2>3, <2>6, <2>7
<1>5. ASSUME NEW q \in Path, p \notin Prefixes(q), TaintedAt(m, q) PROVE TaintedAt(c, q)
  <2>1. CASE MarkAt(m, q) = "tainted"
    BY <1>4, <1>5, <2>1 DEF TaintedAt
  <2>2. CASE q \in DOMAIN m /\ m[q] = "none" /\ \E z \in Below(m, q) : m[z] = "tainted"
    <3>1. PICK z \in Below(m, q) : m[z] = "tainted"
      BY <2>2
    <3>2. z \in DOMAIN m /\ z \in Path /\ q \in Prefixes(z) /\ z # q
      BY <1>1, <1>2, BelowIs
    <3> DEFINE w == Nearest(c, z)
               k == Nearest(c, q)
    <3>3. z # p /\ q # p
      BY <1>1, <1>2, <1>5, <3>1
    <3>4. c[w] = "tainted" /\ c[k] = "none"
      <4>1. m[z] = MarkAt(c, z) /\ m[q] = MarkAt(c, q)
        BY <1>1, <2>2, <3>2, <3>3
      <4> QED BY <2>2, <3>1, <4>1 DEF MarkAt
    <3>5. w \in Prefixes(z) \cap DOMAIN c /\ \A r \in Prefixes(z) \cap DOMAIN c : r \in Prefixes(w)
      BY <3>2, NearestIs
    <3>6. k \in Prefixes(q) \cap DOMAIN c /\ \A r \in Prefixes(q) \cap DOMAIN c : r \in Prefixes(k)
      BY NearestIs
    <3> HIDE DEF w, k
    <3>7. w \notin Prefixes(q)
      <4>1. ASSUME w \in Prefixes(q) PROVE w = k
        <5>1. w \in Prefixes(k)
          BY <3>5, <3>6, <4>1
        <5>2. k \in Prefixes(z)
          BY <3>2, <3>6, PathPrefixes
        <5>3. k \in Prefixes(w)
          BY <3>5, <3>6, <5>2
        <5> QED BY <3>2, <3>5, <5>1, <5>2, <5>3, PrefixOrder
      <4> QED BY <3>4, <4>1
    <3>8. q \in Prefixes(w) /\ w # q
      BY <3>2, <3>5, <3>7, PrefixOrder, PathPrefixes
    <3>9. q \in DOMAIN c /\ w \in Below(c, q)
      BY <1>2, <3>5, <3>8, BelowIs
    <3>10. c[q] = "none"
      <4>1. MarkAt(c, q) = c[q] /\ MarkAt(c, q) = c[k]
        BY <3>9, NearestOwn DEF MarkAt, k
      <4> QED BY <3>4, <4>1
    <3> QED BY <3>4, <3>9, <3>10 DEF TaintedAt
  <2> QED BY <1>5, <2>1, <2>2 DEF TaintedAt
<1>6. ASSUME NEW q \in Path, p \notin Prefixes(q), q \notin Prefixes(p), TaintedAt(c, q)
      PROVE  TaintedAt(m, q)
  <2>1. CASE MarkAt(c, q) = "tainted"
    BY <1>4, <1>6, <2>1 DEF TaintedAt
  <2>2. CASE q \in DOMAIN c /\ c[q] = "none" /\ \E z \in Below(c, q) : c[z] = "tainted"
    <3>1. PICK z \in Below(c, q) : c[z] = "tainted"
      BY <2>2
    <3>2. z \in DOMAIN c /\ z \in Path /\ q \in Prefixes(z) /\ z # q
      BY <1>2, BelowIs
    <3>3. z \notin Below(c, p) /\ q \notin Below(c, p)
      <4>1. p \notin Prefixes(z)
        BY <1>6, <3>2, PrefixOrder
      <4> QED BY <1>6, <4>1, BelowIs
    <3>4. z \in DOMAIN m /\ q \in DOMAIN m /\ z # p /\ q # p
      BY <1>1, <1>2, <1>6, <2>2, <3>2, <3>3
    <3>5. m[z] = "tainted" /\ m[q] = "none"
      BY <1>1, <2>2, <3>1, <3>2, <3>4, NearestOwn
    <3>6. z \in Below(m, q)
      BY <1>1, <3>2, <3>4, BelowIs
    <3> QED BY <3>4, <3>5, <3>6 DEF TaintedAt
  <2> QED BY <1>6, <2>1, <2>2 DEF TaintedAt
<1>7. \A q \in Path : TaintedAt(m, q) => TaintedAt(c, q)
  BY <1>3, <1>5
<1> QED BY <1>1, <1>3, <1>5, <1>6, <1>7 DEF m

\* A whole cell reads as its mark everywhere.
LEMMA WholeReads ==
  ASSUME NEW mark \in Mark, NEW q \in Path
  PROVE  TaintedAt(Whole(mark), q) <=> mark = "tainted"
<1>1. IsCell(Whole(mark)) /\ DOMAIN Whole(mark) = {<<>>} /\ Whole(mark)[<<>>] = mark
  BY WholeIsCell DEF Whole
<1> DEFINE w == Whole(mark)
<1> HIDE DEF w
<1>2. IsCell(w) /\ DOMAIN w = {<<>>} /\ w[<<>>] = mark
  BY <1>1 DEF w
<1>3. <<>> \in Prefixes(q) \cap DOMAIN w /\ \A r \in Prefixes(q) \cap DOMAIN w : r \in Prefixes(<<>>)
  BY <1>2, PathPrefixes
<1>4. MarkAt(w, q) = mark
  BY <1>2, <1>3, NearestUnique
<1>5. ASSUME q \in DOMAIN w PROVE Below(w, q) = {}
  BY <1>2, <1>5, BelowIs
<1> QED BY <1>4, <1>5 DEF TaintedAt, w

\* project_path: what is read out at a path reads as the whole did past it.
THEOREM ProjectingReadsThrough ==
  ASSUME NEW c, IsCell(c), NEW p \in Path, NEW r \in Path
  PROVE  TaintedAt(Project(c, p), r) <=> TaintedAt(c, p \o r)
<1>1. /\ DOMAIN c \subseteq Path /\ \A q \in DOMAIN c : c[q] \in Mark /\ Prefixes(q) \subseteq DOMAIN c
      /\ p \o r \in Path /\ p \in Prefixes(p \o r)
  BY CellParts, PathConcat, ConcatPrefixes
<1>2. CASE p \in DOMAIN c
  <2> DEFINE d == Project(c, p)
             n == Nearest(d, r)
  <2>1. IsCell(d) /\ DOMAIN d = {x \in Path : p \o x \in DOMAIN c} /\ \A x \in DOMAIN d : d[x] = c[p \o x]
    BY <1>2, ProjectCell
  <2> HIDE DEF d
  <2>2. n \in Prefixes(r) \cap DOMAIN d /\ \A x \in Prefixes(r) \cap DOMAIN d : x \in Prefixes(n)
    BY <2>1, NearestIs
  <2>3. MarkAt(d, r) = d[n]
    BY DEF MarkAt
  <2> HIDE DEF n
  <2>4. p \o n \in Prefixes(p \o r) \cap DOMAIN c
    BY <2>1, <2>2, ConcatPrefixes
  <2>5. ASSUME NEW x \in Prefixes(p \o r) \cap DOMAIN c PROVE x \in Prefixes(p \o n)
    <3>1. n \in Path
      BY <2>1, <2>2
    <3>2. CASE x \in Prefixes(p)
      <4>1. p \in Prefixes(p \o n) /\ p \o n \in Path
        BY <3>1, PathConcat, ConcatPrefixes
      <4> QED BY <3>2, <4>1, PathPrefixes
    <3>3. ASSUME NEW y \in Prefixes(r), x = p \o y PROVE x \in Prefixes(p \o n)
      <4>1. y \in Path /\ y \in DOMAIN d
        BY <2>1, <3>3, PathPrefixes
      <4>2. y \in Prefixes(n)
        BY <2>2, <4>1
      <4> QED BY <3>1, <3>3, <4>2, ConcatPrefixes
    <3> QED BY <3>2, <3>3, ConcatPrefixes
  <2>6. MarkAt(c, p \o r) = MarkAt(d, r)
    <3>1. MarkAt(c, p \o r) = c[p \o n]
      BY <1>1, <2>4, <2>5, NearestUnique
    <3> QED BY <2>1, <2>2, <2>3, <3>1
  <2>7. r \in DOMAIN d <=> p \o r \in DOMAIN c
    BY <2>1
  <2>0. Below(c, p \o r) = {q \in DOMAIN c : p \o r \in Prefixes(q) /\ q # p \o r}
    <3> DEFINE w == p \o r
    <3>1. w \in Path
      BY <1>1
    <3> HIDE DEF w
    <3>2. Below(c, w) = {q \in DOMAIN c : w \in Prefixes(q) /\ q # w}
      BY <3>1, BelowIs
    <3> QED BY <3>2 DEF w
  <2>8. ASSUME NEW z \in Below(d, r) PROVE p \o z \in Below(c, p \o r)
    <3>1. z \in Path /\ z \in DOMAIN d /\ r \in Prefixes(z) /\ z # r
      BY <2>1, BelowIs
    <3>2. p \o z \in DOMAIN c /\ p \o r \in Prefixes(p \o z)
      BY <2>1, <3>1, ConcatPrefixes
    <3>3. p \o z # p \o r
      BY <3>1, PathConcat
    <3> QED BY <2>0, <3>2, <3>3
  <2>9. ASSUME NEW w \in Below(c, p \o r) PROVE \E z \in Below(d, r) : w = p \o z
    <3>1. w \in DOMAIN c /\ w \in Path /\ p \o r \in Prefixes(w) /\ w # p \o r
      BY <1>1, <2>0
    <3>2. IsPrefix(p \o r, w)
      BY <3>1, PathPrefixes
    <3>3. PICK s \in Path : w = (p \o r) \o s
      BY <1>1, <3>1, <3>2, PathSplit
    <3>4. w = p \o (r \o s)
      BY <3>3, ConcatAssociative DEF Path
    <3>5. r \o s \in Path /\ r \in Prefixes(r \o s)
      BY PathConcat, ConcatPrefixes
    <3>6. r \o s \in DOMAIN d /\ r \o s # r
      BY <2>1, <3>1, <3>4, <3>5
    <3> QED BY <2>1, <3>4, <3>5, <3>6, BelowIs
  <2>10. \A z \in Below(d, r) : d[z] = c[p \o z]
    BY <2>1 DEF Below
  <2>11. (\E z \in Below(d, r) : d[z] = "tainted") <=> (\E w \in Below(c, p \o r) : c[w] = "tainted")
    BY <2>8, <2>9, <2>10
  <2>12. r \in DOMAIN d => d[r] = c[p \o r]
    BY <2>1
  <2> QED BY <2>6, <2>7, <2>11, <2>12 DEF TaintedAt, d
<1>3. CASE p \notin DOMAIN c
  <2> DEFINE k == Nearest(c, p)
  <2>1. k \in Prefixes(p) \cap DOMAIN c /\ \A x \in Prefixes(p) \cap DOMAIN c : x \in Prefixes(k)
    BY NearestIs
  <2>2. MarkAt(c, p) = c[k]
    BY DEF MarkAt
  <2> HIDE DEF k
  <2>3. ASSUME NEW x \in Prefixes(p \o r) \cap DOMAIN c PROVE x \in Prefixes(k)
    <3>1. p \notin Prefixes(x)
      BY <1>1, <1>3
    <3>2. x \in Prefixes(p)
      BY <1>1, <3>1, PrefixOrder
    <3> QED BY <2>1, <3>2
  <2>4. k \in Prefixes(p \o r) \cap DOMAIN c
    BY <1>1, <2>1, PathPrefixes
  <2>5. MarkAt(c, p \o r) = MarkAt(c, p)
    BY <1>1, <2>2, <2>3, <2>4, NearestUnique
  <2>6. p \o r \notin DOMAIN c
    BY <1>1, <1>3
  <2>7. Project(c, p) = IF MarkAt(c, p) = "tainted" THEN Whole("tainted") ELSE Whole("none")
    BY <1>3 DEF Project, TaintedCell, Bot
  <2>8. "tainted" \in Mark /\ "none" \in Mark
    BY DEF Mark
  <2>9. TaintedAt(Project(c, p), r) <=> MarkAt(c, p) = "tainted"
    BY <2>7, <2>8, WholeReads
  <2> QED BY <2>5, <2>6, <2>9 DEF TaintedAt
<1> QED BY <1>2, <1>3

\* merge_into, any depth: an entry is tainted in the result where one of the two
\* has it tainted, and nowhere else.
THEOREM MergingKeepsTaint ==
  ASSUME NEW t, NEW s, IsCell(t), IsCell(s)
  PROVE  /\ IsCell(Merge(t, s)) /\ DOMAIN Merge(t, s) = DOMAIN t \cup DOMAIN s
         /\ \A p \in DOMAIN t \cup DOMAIN s :
              Merge(t, s)[p] = "tainted" <=>
                \/ p \in DOMAIN t /\ t[p] = "tainted"
                \/ p \in DOMAIN s /\ s[p] = "tainted"
<1>1. IsCell(Merge(t, s)) /\ DOMAIN Merge(t, s) = DOMAIN t \cup DOMAIN s
  BY MergeCell
<1>2. \A a, b \in Mark : MergeMark(a, b) = "tainted" <=> a = "tainted" \/ b = "tainted"
  BY DEF MergeMark, Mark
<1>3. (\A p \in DOMAIN t : t[p] \in Mark) /\ (\A p \in DOMAIN s : s[p] \in Mark) /\ "none" \in Mark
  BY CellParts DEF Mark
<1>4. ASSUME NEW p \in DOMAIN t \cup DOMAIN s
      PROVE  Merge(t, s)[p] = "tainted" <=>
                \/ p \in DOMAIN t /\ t[p] = "tainted"
                \/ p \in DOMAIN s /\ s[p] = "tainted"
  <2>1. CASE p \notin DOMAIN s
    BY <2>1 DEF Merge
  <2>2. CASE p \in DOMAIN t /\ p \in DOMAIN s
    <3>1. Merge(t, s)[p] = MergeMark(t[p], s[p])
      BY <2>2 DEF Merge
    <3> QED BY <1>2, <1>3, <2>2, <3>1
  <2>3. CASE p \notin DOMAIN t /\ p \in DOMAIN s
    <3>1. Merge(t, s)[p] = MergeMark("none", s[p]) \/ Merge(t, s)[p] = s[p]
      BY <2>3 DEF Merge
    <3> QED BY <1>2, <1>3, <2>3, <3>1
  <2> QED BY <2>1, <2>2, <2>3
<1> QED BY <1>1, <1>4

\* The two invariants Cell's comment says canonicalize enforces: an entry without a
\* mark leads to one with a mark, and nothing lies below a clean entry.
THEOREM CanonicalForm ==
  ASSUME NEW c, IsCell(c), NEW p \in DOMAIN Canonicalize(c)
  PROVE  /\ IsCell(Canonicalize(c))
         /\ Canonicalize(c)[p] = "none" =>
              \E q \in Below(Canonicalize(c), p) : Canonicalize(c)[q] # "none"
         /\ Canonicalize(c)[p] = "clean" => Below(Canonicalize(c), p) = {}
<1> DEFINE k == Canonicalize(c)
<1>1. /\ DOMAIN k = Informative(c) /\ \A y \in DOMAIN k : k[y] = c[y]
      /\ Informative(c) \subseteq Shown(c) /\ Shown(c) \subseteq DOMAIN c /\ DOMAIN c \subseteq Path
  BY CellParts DEF Canonicalize, Informative, Shown
<1>2. IsCell(k) /\ p \in DOMAIN k
  BY <1>1, CanonicalCell
<1> HIDE DEF k
<1>3. p \in Path /\ Below(k, p) = {q \in DOMAIN k : p \in Prefixes(q) /\ q # p}
  BY <1>1, <1>2, BelowIs
<1>4. ASSUME k[p] = "none" PROVE \E q \in Below(k, p) : k[q] # "none"
  <2>1. PICK z \in Shown(c) : IsPrefix(p, z) /\ c[z] # "none"
    BY <1>1, <1>2 DEF Informative
  <2>2. IsPrefix(z, z) /\ p \in Prefixes(z)
    BY <1>1, <1>3, <2>1, PathPrefixes
  <2>3. z \in DOMAIN k /\ k[z] # "none"
    BY <1>1, <2>1, <2>2 DEF Informative
  <2> QED BY <1>3, <1>4, <2>2, <2>3
<1>5. ASSUME k[p] = "clean", NEW q \in Below(k, p) PROVE FALSE
  <2>1. q \in Shown(c) /\ p \in Prefixes(q) \ {q}
    BY <1>1, <1>3
  <2> QED BY <1>1, <1>2, <1>5, <2>1 DEF Shown
<1> QED BY <1>2, <1>4, <1>5 DEF k

\* canonicalize, done once, has nothing left to do: its comment says so, and a test
\* checks it on one shape.
THEOREM CanonicalizingOnceIsEnough ==
  ASSUME NEW c, IsCell(c)
  PROVE  Canonicalize(Canonicalize(c)) = Canonicalize(c)
<1> DEFINE D == Informative(c)
           k == Canonicalize(c)
<1>1. DOMAIN k = D /\ k = [q \in D |-> c[q]]
  BY DEF Canonicalize
<1>2. D \subseteq Shown(c) /\ Shown(c) \subseteq DOMAIN c /\ DOMAIN c \subseteq Path
  BY CellParts DEF Informative, Shown
<1>3. \A q \in D : Prefixes(q) \subseteq D
  <2>1. TAKE q \in D
  <2>2. IsCell(k)
    BY CanonicalCell
  <2> QED BY <1>1, <2>2, CellParts
<1>4. \A q \in D : k[q] = c[q]
  BY <1>1
<1> HIDE DEF k
<1>5. Shown(k) = D
  <2>1. \A q \in D : \A y \in Prefixes(q) \ {q} : k[y] # "clean"
    BY <1>2, <1>3, <1>4 DEF Shown
  <2> QED BY <1>1, <2>1 DEF Shown
<1>6. ASSUME NEW q \in D PROVE q \in Informative(k)
  <2>1. PICK z \in Shown(c) : IsPrefix(q, z) /\ c[z] # "none"
    BY DEF Informative
  <2>2. IsPrefix(z, z)
    BY <1>2, PathPrefixes
  <2>3. z \in D
    BY <2>1, <2>2 DEF Informative
  <2> QED BY <1>4, <1>5, <2>1, <2>3 DEF Informative
<1>7. Informative(k) = D
  BY <1>5, <1>6 DEF Informative
<1>8. Canonicalize(k) = [q \in D |-> k[q]]
  BY <1>7 DEF Canonicalize
<1> HIDE DEF D
<1>9. Canonicalize(k) = k
  BY <1>1, <1>4, <1>8
<1> QED BY <1>9 DEF k

\* And it loses no taint but behind a clean entry: a path that reads tainted, with
\* no clean entry on the way to it or below it, reads tainted in what is left.
THEOREM CanonicalizingKeepsTaint ==
  ASSUME NEW c, IsCell(c), NEW q \in Path, TaintedAt(c, q),
         \A y \in (Prefixes(q) \cap DOMAIN c) \cup Below(c, q) : c[y] # "clean"
  PROVE  IsCell(Canonicalize(c)) /\ TaintedAt(Canonicalize(c), q)
<1> DEFINE k == Canonicalize(c)
<1>1. /\ DOMAIN c \subseteq Path /\ \A y \in DOMAIN c : Prefixes(y) \subseteq DOMAIN c
      /\ DOMAIN k = Informative(c) /\ \A y \in DOMAIN k : k[y] = c[y]
      /\ Informative(c) \subseteq DOMAIN c
  BY CellParts DEF Canonicalize, Informative, Shown
<1>2. \A y \in Shown(c) : c[y] # "none" => y \in Informative(c)
  <2>1. TAKE y \in Shown(c)
  <2>2. IsPrefix(y, y)
    BY <1>1, PathPrefixes DEF Shown
  <2> QED BY <2>2 DEF Informative
<1>3. Informative(c) # {} => IsCell(k)
  BY CanonicalCell
<1> HIDE DEF k
<1>4. CASE MarkAt(c, q) = "tainted"
  <2> DEFINE n == Nearest(c, q)
  <2>1. n \in Prefixes(q) \cap DOMAIN c /\ \A y \in Prefixes(q) \cap DOMAIN c : y \in Prefixes(n)
    BY NearestIs
  <2>2. c[n] = "tainted"
    BY <1>4 DEF MarkAt
  <2> HIDE DEF n
  <2>3. n \in Shown(c)
    <3>1. \A y \in Prefixes(n) : y \in Prefixes(q) \cap DOMAIN c
      BY <1>1, <2>1, PathPrefixes
    <3> QED BY <2>1, <3>1 DEF Shown
  <2>4. n \in DOMAIN k /\ k[n] = "tainted" /\ IsCell(k)
    BY <1>1, <1>2, <1>3, <2>2, <2>3
  <2>5. \A y \in Prefixes(q) \cap DOMAIN k : y \in Prefixes(n)
    BY <1>1, <2>1
  <2>6. MarkAt(k, q) = "tainted"
    BY <2>1, <2>4, <2>5, NearestUnique
  <2> QED BY <2>4, <2>6 DEF TaintedAt, k
<1>5. CASE q \in DOMAIN c /\ c[q] = "none" /\ \E z \in Below(c, q) : c[z] = "tainted"
  <2>1. PICK z \in Below(c, q) : c[z] = "tainted"
    BY <1>5
  <2>2. z \in DOMAIN c /\ q \in Prefixes(z) /\ z # q /\ z \in Path
    BY <1>1, BelowIs
  <2>3. q \in Shown(c)
    BY <1>1, <1>5 DEF Shown
  <2>4. z \in Shown(c)
    <3>1. ASSUME NEW y \in Prefixes(z) \ {z} PROVE c[y] # "clean"
      <4>1. y \in DOMAIN c
        BY <1>1, <2>2
      <4>2. y \in Prefixes(q) \/ (q \in Prefixes(y) /\ y # q)
        BY <2>2, <3>1, PrefixOrder, PathPrefixes
      <4> QED BY <4>1, <4>2, BelowIs
    <3> QED BY <2>2, <3>1 DEF Shown
  <2>5. z \in Informative(c) /\ q \in Informative(c)
    <3>1. IsPrefix(q, z)
      BY <2>2, PathPrefixes
    <3> QED BY <1>2, <2>1, <2>3, <2>4, <3>1 DEF Informative
  <2>6. IsCell(k) /\ q \in DOMAIN k /\ z \in DOMAIN k /\ k[q] = "none" /\ k[z] = "tainted"
    BY <1>1, <1>3, <1>5, <2>1, <2>5
  <2>7. z \in Below(k, q)
    BY <2>2, <2>6, BelowIs
  <2> QED BY <2>6, <2>7 DEF TaintedAt, k
<1> QED BY <1>4, <1>5 DEF TaintedAt

\* A tainted entry has a topmost one on the way to it, or is one.
LEMMA TopmostAbove ==
  ASSUME NEW c, IsCell(c), NEW z \in DOMAIN c, c[z] = "tainted"
  PROVE  \E t \in Topmost(c) : t \in Prefixes(z)
<1> DEFINE E == {y \in Prefixes(z) : c[y] = "tainted"}
           Long == {Len(y) : y \in E}
<1>1. /\ z \in Path /\ Prefixes(z) \subseteq DOMAIN c /\ z \in E
      /\ \A y \in Prefixes(z) : y \in Path /\ Len(y) \in Nat /\ IsPrefix(y, z)
  BY CellParts, PathPrefixes DEF Path
<1>2. PICK l \in Long : \A n \in Long : ~ (<<n, l>> \in OpToRel(<, Nat))
  <2>1. Long \subseteq Nat /\ Long # {}
    BY <1>1
  <2> QED BY <2>1, NatLessThanWellFounded, WFMin
<1>3. PICK t \in E : l = Len(t)
  BY <1>2
<1>4. \A y \in E : ~ (Len(y) < Len(t))
  <2>1. \A y \in E : Len(y) \in Long /\ Len(y) \in Nat
    BY <1>1
  <2> QED BY <1>2, <1>3, <2>1 DEF OpToRel
<1>5. ASSUME NEW q \in Prefixes(t) \ {t} PROVE c[q] # "tainted"
  <2>1. q \in Prefixes(z) /\ t \in Prefixes(z)
    BY <1>1, <1>3, PathPrefixes
  <2>2. Len(q) < Len(t)
    <3>1. ~(Len(q) >= Len(t))
      BY <1>1, <1>5, <2>1, PrefixOrder
    <3> QED BY <1>1, <2>1, <3>1
  <2> QED BY <1>4, <2>1, <2>2
<1> QED BY <1>1, <1>3, <1>5 DEF Topmost

\* instantiate_tainted, any depth: at each topmost tainted entry of the return
\* shape the result reads as what is put there does, which is the caller's cell
\* when nothing lies below the entry, and no other path reads tainted.
THEOREM InstantiatingReads ==
  ASSUME NEW c, NEW r, IsCell(c), IsCell(r)
  PROVE  /\ \A p \in Topmost(c), x \in Path :
              TaintedAt(Instantiate(c, r), p \o x) <=> TaintedAt(Substituted(c, p, r), x)
         /\ \A p \in Topmost(c) : Below(c, p) = {} => Substituted(c, p, r) = r
         /\ \A q \in Path :
              TaintedAt(Instantiate(c, r), q) =>
                \E p \in Topmost(c) : p \in Prefixes(q) \/ q \in Prefixes(p)
<1> DEFINE n == Instantiate(c, r)
           T == Topmost(c)
<1>1. /\ IsCell(n)
      /\ \A p \in T, x \in Path :
           /\ p \o x \in DOMAIN n <=> x \in DOMAIN Substituted(c, p, r)
           /\ x \in DOMAIN Substituted(c, p, r) => n[p \o x] = Substituted(c, p, r)[x]
      /\ \A q \in DOMAIN n : (q \in Kept(c) /\ n[q] = c[q]) \/ (\E p \in T : p \in Prefixes(q))
  BY InstantiateCell
<1>2. T \subseteq DOMAIN c /\ DOMAIN c \subseteq Path /\ Kept(c) \subseteq DOMAIN c
  BY CellParts DEF Topmost, Kept
<1> HIDE DEF n
<1>3. ASSUME NEW p \in T, NEW x \in Path
      PROVE  TaintedAt(n, p \o x) <=> TaintedAt(Substituted(c, p, r), x)
  <2> DEFINE s == Substituted(c, p, r)
             d == Project(n, p)
  <2>1. p \in Path /\ IsCell(s)
    BY <1>2, SubstitutedCell
  <2>2. p \in DOMAIN n
    <3>1. <<>> \in DOMAIN s /\ <<>> \in Path /\ p \o <<>> = p
      BY <2>1, CellParts, PathPrefixes, ConcatEmptySeq DEF Path
    <3> QED BY <1>1, <3>1
  <2>3. IsCell(n)
    BY <1>1
  <2>4. /\ IsCell(d) /\ DOMAIN d = {y \in Path : p \o y \in DOMAIN n}
        /\ \A y \in DOMAIN d : d[y] = n[p \o y]
    BY <2>2, <2>3, ProjectCell
  <2>5. DOMAIN s \subseteq Path /\ s \in [DOMAIN s -> Mark] /\ d \in [DOMAIN d -> Mark]
    BY <2>1, <2>4, CellParts
  <2>6. DOMAIN d = DOMAIN s /\ \A y \in DOMAIN d : d[y] = s[y]
    BY <1>1, <2>4, <2>5
  <2> HIDE DEF s, d
  <2>7. d = s
    BY <2>5, <2>6
  <2> QED BY <1>1, <2>1, <2>7, ProjectingReadsThrough DEF s, d
<1>4. \A p \in T : Below(c, p) = {} => Substituted(c, p, r) = r
  BY DEF Substituted
<1>5. ASSUME NEW q \in Path, NEW z \in DOMAIN n, n[z] = "tainted", q \in Prefixes(z) \/ z \in Prefixes(q)
      PROVE  \E p \in T : p \in Prefixes(q) \/ q \in Prefixes(p)
  <2>1. z \in Path
    BY <1>1, CellParts
  <2>2. PICK p \in T : p \in Prefixes(z)
    <3>1. CASE z \in Kept(c) /\ n[z] = c[z]
      BY <1>2, <1>5, <3>1, TopmostAbove
    <3> QED BY <1>1, <3>1
  <2>3. CASE z \in Prefixes(q)
    BY <2>2, <2>3, PathPrefixes
  <2>4. CASE q \in Prefixes(z)
    BY <2>1, <2>2, <2>4, PrefixOrder
  <2> QED BY <1>5, <2>3, <2>4
<1>6. ASSUME NEW q \in Path, TaintedAt(n, q) PROVE \E p \in T : p \in Prefixes(q) \/ q \in Prefixes(p)
  <2>1. CASE MarkAt(n, q) = "tainted"
    <3>1. Nearest(n, q) \in Prefixes(q) \cap DOMAIN n /\ n[Nearest(n, q)] = "tainted"
      BY <1>1, <2>1, NearestIs DEF MarkAt
    <3> QED BY <1>5, <3>1
  <2>2. CASE \E z \in Below(n, q) : n[z] = "tainted"
    <3>1. PICK z \in Below(n, q) : n[z] = "tainted"
      BY <2>2
    <3>2. z \in DOMAIN n /\ q \in Prefixes(z)
      BY <1>1, BelowIs
    <3> QED BY <1>5, <3>1, <3>2
  <2> QED BY <1>6, <2>1, <2>2 DEF TaintedAt
<1> QED BY <1>3, <1>4, <1>6 DEF n
=============================================================================
