--------------------------- MODULE FlowVisitorProofs ------------------------
(***************************************************************************)
(* Proofs about FlowVisitor: away from the named losses the walk reads     *)
(* tainted whatever the run has request data in and misses no database     *)
(* write it reaches; where nothing is blurred it reads no more than that.  *)
(* For every set of variables, fields and helpers, any nesting and any     *)
(* number of statements.                                                   *)
(***************************************************************************)
EXTENDS FlowVisitor, TaintCellsProofs

ScopeCell == {c \in FlatCell : c[<<>>] # "clean" /\ c # Bot}
MaybeCell == ScopeCell \cup {NoCell}
Scopes == [Vars -> MaybeCell]

Guard == [kind : Guards, var : Vars]
IfFrame ==
  [kind : {"then", "else"}, guard : Guard, entry : Scopes, consequent : Scopes,
   consequentReturns : BOOLEAN, returned : BOOLEAN, written : SUBSET Vars, taken : BOOLEAN,
   wasLive : BOOLEAN, resumes : BOOLEAN, proven : SUBSET Vars]
BlockFrame ==
  [kind : {"block"}, entry : Scopes, returned : BOOLEAN, written : SUBSET Vars,
   taken : BOOLEAN, wasLive : BOOLEAN]
Frame == IfFrame \cup BlockFrame

\* Every field with request data d reads tainted in scope s.
Covers(d, s) == \A v \in Vars : d[v] \subseteq Seen(s[v])

\* The run may be in the part of f that the visitor walks.
Entered(f) == f.wasLive /\ IF f.kind = "else" THEN ~f.taken ELSE f.taken

(***************************************************************************)
(* What the open statements fs keep for their joins, when the run holds    *)
(* data d.  Where the run passes the walked part by, nothing changes the   *)
(* data, so what was true of it at the fork is true at the join; in an     *)
(* else the run takes, the variables the test proved valid are so until    *)
(* they are written.                                                       *)
(***************************************************************************)
SkippedPart(f, d) ==
  f.kind # "else" /\ f.wasLive /\ ~f.taken =>
    Covers(d, f.entry) /\ (f.kind = "then" => \A v \in f.proven : d[v] = {})
Resuming(f, d) ==
  f.kind = "else" /\ f.resumes =>
    f.wasLive /\ f.taken /\ ~f.consequentReturns /\ Covers(d, f.consequent)
StillProven(fs, i, d) ==
  fs[i].kind = "else" /\ fs[i].wasLive /\ ~fs[i].taken =>
    \A v \in fs[i].proven : d[v] = {} \/ \E j \in i..Len(fs) : v \in fs[j].written

Nested(fs, on) ==
  /\ on => \A i \in 1..Len(fs) : Entered(fs[i])
  /\ \A i, j \in 1..Len(fs) : i < j /\ fs[j].wasLive => Entered(fs[i])
  /\ \A i \in 1..Len(fs) : fs[i].returned => ~on /\ i = Len(fs)
JoinReady(fs, d) ==
  \A i \in 1..Len(fs) : SkippedPart(fs[i], d) /\ Resuming(fs[i], d) /\ StillProven(fs, i, d)

FlowType ==
  /\ scope \in Scopes /\ val \in [Vars -> SUBSET Fields]
  /\ frames \in Seq(Frame) /\ live \in BOOLEAN /\ declared \subseteq Vars
FlowInv ==
  Sound => /\ FlowType /\ Nested(frames, live) /\ JoinReady(frames, val)
           /\ live => Covers(val, scope)

-----------------------------------------------------------------------------
LEMMA ScopeCells ==
  /\ TaintedCell \in ScopeCell /\ Seen(TaintedCell) = Fields
  /\ Seen(NoCell) = {} /\ NoCell \in MaybeCell /\ TaintedCell \in MaybeCell
  /\ \A c \in ScopeCell : c # NoCell /\ c \in FlatCell
<1>1. /\ TaintedCell \in FlatCell /\ TaintedCell[<<>>] = "tainted"
      /\ \A x \in Offsets : TaintedAt(TaintedCell, <<x>>)
  BY WholeCell DEF TaintedCell, Mark
<1>2. \A c \in ScopeCell : c # NoCell /\ c \in FlatCell
  <2>1. DOMAIN NoCell = {}
    BY DEF NoCell
  <2>2. \A c \in FlatCell : <<>> \in DOMAIN c
    BY FlatCellType
  <2> QED  BY <2>1, <2>2 DEF ScopeCell
<1>3. TaintedCell \in ScopeCell
  <2>1. "tainted" # "clean" /\ TaintedCell # Bot
    BY <1>1, WholeCell DEF Bot, Mark
  <2> QED  BY <1>1, <2>1 DEF ScopeCell
<1>4. Seen(TaintedCell) = Fields
  BY <1>1, <1>2, <1>3 DEF Seen, Fields
<1> QED  BY <1>2, <1>3, <1>4 DEF Seen, MaybeCell

\* An expression that reads clean carries no request data.
LEMMA ExprCovered ==
  ASSUME FlowType, NEW e \in Exprs
  PROVE  /\ Value(e) \subseteq Fields
         /\ Covers(val, scope) /\ ~ExprTaint(e) => Value(e) = {}
<1>1. CASE e.kind = "source"
  <2>1. ExprTaint(e)
    BY <1>1 DEF ExprTaint
  <2>2. Value(e) = Fields
    BY <1>1 DEF Value, IsVar
  <2> QED  BY <2>1, <2>2
<1>2. CASE e.kind = "literal"
  BY <1>2 DEF Value, IsVar
<1>3. CASE e.kind = "chain"
  <2>1. e.root \in Vars /\ e.path \in {<<>>} \cup {<<x>> : x \in Fields}
    BY <1>3 DEF Exprs, Expr, Source, Literal
  <2>2. val[e.root] \subseteq Fields /\ (Covers(val, scope) => val[e.root] \subseteq Seen(scope[e.root]))
    BY <2>1 DEF FlowType, Covers
  <2>3. CASE e.path = <<>>
    <3>1. Value(e) = val[e.root]
      BY <1>3, <2>3 DEF Value, IsVar
    <3>2. ~ExprTaint(e) => scope[e.root] = NoCell
      BY <1>3, <2>3 DEF ExprTaint, IsTainted
    <3> QED  BY <2>2, <3>1, <3>2, ScopeCells
  <2>4. CASE e.path # <<>>
    <3>1. PICK x \in Fields : e.path = <<x>>
      BY <2>1, <2>4
    <3>2. Value(e) = IF x \in val[e.root] THEN Fields ELSE {}
      BY <1>3, <2>4, <3>1 DEF Value, IsVar
    <3>3. ~ExprTaint(e) => x \notin Seen(scope[e.root])
      BY <1>3, <2>4, <3>1 DEF ExprTaint, IsTainted, Seen
    <3> QED  BY <2>2, <3>2, <3>3
  <2> QED  BY <2>3, <2>4
<1> QED  BY <1>1, <1>2, <1>3 DEF Exprs, Expr, Source, Literal

-----------------------------------------------------------------------------
LEMMA FrameParts ==
  ASSUME NEW f \in Frame
  PROVE  /\ f.entry \in Scopes /\ f.written \subseteq Vars
         /\ f.kind \in {"then", "else", "block"}
         /\ {f.returned, f.taken, f.wasLive} \subseteq BOOLEAN
         /\ f.kind # "block" =>
              /\ f.proven \subseteq Vars /\ f.consequent \in Scopes /\ f.guard \in Guard
              /\ {f.consequentReturns, f.resumes} \subseteq BOOLEAN
<1>1. CASE f \in IfFrame
  BY <1>1 DEF IfFrame
<1>2. CASE f \in BlockFrame
  BY <1>2 DEF BlockFrame
<1> QED  BY <1>1, <1>2 DEF Frame

\* A statement that clears data, and may end the run here, keeps all of that.
LEMMA ClearingKeeps ==
  ASSUME NEW fs \in Seq(Frame), NEW on, NEW d \in [Vars -> SUBSET Fields],
         NEW to, NEW e \in [Vars -> SUBSET Fields],
         Nested(fs, on), JoinReady(fs, d), to => on, \A v \in Vars : e[v] \subseteq d[v]
  PROVE  Nested(fs, to) /\ JoinReady(fs, e)
<1>1. Nested(fs, to)
  BY DEF Nested
<1>2. \A s : Covers(d, s) => Covers(e, s)
  BY DEF Covers
<1>3. \A i \in 1..Len(fs) : fs[i] \in Frame
  BY ElementOfSeq
<1>4. \A f \in Frame : f.kind \in {"then", "else"} => f.proven \subseteq Vars
  BY DEF Frame, IfFrame, BlockFrame
<1>5. ASSUME NEW i \in 1..Len(fs)
      PROVE  SkippedPart(fs[i], e) /\ Resuming(fs[i], e) /\ StillProven(fs, i, e)
  <2>1. SkippedPart(fs[i], d) /\ Resuming(fs[i], d) /\ StillProven(fs, i, d)
    BY DEF JoinReady
  <2>2. fs[i].kind \in {"then", "else"} => \A v \in fs[i].proven : d[v] = {} => e[v] = {}
    BY <1>3, <1>4
  <2>3. SkippedPart(fs[i], e)
    BY <1>2, <2>1, <2>2 DEF SkippedPart
  <2>4. Resuming(fs[i], e)
    BY <1>2, <2>1 DEF Resuming
  <2>5. StillProven(fs, i, e)
    BY <2>1, <2>2 DEF StillProven
  <2> QED  BY <2>3, <2>4, <2>5
<1> QED  BY <1>1, <1>5 DEF JoinReady

\* Frame f, and the innermost frame of fs, with the variables W also written.
Wrote(f, W) == [f EXCEPT !.written = @ \cup W]
Noted(fs, W) == [fs EXCEPT ![Len(fs)].written = @ \cup W]

LEMMA WroteFrame ==
  ASSUME NEW f \in Frame, NEW W \in SUBSET Vars
  PROVE  /\ Wrote(f, W) \in Frame /\ Wrote(f, W).written = f.written \cup W
         /\ Wrote(f, W).kind = f.kind /\ Wrote(f, W).wasLive = f.wasLive
         /\ Wrote(f, W).taken = f.taken /\ Wrote(f, W).entry = f.entry
         /\ Wrote(f, W).returned = f.returned
         /\ f.kind # "block" =>
              /\ Wrote(f, W).proven = f.proven /\ Wrote(f, W).resumes = f.resumes
              /\ Wrote(f, W).consequent = f.consequent
              /\ Wrote(f, W).consequentReturns = f.consequentReturns
<1>1. CASE f \in IfFrame
  BY <1>1 DEF Frame, IfFrame, Wrote
<1>2. CASE f \in BlockFrame
  BY <1>2 DEF Frame, BlockFrame, Wrote
<1> QED  BY <1>1, <1>2 DEF Frame

LEMMA NotedFrames ==
  ASSUME NEW fs \in Seq(Frame), fs # <<>>, NEW W \in SUBSET Vars
  PROVE  /\ Len(fs) \in 1..Len(fs) /\ fs[Len(fs)] \in Frame
         /\ Noted(fs, W) \in Seq(Frame) /\ Len(Noted(fs, W)) = Len(fs)
         /\ \A i \in 1..Len(fs) :
              Noted(fs, W)[i] = IF i = Len(fs) THEN Wrote(fs[i], W) ELSE fs[i]
<1>1. Len(fs) \in 1..Len(fs)
  BY EmptySeq
<1>2. fs[Len(fs)] \in Frame
  BY <1>1, ElementOfSeq
<1> DEFINE f == Wrote(fs[Len(fs)], W)
<1>3. f \in Frame
  BY <1>2, WroteFrame
<1>4. Noted(fs, W) = [fs EXCEPT ![Len(fs)] = f]
  BY DEF Noted, Wrote
<1> HIDE DEF f
<1>5. /\ [fs EXCEPT ![Len(fs)] = f] \in Seq(Frame)
      /\ Len([fs EXCEPT ![Len(fs)] = f]) = Len(fs)
      /\ \A i \in 1..Len(fs) : [fs EXCEPT ![Len(fs)] = f][i] = IF i = Len(fs) THEN f ELSE fs[i]
  BY <1>1, <1>3, ExceptSeq
<1> QED  BY <1>1, <1>2, <1>4, <1>5 DEF f

\* What frames keep does not depend on what was written in the innermost one,
\* but for the variables that are no longer known to be valid.
LEMMA NotedKeeps ==
  ASSUME NEW fs \in Seq(Frame), fs # <<>>, NEW W \in SUBSET Vars, NEW on
  PROVE  /\ Nested(fs, on) => Nested(Noted(fs, W), on)
         /\ \A i \in 1..Len(fs) : \A d :
              /\ SkippedPart(fs[i], d) => SkippedPart(Noted(fs, W)[i], d)
              /\ Resuming(fs[i], d) => Resuming(Noted(fs, W)[i], d)
<1> DEFINE gs == Noted(fs, W)
<1>1. Len(gs) = Len(fs) /\ \A i \in 1..Len(fs) : fs[i] \in Frame
  BY NotedFrames, ElementOfSeq
<1>2. \A i \in 1..Len(fs) :
        /\ gs[i].kind = fs[i].kind /\ gs[i].wasLive = fs[i].wasLive
        /\ gs[i].taken = fs[i].taken /\ gs[i].entry = fs[i].entry
        /\ gs[i].returned = fs[i].returned
  BY <1>1, NotedFrames, WroteFrame
<1>3. \A i \in 1..Len(fs) : fs[i].kind # "block" =>
        /\ gs[i].proven = fs[i].proven /\ gs[i].resumes = fs[i].resumes
        /\ gs[i].consequent = fs[i].consequent
        /\ gs[i].consequentReturns = fs[i].consequentReturns
  BY <1>1, NotedFrames, WroteFrame
<1> HIDE DEF gs
<1>4. \A i \in 1..Len(fs) : Entered(fs[i]) = Entered(gs[i])
  BY <1>2 DEF Entered
<1>5. Nested(fs, on) => Nested(gs, on)
  BY <1>1, <1>2, <1>4 DEF Nested
<1>6. ASSUME NEW i \in 1..Len(fs), NEW d
      PROVE  /\ SkippedPart(fs[i], d) => SkippedPart(gs[i], d)
             /\ Resuming(fs[i], d) => Resuming(gs[i], d)
  BY <1>2, <1>3 DEF SkippedPart, Resuming
<1> QED  BY <1>5, <1>6 DEF gs

\* v = e inside frames: if the run is here, every open else it takes now has v
\* among the variables written in it.
LEMMA AssignKeeps ==
  ASSUME NEW fs \in Seq(Frame), fs # <<>>, NEW v \in Vars, NEW on, NEW d, NEW e,
         Nested(fs, on), JoinReady(fs, d),
         on \/ e = d, \A w \in Vars \ {v} : e[w] = d[w]
  PROVE  Nested(Noted(fs, {v}), on) /\ JoinReady(Noted(fs, {v}), e)
<1> DEFINE gs == Noted(fs, {v})
<1>1. /\ Len(gs) = Len(fs) /\ Len(fs) \in 1..Len(fs) /\ \A i \in 1..Len(fs) : fs[i] \in Frame
      /\ \A i \in 1..Len(fs) : gs[i] = IF i = Len(fs) THEN Wrote(fs[i], {v}) ELSE fs[i]
  BY NotedFrames, ElementOfSeq
<1>2. Nested(gs, on) /\ \A i \in 1..Len(fs) : \A c :
        /\ SkippedPart(fs[i], c) => SkippedPart(gs[i], c)
        /\ Resuming(fs[i], c) => Resuming(gs[i], c)
  BY NotedKeeps
<1>3. ASSUME NEW i \in 1..Len(fs)
      PROVE  SkippedPart(gs[i], e) /\ Resuming(gs[i], e)
  <2>1. SkippedPart(fs[i], d) /\ Resuming(fs[i], d)
    BY DEF JoinReady
  <2>2. CASE e = d
    BY <1>2, <2>1, <2>2
  <2>3. CASE on
    <3>1. Entered(fs[i])
      BY <2>3 DEF Nested
    <3>2. SkippedPart(fs[i], e) /\ Resuming(fs[i], e)
      BY <2>1, <3>1 DEF Entered, SkippedPart, Resuming
    <3> QED  BY <1>2, <3>2
  <2> QED  BY <2>2, <2>3
<1>4. ASSUME NEW i \in 1..Len(fs)
      PROVE  /\ fs[i].written \subseteq gs[i].written /\ (i = Len(fs) => v \in gs[i].written)
             /\ gs[i].kind = fs[i].kind /\ gs[i].wasLive = fs[i].wasLive
             /\ gs[i].taken = fs[i].taken
             /\ gs[i].kind = "else" => gs[i].proven = fs[i].proven /\ fs[i].proven \subseteq Vars
  <2>1. fs[i].kind = "else" => fs[i].proven \subseteq Vars
    BY <1>1, FrameParts
  <2>2. "else" # "block" /\ {v} \in SUBSET Vars
    OBVIOUS
  <2>3. CASE i = Len(fs)
    <3>1. gs[i] = Wrote(fs[i], {v}) /\ fs[i] \in Frame
      BY <1>1, <2>3
    <3> HIDE DEF gs
    <3> QED  BY <2>1, <2>2, <3>1, WroteFrame
  <2>4. CASE i # Len(fs)
    <3>1. gs[i] = fs[i]
      BY <1>1, <2>4
    <3> QED  BY <2>1, <2>4, <3>1
  <2> QED  BY <2>3, <2>4
<1> HIDE DEF gs
<1>5. ASSUME NEW i \in 1..Len(fs)
      PROVE  StillProven(gs, i, e)
  <2>1. SUFFICES ASSUME gs[i].kind = "else", gs[i].wasLive, ~gs[i].taken,
                        NEW w \in gs[i].proven
                 PROVE  e[w] = {} \/ \E j \in i..Len(gs) : w \in gs[j].written
    BY DEF StillProven
  <2>2. w \in fs[i].proven /\ w \in Vars
    BY <1>4, <2>1
  <2>3. d[w] = {} \/ \E j \in i..Len(fs) : w \in fs[j].written
    BY <1>4, <2>1, <2>2 DEF JoinReady, StillProven
  <2>4. CASE w = v
    BY <1>1, <1>4, <2>4
  <2>5. CASE w # v /\ d[w] = {}
    BY <2>2, <2>5
  <2>6. ASSUME NEW j \in i..Len(fs), w \in fs[j].written  PROVE w \in gs[j].written
    BY <1>1, <1>4, <2>6
  <2> QED  BY <1>1, <2>3, <2>4, <2>5, <2>6
<1>6. JoinReady(gs, e)
  BY <1>1, <1>3, <1>5 DEF JoinReady
<1> QED  BY <1>2, <1>6 DEF gs

-----------------------------------------------------------------------------
\* The frames once the innermost statement is closed.
Closed(fs) == LET rest == Front(fs)
              IN  IF rest = <<>> THEN rest ELSE Noted(rest, Last(fs).written)

\* The innermost frame, and those around it.
LEMMA FrontLast ==
  ASSUME NEW S, NEW fs \in Seq(S), fs # <<>>
  PROVE  /\ Len(fs) \in 1..Len(fs) /\ Last(fs) = fs[Len(fs)] /\ Last(fs) \in S
         /\ Front(fs) \in Seq(S) /\ Len(Front(fs)) = Len(fs) - 1
         /\ \A i \in 1..Len(fs) - 1 : Front(fs)[i] = fs[i]
<1>1. Len(fs) \in Nat \ {0} /\ Len(fs) \in 1..Len(fs)
  BY EmptySeq
<1>2. \A i \in 1..Len(fs) : fs[i] \in S
  BY ElementOfSeq
<1>3. \A i \in 1..Len(fs) - 1 : fs[i] \in S
  BY <1>1, <1>2
<1> DEFINE n == Len(fs) - 1
<1>4. n \in Nat /\ 1 \in Int /\ n \in Int
  BY <1>1
<1> HIDE DEF n
<1>5. /\ SubSeq(fs, 1, n) \in Seq(S)
      /\ Len(SubSeq(fs, 1, n)) = (IF 1 <= n THEN n - 1 + 1 ELSE 0)
      /\ \A i \in 1..(n - 1 + 1) : SubSeq(fs, 1, n)[i] = fs[1 + i - 1]
  <2>1. \A i \in 1..n : fs[i] \in S
    BY <1>3 DEF n
  <2> QED  BY <1>4, <2>1, SubSeqProperties
<1>6. Len(SubSeq(fs, 1, n)) = n /\ \A i \in 1..n : SubSeq(fs, 1, n)[i] = fs[i]
  BY <1>4, <1>5
<1> QED  BY <1>1, <1>2, <1>5, <1>6 DEF Front, Last, n


\* Closing the innermost frame: what was written in it counts for the one around.
LEMMA ClosingKeeps ==
  ASSUME NEW fs \in Seq(Frame), fs # <<>>, NEW on, NEW to, NEW d,
         Nested(fs, on), JoinReady(fs, d), to => on \/ Last(fs).wasLive
  PROVE  Closed(fs) \in Seq(Frame) /\ Nested(Closed(fs), to) /\ JoinReady(Closed(fs), d)
<1> DEFINE rest == Front(fs)
           W == Last(fs).written
           n == Len(fs) - 1
<1>1. /\ Len(fs) \in 1..Len(fs) /\ Last(fs) = fs[Len(fs)] /\ W \in SUBSET Vars
      /\ rest \in Seq(Frame) /\ Len(rest) = n /\ \A i \in 1..n : rest[i] = fs[i]
  BY FrontLast, FrameParts
<1>2. n \in Nat /\ Len(fs) = n + 1 /\ 1..n \subseteq 1..Len(fs) /\ \A i \in 1..n : i < Len(fs)
  BY <1>1
<1>3. Closed(fs) = IF rest = <<>> THEN <<>> ELSE Noted(rest, W)
  BY DEF Closed
<1> HIDE DEF rest, W, n
<1>4. Nested(rest, to)
  <2>1. \A i \in 1..n : (to => Entered(rest[i])) /\ ~rest[i].returned
    BY <1>1, <1>2 DEF Nested
  <2>2. \A i, j \in 1..n : i < j /\ rest[j].wasLive => Entered(rest[i])
    BY <1>1, <1>2 DEF Nested
  <2> QED  BY <1>1, <2>1, <2>2 DEF Nested
<1>5. CASE rest = <<>>
  <2>1. 1..Len(<<>>) = {}
    OBVIOUS
  <2> QED  BY <1>3, <1>5, <2>1, EmptySeq DEF Nested, JoinReady
<1>6. CASE rest # <<>>
  <2> DEFINE gs == Noted(rest, W)
  <2>1. /\ gs \in Seq(Frame) /\ Len(gs) = n /\ n \in 1..n
        /\ \A i \in 1..n : gs[i] = IF i = n THEN Wrote(rest[i], W) ELSE rest[i]
    BY <1>1, <1>6, NotedFrames
  <2>2. Nested(gs, to)
    BY <1>1, <1>4, <1>6, NotedKeeps
  <2>3. \A i \in 1..n : SkippedPart(fs[i], d) /\ Resuming(fs[i], d) /\ StillProven(fs, i, d)
    BY <1>2 DEF JoinReady
  <2>4. \A i \in 1..n : SkippedPart(gs[i], d) /\ Resuming(gs[i], d)
    BY <1>1, <1>6, <2>3, NotedKeeps
  <2>5. ASSUME NEW i \in 1..n
        PROVE  /\ fs[i].written \subseteq gs[i].written /\ (i = n => W \subseteq gs[i].written)
               /\ gs[i].kind = fs[i].kind /\ gs[i].wasLive = fs[i].wasLive
               /\ gs[i].taken = fs[i].taken
               /\ gs[i].kind = "else" => gs[i].proven = fs[i].proven
    <3>1. rest[i] = fs[i] /\ rest[i] \in Frame /\ "else" # "block"
      BY <1>1, ElementOfSeq
    <3>2. CASE i = n
      <4>1. gs[i] = Wrote(rest[i], W)
        BY <2>1, <3>2
      <4> HIDE DEF gs
      <4> QED  BY <1>1, <3>1, <4>1, WroteFrame
    <3>3. CASE i # n
      BY <2>1, <3>1, <3>3
    <3> QED  BY <3>2, <3>3
  <2> HIDE DEF gs
  <2>6. ASSUME NEW i \in 1..n
        PROVE  StillProven(gs, i, d)
    <3>1. SUFFICES ASSUME gs[i].kind = "else", gs[i].wasLive, ~gs[i].taken,
                          NEW w \in gs[i].proven, d[w] # {}
                   PROVE  \E j \in i..Len(gs) : w \in gs[j].written
      BY DEF StillProven
    <3>2. PICK j \in i..Len(fs) : w \in fs[j].written
      BY <2>3, <2>5, <3>1 DEF StillProven
    <3>3. CASE j = Len(fs)
      <4>1. w \in W
        BY <1>1, <3>2, <3>3 DEF W
      <4>2. w \in gs[n].written /\ n \in i..n
        BY <2>1, <2>5, <4>1
      <4> QED  BY <2>1, <4>2
    <3>4. CASE j # Len(fs)
      <4>1. j \in i..n /\ j \in 1..n
        BY <1>2, <3>4
      <4> QED  BY <2>1, <2>5, <3>2, <4>1
    <3> QED  BY <3>3, <3>4
  <2>7. JoinReady(gs, d)
    BY <2>1, <2>4, <2>6 DEF JoinReady
  <2> QED  BY <1>3, <1>6, <2>1, <2>2, <2>7 DEF gs
<1> QED  BY <1>5, <1>6

\* A test or a block: the frame it opens, and data the test may have cleared.
LEMMA OpeningKeeps ==
  ASSUME NEW fs \in Seq(Frame), NEW on, NEW d \in [Vars -> SUBSET Fields],
         NEW f \in Frame, NEW to, NEW e \in [Vars -> SUBSET Fields],
         Nested(fs, on), JoinReady(fs, d), \A v \in Vars : e[v] \subseteq d[v],
         to => on /\ f.taken, f.wasLive <=> on, f.kind # "else", ~f.returned,
         \A i \in 1..Len(fs) : ~fs[i].returned, SkippedPart(f, e)
  PROVE  Append(fs, f) \in Seq(Frame) /\ Nested(Append(fs, f), to) /\ JoinReady(Append(fs, f), e)
<1> DEFINE gs == Append(fs, f)
           n == Len(fs)
<1>1. /\ gs \in Seq(Frame) /\ Len(gs) = n + 1 /\ n \in Nat
      /\ \A i \in 1..n : gs[i] = fs[i]
      /\ gs[n + 1] = f
  BY AppendProperties, LenProperties
<1>2. JoinReady(fs, e) /\ Nested(fs, on)
  BY ClearingKeeps
<1> HIDE DEF gs, n
<1>3. n = Len(fs) /\ 1..(n + 1) = 1..n \cup {n + 1}
  BY <1>1 DEF n
<1>4. Nested(gs, to)
  <2>1. to => \A i \in 1..n : Entered(gs[i])
    BY <1>1, <1>2, <1>3 DEF Nested
  <2>2. to => Entered(gs[n + 1])
    BY <1>1 DEF Entered
  <2>3. \A i, j \in 1..(n + 1) : i < j /\ gs[j].wasLive => Entered(gs[i])
    <3>1. TAKE i, j \in 1..(n + 1)
    <3>2. HAVE i < j /\ gs[j].wasLive
    <3>3. i \in 1..n
      BY <1>1, <3>2
    <3>4. CASE j = n + 1
      <4>1. on
        BY <1>1, <3>2, <3>4
      <4> QED  BY <1>1, <1>2, <1>3, <3>3, <4>1 DEF Nested
    <3>5. CASE j # n + 1
      <4>1. j \in 1..n
        BY <1>1, <3>5
      <4> QED  BY <1>1, <1>2, <1>3, <3>2, <3>3, <4>1 DEF Nested
    <3> QED  BY <3>4, <3>5
  <2>4. \A i \in 1..(n + 1) : ~gs[i].returned
    BY <1>1, <1>3
  <2> QED  BY <1>1, <1>3, <2>1, <2>2, <2>3, <2>4 DEF Nested
<1>5. ASSUME NEW i \in 1..(n + 1)
      PROVE  SkippedPart(gs[i], e) /\ Resuming(gs[i], e) /\ StillProven(gs, i, e)
  <2>1. CASE i = n + 1
    <3>1. gs[i] = f
      BY <1>1, <2>1
    <3> QED  BY <3>1 DEF Resuming, StillProven
  <2>2. CASE i # n + 1
    <3>1. i \in 1..n /\ gs[i] = fs[i]
      BY <1>1, <2>2
    <3>2. SkippedPart(fs[i], e) /\ Resuming(fs[i], e) /\ StillProven(fs, i, e)
      BY <1>2, <1>3, <3>1 DEF JoinReady
    <3>3. StillProven(gs, i, e)
      <4>1. \A j \in i..n : j \in i..(n + 1) /\ gs[j] = fs[j]
        BY <1>1, <3>1
      <4> QED  BY <1>1, <1>3, <3>1, <3>2, <4>1 DEF StillProven
    <3> QED  BY <3>1, <3>2, <3>3
  <2> QED  BY <2>1, <2>2
<1>6. JoinReady(gs, e)
  BY <1>1, <1>5 DEF JoinReady
<1> QED  BY <1>1, <1>4, <1>6 DEF gs

\* The innermost frame replaced: by one that returned, or by its else.
LEMMA ReplacingKeeps ==
  ASSUME NEW fs \in Seq(Frame), fs # <<>>, NEW on, NEW d, NEW f \in Frame, NEW to,
         Nested(fs, on), JoinReady(fs, d), f.wasLive <=> Last(fs).wasLive,
         f.written = Last(fs).written,
         to => Entered(f) /\ f.wasLive, f.returned => ~to,
         SkippedPart(f, d), Resuming(f, d),
         f.kind = "else" /\ f.wasLive /\ ~f.taken =>
           \A v \in f.proven : d[v] = {} \/ v \in f.written
  PROVE  /\ [fs EXCEPT ![Len(fs)] = f] \in Seq(Frame)
         /\ Nested([fs EXCEPT ![Len(fs)] = f], to) /\ JoinReady([fs EXCEPT ![Len(fs)] = f], d)
<1> DEFINE gs == [fs EXCEPT ![Len(fs)] = f]
           n == Len(fs)
<1>1. /\ Last(fs) = fs[n] /\ n \in 1..n /\ n \in Nat
      /\ gs \in Seq(Frame) /\ Len(gs) = n
      /\ \A i \in 1..n : gs[i] = IF i = n THEN f ELSE fs[i]
  <2>1. Last(fs) = fs[n] /\ n \in 1..n
    BY FrontLast
  <2>2. n \in Nat
    OBVIOUS
  <2> QED  BY <2>1, <2>2, ExceptSeq
<1> HIDE DEF gs
<1>2. ~(\E i \in 1..n : i # n /\ fs[i].returned)
  BY DEF Nested
<1>3. Nested(gs, to)
  <2>1. \A i, j \in 1..n : i < j /\ gs[j].wasLive => Entered(gs[i])
    <3>1. \A j \in 1..n : gs[j].wasLive <=> fs[j].wasLive
      BY <1>1
    <3>2. \A i, j \in 1..n : i < j => i # n
      BY <1>1
    <3> QED  BY <1>1, <3>1, <3>2 DEF Nested
  <2>2. to => \A i \in 1..n : Entered(gs[i])
    <3>1. \A i \in 1..n : i # n => i < n
      BY <1>1
    <3>2. to => fs[n].wasLive
      BY <1>1
    <3> QED  BY <1>1, <3>1, <3>2 DEF Nested
  <2>3. \A i \in 1..n : gs[i].returned => ~to /\ i = n
    BY <1>1, <1>2
  <2> QED  BY <1>1, <2>1, <2>2, <2>3 DEF Nested
<1>4. ASSUME NEW i \in 1..n
      PROVE  SkippedPart(gs[i], d) /\ Resuming(gs[i], d) /\ StillProven(gs, i, d)
  <2>1. CASE i = n
    <3>1. gs[i] = f /\ i \in i..Len(gs)
      BY <1>1, <2>1
    <3> QED  BY <3>1 DEF StillProven
  <2>2. CASE i # n
    <3>1. gs[i] = fs[i] /\ \A j \in i..n : j \in 1..n /\ gs[j].written = fs[j].written
      BY <1>1, <2>2
    <3>2. SkippedPart(fs[i], d) /\ Resuming(fs[i], d) /\ StillProven(fs, i, d)
      BY DEF JoinReady
    <3>3. StillProven(gs, i, d)
      BY <1>1, <3>1, <3>2 DEF StillProven
    <3> QED  BY <3>1, <3>2, <3>3
  <2> QED  BY <2>1, <2>2
<1>5. JoinReady(gs, d)
  BY <1>1, <1>4 DEF JoinReady
<1> QED  BY <1>1, <1>3, <1>5 DEF gs

-----------------------------------------------------------------------------
LEMMA NoFrames ==
  ASSUME NEW on, NEW d
  PROVE  <<>> \in Seq(Frame) /\ Nested(<<>>, on) /\ JoinReady(<<>>, d)
<1>1. 1..Len(<<>>) = {}
  OBVIOUS
<1> QED  BY <1>1, EmptySeq DEF Nested, JoinReady

\* v is given cell c by the walk and data L by the run, if the run is there.
LEMMA Binding ==
  ASSUME FlowType, live => Covers(val, scope), NEW v \in Vars, NEW c \in MaybeCell,
         NEW L \in SUBSET Fields, live => L \subseteq Seen(c),
         scope' = [scope EXCEPT ![v] = c],
         val' = IF live THEN [val EXCEPT ![v] = L] ELSE val, live' = live
  PROVE  /\ scope' \in Scopes /\ val' \in [Vars -> SUBSET Fields] /\ live' \in BOOLEAN
         /\ live' => Covers(val', scope')
         /\ \A w \in Vars \ {v} : val'[w] = val[w]
         /\ live \/ val' = val
<1>1. scope \in Scopes /\ val \in [Vars -> SUBSET Fields] /\ live \in BOOLEAN
  BY DEF FlowType
<1>2. scope' \in Scopes
  BY <1>1 DEF Scopes
<1>3. val' \in [Vars -> SUBSET Fields] /\ \A w \in Vars \ {v} : val'[w] = val[w]
  BY <1>1
<1>4. live' => Covers(val', scope')
  BY <1>1 DEF Covers, Scopes
<1> QED  BY <1>1, <1>2, <1>3, <1>4

\* The same when a clean value leaves the scope alone.
LEMMA Unchanged ==
  ASSUME FlowType, NEW v \in Vars
  PROVE  scope = [scope EXCEPT ![v] = scope[v]] /\ scope[v] \in MaybeCell
BY DEF FlowType, Scopes

\* v written where the walk stands, whether it is declared there or assigned.
LEMMA WritingKeeps ==
  ASSUME FlowInv, Sound, NEW v \in Vars, Writes(v), NEW c \in MaybeCell, NEW L \in SUBSET Fields,
         live => L \subseteq Seen(c), scope' = [scope EXCEPT ![v] = c],
         val' = IF live THEN [val EXCEPT ![v] = L] ELSE val, live' = live,
         declared' \subseteq Vars
  PROVE  FlowInv'
<1>1. /\ FlowType /\ (live => Covers(val, scope))
      /\ Nested(frames, live) /\ JoinReady(frames, val)
  BY DEF FlowInv
<1>2. /\ scope' \in Scopes /\ val' \in [Vars -> SUBSET Fields] /\ live' \in BOOLEAN
      /\ live' => Covers(val', scope')
      /\ \A w \in Vars \ {v} : val'[w] = val[w]
      /\ live \/ val' = val
  BY <1>1, Binding
<1>3. frames' \in Seq(Frame) /\ Nested(frames', live') /\ JoinReady(frames', val')
  <2>1. CASE frames = <<>>
    <3>1. frames' = <<>>
      BY <2>1 DEF Writes
    <3> QED  BY <3>1, NoFrames
  <2>2. CASE frames # <<>>
    <3>1. frames' = Noted(frames, {v}) /\ frames \in Seq(Frame) /\ {v} \in SUBSET Vars
      BY <1>1, <2>2 DEF Writes, Noted, FlowType
    <3>2. Nested(frames', live) /\ JoinReady(frames', val')
      BY <1>1, <1>2, <2>2, <3>1, AssignKeeps
    <3>3. frames' \in Seq(Frame)
      BY <2>2, <3>1, NotedFrames
    <3> QED  BY <3>2, <3>3
  <2> QED  BY <2>1, <2>2
<1> QED  BY <1>2, <1>3 DEF FlowInv, FlowType

LEMMA FreshKeeps ==
  ASSUME FlowInv, Sound, NEW v \in Vars, Fresh(v), NEW c \in MaybeCell, NEW L \in SUBSET Fields,
         live => L \subseteq Seen(c), scope' = [scope EXCEPT ![v] = c],
         val' = IF live THEN [val EXCEPT ![v] = L] ELSE val, live' = live
  PROVE  FlowInv'
<1>1. Writes(v) /\ declared' \subseteq Vars
  BY DEF Fresh, FlowInv, FlowType
<1> QED  BY <1>1, WritingKeeps

LEMMA DeclareKeeps ==
  ASSUME FlowInv, Sound, NEW v \in Vars, NEW e \in Exprs, Declare(v, e)
  PROVE  FlowInv'
<1>1. FlowType /\ (live => Covers(val, scope))
  BY DEF FlowInv
<1> DEFINE c == IF ExprTaint(e) THEN TaintedCell ELSE scope[v]
<1>2. c \in MaybeCell /\ scope' = [scope EXCEPT ![v] = c]
  BY <1>1, Unchanged, ScopeCells DEF Declare
<1>3. Value(e) \in SUBSET Fields /\ (live => Value(e) \subseteq Seen(c))
  BY <1>1, ExprCovered, ScopeCells
<1>4. /\ Fresh(v) /\ live' = live
      /\ val' = IF live THEN [val EXCEPT ![v] = Value(e)] ELSE val
  BY DEF Declare, Store
<1> HIDE DEF c
<1> QED  BY <1>2, <1>3, <1>4, FreshKeeps

\* What is read from a variable the walk holds for clean is clean, and a variable
\* it holds for tainted has a cell.
LEMMA TaintedVar ==
  ASSUME FlowType, NEW w \in Vars
  PROVE  /\ val[w] \subseteq Fields
         /\ IsTainted(w) => scope[w] \in ScopeCell /\ scope[w] \in FlatCell
         /\ Covers(val, scope) /\ ~IsTainted(w) => val[w] = {}
         /\ Covers(val, scope) => val[w] \subseteq Seen(scope[w])
<1>1. scope[w] \in MaybeCell /\ val[w] \subseteq Fields
  BY DEF FlowType, Scopes
<1>2. Covers(val, scope) => val[w] \subseteq Seen(scope[w])
  BY DEF Covers
<1> QED  BY <1>1, <1>2, ScopeCells DEF IsTainted, MaybeCell

LEMMA AssignmentKeeps ==
  ASSUME FlowInv, Sound, NEW v \in Vars, NEW e \in Exprs, Assign(v, e)
  PROVE  FlowInv'
<1>1. FlowType /\ (live => Covers(val, scope))
  BY DEF FlowInv
<1> DEFINE c == IF ExprTaint(e) THEN TaintedCell ELSE NoCell
<1>2. c \in MaybeCell /\ scope' = [scope EXCEPT ![v] = c]
  BY ScopeCells DEF Assign
<1>3. Value(e) \in SUBSET Fields /\ (live => Value(e) \subseteq Seen(c))
  BY <1>1, ExprCovered, ScopeCells
<1>4. val' = (IF live THEN [val EXCEPT ![v] = Value(e)] ELSE val) /\ live' = live
  BY DEF Assign, Store
<1> HIDE DEF c
<1>5. Writes(v) /\ declared' \subseteq Vars
  BY <1>1 DEF Assign, FlowType
<1> QED  BY <1>2, <1>3, <1>4, <1>5, WritingKeeps

LEMMA DestructureKeeps ==
  ASSUME FlowInv, Sound, NEW v \in Vars, NEW w \in Vars, NEW x \in Fields, Destructure(v, w, x)
  PROVE  FlowInv'
<1>1. FlowType /\ (live => Covers(val, scope))
  BY DEF FlowInv
<1> DEFINE c == IF IsTainted(w) THEN Projected(scope[w], x) ELSE scope[v]
           L == IF x \in val[w] THEN Fields ELSE {}
<1>2. IsTainted(w) => Projected(scope[w], x) = IF TaintedAt(scope[w], <<x>>) THEN TaintedCell ELSE NoCell
  <2>1. ASSUME IsTainted(w)
        PROVE  /\ TaintedAt(Project(scope[w], <<x>>), <<>>) <=> TaintedAt(scope[w], <<x>>)
               /\ TaintedAt(scope[w], <<x>>) => Project(scope[w], <<x>>) = TaintedCell
    BY <1>1, <2>1, TaintedVar, FlatProject DEF Fields
  <2> QED  BY <2>1 DEF Projected
<1>3. c \in MaybeCell /\ scope' = [scope EXCEPT ![v] = c]
  BY <1>1, <1>2, Unchanged, ScopeCells DEF Destructure
<1>4. ASSUME live, x \in val[w]  PROVE IsTainted(w) /\ TaintedAt(scope[w], <<x>>)
  BY <1>1, <1>4, TaintedVar DEF Seen
<1>5. L \in SUBSET Fields /\ (live => L \subseteq Seen(c))
  BY <1>2, <1>4, ScopeCells
<1>6. /\ Fresh(v) /\ live' = live
      /\ val' = IF live THEN [val EXCEPT ![v] = L] ELSE val
  BY DEF Destructure, Store
<1> HIDE DEF c, L
<1> QED  BY <1>3, <1>5, <1>6, FreshKeeps

LEMMA ValidateKeeps ==
  ASSUME FlowInv, Sound, NEW r \in Vars, NEW w \in Vars, Validate(r, w)
  PROVE  FlowInv'
<1>1. FlowType /\ (live => Covers(val, scope))
  BY DEF FlowInv
<1> DEFINE c == IF IsTainted(w) THEN TaintedCell ELSE scope[r]
<1>2. c \in MaybeCell /\ scope' = [scope EXCEPT ![r] = c]
  BY <1>1, Unchanged, ScopeCells DEF Validate
<1>3. val[w] \in SUBSET Fields /\ (live => val[w] \subseteq Seen(c))
  BY <1>1, TaintedVar, ScopeCells
<1>4. /\ Fresh(r) /\ live' = live
      /\ val' = IF live THEN [val EXCEPT ![r] = val[w]] ELSE val
  BY DEF Validate
<1> HIDE DEF c
<1> QED  BY <1>2, <1>3, <1>4, FreshKeeps

LEMMA ParseKeeps ==
  ASSUME FlowInv, Sound, NEW w \in Vars, NEW x \in Fields, Parse(w, x)
  PROVE  FlowInv'
<1>1. /\ FlowType /\ (live => Covers(val, scope))
      /\ Nested(frames, live) /\ JoinReady(frames, val)
  BY DEF FlowInv
<1> DEFINE c == IF IsTainted(w) THEN MarkClean(scope[w], <<x>>) ELSE scope[w]
           L == val[w] \ {x}
<1>2. c \in MaybeCell /\ (live => L \subseteq Seen(c))
  <2>1. CASE IsTainted(w)
    <3> DEFINE m == MarkClean(scope[w], <<x>>)
    <3>1. scope[w] \in FlatCell /\ scope[w] \in ScopeCell /\ x \in Offsets
      BY <1>1, <2>1, TaintedVar DEF Fields
    <3>2. /\ m \in FlatCell /\ m[<<>>] = scope[w][<<>>]
          /\ \A y \in Offsets \ {x} : TaintedAt(m, <<y>>) <=> TaintedAt(scope[w], <<y>>)
      BY <3>1, FlatMarkClean
    <3>3. m # Bot
      <4>1. <<x>> \in DOMAIN m
        BY FlatPaths DEF MarkClean
      <4>2. <<x>> \notin DOMAIN Bot
        BY FlatPaths, WholeCell DEF Bot, Mark
      <4> QED  BY <4>1, <4>2
    <3> HIDE DEF m
    <3>4. m \in ScopeCell /\ m # NoCell
      BY <3>1, <3>2, <3>3, ScopeCells DEF ScopeCell
    <3>5. \A y \in Fields \ {x} : y \in Seen(scope[w]) => y \in Seen(m)
      BY <3>2, <3>4 DEF Seen, Fields
    <3> QED  BY <1>1, <2>1, <3>4, <3>5, TaintedVar DEF m, MaybeCell
  <2>2. CASE ~IsTainted(w)
    BY <1>1, <2>2, TaintedVar DEF FlowType, Scopes
  <2> QED  BY <2>1, <2>2
<1>3. scope' = [scope EXCEPT ![w] = c] /\ val' = (IF live THEN [val EXCEPT ![w] = L] ELSE val) /\ live' = live
  BY <1>1, Unchanged DEF Parse
<1>4. L \in SUBSET Fields /\ L \subseteq val[w]
  BY <1>1, TaintedVar
<1> HIDE DEF c, L
<1>5. /\ scope' \in Scopes /\ val' \in [Vars -> SUBSET Fields] /\ live' \in BOOLEAN
      /\ live' => Covers(val', scope')
  BY <1>1, <1>2, <1>3, <1>4, Binding
<1>6. \A v \in Vars : val'[v] \subseteq val[v]
  BY <1>1, <1>3, <1>4 DEF FlowType
<1>7. /\ frames' = frames /\ frames \in Seq(Frame) /\ val \in [Vars -> SUBSET Fields]
      /\ declared' \subseteq Vars
  BY <1>1 DEF Parse, FlowType
<1>8. Nested(frames, live') /\ JoinReady(frames, val')
  BY <1>1, <1>3, <1>5, <1>6, <1>7, ClearingKeeps
<1> QED  BY <1>5, <1>7, <1>8 DEF FlowInv, FlowType

\* A call's result: what the callee says it returns, with the argument's cell in
\* its place, covers what it does return.
LEMMA CallResult ==
  ASSUME FlowType, NEW w \in Vars, NEW h \in Helpers, IsTainted(w),
         CallGaps(h, w) \cap Losses = {}
  PROVE  /\ ReturnCell(h, w) \in ScopeCell
         /\ val[w] \subseteq Seen(scope[w]) => Gives[h][val[w]] \subseteq Seen(ReturnCell(h, w))
<1> DEFINE s == Said(h)
           r == scope[w]
           L == val[w]
           into == Instantiate(s, r)
<1>1. /\ \A M \in SUBSET Fields : Gives[h][M] \subseteq Seen(s)
      /\ HandsOn(h) \/ Below(r, <<>>) = {}
  <2>1. "offsets" \notin CallGaps(h, w) /\ "substitution" \notin CallGaps(h, w)
    BY DEF Losses
  <2> QED  BY <2>1 DEF CallGaps
<1>2. L \in SUBSET Fields /\ r \in ScopeCell /\ r \in FlatCell
  BY TaintedVar
<1>3. CASE Summary[h] = NoSummary \/ Summary[h].returnShape = NoCell
  BY <1>1, <1>2, <1>3, ScopeCells DEF ReturnCell, Said
<1>4. CASE ~(Summary[h] = NoSummary \/ Summary[h].returnShape = NoCell)
  <2>1. s = Summary[h].returnShape /\ IsReturnShape(s)
    BY <1>4, FlowAssumption DEF Said
  <2>2. s \in FlatCell /\ s[<<>>] # "clean" /\ Canonicalize(s) = s
    <3>1. Flat = FlatPath
      BY DEF Flat, FlatPath, Singles, Fields
    <3> QED  BY <2>1, <3>1, FlatCellType, CellParts DEF IsReturnShape
  <2>3. ReturnCell(h, w) = IF Canonicalize(into) = NoCell THEN TaintedCell ELSE Canonicalize(into)
    BY <1>4, <2>1 DEF ReturnCell
  <2>4. CASE Below(r, <<>>) = {}
    <3>1. r = TaintedCell
      <4>1. /\ DOMAIN r = {<<>>} /\ r[<<>>] \in {"none", "tainted"}
        BY <1>2, <2>4, FlatBelow, FlatCellType DEF ScopeCell, Mark
      <4>2. r = Whole(r[<<>>])
        BY <1>2, <4>1, FlatCellType DEF Whole
      <4> QED  BY <1>2, <4>1, <4>2 DEF ScopeCell, Bot, TaintedCell
    <3>2. Canonicalize(into) = s
      BY <2>2, <3>1, FlatInstantiateTainted
    <3>3. s # NoCell /\ s # Bot
      <4>1. DOMAIN NoCell = {} /\ <<>> \in DOMAIN s
        BY <2>2, FlatCellType DEF NoCell
      <4>2. \/ Canonicalize(s) = [p \in {} |-> "none"]
            \/ Canonicalize(s) # Bot
        BY <2>2, FlatCanonicalize
      <4> QED  BY <2>2, <4>1, <4>2 DEF NoCell
    <3>4. ReturnCell(h, w) = s
      BY <2>3, <3>2, <3>3
    <3> HIDE DEF s, into, r, L
    <3> QED  BY <1>1, <1>2, <2>2, <3>3, <3>4 DEF ScopeCell, L
  <2>5. CASE HandsOn(h)
    <3>1. s[<<>>] = "tainted" /\ \A M \in SUBSET Fields : Gives[h][M] \subseteq M
      BY <2>5 DEF HandsOn
    <3>2. r[<<>>] # "clean" /\ r # NoCell
      BY <1>2, ScopeCells DEF ScopeCell
    <3> HIDE DEF s, r
    <3>3. /\ into \in FlatCell /\ into[<<>>] # "clean"
          /\ \A x \in Offsets : TaintedAt(s, <<x>>) /\ TaintedAt(r, <<x>>) => TaintedAt(into, <<x>>)
      BY <1>2, <2>2, <3>1, <3>2, FlatInstantiate
    <3> HIDE DEF into
    <3>4. Seen(s) \cap Seen(r) \subseteq {x \in Fields : TaintedAt(into, <<x>>)}
      BY <3>3 DEF Seen, Fields
    <3>5. CASE Canonicalize(into) = NoCell
      <4>1. Gives[h][L] \subseteq Fields
        BY <1>1, <1>2 DEF Seen
      <4> QED  BY <2>3, <3>5, <4>1, ScopeCells
    <3>6. CASE Canonicalize(into) # NoCell
      <4> DEFINE m == Canonicalize(into)
      <4>1. /\ m \in FlatCell /\ m[<<>>] = into[<<>>] /\ m # Bot
            /\ \A x \in Offsets : TaintedAt(into, <<x>>) => TaintedAt(m, <<x>>)
        BY <3>3, <3>6, FlatCanonicalize DEF NoCell
      <4>2. m \in ScopeCell /\ ReturnCell(h, w) = m /\ m # NoCell
        BY <2>3, <3>3, <3>6, <4>1 DEF ScopeCell
      <4> HIDE DEF m
      <4>3. Seen(s) \cap Seen(r) \subseteq Seen(m)
        BY <3>4, <4>1, <4>2 DEF Seen, Fields
      <4>4. Gives[h][L] \subseteq Seen(s) /\ Gives[h][L] \subseteq L
        BY <1>1, <1>2, <3>1
      <4> QED  BY <4>2, <4>3, <4>4 DEF r
    <3> QED  BY <3>5, <3>6
  <2> QED  BY <1>1, <2>4, <2>5
<1> QED  BY <1>3, <1>4

LEMMA DeclareCallKeeps ==
  ASSUME FlowInv, Sound, Sound', NEW v \in Vars, NEW w \in Vars, NEW h \in Helpers,
         DeclareCall(v, w, h)
  PROVE  FlowInv'
<1>1. FlowType /\ (live => Covers(val, scope))
  BY DEF FlowInv
<1> DEFINE c == IF Carries(h, w) THEN ReturnCell(h, w) ELSE scope[v]
           L == Gives[h][val[w]]
<1>2. val[w] \in SUBSET Fields /\ L \in SUBSET Fields
  BY <1>1, TaintedVar, FlowAssumption
<1>3. c \in MaybeCell /\ (live => L \subseteq Seen(c))
  <2>1. CASE Carries(h, w)
    <3>1. CallGaps(h, w) \cap Losses = {}
      BY <2>1 DEF DeclareCall, Sound
    <3>2. IsTainted(w)
      BY <2>1 DEF Carries
    <3> QED  BY <1>1, <2>1, <3>1, <3>2, CallResult DEF MaybeCell, Covers
  <2>2. CASE ~Carries(h, w)
    <3>1. IsTainted(w) => \A M \in SUBSET Fields : Gives[h][M] = {}
      BY <2>2, FlowAssumption DEF Carries
    <3>2. live /\ ~IsTainted(w) => val[w] = {}
      BY <1>1, TaintedVar
    <3>3. live => L = {}
      BY <1>2, <3>1, <3>2, FlowAssumption
    <3> QED  BY <1>1, <2>2, <3>3, Unchanged
  <2> QED  BY <2>1, <2>2
<1>4. scope' = [scope EXCEPT ![v] = c]
  BY <1>1, Unchanged DEF DeclareCall
<1>5. /\ Fresh(v) /\ live' = live
      /\ val' = IF live THEN [val EXCEPT ![v] = L] ELSE val
  BY DEF DeclareCall, Store
<1> HIDE DEF c, L
<1> QED  BY <1>2, <1>3, <1>4, <1>5, FreshKeeps

\* A frame that returned, or one that is now at its else.
LEMMA ReturnKeeps ==
  ASSUME FlowInv, Sound, NEW e \in Exprs, Return(e)
  PROVE  FlowInv'
<1>1. FlowType /\ Nested(frames, live) /\ JoinReady(frames, val) /\ frames \in Seq(Frame)
  BY DEF FlowInv, FlowType
<1>2. /\ scope' \in Scopes /\ val' \in [Vars -> SUBSET Fields] /\ declared' \subseteq Vars
      /\ val' = val /\ live' = FALSE
  BY <1>1 DEF FlowType, Return
<1>3. frames' \in Seq(Frame) /\ Nested(frames', FALSE) /\ JoinReady(frames', val)
  <2>1. CASE frames = <<>>
    <3>1. frames' = <<>>
      BY <2>1 DEF Return
    <3> QED  BY <3>1, NoFrames
  <2>2. CASE frames # <<>>
    <3> DEFINE f == Last(frames)
               g == [f EXCEPT !.returned = TRUE]
    <3>1. /\ Len(frames) \in 1..Len(frames) /\ f = frames[Len(frames)] /\ f \in Frame
          /\ Len(frames) \in Len(frames)..Len(frames)
      BY <1>1, <2>2, FrontLast
    <3>2. /\ g \in Frame /\ g.wasLive = f.wasLive /\ g.written = f.written
          /\ g.kind = f.kind /\ g.taken = f.taken /\ g.entry = f.entry
          /\ f.kind # "block" => /\ g.proven = f.proven /\ g.resumes = f.resumes
                                 /\ g.consequent = f.consequent
                                 /\ g.consequentReturns = f.consequentReturns
      <4>1. CASE f \in IfFrame
        BY <4>1 DEF Frame, IfFrame
      <4>2. CASE f \in BlockFrame
        BY <4>2 DEF Frame, BlockFrame
      <4> QED  BY <3>1, <4>1, <4>2 DEF Frame
    <3>3. SkippedPart(f, val) /\ Resuming(f, val) /\ StillProven(frames, Len(frames), val)
      BY <1>1, <3>1 DEF JoinReady
    <3>4. frames' = [frames EXCEPT ![Len(frames)] = g]
      BY <2>2, <3>1 DEF Return
    <3> HIDE DEF g
    <3>5. SkippedPart(g, val) /\ Resuming(g, val)
      BY <3>2, <3>3 DEF SkippedPart, Resuming
    <3>6. g.kind = "else" /\ g.wasLive /\ ~g.taken =>
            \A v \in g.proven : val[v] = {} \/ v \in g.written
      <4>1. \A j \in Len(frames)..Len(frames) : j = Len(frames)
        BY <3>1
      <4> QED  BY <3>1, <3>2, <3>3, <4>1 DEF StillProven
    <3>7. g.wasLive <=> f.wasLive
      BY <3>2
    <3> HIDE DEF f
    <3> QED  BY <1>1, <2>2, <3>2, <3>4, <3>5, <3>6, <3>7, ReplacingKeeps DEF f
  <2> QED  BY <2>1, <2>2
<1> QED  BY <1>2, <1>3 DEF FlowInv, FlowType

\* A write and a call for its effect leave data and scope alone.
LEMMA UnmovedKeeps ==
  ASSUME FlowInv, Sound, UNCHANGED <<scope, val, frames, live, declared>>
  PROVE  FlowInv'
BY DEF FlowInv, FlowType

-----------------------------------------------------------------------------
LEMMA NoneReturned ==
  ASSUME FlowType, Nested(frames, live), ~Ended
  PROVE  \A i \in 1..Len(frames) : ~frames[i].returned
<1>1. ASSUME NEW i \in 1..Len(frames), frames[i].returned  PROVE FALSE
  <2>1. i = Len(frames)
    BY <1>1 DEF Nested
  <2>2. frames \in Seq(Frame) /\ frames # <<>>
    BY <1>1 DEF FlowType
  <2>3. Last(frames) = frames[i]
    BY <2>1, <2>2, FrontLast
  <2> QED  BY <1>1, <2>2, <2>3 DEF Ended
<1> QED  BY <1>1

LEMMA TestTyped ==
  ASSUME declared \subseteq Vars, NEW t \in Tests, NEW taken \in BOOLEAN
  PROVE  t \in Guard /\ Proven(t, taken) \subseteq Vars
<1>1. t \in Guard
  BY FlowAssumption DEF Tests, Guard
<1>2. t.var \in Vars
  BY <1>1 DEF Guard
<1> QED  BY <1>1, <1>2 DEF Proven


LEMMA OpenIfKeeps ==
  ASSUME FlowInv, Sound, NEW t \in Tests, NEW taken \in BOOLEAN, OpenIf(t, taken)
  PROVE  FlowInv'
<1>1. /\ FlowType /\ Nested(frames, live) /\ JoinReady(frames, val)
      /\ live => Covers(val, scope)
  BY DEF FlowInv
<1>2. /\ scope \in Scopes /\ val \in [Vars -> SUBSET Fields] /\ frames \in Seq(Frame)
      /\ live \in BOOLEAN /\ declared \subseteq Vars
  BY <1>1 DEF FlowType
<1> DEFINE f ==
      [kind |-> "then", guard |-> t, entry |-> scope, consequent |-> scope,
       consequentReturns |-> FALSE, returned |-> FALSE, written |-> {},
       taken |-> taken, wasLive |-> live, resumes |-> FALSE, proven |-> Proven(t, FALSE)]
<1>3. frames' = Append(frames, f) /\ scope' = scope /\ declared' = declared /\ ~Ended
  BY DEF OpenIf, Statement
<1>4. live' = (live /\ taken)
  BY DEF OpenIf
<1>5. val' = IF live THEN [v \in Vars |-> IF v \in Proven(t, taken) THEN {} ELSE val[v]] ELSE val
  BY DEF OpenIf
<1>6. val' \in [Vars -> SUBSET Fields] /\ \A v \in Vars : val'[v] \subseteq val[v]
  BY <1>2, <1>5
<1>7. f \in Frame
  <2>1. t \in Guard /\ Proven(t, FALSE) \subseteq Vars
    BY <1>2, TestTyped
  <2>2. f \in IfFrame
    BY <1>2, <2>1 DEF IfFrame
  <2> QED  BY <2>2 DEF Frame
<1>8. /\ f.kind = "then" /\ f.wasLive = live /\ f.taken = taken /\ f.entry = scope
      /\ ~f.returned /\ f.proven = Proven(t, FALSE)
  OBVIOUS
<1> HIDE DEF f
<1>9. Covers(val, scope) => Covers(val', scope)
  BY <1>6 DEF Covers
<1>10. SkippedPart(f, val')
  <2>1. SUFFICES ASSUME live, ~taken
                 PROVE  Covers(val', scope) /\ \A v \in f.proven : val'[v] = {}
    BY <1>8 DEF SkippedPart
  <2>2. f.proven = Proven(t, taken) /\ f.proven \subseteq Vars
    <3>1. taken = FALSE
      BY <2>1
    <3> QED  BY <1>2, <1>8, <3>1, TestTyped
  <2> QED  BY <1>1, <1>5, <1>9, <2>1, <2>2
<1>11. (live' => live /\ f.taken) /\ (f.wasLive <=> live) /\ f.kind # "else"
  BY <1>4, <1>8
<1>12. \A i \in 1..Len(frames) : ~frames[i].returned
  BY <1>1, <1>3, NoneReturned
<1>13. Append(frames, f) \in Seq(Frame) /\ Nested(Append(frames, f), live') /\ JoinReady(Append(frames, f), val')
  BY <1>1, <1>2, <1>6, <1>7, <1>8, <1>10, <1>11, <1>12, OpeningKeeps
<1>14. live' \in BOOLEAN /\ (live' => Covers(val', scope'))
  BY <1>1, <1>2, <1>3, <1>4, <1>9
<1> QED  BY <1>2, <1>3, <1>6, <1>13, <1>14 DEF FlowInv, FlowType

LEMMA OpenBlockKeeps ==
  ASSUME FlowInv, Sound, NEW taken \in BOOLEAN, OpenBlock(taken)
  PROVE  FlowInv'
<1>1. /\ FlowType /\ Nested(frames, live) /\ JoinReady(frames, val)
      /\ live => Covers(val, scope)
  BY DEF FlowInv
<1>2. /\ scope \in Scopes /\ val \in [Vars -> SUBSET Fields] /\ frames \in Seq(Frame)
      /\ live \in BOOLEAN /\ declared \subseteq Vars
  BY <1>1 DEF FlowType
<1> DEFINE f == [kind |-> "block", entry |-> scope, returned |-> FALSE,
                 written |-> {}, taken |-> taken, wasLive |-> live]
<1>3. /\ frames' = Append(frames, f) /\ scope' = scope /\ declared' = declared
      /\ val' = val /\ ~Ended
  BY DEF OpenBlock, Statement
<1>4. live' = (live /\ taken)
  BY DEF OpenBlock
<1>5. f \in Frame
  BY <1>2 DEF Frame, BlockFrame
<1>6. f.kind = "block" /\ f.wasLive = live /\ f.taken = taken /\ f.entry = scope /\ ~f.returned
  OBVIOUS
<1> HIDE DEF f
<1>7. SkippedPart(f, val)
  BY <1>1, <1>6 DEF SkippedPart
<1>8. (live' => live /\ f.taken) /\ (f.wasLive <=> live) /\ f.kind # "else"
  BY <1>4, <1>6
<1>9. \A i \in 1..Len(frames) : ~frames[i].returned
  BY <1>1, <1>3, NoneReturned
<1>10. /\ Append(frames, f) \in Seq(Frame) /\ Nested(Append(frames, f), live')
       /\ JoinReady(Append(frames, f), val)
  BY <1>1, <1>2, <1>5, <1>6, <1>7, <1>8, <1>9, OpeningKeeps
<1>11. live' \in BOOLEAN /\ (live' => Covers(val, scope))
  BY <1>1, <1>2, <1>4
<1> QED  BY <1>2, <1>3, <1>10, <1>11 DEF FlowInv, FlowType

LEMMA ElseKeeps ==
  ASSUME FlowInv, Sound, Else
  PROVE  FlowInv'
<1>1. /\ FlowType /\ Nested(frames, live) /\ JoinReady(frames, val)
      /\ live => Covers(val, scope)
  BY DEF FlowInv
<1>2. /\ scope \in Scopes /\ val \in [Vars -> SUBSET Fields] /\ frames \in Seq(Frame)
      /\ live \in BOOLEAN /\ declared \subseteq Vars
  BY <1>1 DEF FlowType
<1> DEFINE f == Last(frames)
           g == [f EXCEPT !.kind = "else", !.consequent = scope, !.consequentReturns = f.returned,
                          !.returned = FALSE, !.resumes = live]
<1>3. /\ frames # <<>> /\ f.kind = "then" /\ scope' = f.entry /\ val' = val /\ declared' = declared
      /\ live' = (f.wasLive /\ ~f.taken)
  BY DEF Else
<1>4. /\ Len(frames) \in 1..Len(frames) /\ f = frames[Len(frames)] /\ f \in Frame
  BY <1>2, <1>3, FrontLast
<1>5. frames' = [frames EXCEPT ![Len(frames)] = g]
  BY <1>4 DEF Else
<1>6. f \in IfFrame
  BY <1>3, <1>4 DEF Frame, BlockFrame
<1>7. /\ g \in IfFrame /\ g \in Frame /\ g.kind = "else" /\ g.consequent = scope /\ g.resumes = live
      /\ g.consequentReturns = f.returned /\ ~g.returned /\ g.wasLive = f.wasLive
      /\ g.taken = f.taken /\ g.written = f.written /\ g.proven = f.proven
  BY <1>2, <1>6 DEF Frame, IfFrame
<1>8. f.entry \in Scopes /\ f.wasLive \in BOOLEAN /\ f.taken \in BOOLEAN
  BY <1>6 DEF IfFrame
<1>9. SkippedPart(f, val) /\ (live => Entered(f)) /\ (f.returned => ~live)
  BY <1>1, <1>4 DEF Nested, JoinReady
<1> HIDE DEF g, f
<1>10. SkippedPart(g, val)
  BY <1>7 DEF SkippedPart
<1>11. Resuming(g, val)
  BY <1>1, <1>3, <1>7, <1>9 DEF Resuming, Entered
<1>12. g.wasLive /\ ~g.taken => Covers(val, f.entry) /\ \A v \in g.proven : val[v] = {}
  BY <1>3, <1>7, <1>9 DEF SkippedPart
<1>13. (live' => Entered(g) /\ g.wasLive) /\ (g.wasLive <=> Last(frames).wasLive) /\ (g.returned => ~live')
  BY <1>3, <1>7 DEF Entered, f
<1>14. g.kind = "else" /\ g.wasLive /\ ~g.taken => \A v \in g.proven : val[v] = {} \/ v \in g.written
  BY <1>12
<1>15. g.written = Last(frames).written
  BY <1>7 DEF f
<1>16. frames' \in Seq(Frame) /\ Nested(frames', live') /\ JoinReady(frames', val)
  BY <1>1, <1>2, <1>3, <1>5, <1>7, <1>10, <1>11, <1>13, <1>14, <1>15, ReplacingKeeps
<1>17. live' \in BOOLEAN /\ (live' => Covers(val, scope'))
  BY <1>3, <1>7, <1>8, <1>12
<1> QED  BY <1>2, <1>3, <1>8, <1>16, <1>17 DEF FlowInv, FlowType

LEMMA PoppedIsClosed ==
  ASSUME frames # <<>>, FlowType
  PROVE  Popped = Closed(frames)
<1>1. CASE Front(frames) = <<>>
  BY <1>1 DEF Popped, Closed
<1>2. CASE Front(frames) # <<>>
  BY <1>2 DEF Popped, Closed, Noted
<1> QED  BY <1>1, <1>2

\* Where a branch's scope covers the data, so does the join, unless the branch is
\* the alternate and the join forgets some of it.
LEMMA JoinCovers ==
  ASSUME NEW a \in Scopes, NEW b \in Scopes
  PROVE  /\ Joined(a, b) \in Scopes
         /\ \A d : Covers(d, a) => Covers(d, Joined(a, b))
         /\ \A d : Covers(d, b) /\ (\A v \in Vars : Seen(b[v]) \subseteq Seen(Joined(a, b)[v]))
                     => Covers(d, Joined(a, b))
<1>1. \A v \in Vars : Joined(a, b)[v] = IF a[v] # NoCell THEN a[v] ELSE b[v]
  BY DEF Joined
<1>2. Joined(a, b) \in Scopes
  BY <1>1 DEF Joined, Scopes
<1>3. \A v \in Vars : Seen(a[v]) \subseteq Seen(Joined(a, b)[v])
  BY <1>1, ScopeCells
<1> QED  BY <1>2, <1>3 DEF Covers

\* A closing frame f, whose branches both may be cut off by a return: the scope at
\* the join covers the data of a run that gets there.
LEMMA AtJoinCovers ==
  ASSUME FlowInv, Sound, frames # <<>>, NEW f, f = Last(frames), f.kind \in {"then", "else"},
         "join" \notin JoinGaps(f, {}),
         live \/ IF f.kind = "then" THEN f.wasLive /\ ~f.taken ELSE f.resumes
  PROVE  Covers(val, AtJoin)
<1>1. /\ FlowType /\ Nested(frames, live) /\ JoinReady(frames, val)
      /\ live => Covers(val, scope)
  BY DEF FlowInv
<1>2. /\ Len(frames) \in 1..Len(frames) /\ f = frames[Len(frames)] /\ f \in Frame
  BY <1>1, FrontLast DEF FlowType
<1>3. /\ SkippedPart(f, val) /\ Resuming(f, val) /\ (f.returned => ~live)
      /\ live => Entered(f)
  BY <1>1, <1>2 DEF Nested, JoinReady
<1>4. f.entry \in Scopes /\ f.consequent \in Scopes /\ scope \in Scopes
  BY <1>1, <1>2, FrameParts DEF FlowType
<1>5. ~ConsequentReturns /\ ~AlternateReturns =>
        \A v \in Vars : Seen(Alternate[v]) \subseteq Seen(AtJoin[v])
  BY DEF JoinGaps
<1>6. CASE f.kind = "then"
  <2>1. /\ Consequent = scope /\ Alternate = f.entry
        /\ ConsequentReturns = f.returned /\ ~AlternateReturns
    BY <1>6 DEF Consequent, Alternate, ConsequentReturns, AlternateReturns
  <2>2. live \/ Covers(val, f.entry)
    BY <1>3, <1>6 DEF SkippedPart
  <2>3. CASE f.returned
    BY <1>3, <2>1, <2>2, <2>3 DEF AtJoin
  <2>4. CASE ~f.returned
    <3>1. AtJoin = Joined(scope, f.entry)
      BY <2>1, <2>4 DEF AtJoin
    <3> QED  BY <1>1, <1>4, <1>5, <2>1, <2>2, <2>4, <3>1, JoinCovers
  <2> QED  BY <2>3, <2>4
<1>7. CASE f.kind = "else"
  <2>1. /\ Consequent = f.consequent /\ Alternate = scope
        /\ ConsequentReturns = f.consequentReturns /\ (AlternateReturns <=> f.returned)
    BY <1>7 DEF Consequent, Alternate, ConsequentReturns, AlternateReturns
  <2>2. live \/ (Covers(val, f.consequent) /\ ~f.consequentReturns)
    BY <1>3, <1>7 DEF Resuming
  <2>3. CASE f.consequentReturns
    BY <1>1, <2>1, <2>2, <2>3 DEF AtJoin
  <2>4. CASE ~f.consequentReturns /\ f.returned
    BY <1>3, <2>1, <2>2, <2>4 DEF AtJoin
  <2>5. CASE ~f.consequentReturns /\ ~f.returned
    <3>1. AtJoin = Joined(f.consequent, scope)
      BY <2>1, <2>5 DEF AtJoin
    <3> QED  BY <1>1, <1>4, <1>5, <2>1, <2>2, <2>5, <3>1, JoinCovers
  <2> QED  BY <2>3, <2>4, <2>5
<1> QED  BY <1>6, <1>7

LEMMA CloseIfKeeps ==
  ASSUME FlowInv, Sound, Sound', CloseIf
  PROVE  FlowInv'
<1> DEFINE f == Last(frames)
           N == IF ConsequentReturns THEN Narrowed(f.guard) ELSE {}
<1>1. /\ FlowType /\ Nested(frames, live) /\ JoinReady(frames, val)
      /\ live => Covers(val, scope)
  BY DEF FlowInv
<1>2. /\ scope \in Scopes /\ val \in [Vars -> SUBSET Fields] /\ frames \in Seq(Frame)
      /\ live \in BOOLEAN /\ declared \subseteq Vars
  BY <1>1 DEF FlowType
<1>3. /\ frames # <<>> /\ f.kind \in {"then", "else"}
      /\ scope' = [v \in Vars |-> IF v \in N THEN NoCell ELSE AtJoin[v]]
      /\ frames' = Popped /\ val' = val /\ declared' = declared
  BY DEF CloseIf
<1>4. live' = (live \/ IF f.kind = "then" THEN f.wasLive /\ ~f.taken ELSE f.resumes)
  BY DEF CloseIf
<1>5. gaps' = gaps \cup JoinGaps(f, N)
  BY DEF CloseIf
<1>6. /\ Len(frames) \in 1..Len(frames) /\ f = frames[Len(frames)] /\ f \in Frame
  BY <1>2, <1>3, FrontLast
<1>7. /\ SkippedPart(f, val) /\ Resuming(f, val) /\ StillProven(frames, Len(frames), val)
      /\ (f.returned => ~live) /\ (live => Entered(f))
  BY <1>1, <1>6 DEF Nested, JoinReady
<1>8. f.entry \in Scopes /\ f.consequent \in Scopes
  BY <1>3, <1>6, FrameParts
<1>9. JoinGaps(f, N) \cap Losses = {}
  BY <1>5 DEF Sound
<1>10. "join" \notin JoinGaps(f, {}) /\ N \subseteq f.proven /\ N \cap f.written = {}
  BY <1>9 DEF JoinGaps, Losses
<1>11. frames' \in Seq(Frame) /\ Nested(frames', live') /\ JoinReady(frames', val)
  <2>1. live' => live \/ Last(frames).wasLive
    BY <1>3, <1>4, <1>7 DEF Resuming
  <2>2. frames' = Closed(frames)
    BY <1>1, <1>3, PoppedIsClosed
  <2> QED  BY <1>1, <1>2, <1>3, <2>1, <2>2, ClosingKeeps
<1>12. AtJoin \in Scopes
  <2>1. Consequent \in Scopes /\ Alternate \in Scopes
    BY <1>2, <1>8 DEF Consequent, Alternate
  <2> QED  BY <2>1, JoinCovers DEF AtJoin
<1>13. scope' \in Scopes
  BY <1>3, <1>12, ScopeCells DEF Scopes
<1>14. live' => Covers(val, AtJoin)
  BY <1>3, <1>4, <1>10, AtJoinCovers
<1>15. ASSUME live', NEW v \in N  PROVE val[v] = {}
  <2>1. ConsequentReturns /\ v \in f.proven /\ v \notin f.written
    BY <1>10, <1>15
  <2>2. CASE f.kind = "then"
    <3>1. f.returned
      BY <2>1, <2>2 DEF ConsequentReturns
    <3>2. f.wasLive /\ ~f.taken
      BY <1>4, <1>7, <1>15, <2>2, <3>1
    <3> QED  BY <1>7, <2>1, <2>2, <3>2 DEF SkippedPart
  <2>3. CASE f.kind = "else"
    <3>1. f.consequentReturns
      BY <2>1, <2>3 DEF ConsequentReturns
    <3>2. live
      BY <1>4, <1>7, <1>15, <2>3, <3>1 DEF Resuming
    <3>3. f.wasLive /\ ~f.taken
      BY <1>7, <2>3, <3>2 DEF Entered
    <3>4. \A j \in Len(frames)..Len(frames) : j = Len(frames)
      BY <1>6
    <3> QED  BY <1>6, <1>7, <2>1, <2>3, <3>3, <3>4 DEF StillProven
  <2> QED  BY <1>3, <2>2, <2>3
<1>16. live' => Covers(val, scope')
  <2>1. ASSUME live', NEW v \in Vars  PROVE val[v] \subseteq Seen(scope'[v])
    <3>1. CASE v \in N
      BY <1>15, <2>1, <3>1
    <3>2. CASE v \notin N
      <4>1. scope'[v] = AtJoin[v]
        BY <1>3, <3>2
      <4> QED  BY <1>14, <2>1, <4>1 DEF Covers
    <3> QED  BY <3>1, <3>2
  <2> QED  BY <2>1 DEF Covers
<1>17. live' \in BOOLEAN
  BY <1>4
<1> QED  BY <1>2, <1>3, <1>11, <1>13, <1>16, <1>17 DEF FlowInv, FlowType

LEMMA CloseBlockKeeps ==
  ASSUME FlowInv, Sound, Sound', CloseBlock
  PROVE  FlowInv'
<1> DEFINE f == Last(frames)
<1>1. /\ FlowType /\ Nested(frames, live) /\ JoinReady(frames, val)
      /\ live => Covers(val, scope)
  BY DEF FlowInv
<1>2. /\ scope \in Scopes /\ val \in [Vars -> SUBSET Fields] /\ frames \in Seq(Frame)
      /\ live \in BOOLEAN /\ declared \subseteq Vars
  BY <1>1 DEF FlowType
<1>3. /\ frames # <<>> /\ f.kind = "block" /\ frames' = Popped
      /\ scope' = scope /\ val' = val /\ declared' = declared
      /\ live' = IF f.taken THEN live ELSE f.wasLive
  BY DEF CloseBlock
<1>4. "block" \notin gaps'
  BY DEF Sound, Losses
<1>5. \A v \in Vars : Seen(f.entry[v]) \subseteq Seen(scope[v])
  BY <1>4 DEF CloseBlock
<1>6. /\ Len(frames) \in 1..Len(frames) /\ f = frames[Len(frames)] /\ f \in Frame
  BY <1>2, <1>3, FrontLast
<1>7. SkippedPart(f, val) /\ f.wasLive \in BOOLEAN
  BY <1>1, <1>6, FrameParts DEF JoinReady
<1>8. frames' \in Seq(Frame) /\ Nested(frames', live') /\ JoinReady(frames', val)
  <2>1. live' => live \/ Last(frames).wasLive
    BY <1>3
  <2>2. frames' = Closed(frames)
    BY <1>1, <1>3, PoppedIsClosed
  <2> QED  BY <1>1, <1>2, <1>3, <2>1, <2>2, ClosingKeeps
<1>9. live' \in BOOLEAN
  BY <1>2, <1>3, <1>7
<1>10. live' => Covers(val, scope)
  <2>1. CASE f.taken
    BY <1>1, <1>3, <2>1
  <2>2. CASE ~f.taken
    <3>1. live' => Covers(val, f.entry)
      BY <1>3, <1>7, <2>2 DEF SkippedPart
    <3> QED  BY <1>5, <3>1 DEF Covers
  <2> QED  BY <2>1, <2>2
<1> QED  BY <1>2, <1>3, <1>8, <1>9, <1>10 DEF FlowInv, FlowType

-----------------------------------------------------------------------------
LEMMA FlowInit == Init => FlowInv
<1> SUFFICES ASSUME Init  PROVE FlowInv
  OBVIOUS
<1>1. scope \in Scopes /\ val \in [Vars -> SUBSET Fields]
  BY FlowAssumption, ScopeCells DEF Init, Scopes
<1>2. Covers(val, scope)
  BY FlowAssumption, ScopeCells DEF Init, Covers
<1>3. frames = <<>> /\ live \in BOOLEAN /\ declared \subseteq Vars
  BY FlowAssumption DEF Init
<1> QED  BY <1>1, <1>2, <1>3, NoFrames DEF FlowInv, FlowType

\* The history of losses only grows, so a step to a sound state is from one.
LEMMA LossesStay ==
  ASSUME [Next]_vars, Sound'
  PROVE  Sound
<1>1. gaps \subseteq gaps'
  <2>1. CASE Bindings
    BY <2>1 DEF Bindings, Declare, Assign, Destructure, Validate
  <2>2. CASE Calls
    BY <2>2 DEF Calls, Parse, Write, Return, CallHelper, DeclareCall
  <2>3. CASE Structure
    BY <2>3 DEF Structure, OpenIf, OpenBlock, Else, CloseIf, CloseBlock
  <2>4. CASE UNCHANGED vars
    BY <2>4 DEF vars
  <2> QED  BY <2>1, <2>2, <2>3, <2>4 DEF Next
<1> QED  BY <1>1 DEF Sound

LEMMA FlowStep ==
  ASSUME FlowInv, [Next]_vars
  PROVE  FlowInv'
<1> SUFFICES ASSUME Sound'  PROVE FlowInv'
  BY DEF FlowInv
<1>1. Sound
  BY LossesStay
<1>2. CASE Bindings
  <2>1. \A v \in Vars, e \in Exprs : Declare(v, e) => FlowInv'
    BY <1>1, DeclareKeeps
  <2>2. \A v \in Vars, e \in Exprs : Assign(v, e) => FlowInv'
    BY <1>1, AssignmentKeeps
  <2>3. \A v, w \in Vars, x \in Fields : Destructure(v, w, x) => FlowInv'
    BY <1>1, DestructureKeeps
  <2>4. \A v, w \in Vars : Validate(v, w) => FlowInv'
    BY <1>1, ValidateKeeps
  <2> QED  BY <1>2, <2>1, <2>2, <2>3, <2>4 DEF Bindings
<1>3. CASE Calls
  <2>1. \A w \in Vars, x \in Fields : Parse(w, x) => FlowInv'
    BY <1>1, ParseKeeps
  <2>2. \A e \in Exprs : Write(e) => FlowInv'
    BY <1>1, UnmovedKeeps DEF Write
  <2>3. \A e \in Exprs : Return(e) => FlowInv'
    BY <1>1, ReturnKeeps
  <2>4. \A e \in Exprs, h \in Helpers : CallHelper(h, e) => FlowInv'
    BY <1>1, UnmovedKeeps DEF CallHelper
  <2>5. \A v, w \in Vars, h \in Helpers : DeclareCall(v, w, h) => FlowInv'
    BY <1>1, DeclareCallKeeps
  <2> QED  BY <1>3, <2>1, <2>2, <2>3, <2>4, <2>5 DEF Calls
<1>4. CASE Structure
  <2>1. \A t \in Tests, taken \in BOOLEAN : OpenIf(t, taken) => FlowInv'
    BY <1>1, OpenIfKeeps
  <2>2. \A taken \in BOOLEAN : OpenBlock(taken) => FlowInv'
    BY <1>1, OpenBlockKeeps
  <2>3. Else \/ CloseIf \/ CloseBlock => FlowInv'
    BY <1>1, ElseKeeps, CloseIfKeeps, CloseBlockKeeps
  <2> QED  BY <1>4, <2>1, <2>2, <2>3 DEF Structure
<1>5. CASE UNCHANGED vars
  BY <1>1, <1>5, UnmovedKeeps DEF vars
<1> QED  BY <1>2, <1>3, <1>4, <1>5 DEF Next

\* Away from the losses build_summary's walk over-approximates the run: for any
\* variables, fields and helpers, through any nesting of branches and blocks,
\* early returns, validators, assignments and calls, what carries request data
\* is read tainted.
THEOREM WalkIsSound == Spec => []SoundOutsideGaps
<1>1. Init => FlowInv
  BY FlowInit
<1>2. FlowInv /\ [Next]_vars => FlowInv'
  BY FlowStep
<1>3. FlowInv => SoundOutsideGaps
  BY DEF FlowInv, SoundOutsideGaps, Covers
<1> QED  BY <1>1, <1>2, <1>3, PTL DEF Spec

\* So a function that returns request data is summarised as propagating it
\* (taintedReturn), whichever of its returns the run takes.
THEOREM ReturnsAreFlagged == Spec => []ReturnFlagged
<1> DEFINE Inv == FlowInv /\ ReturnFlagged
<1>1. Init => Inv
  BY FlowInit DEF Init, ReturnFlagged
<1>2. ASSUME Inv, [Next]_vars  PROVE Inv'
  <2>1. SUFFICES ASSUME Sound', out' # {}  PROVE taintedReturn'
    BY <1>2, FlowStep DEF ReturnFlagged
  <2>2. Sound /\ FlowInv
    BY <1>2, <2>1, LossesStay
  <2>3. CASE \E e \in Exprs : Return(e)
    <3>1. PICK e \in Exprs : Return(e)
      BY <2>3
    <3>2. taintedReturn \/ (live /\ Value(e) # {})
      BY <1>2, <2>1, <2>2, <3>1 DEF Return, ReturnFlagged
    <3>3. live /\ Value(e) # {} => ExprTaint(e)
      BY <2>2, ExprCovered DEF FlowInv
    <3> QED  BY <3>1, <3>2, <3>3 DEF Return, ReturnFlag
  <2>4. CASE UNCHANGED <<out, taintedReturn>>
    BY <1>2, <2>1, <2>2, <2>4 DEF ReturnFlagged
  <2>5. (\E e \in Exprs : Return(e)) \/ UNCHANGED <<out, taintedReturn>>
    <3>1. CASE Bindings
      BY <3>1 DEF Bindings, Declare, Assign, Destructure, Validate, walk
    <3>2. CASE Calls
      BY <3>2 DEF Calls, Parse, Write, CallHelper, DeclareCall, walk
    <3>3. CASE Structure
      BY <3>3 DEF Structure, OpenIf, OpenBlock, Else, CloseIf, CloseBlock, walk
    <3>4. CASE UNCHANGED vars
      BY <3>4 DEF vars, walk
    <3> QED  BY <1>2, <3>1, <3>2, <3>3, <3>4 DEF Next
  <2> QED  BY <2>3, <2>4, <2>5
<1>3. Inv => ReturnFlagged
  OBVIOUS
<1> QED  BY <1>1, <1>2, <1>3, PTL DEF Spec

-----------------------------------------------------------------------------
(***************************************************************************)
(* Types, losses or not: a scope's cells may then be of any depth.  No     *)
(* entry is empty or clean as a whole, and only what is declared has one;  *)
(* the same goes for the scopes that open statements have put aside.       *)
(***************************************************************************)
AnyCell ==
  {c \in UNION {[D -> Mark] : D \in SUBSET Path} : IsCell(c) /\ c # Bot /\ c[<<>>] # "clean"}
ScopesOver(D) == {s \in [Vars -> AnyCell \cup {NoCell}] : \A v \in Vars \ D : s[v] = NoCell}
IfFrameOver(D) ==
  [kind : {"then", "else"}, guard : Guard, entry : ScopesOver(D), consequent : ScopesOver(D),
   consequentReturns : BOOLEAN, returned : BOOLEAN, written : SUBSET D, taken : BOOLEAN,
   wasLive : BOOLEAN, resumes : BOOLEAN, proven : SUBSET Vars]
BlockFrameOver(D) ==
  [kind : {"block"}, entry : ScopesOver(D), returned : BOOLEAN, written : SUBSET D,
   taken : BOOLEAN, wasLive : BOOLEAN]
FrameOver(D) == IfFrameOver(D) \cup BlockFrameOver(D)

WalkType ==
  /\ declared \subseteq Vars /\ Param \in declared /\ scope \in ScopesOver(declared)
  /\ frames \in Seq(FrameOver(declared))
RestType ==
  /\ validatorInits \in [Vars -> declared \cup {NoVar}]
  /\ IsCell(returnShape) /\ IsCell(paramShape)
  /\ taintedReturn \in BOOLEAN /\ found \in BOOLEAN /\ live \in BOOLEAN /\ hit \in BOOLEAN
  /\ val \in [Vars -> SUBSET Fields] /\ accepted \subseteq declared \X declared
  /\ out \subseteq Fields /\ stmts \in 0..MaxStmts
TypeInv == WalkType /\ RestType

LEMMA AnyCells ==
  /\ TaintedCell \in AnyCell
  /\ \A c : c \in AnyCell <=> IsCell(c) /\ c # Bot /\ c[<<>>] # "clean"
  /\ \A c \in AnyCell : c # NoCell
<1>1. \A c : c \in AnyCell <=> IsCell(c) /\ c # Bot /\ c[<<>>] # "clean"
  <2>1. TAKE c
  <2>2. IsCell(c) => c \in [DOMAIN c -> Mark] /\ DOMAIN c \in SUBSET Path
    BY DEF IsCell
  <2> QED  BY <2>2 DEF AnyCell
<1>2. IsCell(TaintedCell)
  BY WholeIsCell DEF TaintedCell, Mark
<1>3. TaintedCell # Bot /\ TaintedCell[<<>>] # "clean"
  BY ScopeCells DEF ScopeCell
<1>4. \A c \in AnyCell : c # NoCell
  <2>1. \A c \in AnyCell : <<>> \in DOMAIN c
    BY <1>1, CellParts
  <2>2. DOMAIN NoCell = {}
    BY DEF NoCell
  <2> QED  BY <2>1, <2>2
<1> QED  BY <1>1, <1>2, <1>3, <1>4

\* A variable that has a cell has a proper one, and is declared.
LEMMA CellOfVar ==
  ASSUME WalkType, NEW w \in Vars, IsTainted(w)
  PROVE  w \in declared /\ scope[w] \in AnyCell /\ IsCell(scope[w]) /\ scope[w][<<>>] # "clean"
<1>1. scope[w] \in AnyCell /\ w \in declared
  BY DEF WalkType, ScopesOver, IsTainted
<1> QED  BY <1>1, AnyCells

\* What is bound in a scope: a cell, and the name declared with it.
LEMMA ScopeWith ==
  ASSUME WalkType, NEW v \in Vars, NEW D, declared \subseteq D, v \in D,
         NEW c \in AnyCell \cup {NoCell}
  PROVE  [scope EXCEPT ![v] = c] \in ScopesOver(D) /\ scope \in ScopesOver(D)
BY DEF WalkType, ScopesOver

\* A frame's fields may be replaced one at a time.
LEMMA FrameOverParts ==
  ASSUME NEW D \in SUBSET Vars, NEW f \in FrameOver(D)
  PROVE  /\ f.entry \in ScopesOver(D) /\ f.written \subseteq D /\ f.kind \in {"then", "else", "block"}
         /\ f.returned \in BOOLEAN /\ f.taken \in BOOLEAN /\ f.wasLive \in BOOLEAN
         /\ f.kind # "block" => f \in IfFrameOver(D) /\ f.consequent \in ScopesOver(D) /\ f.resumes \in BOOLEAN
         /\ \A W \in SUBSET D : [f EXCEPT !.written = @ \cup W] \in FrameOver(D)
         /\ [f EXCEPT !.returned = TRUE] \in FrameOver(D)
<1>1. CASE f \in IfFrameOver(D)
  <2>1. \A W \in SUBSET D : [f EXCEPT !.written = @ \cup W] \in IfFrameOver(D)
    BY <1>1 DEF IfFrameOver
  <2>2. [f EXCEPT !.returned = TRUE] \in IfFrameOver(D)
    BY <1>1 DEF IfFrameOver
  <2>3. /\ f.entry \in ScopesOver(D) /\ f.written \subseteq D /\ f.kind \in {"then", "else"}
        /\ f.returned \in BOOLEAN /\ f.taken \in BOOLEAN /\ f.wasLive \in BOOLEAN
        /\ f.consequent \in ScopesOver(D) /\ f.resumes \in BOOLEAN
    BY <1>1 DEF IfFrameOver
  <2> QED  BY <1>1, <2>1, <2>2, <2>3 DEF FrameOver
<1>2. CASE f \in BlockFrameOver(D)
  <2>1. \A W \in SUBSET D : [f EXCEPT !.written = @ \cup W] \in BlockFrameOver(D)
    BY <1>2 DEF BlockFrameOver
  <2>2. [f EXCEPT !.returned = TRUE] \in BlockFrameOver(D)
    BY <1>2 DEF BlockFrameOver
  <2>3. /\ f.entry \in ScopesOver(D) /\ f.written \subseteq D /\ f.kind = "block"
        /\ f.returned \in BOOLEAN /\ f.taken \in BOOLEAN /\ f.wasLive \in BOOLEAN
    BY <1>2 DEF BlockFrameOver
  <2> QED  BY <2>1, <2>2, <2>3 DEF FrameOver
<1> QED  BY <1>1, <1>2 DEF FrameOver

\* The innermost frame replaced, or taken off and its writes noted in the next.
LEMMA LastReplaced ==
  ASSUME NEW S, NEW fs \in Seq(S), fs # <<>>, NEW g \in S
  PROVE  [fs EXCEPT ![Len(fs)] = g] \in Seq(S)
BY FrontLast, ExceptSeq

LEMMA LastWrote ==
  ASSUME NEW D \in SUBSET Vars, NEW fs \in Seq(FrameOver(D)), fs # <<>>, NEW W \in SUBSET D
  PROVE  [fs EXCEPT ![Len(fs)].written = @ \cup W] \in Seq(FrameOver(D))
<1> DEFINE g == [fs[Len(fs)] EXCEPT !.written = @ \cup W]
<1>1. fs[Len(fs)] \in FrameOver(D)
  BY FrontLast
<1>2. g \in FrameOver(D)
  BY <1>1, FrameOverParts
<1>3. [fs EXCEPT ![Len(fs)].written = @ \cup W] = [fs EXCEPT ![Len(fs)] = g]
  OBVIOUS
<1> HIDE DEF g
<1> QED  BY <1>2, <1>3, LastReplaced

LEMMA PoppedFrames ==
  ASSUME WalkType, frames # <<>>
  PROVE  Popped \in Seq(FrameOver(declared))
<1>1. /\ declared \in SUBSET Vars /\ frames \in Seq(FrameOver(declared))
      /\ Front(frames) \in Seq(FrameOver(declared)) /\ Last(frames) \in FrameOver(declared)
  BY FrontLast DEF WalkType
<1>2. Last(frames).written \in SUBSET declared
  BY <1>1, FrameOverParts
<1>3. CASE Front(frames) = <<>>
  BY <1>1, <1>3 DEF Popped
<1>4. CASE Front(frames) # <<>>
  <2>1. Popped = [Front(frames) EXCEPT ![Len(Front(frames))].written = @ \cup Last(frames).written]
    BY <1>4 DEF Popped
  <2> HIDE DEF Popped
  <2> QED  BY <1>1, <1>2, <1>4, <2>1, LastWrote
<1> QED  BY <1>3, <1>4

-----------------------------------------------------------------------------
\* The cells the visitor makes are proper ones.
LEMMA CellsMade ==
  ASSUME WalkType, NEW w \in Vars, IsTainted(w)
  PROVE  /\ \A x \in Fields : MarkClean(scope[w], <<x>>) \in AnyCell
         /\ \A x \in Fields : Projected(scope[w], x) \in AnyCell \cup {NoCell}
         /\ \A h \in Helpers : ReturnCell(h, w) \in AnyCell
<1> DEFINE r == scope[w]
<1>1. IsCell(r) /\ r[<<>>] # "clean"
  BY CellOfVar
<1> HIDE DEF r
<1>2. \A x \in Fields : MarkClean(r, <<x>>) \in AnyCell
  BY <1>1, MarkCleanCell, AnyCells DEF Fields
<1>3. ASSUME NEW x \in Fields  PROVE Projected(r, x) \in AnyCell \cup {NoCell}
  <2> DEFINE d == Project(r, <<x>>)
  <2>1. IsCell(d)
    <3>1. CASE <<x>> \in DOMAIN r
      BY <1>1, <3>1, ProjectCell
    <3>2. CASE <<x>> \notin DOMAIN r
      BY <3>2, WholeIsCell DEF Project, TaintedCell, Bot, Mark
    <3> QED  BY <3>1, <3>2
  <2> HIDE DEF d
  <2>2. ASSUME TaintedAt(d, <<>>)  PROVE d[<<>>] # "clean" /\ d # Bot
    <3>1. <<>> \in DOMAIN d /\ MarkAt(d, <<>>) = d[<<>>]
      BY <2>1, NearestOwn, CellParts
    <3>2. d[<<>>] # "clean"
      BY <2>2, <3>1 DEF TaintedAt
    <3>3. ~TaintedAt(Bot, <<>>)
      BY WholeCell DEF Bot, Mark
    <3> QED  BY <2>2, <3>2, <3>3
  <2> QED  BY <2>1, <2>2, AnyCells DEF Projected, d
<1>4. ASSUME NEW h \in Helpers  PROVE ReturnCell(h, w) \in AnyCell
  <2>1. CASE Summary[h] = NoSummary \/ Summary[h].returnShape = NoCell
    BY <2>1, AnyCells DEF ReturnCell
  <2>2. CASE ~(Summary[h] = NoSummary \/ Summary[h].returnShape = NoCell)
    <3> DEFINE s == Summary[h].returnShape
               into == Instantiate(s, r)
    <3>1. IsCell(s) /\ s[<<>>] # "clean"
      BY <2>2, FlowAssumption DEF IsReturnShape
    <3> HIDE DEF s
    <3>2. IsCell(into) /\ into[<<>>] # "clean"
      BY <1>1, <3>1, InstantiateCell
    <3>3. ReturnCell(h, w) = IF Canonicalize(into) = NoCell THEN TaintedCell ELSE Canonicalize(into)
      BY <2>2 DEF ReturnCell, r, s
    <3> HIDE DEF into
    <3>4. CASE Informative(into) = {}
      <4>1. Canonicalize(into) = NoCell
        BY <3>4 DEF Canonicalize, NoCell
      <4> QED  BY <3>3, <4>1, AnyCells
    <3>5. CASE Informative(into) # {}
      BY <3>2, <3>3, <3>5, CanonicalCell, AnyCells
    <3> QED  BY <3>4, <3>5
  <2> QED  BY <2>1, <2>2
<1> QED  BY <1>2, <1>3, <1>4 DEF r

\* v written where the walk stands: the frames stay of their type.
LEMMA WritesTyped ==
  ASSUME WalkType, NEW v \in Vars, Writes(v), NEW D \in SUBSET Vars, declared \subseteq D, v \in D
  PROVE  frames' \in Seq(FrameOver(D))
<1>1. \A s \in ScopesOver(declared) : s \in ScopesOver(D)
  BY DEF ScopesOver
<1>2. IfFrameOver(declared) \subseteq IfFrameOver(D)
  BY <1>1 DEF IfFrameOver
<1>3. BlockFrameOver(declared) \subseteq BlockFrameOver(D)
  BY <1>1 DEF BlockFrameOver
<1>4. FrameOver(declared) \subseteq FrameOver(D)
  BY <1>2, <1>3 DEF FrameOver
<1>5. frames \in Seq(FrameOver(D))
  <2>1. frames \in Seq(FrameOver(declared))
    BY DEF WalkType
  <2> QED  BY <1>4, <2>1, SeqMonotonic
<1>6. CASE frames = <<>>
  BY <1>5, <1>6 DEF Writes
<1>7. CASE frames # <<>>
  <2>1. frames' = [frames EXCEPT ![Len(frames)].written = @ \cup {v}] /\ {v} \in SUBSET D
    BY <1>7 DEF Writes
  <2> QED  BY <1>5, <1>7, <2>1, LastWrote
<1> QED  BY <1>6, <1>7

\* v declared and given a cell, or none.
LEMMA FreshTyped ==
  ASSUME WalkType, NEW v \in Vars, Fresh(v), NEW c \in AnyCell \cup {NoCell},
         scope' = [scope EXCEPT ![v] = c] \/ scope' = scope
  PROVE  WalkType'
<1>1. /\ declared \subseteq declared' /\ v \in declared' /\ Writes(v)
      /\ declared' \in SUBSET Vars /\ Param \in declared'
  BY DEF Fresh, WalkType
<1>2. [scope EXCEPT ![v] = c] \in ScopesOver(declared') /\ scope \in ScopesOver(declared')
  BY <1>1, ScopeWith
<1>3. frames' \in Seq(FrameOver(declared'))
  BY <1>1, WritesTyped
<1> QED  BY <1>1, <1>2, <1>3 DEF WalkType

LEMMA BindingsTyped ==
  ASSUME WalkType, Bindings
  PROVE  WalkType'
<1>1. ASSUME NEW v \in Vars, NEW e \in Exprs, Declare(v, e)  PROVE WalkType'
  BY <1>1, AnyCells, FreshTyped DEF Declare
<1>2. ASSUME NEW v \in Vars, NEW e \in Exprs, Assign(v, e)  PROVE WalkType'
  <2>1. /\ v \in declared /\ declared' = declared
        /\ scope' = [scope EXCEPT ![v] = IF ExprTaint(e) THEN TaintedCell ELSE NoCell]
    BY <1>2 DEF Assign
  <2>2. scope' \in ScopesOver(declared)
    BY <2>1, AnyCells, ScopeWith
  <2>3. Writes(v) /\ declared \in SUBSET Vars
    BY <1>2 DEF Assign, WalkType
  <2>4. frames' \in Seq(FrameOver(declared))
    BY <2>1, <2>3, WritesTyped
  <2> QED  BY <2>1, <2>2, <2>4 DEF WalkType
<1>3. ASSUME NEW v \in Vars, NEW w \in Vars, NEW x \in Fields, Destructure(v, w, x)  PROVE WalkType'
  <2>1. Fresh(v)
    BY <1>3 DEF Destructure
  <2>2. CASE IsTainted(w)
    <3>1. scope' = [scope EXCEPT ![v] = Projected(scope[w], x)]
      BY <1>3, <2>2 DEF Destructure
    <3> QED  BY <2>1, <2>2, <3>1, CellsMade, FreshTyped
  <2>3. CASE ~IsTainted(w)
    BY <1>3, <2>1, <2>3, FreshTyped DEF Destructure
  <2> QED  BY <2>2, <2>3
<1>4. ASSUME NEW v \in Vars, NEW w \in Vars, Validate(v, w)  PROVE WalkType'
  BY <1>4, AnyCells, FreshTyped DEF Validate
<1> QED  BY <1>1, <1>2, <1>3, <1>4 DEF Bindings

LEMMA CallsTyped ==
  ASSUME WalkType, Calls
  PROVE  WalkType'
<1>1. ASSUME NEW w \in Vars, NEW x \in Fields, Parse(w, x)  PROVE WalkType'
  <2>1. UNCHANGED <<declared, frames>> /\ w \in declared
    BY <1>1 DEF Parse
  <2>2. scope' \in ScopesOver(declared)
    <3>1. CASE IsTainted(w)
      <4>1. scope' = [scope EXCEPT ![w] = MarkClean(scope[w], <<x>>)]
        BY <1>1, <3>1 DEF Parse
      <4> QED  BY <2>1, <3>1, <4>1, CellsMade, ScopeWith
    <3>2. CASE ~IsTainted(w)
      BY <1>1, <3>2 DEF Parse, WalkType
    <3> QED  BY <3>1, <3>2
  <2> QED  BY <2>1, <2>2 DEF WalkType
<1>2. ASSUME NEW e \in Exprs, Write(e) \/ \E h \in Helpers : CallHelper(h, e)  PROVE WalkType'
  BY <1>2 DEF Write, CallHelper, WalkType
<1>3. ASSUME NEW e \in Exprs, Return(e)  PROVE WalkType'
  <2>1. UNCHANGED <<declared, scope>> /\ declared \in SUBSET Vars /\ frames \in Seq(FrameOver(declared))
    BY <1>3 DEF Return, WalkType
  <2>2. CASE frames = <<>>
    BY <1>3, <2>1, <2>2 DEF Return, WalkType
  <2>3. CASE frames # <<>>
    <3> DEFINE g == [frames[Len(frames)] EXCEPT !.returned = TRUE]
    <3>1. g \in FrameOver(declared)
      BY <2>1, <2>3, FrontLast, FrameOverParts
    <3>2. frames' = [frames EXCEPT ![Len(frames)] = g]
      BY <1>3, <2>3 DEF Return
    <3> HIDE DEF g
    <3>3. frames' \in Seq(FrameOver(declared))
      BY <2>1, <2>3, <3>1, <3>2, LastReplaced
    <3> QED  BY <2>1, <3>3 DEF WalkType
  <2> QED  BY <2>2, <2>3
<1>4. ASSUME NEW v \in Vars, NEW w \in Vars, NEW h \in Helpers, DeclareCall(v, w, h)  PROVE WalkType'
  <2>1. Fresh(v)
    BY <1>4 DEF DeclareCall
  <2>2. CASE Carries(h, w)
    <3>1. scope' = [scope EXCEPT ![v] = ReturnCell(h, w)] /\ IsTainted(w)
      BY <1>4, <2>2 DEF DeclareCall, Carries
    <3> QED  BY <2>1, <3>1, CellsMade, FreshTyped
  <2>3. CASE ~Carries(h, w)
    BY <1>4, <2>1, <2>3, FreshTyped DEF DeclareCall
  <2> QED  BY <2>2, <2>3
<1> QED  BY <1>1, <1>2, <1>3, <1>4 DEF Calls

LEMMA StructureTyped ==
  ASSUME WalkType, live \in BOOLEAN, Structure
  PROVE  WalkType'
<1>1. /\ declared \in SUBSET Vars /\ frames \in Seq(FrameOver(declared))
      /\ scope \in ScopesOver(declared)
  BY DEF WalkType
<1>2. declared' = declared
  BY DEF Structure, OpenIf, OpenBlock, Else, CloseIf, CloseBlock
<1>3. ASSUME NEW t \in Tests, NEW taken \in BOOLEAN, OpenIf(t, taken)  PROVE WalkType'
  <2> DEFINE f ==
        [kind |-> "then", guard |-> t, entry |-> scope, consequent |-> scope,
         consequentReturns |-> FALSE, returned |-> FALSE, written |-> {},
         taken |-> taken, wasLive |-> live, resumes |-> FALSE, proven |-> Proven(t, FALSE)]
  <2>1. t \in Guard /\ Proven(t, FALSE) \subseteq Vars
    BY <1>1, TestTyped
  <2>2. f \in IfFrameOver(declared)
    BY <1>1, <2>1 DEF IfFrameOver
  <2>3. frames' = Append(frames, f) /\ scope' = scope
    BY <1>3 DEF OpenIf
  <2> HIDE DEF f
  <2>4. frames' \in Seq(FrameOver(declared))
    BY <1>1, <2>2, <2>3, AppendProperties DEF FrameOver
  <2> QED  BY <1>2, <2>3, <2>4 DEF WalkType
<1>4. ASSUME NEW taken \in BOOLEAN, OpenBlock(taken)  PROVE WalkType'
  <2> DEFINE f == [kind |-> "block", entry |-> scope, returned |-> FALSE,
                   written |-> {}, taken |-> taken, wasLive |-> live]
  <2>1. f \in BlockFrameOver(declared)
    BY <1>1 DEF BlockFrameOver
  <2>2. frames' = Append(frames, f) /\ scope' = scope
    BY <1>4 DEF OpenBlock
  <2> HIDE DEF f
  <2>3. frames' \in Seq(FrameOver(declared))
    BY <1>1, <2>1, <2>2, AppendProperties DEF FrameOver
  <2> QED  BY <1>2, <2>2, <2>3 DEF WalkType
<1>5. ASSUME Else  PROVE WalkType'
  <2> DEFINE f == Last(frames)
             g == [f EXCEPT !.kind = "else", !.consequent = scope, !.consequentReturns = f.returned,
                            !.returned = FALSE, !.resumes = live]
  <2>1. frames # <<>> /\ f.kind = "then" /\ scope' = f.entry
    BY <1>5 DEF Else
  <2>2. f = frames[Len(frames)] /\ f \in FrameOver(declared)
    BY <1>1, <2>1, FrontLast
  <2>3. frames' = [frames EXCEPT ![Len(frames)] = g]
    BY <1>5, <2>2 DEF Else
  <2>4. f \in IfFrameOver(declared) /\ f.entry \in ScopesOver(declared)
    BY <1>1, <2>1, <2>2, FrameOverParts
  <2>5. g \in IfFrameOver(declared)
    BY <1>1, <2>4 DEF IfFrameOver
  <2> HIDE DEF f, g
  <2>6. frames' \in Seq(FrameOver(declared))
    BY <1>1, <2>1, <2>3, <2>5, LastReplaced DEF FrameOver
  <2> QED  BY <1>2, <2>1, <2>4, <2>6 DEF WalkType
<1>6. ASSUME CloseIf  PROVE WalkType'
  <2>1. frames # <<>> /\ Last(frames).kind \in {"then", "else"} /\ frames' = Popped
    BY <1>6 DEF CloseIf
  <2>2. Last(frames) \in FrameOver(declared)
    BY <1>1, <2>1, FrontLast
  <2>3. Last(frames).entry \in ScopesOver(declared) /\ Last(frames).consequent \in ScopesOver(declared)
    BY <1>1, <2>1, <2>2, FrameOverParts
  <2>4. Consequent \in ScopesOver(declared) /\ Alternate \in ScopesOver(declared)
    BY <1>1, <2>3 DEF Consequent, Alternate
  <2>5. \A a, b \in ScopesOver(declared) : Joined(a, b) \in ScopesOver(declared)
    BY DEF Joined, ScopesOver
  <2>6. AtJoin \in ScopesOver(declared)
    BY <2>4, <2>5 DEF AtJoin
  <2>7. PICK N : scope' = [v \in Vars |-> IF v \in N THEN NoCell ELSE AtJoin[v]]
    BY <1>6 DEF CloseIf
  <2>8. scope' \in ScopesOver(declared)
    BY <2>6, <2>7 DEF ScopesOver
  <2> QED  BY <1>1, <1>2, <2>1, <2>8, PoppedFrames DEF WalkType
<1>7. ASSUME CloseBlock  PROVE WalkType'
  <2>1. frames # <<>> /\ frames' = Popped /\ scope' = scope
    BY <1>7 DEF CloseBlock
  <2> QED  BY <1>1, <1>2, <2>1, PoppedFrames DEF WalkType
<1> QED  BY <1>3, <1>4, <1>5, <1>6, <1>7 DEF Structure

-----------------------------------------------------------------------------
LEMMA ExprParts ==
  ASSUME WalkType, val \in [Vars -> SUBSET Fields], NEW e \in Exprs
  PROVE  /\ e.root \in Vars /\ e.path \in Path /\ e.kind \in {"source", "literal", "chain"}
         /\ Value(e) \subseteq Fields
<1>1. /\ e.root \in Vars /\ e.path \in {<<>>} \cup {<<x>> : x \in Fields}
      /\ e.kind \in {"source", "literal", "chain"}
  BY FlowAssumption DEF Exprs, Expr, Source, Literal
<1>2. e.path \in Path
  <2>1. <<>> \in Seq(Offsets) /\ \A x \in Offsets : <<x>> \in Seq(Offsets)
    OBVIOUS
  <2> QED  BY <1>1, <2>1 DEF Path, Fields
<1>3. CASE e.kind = "source"
  BY <1>1, <1>2, <1>3 DEF Value, IsVar
<1>4. CASE e.kind = "literal"
  BY <1>1, <1>2, <1>4 DEF Value, IsVar
<1>5. CASE e.kind = "chain" /\ e.path = <<>>
  BY <1>1, <1>2, <1>5 DEF Value, IsVar
<1>6. CASE e.kind = "chain" /\ e.path # <<>>
  BY <1>1, <1>2, <1>6 DEF Value, IsVar
<1> QED  BY <1>1, <1>3, <1>4, <1>5, <1>6

\* What a write, a call or a return records: a cell, and one that is tainted when
\* what it was recorded for is.
LEMMA RecordedCell ==
  ASSUME WalkType, val \in [Vars -> SUBSET Fields], NEW e \in Exprs, NEW shape, IsCell(shape)
  PROVE  /\ IsCell(Recorded(shape, e)) /\ (HasTainted(shape) => HasTainted(Recorded(shape, e)))
         /\ IsCell(RecordedArg(shape, e)) /\ (HasTainted(shape) => HasTainted(RecordedArg(shape, e)))
<1>1. e.root \in Vars /\ e.path \in Path /\ <<>> \in Path
  BY ExprParts DEF Path
<1>2. IsTainted(e.root) => IsCell(scope[e.root])
  BY <1>1, CellOfVar
<1>3. /\ IsCell(InsertTainted(shape, e.path)) /\ HasTainted(InsertTainted(shape, e.path))
      /\ IsCell(InsertTainted(shape, <<>>)) /\ HasTainted(InsertTainted(shape, <<>>))
  BY <1>1, InsertCell
<1>4. ASSUME IsTainted(e.root)
      PROVE  /\ IsCell(InsertShape(shape, <<>>, scope[e.root]))
             /\ HasTainted(shape) => HasTainted(InsertShape(shape, <<>>, scope[e.root]))
  BY <1>1, <1>2, <1>4, InsertCell
<1>5. IsCell(Recorded(shape, e)) /\ (HasTainted(shape) => HasTainted(Recorded(shape, e)))
  BY <1>3, <1>4 DEF Recorded
<1> QED  BY <1>3, <1>5 DEF RecordedArg

LEMMA CrossFileTyped ==
  ASSUME TypeInv, NEW h \in Helpers, NEW e \in Exprs, CrossFile(h, e)
  PROVE  IsCell(paramShape') /\ (HasTainted(paramShape) => HasTainted(paramShape'))
<1> DEFINE q == RecordedArg(paramShape, e)
           s == Summary[h].paramShape
<1>1. IsCell(q) /\ (HasTainted(paramShape) => HasTainted(q)) /\ e.path \in Path
  BY RecordedCell, ExprParts DEF TypeInv, RestType
<1>2. Reaches(h, e) => IsCell(s)
  BY FlowAssumption DEF Reaches
<1> HIDE DEF q, s
<1>3. Reaches(h, e) => /\ IsCell(InsertShape(q, e.path, s))
                       /\ HasTainted(q) => HasTainted(InsertShape(q, e.path, s))
  BY <1>1, <1>2, InsertCell
<1>4. paramShape' = IF ~Reaches(h, e) THEN paramShape
                    ELSE IF e.kind = "chain" THEN InsertShape(q, e.path, s) ELSE q
  BY DEF CrossFile, q, s
<1> QED  BY <1>1, <1>3, <1>4 DEF TypeInv, RestType

LEMMA StoreTyped ==
  ASSUME TypeInv, NEW v \in Vars, NEW L \in SUBSET Fields, Store(v, L)
  PROVE  val' \in [Vars -> SUBSET Fields] /\ accepted' \subseteq accepted
BY DEF Store, TypeInv, RestType

LEMMA CountTyped ==
  ASSUME stmts \in 0..MaxStmts, Statement
  PROVE  stmts' \in 0..MaxStmts
BY FlowAssumption DEF Statement

LEMMA BindingsRest ==
  ASSUME TypeInv, Bindings
  PROVE  RestType'
<1>1. RestType /\ WalkType /\ val \in [Vars -> SUBSET Fields] /\ stmts \in 0..MaxStmts
  BY DEF TypeInv, RestType
<1>2. \A e \in Exprs : Value(e) \in SUBSET Fields
  BY <1>1, ExprParts
<1>3. ASSUME NEW v \in Vars, NEW e \in Exprs, Declare(v, e) \/ Assign(v, e)  PROVE RestType'
  <2>1. /\ Store(v, Value(e)) /\ Statement /\ declared \subseteq declared'
        /\ UNCHANGED <<validatorInits, taintedReturn, returnShape, paramShape, found, live, hit, out>>
    BY <1>3 DEF Declare, Assign, Fresh, walk
  <2>2. val' \in [Vars -> SUBSET Fields] /\ accepted' \subseteq accepted
    BY <1>2, <2>1, StoreTyped
  <2>3. stmts' \in 0..MaxStmts
    BY <1>1, <2>1, CountTyped
  <2> QED  BY <1>1, <2>1, <2>2, <2>3 DEF RestType
<1>4. ASSUME NEW v \in Vars, NEW w \in Vars, NEW x \in Fields, Destructure(v, w, x)  PROVE RestType'
  <2>1. /\ Store(v, IF x \in val[w] THEN Fields ELSE {}) /\ Statement /\ declared \subseteq declared'
        /\ UNCHANGED <<validatorInits, taintedReturn, returnShape, paramShape, found, live, hit, out>>
    BY <1>4 DEF Destructure, Fresh, walk
  <2>2. val' \in [Vars -> SUBSET Fields] /\ accepted' \subseteq accepted
    BY <2>1, StoreTyped
  <2>3. stmts' \in 0..MaxStmts
    BY <1>1, <2>1, CountTyped
  <2> QED  BY <1>1, <2>1, <2>2, <2>3 DEF RestType
<1>5. ASSUME NEW v \in Vars, NEW w \in Vars, Validate(v, w)  PROVE RestType'
  <2>1. /\ Statement /\ declared' = declared \cup {v} /\ w \in declared
        /\ validatorInits' = [validatorInits EXCEPT ![v] = w]
        /\ UNCHANGED <<taintedReturn, returnShape, paramShape, found, live, hit, out>>
    BY <1>5 DEF Validate, Fresh
  <2>2. val' \in [Vars -> SUBSET Fields]
    BY <1>1, <1>5 DEF Validate
  <2>3. accepted' \subseteq declared' \X declared'
    BY <1>1, <1>5, <2>1 DEF Validate, RestType
  <2>4. stmts' \in 0..MaxStmts
    BY <1>1, <2>1, CountTyped
  <2> QED  BY <1>1, <2>1, <2>2, <2>3, <2>4 DEF RestType
<1> QED  BY <1>3, <1>4, <1>5 DEF Bindings

LEMMA CallsRest ==
  ASSUME TypeInv, Calls
  PROVE  RestType'
<1>1. RestType /\ WalkType /\ val \in [Vars -> SUBSET Fields] /\ stmts \in 0..MaxStmts /\ live \in BOOLEAN
  BY DEF TypeInv, RestType
<1>2. \A e \in Exprs : Value(e) \in SUBSET Fields
  BY <1>1, ExprParts
<1>3. ASSUME NEW w \in Vars, NEW x \in Fields, Parse(w, x)  PROVE RestType'
  <2>1. stmts' \in 0..MaxStmts
    BY <1>1, <1>3, CountTyped DEF Parse
  <2>2. val' \in [Vars -> SUBSET Fields]
    BY <1>1, <1>3 DEF Parse
  <2> QED  BY <1>1, <1>3, <2>1, <2>2 DEF Parse, RestType, walk
<1>4. ASSUME NEW e \in Exprs, Write(e)  PROVE RestType'
  <2>1. stmts' \in 0..MaxStmts
    BY <1>1, <1>4, CountTyped DEF Write
  <2>2. IsCell(paramShape')
    BY <1>1, <1>4, RecordedCell DEF Write, WriteShape, RestType
  <2>3. found' \in BOOLEAN /\ hit' \in BOOLEAN
    BY <1>1, <1>4 DEF Write, RestType, ExprTaint
  <2> QED  BY <1>1, <1>4, <2>1, <2>2, <2>3 DEF Write, RestType
<1>5. ASSUME NEW e \in Exprs, NEW h \in Helpers, CallHelper(h, e)  PROVE RestType'
  <2>1. stmts' \in 0..MaxStmts
    BY <1>1, <1>5, CountTyped DEF CallHelper
  <2>2. IsCell(paramShape') /\ found' \in BOOLEAN /\ hit' \in BOOLEAN
    BY <1>1, <1>5, CrossFileTyped DEF CallHelper, CrossFile, RestType
  <2> QED  BY <1>1, <1>5, <2>1, <2>2 DEF CallHelper, RestType
<1>6. ASSUME NEW e \in Exprs, Return(e)  PROVE RestType'
  <2>1. stmts' \in 0..MaxStmts
    BY <1>1, <1>6, FlowAssumption DEF Return
  <2>2. IsCell(returnShape')
    BY <1>1, <1>6, RecordedCell DEF Return, RestType
  <2>3. taintedReturn' \in BOOLEAN /\ live' \in BOOLEAN /\ out' \subseteq Fields
    BY <1>1, <1>2, <1>6 DEF Return, ReturnFlag, RestType
  <2> QED  BY <1>1, <1>6, <2>1, <2>2, <2>3 DEF Return, RestType
<1>7. ASSUME NEW v \in Vars, NEW w \in Vars, NEW h \in Helpers, DeclareCall(v, w, h)  PROVE RestType'
  <2> DEFINE e == [kind |-> "chain", root |-> w, path |-> <<>>]
  <2>1. e \in Exprs
    BY <1>7 DEF DeclareCall, Exprs, Expr
  <2>2. stmts' \in 0..MaxStmts /\ declared' = declared \cup {v}
    BY <1>1, <1>7, CountTyped DEF DeclareCall, Fresh
  <2>3. CrossFile(h, e) /\ Store(v, Gives[h][val[w]])
    BY <1>7 DEF DeclareCall
  <2> HIDE DEF e
  <2>4. IsCell(paramShape') /\ found' \in BOOLEAN /\ hit' \in BOOLEAN
    BY <1>1, <2>1, <2>3, CrossFileTyped DEF CrossFile, RestType
  <2>5. Gives[h][val[w]] \in SUBSET Fields
    BY <1>1, FlowAssumption
  <2>6. val' \in [Vars -> SUBSET Fields] /\ accepted' \subseteq accepted
    BY <2>3, <2>5, StoreTyped
  <2> QED  BY <1>1, <1>7, <2>2, <2>4, <2>6 DEF DeclareCall, RestType
<1> QED  BY <1>3, <1>4, <1>5, <1>6, <1>7 DEF Calls

LEMMA StructureRest ==
  ASSUME TypeInv, Structure
  PROVE  RestType'
<1>1. RestType /\ WalkType /\ val \in [Vars -> SUBSET Fields] /\ stmts \in 0..MaxStmts /\ live \in BOOLEAN
  BY DEF TypeInv, RestType
<1>2. frames # <<>> => Last(frames) \in FrameOver(declared) /\ declared \in SUBSET Vars
  BY <1>1, FrontLast DEF WalkType
<1>3. ASSUME NEW t \in Tests, NEW taken \in BOOLEAN, OpenIf(t, taken)  PROVE RestType'
  <2>1. stmts' \in 0..MaxStmts
    BY <1>1, <1>3, CountTyped DEF OpenIf
  <2>2. val' \in [Vars -> SUBSET Fields] /\ live' \in BOOLEAN
    BY <1>1, <1>3 DEF OpenIf
  <2> QED  BY <1>1, <1>3, <2>1, <2>2 DEF OpenIf, RestType, walk
<1>4. ASSUME NEW taken \in BOOLEAN, OpenBlock(taken)  PROVE RestType'
  <2>1. stmts' \in 0..MaxStmts
    BY <1>1, <1>4, CountTyped DEF OpenBlock
  <2> QED  BY <1>1, <1>4, <2>1 DEF OpenBlock, RestType, walk
<1>5. ASSUME Else \/ CloseIf \/ CloseBlock  PROVE RestType'
  <2>1. frames # <<>> /\ Last(frames) \in FrameOver(declared)
    BY <1>2, <1>5 DEF Else, CloseIf, CloseBlock
  <2>2. /\ Last(frames).wasLive \in BOOLEAN /\ Last(frames).taken \in BOOLEAN
        /\ Last(frames).kind # "block" => Last(frames).resumes \in BOOLEAN
    BY <1>2, <2>1, FrameOverParts
  <2>3. live' \in BOOLEAN
    BY <1>1, <1>5, <2>2 DEF Else, CloseIf, CloseBlock
  <2> QED  BY <1>1, <1>5, <2>3 DEF Else, CloseIf, CloseBlock, RestType, walk
<1> QED  BY <1>3, <1>4, <1>5 DEF Structure

LEMMA TypeInit == Init => TypeInv
<1> SUFFICES ASSUME Init  PROVE TypeInv
  OBVIOUS
<1>1. IsCell(Bot) /\ frames = <<>>
  BY WholeIsCell DEF Bot, Mark, Init
<1>2. scope \in ScopesOver(declared) /\ declared \subseteq Vars /\ Param \in declared
  BY FlowAssumption, AnyCells DEF Init, ScopesOver
<1>3. WalkType
  BY <1>1, <1>2, EmptySeq DEF WalkType
<1>4. /\ validatorInits \in [Vars -> declared \cup {NoVar}] /\ val \in [Vars -> SUBSET Fields]
      /\ stmts \in 0..MaxStmts
  BY FlowAssumption DEF Init
<1>5. RestType
  BY <1>1, <1>4 DEF Init, RestType
<1> QED  BY <1>3, <1>5 DEF TypeInv

LEMMA TypeStep == TypeInv /\ [Next]_vars => TypeInv'
<1> SUFFICES ASSUME TypeInv, [Next]_vars  PROVE TypeInv'
  OBVIOUS
<1>1. CASE Bindings
  BY <1>1, BindingsTyped, BindingsRest DEF TypeInv
<1>2. CASE Calls
  BY <1>2, CallsTyped, CallsRest DEF TypeInv
<1>3. CASE Structure
  BY <1>3, StructureTyped, StructureRest DEF TypeInv, RestType
<1>4. CASE UNCHANGED vars
  BY <1>4 DEF vars, walk, TypeInv, WalkType, RestType
<1> QED  BY <1>1, <1>2, <1>3, <1>4 DEF Next

\* The walk keeps to its types, whatever it loses: a scope never holds an empty
\* cell or one clean as a whole, so that "has an entry" may stand for "tainted"
\* (is_tainted), and no variable has an entry before its declaration.
THEOREM WalkIsTyped == Spec => []TypeOK
<1>1. TypeInv => TypeOK
  <2> SUFFICES ASSUME TypeInv  PROVE TypeOK
    OBVIOUS
  <2>1. \A D : \A s \in ScopesOver(D) : IsScope(s)
    BY AnyCells DEF ScopesOver, IsScope
  <2>2. ASSUME NEW i \in DOMAIN frames
        PROVE  IsScope(frames[i].entry) /\ frames[i].written \subseteq declared
    <3>1. frames \in Seq(FrameOver(declared)) /\ declared \in SUBSET Vars
      BY DEF TypeInv, WalkType
    <3>2. frames[i] \in FrameOver(declared)
      BY <3>1, ElementOfSeq
    <3> QED  BY <2>1, <3>1, <3>2, FrameOverParts
  <2>3. IsScope(scope) /\ \A v \in Vars \ declared : scope[v] = NoCell
    BY <2>1 DEF TypeInv, WalkType, ScopesOver
  <2> QED  BY <2>2, <2>3 DEF TypeInv, RestType, TypeOK
<1> QED  BY <1>1, TypeInit, TypeStep, PTL DEF Spec

-----------------------------------------------------------------------------
\* What moves which result, for the properties below.
LEMMA ResultSteps ==
  ASSUME [Next]_vars
  PROVE  /\ \/ \E e \in Exprs : Return(e)
            \/ UNCHANGED <<returnShape, taintedReturn>>
         /\ \/ \E e \in Exprs : Write(e)
            \/ \E e \in Exprs, h \in Helpers : CrossFile(h, e)
            \/ UNCHANGED <<paramShape, found, hit>>
<1>1. CASE Bindings
  BY <1>1 DEF Bindings, Declare, Assign, Destructure, Validate, walk
<1>2. CASE Calls
  <2>1. ASSUME NEW w \in Vars, NEW x \in Fields, Parse(w, x)
        PROVE  UNCHANGED <<returnShape, taintedReturn, paramShape, found, hit>>
    BY <2>1 DEF Parse, walk
  <2>2. ASSUME NEW e \in Exprs, Write(e) PROVE UNCHANGED <<returnShape, taintedReturn>>
    BY <2>2 DEF Write
  <2>3. ASSUME NEW e \in Exprs, Return(e) PROVE UNCHANGED <<paramShape, found, hit>>
    BY <2>3 DEF Return
  <2>4. ASSUME NEW e \in Exprs, NEW h \in Helpers, CallHelper(h, e)
        PROVE  CrossFile(h, e) /\ UNCHANGED <<returnShape, taintedReturn>>
    BY <2>4 DEF CallHelper
  <2>5. ASSUME NEW v \in Vars, NEW w \in Vars, NEW h \in Helpers, DeclareCall(v, w, h)
        PROVE  (\E e \in Exprs : CrossFile(h, e)) /\ UNCHANGED <<returnShape, taintedReturn>>
    <3>1. [kind |-> "chain", root |-> w, path |-> <<>>] \in Exprs
      BY <2>5 DEF DeclareCall, Exprs, Expr
    <3> QED  BY <2>5, <3>1 DEF DeclareCall
  <2> QED  BY <1>2, <2>1, <2>2, <2>3, <2>4, <2>5 DEF Calls
<1>3. CASE Structure
  BY <1>3 DEF Structure, OpenIf, OpenBlock, Else, CloseIf, CloseBlock, walk
<1>4. CASE UNCHANGED vars
  BY <1>4 DEF vars, walk
<1> QED  BY <1>1, <1>2, <1>3, <1>4 DEF Next

LEMMA BotHasNone == ~HasTainted(Bot)
BY WholeCell DEF HasTainted, Bot, Mark

\* record_taint_in_return and classify_expr walk the returned expression each in
\* its own way, yet a return shape with a tainted leaf comes with the flag.
THEOREM ShapesAreFlagged == Spec => []ShapeImpliesBoolean
<1>1. Init => ShapeImpliesBoolean
  BY BotHasNone DEF Init, ShapeImpliesBoolean
<1>2. ShapeImpliesBoolean /\ [Next]_vars => ShapeImpliesBoolean'
  <2> SUFFICES ASSUME ShapeImpliesBoolean, [Next]_vars  PROVE ShapeImpliesBoolean'
    OBVIOUS
  <2>1. CASE \E e \in Exprs : Return(e)
    BY <2>1 DEF Return, ReturnFlag, ShapeImpliesBoolean
  <2>2. CASE UNCHANGED <<returnShape, taintedReturn>>
    BY <2>2 DEF ShapeImpliesBoolean
  <2> QED  BY <2>1, <2>2, ResultSteps
<1> QED  BY <1>1, <1>2, PTL DEF Spec

\* And a parameter shape with a tainted leaf, what a caller takes for "reaches a
\* database write", comes with a finding in the function itself.
THEOREM ReachesAreFound == Spec => []ReachesImpliesFinding
<1>1. Init => ReachesImpliesFinding
  BY BotHasNone DEF Init, ReachesImpliesFinding
<1>2. ReachesImpliesFinding /\ [Next]_vars => ReachesImpliesFinding'
  <2> SUFFICES ASSUME ReachesImpliesFinding, [Next]_vars  PROVE ReachesImpliesFinding'
    OBVIOUS
  <2>1. CASE \E e \in Exprs : Write(e)
    BY <2>1 DEF Write, WriteShape, ReachesImpliesFinding
  <2>2. CASE \E e \in Exprs, h \in Helpers : CrossFile(h, e)
    BY <2>2 DEF CrossFile, ReachesImpliesFinding
  <2>3. CASE UNCHANGED <<paramShape, found, hit>>
    BY <2>3 DEF ReachesImpliesFinding
  <2> QED  BY <2>1, <2>2, <2>3, ResultSteps
<1> QED  BY <1>1, <1>2, PTL DEF Spec

\* A path that reads tainted lies on a tainted entry's way, in a cell one field
\* deep: something in the cell is tainted.
LEMMA SeenHasTainted ==
  ASSUME NEW c \in FlatCell, NEW x \in Seen(c)
  PROVE  HasTainted(c)
<1>1. TaintedAt(c, <<x>>) /\ x \in Offsets /\ <<>> \in DOMAIN c
  BY FlatCellType DEF Seen, Fields
<1> QED  BY <1>1, FlatReads DEF HasTainted

\* If the run brings request data to an expression, what is recorded of it has
\* a tainted entry.
LEMMA DataRecorded ==
  ASSUME FlowInv, TypeInv, Sound, live, NEW e \in Exprs, Value(e) # {}, NEW shape, IsCell(shape)
  PROVE  ExprTaint(e) /\ HasTainted(RecordedArg(shape, e)) /\ IsCell(RecordedArg(shape, e))
<1>1. FlowType /\ WalkType /\ Covers(val, scope) /\ val \in [Vars -> SUBSET Fields]
  BY DEF FlowInv, TypeInv, RestType
<1>2. ExprTaint(e) /\ IsCell(RecordedArg(shape, e))
  BY <1>1, ExprCovered, RecordedCell
<1>3. e.root \in Vars /\ e.path \in Path /\ e.kind \in {"source", "literal", "chain"} /\ <<>> \in Path
  BY <1>1, ExprParts DEF Path
<1>4. HasTainted(InsertTainted(shape, e.path)) /\ HasTainted(InsertTainted(shape, <<>>))
  BY <1>3, InsertCell
<1>5. HasTainted(RecordedArg(shape, e))
  <2>1. CASE e.kind = "source"
    BY <1>4, <2>1 DEF RecordedArg
  <2>2. CASE e.kind # "source"
    <3>1. e.kind = "chain" /\ IsTainted(e.root) /\ RecordedArg(shape, e) = Recorded(shape, e)
      BY <1>2, <2>2 DEF ExprTaint, RecordedArg
    <3>2. CASE e.path = <<>>
      <4>1. Value(e) = val[e.root]
        BY <3>1, <3>2 DEF Value, IsVar
      <4>2. PICK x : x \in Seen(scope[e.root])
        BY <1>1, <1>3, <4>1 DEF Covers
      <4>3. scope[e.root] \in FlatCell /\ IsCell(scope[e.root])
        BY <1>1, <1>3, <3>1, TaintedVar, CellOfVar
      <4>4. HasTainted(scope[e.root])
        BY <4>2, <4>3, SeenHasTainted
      <4>5. HasTainted(InsertShape(shape, <<>>, scope[e.root]))
        BY <1>3, <4>3, <4>4, InsertCell
      <4> QED  BY <1>4, <3>1, <4>5 DEF Recorded
    <3>3. CASE e.path # <<>>
      BY <1>4, <3>1, <3>3 DEF Recorded
    <3> QED  BY <3>2, <3>3
  <2> QED  BY <2>1, <2>2
<1> QED  BY <1>2, <1>5

\* A database write that request data reaches, in the function or in a helper
\* it is passed to, is found, and the summary's parameter shape tells callers.
THEOREM SinksAreFound == Spec => []NoMissedSink
<1> DEFINE Inv == FlowInv /\ TypeInv /\ NoMissedSink
<1>1. Init => Inv
  BY FlowInit, TypeInit DEF Init, NoMissedSink
<1>2. ASSUME Inv, [Next]_vars  PROVE Inv'
  <2>1. FlowInv' /\ TypeInv'
    BY <1>2, FlowStep, TypeStep
  <2>2. SUFFICES ASSUME Sound', hit'  PROVE found' /\ HasTainted(paramShape')
    BY <2>1 DEF NoMissedSink
  <2>3. Sound /\ IsCell(paramShape) /\ WalkType /\ val \in [Vars -> SUBSET Fields]
    BY <1>2, <2>2, LossesStay DEF TypeInv, RestType
  <2>4. hit => found /\ HasTainted(paramShape)
    BY <1>2, <2>3 DEF NoMissedSink
  <2>5. ASSUME NEW e \in Exprs, Write(e)  PROVE found' /\ HasTainted(paramShape')
    <3>1. hit \/ (live /\ Value(e) # {})
      BY <2>2, <2>5 DEF Write
    <3>2. HasTainted(paramShape) => HasTainted(paramShape')
      BY <2>3, <2>5, RecordedCell DEF Write, WriteShape
    <3>3. CASE hit
      BY <2>4, <2>5, <3>2, <3>3 DEF Write
    <3>4. CASE live /\ Value(e) # {}
      <4>1. ExprTaint(e) /\ HasTainted(RecordedArg(paramShape, e))
        BY <1>2, <2>3, <3>4, DataRecorded
      <4> QED  BY <2>5, <4>1 DEF Write, WriteShape
    <3> QED  BY <3>1, <3>3, <3>4
  <2>6. ASSUME NEW e \in Exprs, NEW h \in Helpers, CrossFile(h, e)  PROVE found' /\ HasTainted(paramShape')
    <3>1. hit \/ (live /\ Value(e) \cap Stores[h] # {})
      BY <2>2, <2>6 DEF CrossFile
    <3>2. HasTainted(paramShape) => HasTainted(paramShape')
      BY <1>2, <2>6, CrossFileTyped
    <3>3. CASE hit
      BY <2>4, <2>6, <3>2, <3>3 DEF CrossFile
    <3>4. CASE live /\ Value(e) \cap Stores[h] # {}
      <4> DEFINE q == RecordedArg(paramShape, e)
                 s == Summary[h].paramShape
      <4>1. ExprTaint(e) /\ HasTainted(q) /\ IsCell(q)
        BY <1>2, <2>3, <3>4, DataRecorded
      <4>2. Reaches(h, e) /\ IsCell(s) /\ e.path \in Path
        BY <2>3, <3>4, <4>1, FlowAssumption, ExprParts DEF Reaches
      <4>3. paramShape' = IF e.kind = "chain" THEN InsertShape(q, e.path, s) ELSE q
        BY <2>6, <4>2 DEF CrossFile
      <4> HIDE DEF q, s
      <4>4. HasTainted(InsertShape(q, e.path, s))
        BY <4>1, <4>2, InsertCell
      <4> QED  BY <2>6, <4>1, <4>2, <4>3, <4>4 DEF CrossFile
    <3> QED  BY <3>1, <3>3, <3>4
  <2>7. CASE UNCHANGED <<paramShape, found, hit>>
    BY <2>2, <2>4, <2>7
  <2> QED  BY <1>2, <2>5, <2>6, <2>7, ResultSteps
<1>3. Inv => NoMissedSink
  OBVIOUS
<1> QED  BY <1>1, <1>2, <1>3, PTL DEF Spec

-----------------------------------------------------------------------------
\* Where nothing was blurred, no statement is open and, while the run is here,
\* what reads tainted is what carries request data.
Matches == \A v \in Vars : Seen(scope[v]) = val[v]
ExactInv == gaps = {} => frames = <<>> /\ (live => Matches)

\* On such a walk an expression is tainted if and only if all of it carries data.
LEMMA ExprExact ==
  ASSUME FlowType, Matches, NEW e \in Exprs, Copies(e) = {}
  PROVE  Value(e) = IF ExprTaint(e) THEN Fields ELSE {}
<1>1. CASE e.kind = "source"
  BY <1>1 DEF ExprTaint, Value, IsVar
<1>2. CASE e.kind = "literal"
  BY <1>2 DEF ExprTaint, Value, IsVar
<1>3. CASE e.kind = "chain"
  <2>1. e.root \in Vars /\ e.path \in {<<>>} \cup {<<x>> : x \in Fields}
    BY <1>3 DEF Exprs, Expr, Source, Literal
  <2>2. val[e.root] = Seen(scope[e.root])
    BY <2>1 DEF Matches
  <2>3. CASE e.path = <<>>
    <3>1. Value(e) = val[e.root] /\ (ExprTaint(e) <=> IsTainted(e.root))
      BY <1>3, <2>3 DEF Value, IsVar, ExprTaint
    <3>2. IsTainted(e.root) => Seen(scope[e.root]) = Fields
      BY <1>3, <2>3 DEF Copies, IsVar
    <3>3. ~IsTainted(e.root) => Seen(scope[e.root]) = {}
      BY ScopeCells DEF IsTainted
    <3> QED  BY <2>2, <3>1, <3>2, <3>3
  <2>4. CASE e.path # <<>>
    <3>1. PICK x \in Fields : e.path = <<x>>
      BY <2>1, <2>4
    <3>2. Value(e) = IF x \in val[e.root] THEN Fields ELSE {}
      BY <1>3, <2>4, <3>1 DEF Value, IsVar
    <3>3. ExprTaint(e) <=> x \in Seen(scope[e.root])
      BY <1>3, <2>4, <3>1 DEF ExprTaint, IsTainted, Seen
    <3> QED  BY <2>2, <3>2, <3>3
  <2> QED  BY <2>3, <2>4
<1> QED  BY <1>1, <1>2, <1>3 DEF Exprs, Expr, Source, Literal

\* One variable gets a cell in the walk and the same fields in the run.
LEMMA MatchKept ==
  ASSUME FlowType, Matches, live, NEW v \in Vars, NEW c, NEW L, Seen(c) = L,
         scope' = [scope EXCEPT ![v] = c], val' = [val EXCEPT ![v] = L]
  PROVE  Matches'
<1>1. scope \in Scopes /\ val \in [Vars -> SUBSET Fields]
  BY DEF FlowType
<1>2. ASSUME NEW w \in Vars  PROVE Seen(scope'[w]) = val'[w]
  <2>1. CASE w = v
    BY <1>1, <2>1 DEF Scopes
  <2>2. CASE w # v
    <3>1. scope'[w] = scope[w] /\ val'[w] = val[w]
      BY <1>1, <2>2 DEF Scopes
    <3> QED  BY <3>1 DEF Matches
  <2> QED  BY <2>1, <2>2
<1> QED  BY <1>2 DEF Matches

LEMMA NoCellUndeclared ==
  ASSUME TypeInv, NEW v \in Vars, Fresh(v)
  PROVE  scope[v] = NoCell /\ Seen(scope[v]) = {} /\ scope = [scope EXCEPT ![v] = NoCell]
BY ScopeCells DEF TypeInv, WalkType, ScopesOver, Fresh

LEMMA ExactBindings ==
  ASSUME FlowInv, TypeInv, ExactInv, Bindings, gaps' = {}, live'
  PROVE  frames' = <<>> /\ Matches'
<1>1. gaps = {} /\ live
  BY DEF Bindings, Declare, Assign, Destructure, Validate
<1>2. FlowType /\ Matches /\ frames = <<>>
  BY <1>1 DEF FlowInv, Sound, ExactInv
<1>3. Seen(TaintedCell) = Fields /\ Seen(NoCell) = {}
  BY ScopeCells
<1>4. ASSUME NEW v \in Vars, NEW e \in Exprs, Declare(v, e) \/ Assign(v, e)
      PROVE  frames' = <<>> /\ Matches'
  <2> DEFINE c == IF ExprTaint(e) THEN TaintedCell ELSE NoCell
  <2>1. Copies(e) = {} /\ frames' = <<>> /\ Store(v, Value(e))
    BY <1>2, <1>4 DEF Declare, Assign, Fresh, Writes
  <2>2. Value(e) = Seen(c)
    BY <1>2, <1>3, <2>1, ExprExact
  <2>3. scope' = [scope EXCEPT ![v] = c]
    BY <1>4, NoCellUndeclared DEF Declare, Assign
  <2>4. val' = [val EXCEPT ![v] = Value(e)]
    BY <1>1, <2>1 DEF Store
  <2> HIDE DEF c
  <2> QED  BY <1>1, <1>2, <2>1, <2>2, <2>3, <2>4, MatchKept
<1>5. ASSUME NEW v \in Vars, NEW w \in Vars, NEW x \in Fields, Destructure(v, w, x)
      PROVE  frames' = <<>> /\ Matches'
  <2> DEFINE L == IF x \in val[w] THEN Fields ELSE {}
             c == IF IsTainted(w) THEN Projected(scope[w], x) ELSE NoCell
  <2>1. frames' = <<>> /\ val' = [val EXCEPT ![v] = L] /\ Fresh(v)
    BY <1>1, <1>2, <1>5 DEF Destructure, Store, Fresh, Writes
  <2>2. scope' = [scope EXCEPT ![v] = c]
    BY <1>5, <2>1, NoCellUndeclared DEF Destructure
  <2>3. x \in val[w] <=> IsTainted(w) /\ TaintedAt(scope[w], <<x>>)
    <3>1. val[w] = Seen(scope[w])
      BY <1>2 DEF Matches
    <3> QED  BY <3>1 DEF Seen, IsTainted
  <2>4. IsTainted(w) => Projected(scope[w], x) = IF TaintedAt(scope[w], <<x>>) THEN TaintedCell ELSE NoCell
    <3>1. ASSUME IsTainted(w)
          PROVE  /\ TaintedAt(Project(scope[w], <<x>>), <<>>) <=> TaintedAt(scope[w], <<x>>)
                 /\ TaintedAt(scope[w], <<x>>) => Project(scope[w], <<x>>) = TaintedCell
      BY <1>2, <3>1, TaintedVar, FlatProject DEF Fields
    <3> QED  BY <3>1 DEF Projected
  <2>5. Seen(c) = L
    BY <1>3, <2>3, <2>4
  <2> HIDE DEF c, L
  <2> QED  BY <1>1, <1>2, <2>1, <2>2, <2>5, MatchKept
<1>6. ASSUME NEW v \in Vars, NEW w \in Vars, Validate(v, w)
      PROVE  frames' = <<>> /\ Matches'
  <2> DEFINE c == IF IsTainted(w) THEN TaintedCell ELSE NoCell
             e == [kind |-> "chain", root |-> w, path |-> <<>>]
  <2>1. frames' = <<>> /\ val' = [val EXCEPT ![v] = val[w]] /\ Fresh(v) /\ w \in declared
    BY <1>1, <1>2, <1>6 DEF Validate, Fresh, Writes
  <2>2. scope' = [scope EXCEPT ![v] = c]
    BY <1>6, <2>1, NoCellUndeclared DEF Validate
  <2>3. e \in Exprs /\ Copies(e) = {}
    BY <1>6, <2>1 DEF Exprs, Expr, Validate
  <2>4. Value(e) = IF ExprTaint(e) THEN Fields ELSE {}
    <3> HIDE DEF e
    <3> QED  BY <1>2, <2>3, ExprExact
  <2>5. Value(e) = val[w] /\ (ExprTaint(e) <=> IsTainted(w))
    BY DEF Value, IsVar, ExprTaint
  <2>6. Seen(c) = val[w]
    BY <1>3, <2>4, <2>5
  <2> HIDE DEF c
  <2> QED  BY <1>1, <1>2, <2>1, <2>2, <2>6, MatchKept
<1> QED  BY <1>4, <1>5, <1>6 DEF Bindings

LEMMA ExactCalls ==
  ASSUME FlowInv, TypeInv, ExactInv, Calls, gaps' = {}, live'
  PROVE  frames' = <<>> /\ Matches'
<1>1. gaps = {} /\ live
  BY DEF Calls, Parse, Write, Return, CallHelper, DeclareCall
<1>2. FlowType /\ Matches /\ frames = <<>>
  BY <1>1 DEF FlowInv, Sound, ExactInv
<1>3. ASSUME NEW w \in Vars, NEW x \in Fields, Parse(w, x)  PROVE frames' = <<>> /\ Matches'
  <2>1. frames' = <<>> /\ val' = [val EXCEPT ![w] = val[w] \ {x}]
    BY <1>1, <1>2, <1>3 DEF Parse
  <2>2. val[w] = Seen(scope[w])
    BY <1>2 DEF Matches
  <2>3. CASE IsTainted(w)
    <3> DEFINE m == MarkClean(scope[w], <<x>>)
    <3>1. scope[w] \in FlatCell /\ scope[w] # NoCell /\ x \in Offsets
      BY <1>2, <2>3, TaintedVar, ScopeCells DEF Fields
    <3>2. /\ m \in FlatCell /\ ~TaintedAt(m, <<x>>)
          /\ \A y \in Offsets \ {x} : TaintedAt(m, <<y>>) <=> TaintedAt(scope[w], <<y>>)
      BY <3>1, FlatMarkClean
    <3>3. m # NoCell
      <4>1. <<>> \in DOMAIN m /\ DOMAIN NoCell = {}
        BY <3>2, FlatCellType DEF NoCell
      <4> QED  BY <4>1
    <3>4. scope' = [scope EXCEPT ![w] = m]
      BY <1>3, <2>3 DEF Parse
    <3> HIDE DEF m
    <3>5. Seen(m) = val[w] \ {x}
      BY <2>2, <3>1, <3>2, <3>3 DEF Seen, Fields
    <3> QED  BY <1>1, <1>2, <2>1, <3>4, <3>5, MatchKept
  <2>4. CASE ~IsTainted(w)
    <3>1. val[w] = {} /\ scope[w] = NoCell
      BY <2>2, <2>4, ScopeCells DEF IsTainted
    <3>2. scope' = [scope EXCEPT ![w] = NoCell]
      BY <1>2, <1>3, <2>4, <3>1 DEF Parse, FlowType, Scopes
    <3>3. Seen(NoCell) = val[w] \ {x}
      BY <3>1, ScopeCells
    <3> QED  BY <1>1, <1>2, <2>1, <3>2, <3>3, MatchKept
  <2> QED  BY <2>3, <2>4
<1>4. ASSUME NEW e \in Exprs, Write(e) \/ \E h \in Helpers : CallHelper(h, e)
      PROVE  frames' = <<>> /\ Matches'
  <2>1. UNCHANGED <<frames, scope, val>>
    BY <1>4 DEF Write, CallHelper
  <2> QED  BY <1>2, <2>1 DEF Matches, Seen
<1>5. ASSUME NEW e \in Exprs, Return(e)  PROVE FALSE
  BY <1>5 DEF Return
<1>6. ASSUME NEW v \in Vars, NEW w \in Vars, NEW h \in Helpers, DeclareCall(v, w, h)
      PROVE  frames' = <<>> /\ Matches'
  <2> DEFINE c == IF Carries(h, w) THEN ReturnCell(h, w) ELSE NoCell
             L == Gives[h][val[w]]
  <2>1. frames' = <<>> /\ val' = [val EXCEPT ![v] = L] /\ Fresh(v)
    BY <1>1, <1>2, <1>6 DEF DeclareCall, Store, Fresh, Writes
  <2>2. scope' = [scope EXCEPT ![v] = c]
    BY <1>6, <2>1, NoCellUndeclared DEF DeclareCall
  <2>3. val[w] = Seen(scope[w]) /\ val[w] \in SUBSET Fields
    BY <1>2 DEF Matches, FlowType
  <2>4. CASE Carries(h, w)
    <3>1. CallGaps(h, w) = {}
      BY <1>6, <2>4 DEF DeclareCall
    <3>2. ReturnCell(h, w) = scope[w] /\ \A M \in SUBSET Fields : Gives[h][M] = M
      BY <3>1 DEF CallGaps
    <3>3. c = scope[w] /\ L = val[w]
      BY <2>3, <2>4, <3>2
    <3> HIDE DEF c, L
    <3> QED  BY <1>1, <1>2, <2>1, <2>2, <2>3, <3>3, MatchKept
  <2>5. CASE ~Carries(h, w)
    <3>1. CASE ~IsTainted(w)
      <4>1. val[w] = {}
        BY <2>3, <3>1, ScopeCells DEF IsTainted
      <4>2. L = {} /\ c = NoCell
        BY <2>5, <4>1, FlowAssumption
      <4> HIDE DEF c, L
      <4> QED  BY <1>1, <1>2, <2>1, <2>2, <4>2, ScopeCells, MatchKept
    <3>2. CASE IsTainted(w)
      <4>1. L = {} /\ c = NoCell
        BY <2>3, <2>5, <3>2, FlowAssumption DEF Carries
      <4> HIDE DEF c, L
      <4> QED  BY <1>1, <1>2, <2>1, <2>2, <4>1, ScopeCells, MatchKept
    <3> QED  BY <3>1, <3>2
  <2> QED  BY <2>4, <2>5
<1> QED  BY <1>3, <1>4, <1>5, <1>6 DEF Calls

\* On straight lines where no object is copied and no helper changes what it is
\* given the walk reads tainted exactly the fields that carry request data:
\* what it reports there is not for want of precision.
THEOREM WalkIsExact == Spec => []ExactOutsideBlurs
<1> DEFINE Inv == FlowInv /\ TypeInv /\ ExactInv
<1>1. Init => Inv
  <2> SUFFICES ASSUME Init  PROVE ExactInv
    BY FlowInit, TypeInit
  <2>1. Matches
    BY ScopeCells DEF Init, Matches
  <2> QED  BY <2>1 DEF Init, ExactInv
<1>2. ASSUME Inv, [Next]_vars  PROVE Inv'
  <2>1. FlowInv' /\ TypeInv'
    BY <1>2, FlowStep, TypeStep
  <2>2. ASSUME gaps' = {}  PROVE frames' = <<>> /\ (live' => Matches')
    <3>1. CASE Bindings
      <4>1. gaps = {}
        BY <2>2, <3>1 DEF Bindings, Declare, Assign, Destructure, Validate
      <4>2. frames' = <<>>
        <5>1. \E v \in Vars : Writes(v)
          BY <3>1 DEF Bindings, Declare, Assign, Destructure, Validate, Fresh
        <5> QED  BY <1>2, <4>1, <5>1 DEF ExactInv, Writes
      <4> QED  BY <1>2, <2>2, <3>1, <4>2, ExactBindings
    <3>2. CASE Calls
      <4>1. gaps = {}
        BY <2>2, <3>2 DEF Calls, Parse, Write, Return, CallHelper, DeclareCall
      <4>2. frames' = <<>>
        <5>1. frames = <<>> => frames' = <<>> \/ \E v \in Vars : Writes(v)
          BY <3>2 DEF Calls, Parse, Write, Return, CallHelper, DeclareCall, Fresh
        <5> QED  BY <1>2, <4>1, <5>1 DEF ExactInv, Writes
      <4> QED  BY <1>2, <2>2, <3>2, <4>2, ExactCalls
    <3>3. CASE Structure
      <4>1. gaps = {} /\ frames # <<>>
        BY <2>2, <3>3 DEF Structure, OpenIf, OpenBlock, Else, CloseIf, CloseBlock
      <4> QED  BY <1>2, <4>1 DEF ExactInv
    <3>4. CASE UNCHANGED vars
      BY <1>2, <2>2, <3>4 DEF vars, ExactInv, Matches, Seen
    <3> QED  BY <1>2, <3>1, <3>2, <3>3, <3>4 DEF Next
  <2> QED  BY <2>1, <2>2 DEF ExactInv
<1>3. Inv => ExactOutsideBlurs
  BY DEF ExactInv, ExactOutsideBlurs, Matches
<1> QED  BY <1>1, <1>2, <1>3, PTL DEF Spec
=============================================================================
