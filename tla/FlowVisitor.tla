----------------------------- MODULE FlowVisitor ----------------------------
(***************************************************************************)
(* The statement walk of flow/unvalidated-body-to-db: build_summary's      *)
(* simulation of one function, its parameter tainted.  A behaviour writes  *)
(* the function one statement at a time; every action is the visitor's     *)
(* handler for that statement, and beside it one run of the function goes  *)
(* on, so the walk can be compared with what really happens to the data.   *)
(*                                                                         *)
(* A value is the set of its fields that carry request data; a scalar has  *)
(* all of them or none.  Callbacks (a second scope) and the second turn of *)
(* a loop are left out.                                                    *)
(***************************************************************************)
EXTENDS TaintCells

CONSTANTS
  Vars, Param,   \* the function's variables, the one that is its parameter
  Helpers,       \* functions it may call:
  Summary,       \*   their summaries in the index, or NoSummary,
  Gives,         \*   what each really returns for an argument
  Stores,        \*   and the fields of it that it writes to the database
  Guards,        \* kinds of test an if may have
  NoSummary, NoVar,
  Deep,          \* bound: how far statements nest
  MaxStmts       \* bound: statements walked

Fields == Offsets
Flat == {<<>>} \cup {<<x>> : x \in Fields}
NoCell == [p \in {} |-> "none"]

\* What build_summary leaves as a return shape: canonical, of cells that were
\* tainted when they were recorded; a value of the model is one field deep.
IsReturnShape(c) ==
  /\ IsCell(c) /\ DOMAIN c \subseteq Flat
  /\ c[<<>>] # "clean" /\ Canonicalize(c) = c

ASSUME FlowAssumption ==
  /\ Param \in Vars /\ NoVar \notin Vars
  /\ Guards \subseteq {"plain", "allow", "type", "isType", "ok"}
  /\ \A h \in Helpers : Summary[h] # NoSummary =>
       /\ Summary[h].propagates \in BOOLEAN /\ Summary[h].reaches \in BOOLEAN
       /\ Summary[h].returnShape = NoCell \/ IsReturnShape(Summary[h].returnShape)
       /\ Summary[h].reaches => IsCell(Summary[h].paramShape)
  /\ Gives \in [Helpers -> [SUBSET Fields -> SUBSET Fields]]
  /\ Stores \in [Helpers -> SUBSET Fields]
  \* The index has converged: a summary owns up to what its function does.
  /\ \A h \in Helpers :
       /\ Stores[h] # {} => Summary[h] # NoSummary /\ Summary[h].reaches
       /\ Summary[h] = NoSummary \/ Summary[h].propagates \/ \A L \in SUBSET Fields : Gives[h][L] = {}
  \* A helper reads no request of its own.
  /\ \A h \in Helpers : Gives[h][{}] = {}
  /\ Deep \in Nat /\ MaxStmts \in Nat

VARIABLES
  scope,          \* the top scope: each variable's cell, NoCell if it has none
  validatorInits, \* binding -> the variable its validator call took, or NoVar
  frames,         \* the statements being walked, innermost last
  taintedReturn, returnShape, paramShape, found,
  declared,       \* variables the text has declared
  val,            \* the run: the tainted fields of each variable,
  live,           \*   whether it is at this statement,
  accepted,       \*   <<r, v>>: r tells whether the value in v is valid,
  hit,            \*   whether request data got to a database write,
  out,            \*   and the fields it returned
  gaps,           \* history: where the walk is known to lose or to blur
  stmts

walk == <<validatorInits, taintedReturn, returnShape, paramShape, found>>
vars == <<scope, walk, frames, declared, val, live, accepted, hit, out, gaps, stmts>>

-----------------------------------------------------------------------------
\* Expressions: a body source, a literal, a variable or a field of one.
Expr == [kind : {"source", "literal", "chain"}, root : Vars, path : {<<>>} \cup {<<x>> : x \in Fields}]
Source == [kind |-> "source", root |-> Param, path |-> <<>>]
Literal == [kind |-> "literal", root |-> Param, path |-> <<>>]
Exprs == {Source, Literal} \cup {e \in Expr : e.kind = "chain" /\ e.root \in declared}
IsVar(e) == e.kind = "chain" /\ e.path = <<>>

\* is_tainted: any entry will do, even one whose every field was validated.
IsTainted(v) == scope[v] # NoCell
ExprTaint(e) ==
  \/ e.kind = "source"
  \/ /\ e.kind = "chain" /\ IsTainted(e.root)
     /\ e.path = <<>> \/ TaintedAt(scope[e.root], e.path)

Value(e) ==
  CASE e.kind = "source" -> Fields
    [] e.kind = "literal" -> {}
    [] IsVar(e) -> val[e.root]
    [] OTHER -> IF e.path[1] \in val[e.root] THEN Fields ELSE {}

\* What the run does at an assignment.
Store(v, value) ==
  IF live THEN /\ val' = [val EXCEPT ![v] = value]
               /\ accepted' = {rv \in accepted : v \notin {rv[1], rv[2]}}
          ELSE UNCHANGED <<val, accepted>>

Seen(cell) == {x \in Fields : cell # NoCell /\ TaintedAt(cell, <<x>>)}
Ended == frames # <<>> /\ Last(frames).returned
Statement == stmts < MaxStmts /\ ~Ended /\ stmts' = stmts + 1
Copies(e) == IF IsVar(e) /\ IsTainted(e.root) /\ Seen(scope[e.root]) # Fields THEN {"copy"} ELSE {}

-----------------------------------------------------------------------------
Init ==
  /\ scope = [v \in Vars |-> IF v = Param THEN TaintedCell ELSE NoCell]
  /\ validatorInits = [v \in Vars |-> NoVar]
  /\ frames = <<>> /\ taintedReturn = FALSE /\ returnShape = Bot /\ paramShape = Bot
  /\ found = FALSE /\ declared = {Param}
  /\ val = [v \in Vars |-> IF v = Param THEN Fields ELSE {}]
  /\ live = TRUE /\ accepted = {} /\ hit = FALSE /\ out = {} /\ gaps = {} /\ stmts = 0

\* v is written in the statement being walked, if there is one.
Writes(v) == frames' = IF frames = <<>> THEN frames
                       ELSE [frames EXCEPT ![Len(frames)].written = @ \cup {v}]

\* A declaration stands at any nesting; the walk has one scope for the function,
\* so the name stays known after the block, with no data if the run was elsewhere.
Fresh(v) == v \notin declared /\ declared' = declared \cup {v} /\ Writes(v)

\* const v = e.  A clean initialiser leaves the scope alone.
Declare(v, e) ==
  /\ Statement /\ Fresh(v)
  /\ scope' = IF ExprTaint(e) THEN [scope EXCEPT ![v] = TaintedCell] ELSE scope
  /\ Store(v, Value(e)) /\ gaps' = gaps \cup Copies(e)
  /\ UNCHANGED <<walk, live, hit, out>>

\* v = e.  A clean right-hand side removes the entry.
Assign(v, e) ==
  /\ Statement /\ v \in declared
  /\ scope' = [scope EXCEPT ![v] = IF ExprTaint(e) THEN TaintedCell ELSE NoCell]
  /\ Writes(v)
  /\ Store(v, Value(e)) /\ gaps' = gaps \cup Copies(e)
  /\ UNCHANGED <<walk, declared, live, hit, out>>

ProjectedClean(cell, x) == Project(cell, <<x>>)   \* mutant: a clean field gets an entry
ProjectedWhole(cell, x) == TaintedCell            \* mutant: a field is as tainted as the object
\* const {x: v} = w, a clean field leaving no entry
Projected(cell, x) ==
  LET field == Project(cell, <<x>>) IN IF TaintedAt(field, <<>>) THEN field ELSE NoCell
Destructure(v, w, x) ==
  /\ Statement /\ Fresh(v) /\ w \in declared
  /\ scope' = IF IsTainted(w) THEN [scope EXCEPT ![v] = Projected(scope[w], x)] ELSE scope
  /\ Store(v, IF x \in val[w] THEN Fields ELSE {})
  /\ UNCHANGED <<walk, live, hit, out, gaps>>

\* schema.parse(w.x), for its effect: the run goes on only with a valid field.
Parse(w, x) ==
  /\ Statement /\ w \in declared
  /\ scope' = IF IsTainted(w) THEN [scope EXCEPT ![w] = MarkClean(scope[w], <<x>>)] ELSE scope
  /\ val' = IF live THEN [val EXCEPT ![w] = @ \ {x}] ELSE val
  /\ UNCHANGED <<walk, frames, declared, live, accepted, hit, out, gaps>>

\* const r = validateThing(w)
Validate(r, w) ==
  /\ Statement /\ Fresh(r) /\ w \in declared
  /\ validatorInits' = [validatorInits EXCEPT ![r] = w]
  /\ scope' = IF IsTainted(w) THEN [scope EXCEPT ![r] = TaintedCell] ELSE scope
  /\ IF live THEN /\ val' = [val EXCEPT ![r] = val[w]]
                  /\ accepted' = accepted \cup {<<r, w>>, <<r, r>>}
             ELSE UNCHANGED <<val, accepted>>
  /\ gaps' = gaps \cup Copies([kind |-> "chain", root |-> w, path |-> <<>>])
  /\ UNCHANGED <<taintedReturn, returnShape, paramShape, found, live, hit, out>>

-----------------------------------------------------------------------------
\* record_taint_in_arg and record_taint_in_return: a variable contributes its
\* cell if that has a shape, else its access path becomes tainted.
Recorded(shape, e) ==
  IF e.kind = "chain" /\ IsTainted(e.root)
    THEN IF e.path = <<>> /\ Below(scope[e.root], <<>>) # {}
           THEN InsertShape(shape, <<>>, scope[e.root])
           ELSE InsertTainted(shape, e.path)
    ELSE shape

RecordedChain(shape, e) == Recorded(shape, e)     \* mutant: a body source leaves no shape
RecordedArg(shape, e) == IF e.kind = "source" THEN InsertTainted(shape, <<>>) ELSE Recorded(shape, e)

WriteShapeFirst(e) == RecordedArg(paramShape, e)     \* mutant: recorded before it is classified
WriteShape(e) == IF ExprTaint(e) THEN RecordedArg(paramShape, e) ELSE paramShape

\* db.create(e)
Write(e) ==
  /\ Statement
  /\ found' = (found \/ ExprTaint(e))
  /\ paramShape' = WriteShape(e)
  /\ hit' = (hit \/ (live /\ Value(e) # {}))
  /\ UNCHANGED <<scope, validatorInits, taintedReturn, returnShape, frames, declared,
                 val, live, accepted, out, gaps>>

\* check_cross_file_call, for a call h(e).
Reaches(h, e) == Summary[h] # NoSummary /\ Summary[h].reaches /\ ExprTaint(e)
CrossFile(h, e) ==
  /\ found' = (found \/ Reaches(h, e))
  /\ paramShape' =
       IF ~Reaches(h, e) THEN paramShape
       ELSE IF e.kind = "chain"
              THEN InsertShape(RecordedArg(paramShape, e), e.path, Summary[h].paramShape)
              ELSE RecordedArg(paramShape, e)
  /\ hit' = (hit \/ (live /\ Value(e) \cap Stores[h] # {}))

CallHelper(h, e) ==
  /\ Statement /\ CrossFile(h, e)
  /\ UNCHANGED <<scope, validatorInits, taintedReturn, returnShape, frames, declared,
                 val, live, accepted, out, gaps>>

CarriesKnown(h, w) ==                             \* mutant: an unknown callee returns nothing
  IsTainted(w) /\ Summary[h] # NoSummary /\ Summary[h].propagates

(***************************************************************************)
(* const v = h(w).  compute_call_return_shape substitutes w's whole cell   *)
(* for every tainted leaf of h's return shape.                             *)
(***************************************************************************)
Carries(h, w) == IsTainted(w) /\ (Summary[h] # NoSummary => Summary[h].propagates)
ReturnCell(h, w) ==
  IF Summary[h] = NoSummary \/ Summary[h].returnShape = NoCell THEN TaintedCell
  ELSE LET cell == Canonicalize(Instantiate(Summary[h].returnShape, scope[w]))
       IN  IF cell = NoCell THEN TaintedCell ELSE cell

\* A return shape that names the argument's offsets, not the result's; the whole
\* argument's cell put where only a part of the argument went, or a value made of it.
Said(h) == IF Summary[h] = NoSummary \/ Summary[h].returnShape = NoCell
             THEN TaintedCell ELSE Summary[h].returnShape
HandsOn(h) == Said(h)[<<>>] = "tainted" /\ \A L \in SUBSET Fields : Gives[h][L] \subseteq L
CallGaps(h, w) ==
  (IF \E L \in SUBSET Fields : ~(Gives[h][L] \subseteq Seen(Said(h))) THEN {"offsets"} ELSE {})
  \cup (IF ~HandsOn(h) /\ Below(scope[w], <<>>) # {} THEN {"substitution"} ELSE {})
  \cup (IF ReturnCell(h, w) # scope[w] \/ \E L \in SUBSET Fields : Gives[h][L] # L THEN {"call"} ELSE {})

DeclareCall(v, w, h) ==
  /\ Statement /\ Fresh(v) /\ w \in declared
  /\ CrossFile(h, [kind |-> "chain", root |-> w, path |-> <<>>])
  /\ scope' = IF Carries(h, w) THEN [scope EXCEPT ![v] = ReturnCell(h, w)] ELSE scope
  /\ Store(v, Gives[h][val[w]])
  /\ gaps' = IF Carries(h, w) THEN gaps \cup CallGaps(h, w) ELSE gaps
  /\ UNCHANGED <<validatorInits, taintedReturn, returnShape, live, out>>

\* return e.  The flag follows the expression and the shape it left.
ReturnFlagLate(e) == taintedReturn \/ ExprTaint(e)                              \* mutant
ReturnFlagByShape(e) == taintedReturn \/ HasTainted(Recorded(returnShape, e))   \* mutant
ReturnFlag(e) == taintedReturn \/ ExprTaint(e) \/ HasTainted(Recorded(returnShape, e))

Return(e) ==
  /\ ~Ended /\ stmts < MaxStmts
  /\ stmts' = IF frames = <<>> THEN MaxStmts ELSE stmts + 1
  /\ returnShape' = Recorded(returnShape, e) /\ taintedReturn' = ReturnFlag(e)
  /\ frames' = IF frames = <<>> THEN frames ELSE [frames EXCEPT ![Len(frames)].returned = TRUE]
  /\ out' = IF live THEN out \cup Value(e) ELSE out
  /\ live' = FALSE
  /\ UNCHANGED <<scope, validatorInits, paramShape, found, declared, val, accepted, hit, gaps>>

-----------------------------------------------------------------------------
(***************************************************************************)
(* An if.  Its guard is "plain", `!LIST.includes(v)` (allow), a typeof     *)
(* comparison that is false (type) or true (isType) of the type the code   *)
(* wants, or `!v.success` (ok).                                            *)
(***************************************************************************)
\* What the run knows to be valid when the test came out as taken.
Proven(guard, taken) ==
  CASE guard.kind \in {"allow", "type"} /\ ~taken -> {guard.var}
    [] guard.kind = "isType" /\ taken -> {guard.var}
    [] guard.kind = "ok" /\ ~taken -> {v \in Vars : <<guard.var, v>> \in accepted}
    [] OTHER -> {}

OpenIf(guard, taken) ==
  /\ Statement /\ Len(frames) < Deep
  /\ frames' = Append(frames,
       [kind |-> "then", guard |-> guard, entry |-> scope, consequent |-> scope,
        consequentReturns |-> FALSE, returned |-> FALSE, written |-> {},
        taken |-> taken, wasLive |-> live, resumes |-> FALSE,
        proven |-> Proven(guard, FALSE)])
  /\ live' = (live /\ taken)
  /\ val' = IF live THEN [v \in Vars |-> IF v \in Proven(guard, taken) THEN {} ELSE val[v]] ELSE val
  /\ gaps' = gaps \cup {"branch"}
  /\ UNCHANGED <<scope, walk, declared, accepted, hit, out>>

\* The alternate starts from the scope at the entry.
Else ==
  /\ frames # <<>> /\ Last(frames).kind = "then"
  /\ frames' = [frames EXCEPT ![Len(frames)] =
       [@ EXCEPT !.kind = "else", !.consequent = scope, !.consequentReturns = Last(frames).returned,
                 !.returned = FALSE, !.resumes = live]]
  /\ scope' = Last(frames).entry
  /\ live' = (Last(frames).wasLive /\ ~Last(frames).taken)
  /\ UNCHANGED <<walk, declared, val, accepted, hit, out, gaps, stmts>>

Popped == LET rest == Front(frames)
          IN  IF rest = <<>> THEN rest
              ELSE [rest EXCEPT ![Len(rest)].written = @ \cup Last(frames).written]

\* What an early return is taken to have validated.
Narrowed(guard) ==
  CASE guard.kind \in {"allow", "type", "isType"} -> {guard.var}
    [] guard.kind = "ok" /\ validatorInits[guard.var] # NoVar -> {guard.var, validatorInits[guard.var]}
    [] OTHER -> {}

JoinedAlternate(consequent, alternate) ==         \* mutant: the alternate's cell wins
  [v \in Vars |-> IF alternate[v] # NoCell THEN alternate[v] ELSE consequent[v]]
\* merge_branch_snapshots: the consequent's cell wins where both have one.
Joined(consequent, alternate) ==
  [v \in Vars |-> IF consequent[v] # NoCell THEN consequent[v] ELSE alternate[v]]

\* The branches of the innermost if: an absent else is one that does nothing.
Consequent == IF Last(frames).kind = "then" THEN scope ELSE Last(frames).consequent
Alternate == IF Last(frames).kind = "then" THEN Last(frames).entry ELSE scope
ConsequentReturns == IF Last(frames).kind = "then" THEN Last(frames).returned
                                                   ELSE Last(frames).consequentReturns
AlternateReturns == Last(frames).kind = "else" /\ Last(frames).returned

AtJoin ==
  IF ConsequentReturns THEN Alternate
  ELSE IF AlternateReturns THEN Consequent ELSE Joined(Consequent, Alternate)

\* History: a join that forgets what the alternate left tainted; a variable
\* cleared by a test that says nothing of it, or that was written meanwhile.
JoinGaps(frame, narrowed) ==
  (IF /\ ~ConsequentReturns /\ ~AlternateReturns
      /\ \E v \in Vars : ~(Seen(Alternate[v]) \subseteq Seen(AtJoin[v])) THEN {"join"} ELSE {})
  \cup (IF narrowed \subseteq frame.proven THEN {} ELSE {"guard"})
  \cup (IF narrowed \cap frame.written = {} THEN {} ELSE {"rewrite"})

CloseIf ==
  LET frame == Last(frames)
      narrowed == IF ConsequentReturns THEN Narrowed(frame.guard) ELSE {}
  IN  /\ frames # <<>> /\ frame.kind \in {"then", "else"}
      /\ scope' = [v \in Vars |-> IF v \in narrowed THEN NoCell ELSE AtJoin[v]]
      /\ live' = (live \/ IF frame.kind = "then" THEN frame.wasLive /\ ~frame.taken ELSE frame.resumes)
      /\ gaps' = gaps \cup JoinGaps(frame, narrowed)
      /\ frames' = Popped
      /\ UNCHANGED <<walk, declared, val, accepted, hit, out, stmts>>

(***************************************************************************)
(* A loop's body, a case, a try block: the visitor walks it once where it  *)
(* stands, in the enclosing scope, as if it always ran once.               *)
(***************************************************************************)
OpenBlock(taken) ==
  /\ Statement /\ Len(frames) < Deep
  /\ frames' = Append(frames, [kind |-> "block", entry |-> scope, returned |-> FALSE,
                                written |-> {}, taken |-> taken, wasLive |-> live])
  /\ live' = (live /\ taken)
  /\ gaps' = gaps \cup {"branch"}
  /\ UNCHANGED <<scope, walk, declared, val, accepted, hit, out>>

CloseBlock ==
  LET frame == Last(frames)
  IN  /\ frames # <<>> /\ frame.kind = "block"
      /\ live' = IF frame.taken THEN live ELSE frame.wasLive
      /\ gaps' = gaps \cup (IF \E v \in Vars : ~(Seen(frame.entry[v]) \subseteq Seen(scope[v]))
                              THEN {"block"} ELSE {})
      /\ frames' = Popped
      /\ UNCHANGED <<scope, walk, declared, val, accepted, hit, out, stmts>>

-----------------------------------------------------------------------------
Tests == {[kind |-> k, var |-> v] : k \in Guards \ {"plain"}, v \in declared}
         \cup {[kind |-> "plain", var |-> Param] : k \in Guards \cap {"plain"}}

Bindings ==
  \E v \in Vars :
    \/ \E e \in Exprs : Declare(v, e) \/ Assign(v, e)
    \/ \E w \in Vars, x \in Fields : Destructure(v, w, x)
    \/ \E w \in Vars : Validate(v, w)
Calls ==
  \/ \E w \in Vars, x \in Fields : Parse(w, x)
  \/ \E e \in Exprs : Write(e) \/ Return(e) \/ \E h \in Helpers : CallHelper(h, e)
  \/ \E v, w \in Vars, h \in Helpers : DeclareCall(v, w, h)
Structure ==
  \/ \E t \in Tests, taken \in BOOLEAN : OpenIf(t, taken)
  \/ \E taken \in BOOLEAN : OpenBlock(taken)
  \/ Else \/ CloseIf \/ CloseBlock

Next == Bindings \/ Calls \/ Structure
Spec == Init /\ [][Next]_vars

-----------------------------------------------------------------------------
IsScope(s) == DOMAIN s = Vars /\ \A v \in Vars : s[v] = NoCell \/ (IsCell(s[v]) /\ s[v] # Bot /\ s[v][<<>>] # "clean")

\* Types.  No entry of a scope is empty or clean as a whole: the visitor takes a
\* name that has any entry for tainted.
TypeOK ==
  /\ IsScope(scope) /\ \A v \in Vars \ declared : scope[v] = NoCell
  /\ \A v \in Vars : validatorInits[v] \in declared \cup {NoVar}
  /\ \A i \in DOMAIN frames : IsScope(frames[i].entry) /\ frames[i].written \subseteq declared
  /\ IsCell(returnShape) /\ IsCell(paramShape)
  /\ {taintedReturn, found, live, hit} \subseteq BOOLEAN
  /\ val \in [Vars -> SUBSET Fields] /\ accepted \subseteq declared \X declared
  /\ out \subseteq Fields /\ stmts \in 0..MaxStmts

\* What the walk is known to lose: a branch's taint at a join (its consequent
\* wins) or to a block that never ran, taint cleared by a test that proves
\* nothing or proved it of an older value, and what a helper's return shape
\* files under the argument's field names, or reads clean in the part because
\* it was in the whole.
Losses == {"join", "block", "guard", "rewrite", "offsets", "substitution"}
Sound == gaps \cap Losses = {}

\* Away from those, the walk over-approximates the run at every statement:
\* request data in a field is read tainted, through any nesting of branches,
\* early returns, validators, destructuring and calls.
SoundOutsideGaps == Sound /\ live => \A v \in Vars : val[v] \subseteq Seen(scope[v])

\* So a database write that request data reaches is reported, and the summary
\* says so too (reaches_db_sink_unsanitized is derived from param_shape).
NoMissedSink == Sound /\ hit => found /\ HasTainted(paramShape)

\* And a function that returns request data is summarised as propagating it.
ReturnFlagged == Sound /\ out # {} => taintedReturn

\* On straight lines without copies and calls nothing is blurred either: the
\* walk reads exactly the fields that carry request data.
ExactOutsideBlurs == gaps = {} /\ live => \A v \in Vars : Seen(scope[v]) = val[v]

\* build_summary's second engine invariant: a return shape with a tainted leaf
\* implies the flag, although two different walks of the expression decide them.
ShapeImpliesBoolean == HasTainted(returnShape) => taintedReturn

\* Half of its first one: a shape with a tainted leaf implies a finding.
ReachesImpliesFinding == HasTainted(paramShape) => found

=============================================================================
