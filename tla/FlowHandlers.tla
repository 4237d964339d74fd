---------------------------- MODULE FlowHandlers ----------------------------
(***************************************************************************)
(* flow/unvalidated-body-to-db around FlowVisitor's statement walk: the    *)
(* functions of a file, the functions and callbacks in them, and the walks *)
(* that each expression goes through.  Taint is of whole values here.      *)
(*                                                                         *)
(* A behaviour writes a file a statement at a time, or the function that   *)
(* build_summary simulates.  Beside the visitor goes one run: every inner  *)
(* function runs where it stands or not at all, and a test lets the run    *)
(* pass or makes it return.  As in ReachScan, the places where the visitor *)
(* is simpler than JavaScript are named, and excuse what they may lead to. *)
(***************************************************************************)
EXTENDS Naturals, Sequences, FiniteSets, SequencesExt, FiniteSetsExt, Functions

CONSTANTS
  Names,         \* variables
  Param,         \* the parameter that is simulated
  Forms,         \* the forms of expression there are
  Places,        \* where a write may stand
  Methods,       \* that take a callback
  FnNames,       \* names of functions
  Exports,       \* what the file exports as wrapper(inner)
  Validating,    \* its wrappers that validate the request's body
  MaxShortcuts,  \* bound: kinds of shortcut a walk may have been through
  MaxDepth       \* bound: functions inside functions

ASSUME HandlerAssumption ==
  /\ Param \in Names /\ MaxDepth \in Nat \ {0, 1} /\ MaxShortcuts \in Nat
  /\ \A x \in Exports : x.inner \in FnNames

VARIABLES
  walk,      \* the visitor
  noticed,   \* what it made of the last statement: a finding's tier, a tainted return
  env,       \* the run: what the variables of each function hold,
  links,     \*   which variable says of which other whether it is valid,
  at,        \*   how many functions deep the run is,
  trusted,   \*   and whether a wrapper has validated the request's body
  due,       \* what the last statement deserves, and whether the run was at it
  ended,     \* the function being written has returned
  excused    \* what the shortcuts taken may do to the rest of the walk

vars == <<walk, noticed, env, links, at, trusted, due, ended, excused>>

With(f, n, value) == [x \in DOMAIN f \cup {n} |-> IF x = n THEN value ELSE f[x]]

-----------------------------------------------------------------------------
\* The visitor.  Handlers passed to a wrapper that validates are known by
\* their names; a summary's simulation knows none.
BodyValidatedHandlers == {x.inner : x \in {y \in Exports : y.wrapper \in Validating}}
NewVisitor(handlers) == [scopes |-> <<>>, suppress |-> <<>>, inits |-> <<>>, handlers |-> handlers, asleep |-> 0]

TopOnly(w, n) == w.scopes # <<>> /\ n \in Last(w.scopes)   \* mutant: the scopes outside are not looked at
IsTainted(w, n) == \E i \in DOMAIN w.scopes : n \in w.scopes[i]
Taint(w, n) == [w EXCEPT !.scopes[Len(w.scopes)] = @ \cup {n}]
Forget(w, gone) == [w EXCEPT !.scopes[Len(w.scopes)] = @ \ gone]

AlwaysActive(w) == TRUE   \* mutant: wrappers are not looked at
BodySourceActive(w) == TRUE \notin Range(w.suppress)

EnterFn(w, tainted, suppress) ==
  [w EXCEPT !.scopes = Append(@, tainted), !.suppress = Append(@, suppress), !.inits = <<>>]
StillIn(w) == [w EXCEPT !.suppress = Front(@)]   \* mutant: the scope is not popped
ExitFn(w) == [w EXCEPT !.scopes = Front(@), !.suppress = Front(@)]

\* Which forms the two walks of a value follow; await, parentheses and casts
\* are aliases.  A sum is followed where it is stored, not where it is sunk.
Sources == {"bodyMember", "bodyCall", "optionalBody"}
Followed == {"alias", "member", "argument", "validated", "object", "array", "template", "tagged", "conditional", "logical", "binary"}
ReadOnly == Followed \ {"binary"}
ExprTaint(w, e) ==
  (e.form \in Sources /\ BodySourceActive(w)) \/ (e.form \in Followed /\ IsTainted(w, e.of))
ExprIsTaintedReadonly(w, e) ==
  (e.form \in Sources /\ BodySourceActive(w)) \/ (e.form \in ReadOnly /\ IsTainted(w, e.of))
ReceiverTaintThroughChain(w, e) ==
  IF e.form = "filtered" THEN IsTainted(w, e.of) ELSE ExprIsTaintedReadonly(w, e)

HandleVarDecl(w, n, e) ==
  LET noted == IF e.form = "validated" THEN [w EXCEPT !.inits = With(@, n, e.of)] ELSE w
  IN  IF ExprTaint(w, e) THEN Taint(noted, n) ELSE noted
Assign(w, n, e) == IF ExprTaint(w, e) THEN Taint(w, n) ELSE Forget(w, {n})
Narrow(w, test, n) ==
  IF test = "allow" THEN Forget(w, {n})
  ELSE IF n \in DOMAIN w.inits THEN Forget(w, {w.inits[n], n}) ELSE w

VisitFunction(w, name, decorated) ==
  LET suppress == name \in w.handlers
  IN  EnterFn(w, IF suppress \/ ~BodySourceActive(w) THEN {} ELSE decorated, suppress)
VisitArrow(w, name) == EnterFn(w, {}, name \in w.handlers)
Sleep(w) == [w EXCEPT !.asleep = 1]
\* `x?.map(f)` is not among them, nor reduce, whose callback takes it second.
IsHigherOrderMethod(m) == m \in {"map", "catch"}
Callback(w, s) ==
  IF IsHigherOrderMethod(s.method) /\ ReceiverTaintThroughChain(w, s.on) THEN EnterFn(w, s.params, FALSE) ELSE Sleep(w)

\* scan_for_sinks goes into calls, members, literals and awaits.
Scanned == {"statement", "initialiser", "argument", "returned"}
Tier(tainted) == IF tainted = {} THEN 0 ELSE IF tainted = {"where"} THEN 1 ELSE 2
ClassifyDbSinkTaint(w, args) == Tier({k \in DOMAIN args : ExprIsTaintedReadonly(w, args[k])})

Silence == [write |-> 0, returned |-> FALSE]
Notices(w, s) ==
  IF w.asleep > 0 THEN Silence ELSE
  CASE s.kind = "write" -> [Silence EXCEPT !.write = IF s.place \in Scanned THEN ClassifyDbSinkTaint(w, s.args) ELSE 0]
    [] s.kind = "return" -> [Silence EXCEPT !.returned = ExprTaint(w, s.expr)]
    [] OTHER -> Silence
Opens == {"function", "arrow", "local", "callback"}
Visit(w, s) ==
  IF w.asleep > 0
    THEN [w EXCEPT !.asleep = IF s.kind \in Opens THEN @ + 1 ELSE IF s.kind = "exit" THEN @ - 1 ELSE @]
  ELSE CASE s.kind = "declare" -> HandleVarDecl(w, s.name, s.expr)
         [] s.kind = "assign" -> Assign(w, s.name, s.expr)
         [] s.kind = "guard" -> Narrow(w, s.test, s.on)
         [] s.kind = "function" -> VisitFunction(w, s.name, s.params)
         [] s.kind = "arrow" -> VisitArrow(w, s.name)
         [] s.kind = "local" -> Sleep(w)
         [] s.kind = "callback" -> Callback(w, s)
         [] s.kind = "exit" -> ExitFn(w)
         [] OTHER -> w

-----------------------------------------------------------------------------
\* The run.  A variable holds the data, the data in a form the walk does not
\* follow (so lost to it), or nothing of interest.
Depth == Len(env)
Here == env[Depth]
Live == at = Depth
Bound(n) == \E d \in DOMAIN env : n \in DOMAIN env[d]
Owner(n) == IF Bound(n) THEN Max({d \in DOMAIN env : n \in DOMAIN env[d]}) ELSE Depth
Holds(n) == IF Bound(n) THEN env[Owner(n)][n] ELSE "nothing"

Body == IF trusted THEN "nothing" ELSE "data"
Clean == {"literal", "sanitised", "read"}
Value(e, followed) ==
  CASE e.form \in Sources -> Body
    [] e.form \in Clean -> "nothing"
    [] OTHER -> IF Holds(e.of) = "data" /\ e.form \notin followed THEN "lost" ELSE Holds(e.of)
Element(s) == IF s.method = "catch" THEN "nothing" ELSE Value(s.on, ReadOnly \cup {"filtered"})

Owed(s) ==
  [here |-> Live,
   write |-> IF Live /\ s.kind = "write" THEN Tier({k \in DOMAIN s.args : Value(s.args[k], ReadOnly) = "data"}) ELSE 0,
   returned |-> Live /\ s.kind = "return" /\ Depth = 1 /\ Value(s.expr, Followed) = "data"]

\* What a test proves, by the variables as they are.
Vouched(s) ==
  IF s.test = "allow" THEN {<<Owner(s.on), s.on>>}
  ELSE UNION {{l.says, l.of} : l \in {k \in links : k.says = <<Owner(s.on), s.on>>}}
Put(n, d, value) == [env EXCEPT ![d] = With(@, n, value)]
Trusts(s) == IF Depth = 0 /\ s.kind \in Opens THEN s.name \in walk.handlers ELSE trusted
Given(s) == [n \in s.params |-> IF s.kind = "callback" THEN Element(s) ELSE IF Trusts(s) THEN "nothing" ELSE "data"]
\* What of it happens only if the run is there, and, for tests and inner
\* functions, goes on.
EnvAfter(s, goes) ==
  CASE s.kind = "declare" -> Put(s.name, Depth, IF Live THEN Value(s.expr, Followed) ELSE "nothing")
    [] s.kind = "assign" /\ Live -> Put(s.name, Owner(s.name), Value(s.expr, Followed))
    [] s.kind = "guard" /\ Live /\ goes ->
         [d \in DOMAIN env |-> [n \in DOMAIN env[d] |-> IF <<d, n>> \in Vouched(s) THEN "nothing" ELSE env[d][n]]]
    [] s.kind \in Opens -> Append(env, IF s.kind \in {"function", "callback"} THEN Given(s) ELSE <<>>)
    [] s.kind = "exit" -> Front(env)
    [] OTHER -> env
Writes(s) == s.kind \in {"declare", "assign"}
Target(s) == <<IF s.kind = "declare" THEN Depth ELSE Owner(s.name), s.name>>
LinksAfter(s) ==
  CASE Writes(s) /\ Live ->
         LET kept == {l \in links : Target(s) \notin {l.says, l.of}}
             source == <<Owner(s.expr.of), s.expr.of>>
         IN  IF s.expr.form = "validated" /\ source # Target(s) THEN kept \cup {[says |-> Target(s), of |-> source]} ELSE kept
    [] s.kind = "exit" -> {l \in links : l.says[1] < Depth /\ l.of[1] < Depth}
    [] OTHER -> links
AtAfter(s, goes) ==
  CASE s.kind \in Opens /\ Live /\ goes -> Depth + 1
    [] s.kind = "guard" /\ Live /\ ~goes -> Depth - 1
    [] s.kind = "return" /\ Live -> Depth - 1
    [] s.kind = "exit" -> Min({at, Depth - 1})
    [] OTHER -> at

-----------------------------------------------------------------------------
\* The shortcuts, and what each may lead to: data missed, or cried at.
Binds(s) == CASE s.kind = "declare" -> {s.name} [] s.kind \in {"function", "callback"} -> s.params [] OTHER -> {}
Walked(s) == s.kind \in Opens /\ Visit(walk, s).asleep = 0
MayMiss(s) ==
  \* An assignment is made to the innermost scope, whoever owns the variable.
  \/ s.kind = "assign" /\ Owner(s.name) # Depth /\ Value(s.expr, Followed) = "data"
  \* A validator is known by the names declared: an assignment to them later
  \* on changes nothing, and an inner function leaves its own behind.
  \/ Writes(s) /\ s.name \in DOMAIN walk.inits \cup Range(walk.inits)
  \/ s.kind = "exit" /\ Depth > 1 /\ DOMAIN walk.inits # {}
  \* A function that is a value is not walked, nor a callback of what is not
  \* tainted.
  \/ s.kind = "write" /\ walk.asleep > 0
  \* A function with the name of a wrapped one passes for it.
  \/ s.kind = "function" /\ Depth > 0 /\ s.name \in walk.handlers
  \* A write in a test, an assignment or an operand is not looked at.
  \/ s.kind = "write" /\ s.place \notin Scanned
MayCry(s) ==
  \* Nor is the owner of a variable cleared, by an assignment or a test.
  \/ s.kind = "assign" /\ Owner(s.name) # Depth /\ Value(s.expr, Followed) # "data"
  \/ s.kind = "guard" /\ \E x \in Vouched(s) : x[1] # Depth
  \* A variable of an outer function is seen through one that hides it.
  \/ \E n \in Binds(s) : Holds(n) = "data"
  \* An assignment is not taken for a validator, and an inner function forgets
  \* those outside.
  \/ s.kind = "assign" /\ s.expr.form = "validated"
  \/ Walked(s) /\ links # {}
  \* Whatever a callback is given is taken for an element of the receiver,
  \/ s.kind = "callback" /\ s.method = "catch"
  \* and what it returns for what the function returns.
  \/ s.kind = "return" /\ Depth > 1
Shortcuts(s) == {k \in {"miss", "cry"} : IF k = "miss" THEN MayMiss(s) ELSE MayCry(s)}

-----------------------------------------------------------------------------
Expressions == [form : Forms, of : Names]
Readable == {e \in Expressions : IF e.form \in Sources \cup Clean THEN e.of = Param ELSE Bound(e.of)}

Walk(s, goes) ==
  /\ Cardinality(excused) <= MaxShortcuts
  /\ walk' = Visit(walk, s) /\ noticed' = Notices(walk, s) /\ due' = Owed(s)
  /\ env' = EnvAfter(s, goes) /\ links' = LinksAfter(s) /\ at' = AtAfter(s, goes)
  /\ trusted' = Trusts(s)
  /\ ended' = (s.kind = "return")
  /\ excused' = (IF Depth = 0 THEN {} ELSE excused) \cup Shortcuts(s)
\* What is written after a write is written after what is before it too.
NoWrite == noticed.write = 0 /\ due.write = 0
Inside == Depth > 0 /\ ~ended /\ NoWrite
Params == {{}} \cup {{n} : n \in Names}
Simple == {e \in Readable : e.form \in {"alias", "literal"}}
Receivers == {e \in Readable : e.form \notin {"validated", "binary"}}

Declare == \E n \in Names, e \in Readable :
  Inside /\ n \notin DOMAIN Here /\ e # [form |-> e.form, of |-> n] /\ Walk([kind |-> "declare", name |-> n, expr |-> e], TRUE)
AssignVariable == \E n \in {x \in Names : Bound(x)}, e \in Readable :
  Inside /\ Walk([kind |-> "assign", name |-> n, expr |-> e], TRUE)
WriteDatabase == \E place \in Places :
  \E args \in [{"data"} -> Readable] \cup [{"where"} -> Readable] \cup [{"where", "data"} -> Simple] :
    Inside /\ Walk([kind |-> "write", place |-> place, args |-> args], TRUE)
Return == \E e \in Readable : Inside /\ Walk([kind |-> "return", expr |-> e], TRUE)
Guard == \E n \in {x \in Names : Bound(x)}, test \in {"allow", "ok"}, goes \in BOOLEAN :
  Inside /\ Walk([kind |-> "guard", test |-> test, on |-> n], goes)
\* A handler, `export function`, or `export const f = () => {}`.
Handler == \E name \in FnNames, params \in Params :
  /\ Depth = 0
  /\ \/ Walk([kind |-> "function", name |-> name, params |-> params], TRUE)
     \/ params = {} /\ Walk([kind |-> "arrow", name |-> name], TRUE)
InnerFunction == \E name \in FnNames, params \in Params, goes \in BOOLEAN :
  /\ Inside /\ Depth < MaxDepth
  /\ \/ Walk([kind |-> "function", name |-> name, params |-> params], goes)
     \/ params = {} /\ Walk([kind |-> "local"], goes)
InnerCallback == \E e \in Receivers, m \in Methods, params \in Params, goes \in BOOLEAN :
  Inside /\ Depth < MaxDepth /\ Walk([kind |-> "callback", method |-> m, on |-> e, params |-> params], goes)
\* A simulation ends with its function.
Leave == NoWrite /\ (Depth > 1 \/ (Depth = 1 /\ walk.handlers # {})) /\ Walk([kind |-> "exit"], TRUE)

HandlerInit ==
  /\ noticed = Silence /\ due = [here |-> FALSE, write |-> 0, returned |-> FALSE] /\ links = {} /\ trusted = FALSE /\ ended = FALSE /\ excused = {}
  /\ \/ walk = NewVisitor(BodyValidatedHandlers) /\ env = <<>> /\ at = 0
     \/ walk = EnterFn(NewVisitor({}), {Param}, FALSE) /\ env = << [n \in {Param} |-> "data"] >> /\ at = 1

HandlerNext ==
  \/ Handler \/ InnerFunction \/ InnerCallback \/ Leave
  \/ Declare \/ AssignVariable \/ WriteDatabase \/ Return \/ Guard
HandlerSpec == HandlerInit /\ [][HandlerNext]_vars

-----------------------------------------------------------------------------
\* Shapes of the state; the visitor is in as many functions as the text, and
\* has as many suppressions open as scopes.
HandlerTypeOK ==
  /\ (UNION Range(walk.scopes)) \cup DOMAIN walk.inits \cup Range(walk.inits) \subseteq Names
  /\ Len(walk.scopes) + walk.asleep = Len(env) /\ Len(walk.suppress) = Len(walk.scopes)
  /\ at \in 0..Len(env) /\ excused \subseteq {"miss", "cry"}
  /\ {noticed.write, due.write} \subseteq 0..2

\* Request data that is written or returned, from however deep in callbacks
\* and inner functions, is noticed at its tier.
NothingUnnoticed ==
  (due.write > noticed.write \/ (due.returned /\ ~noticed.returned)) => "miss" \in excused

\* Where the run has been, nothing else is: not what was validated, checked
\* or overwritten, nor what belongs to a function of its own.
NothingImagined ==
  due.here /\ (noticed.write > due.write \/ (noticed.returned /\ ~due.returned)) => "cry" \in excused
=============================================================================
