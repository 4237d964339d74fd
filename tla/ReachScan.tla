------------------------------ MODULE ReachScan -----------------------------
(***************************************************************************)
(* One reachability rule over one project: the rounds of extraction, then  *)
(* the run pass over handlers written a statement at a time.  Beside the   *)
(* visitor goes what really happens: which variables of which function     *)
(* hold the data, which hold the operator's own configuration, and which   *)
(* URL was parsed from which variable as it still is, on the worst of the  *)
(* ways through the branches that lead to the statement.                   *)
(*                                                                         *)
(* The visitors are simpler than JavaScript and say so.  The shortcuts     *)
(* they take are named in Shortcuts; a walk that has gone through one is   *)
(* excused in the direction the shortcut errs in, and in no other.         *)
(*                                                                         *)
(* The runs considered: a loop turns once at most, an exception is a throw *)
(* that is written, a callback runs where it is passed, and a block does   *)
(* not hide a name of the function it is in.                               *)
(***************************************************************************)
EXTENDS ReachRules

CONSTANTS
  RuleNames,   \* the rules of this instance
  Projects,    \* each a function from names to functions [params, body]
  Forms,       \* the forms of expression a rule is given to look at
  Positions,   \* and where, for each rule, a sink's argument may stand
  MaxShortcuts,\* bound, for each rule: kinds of shortcut a walk may have been through
  MaxNesting,  \* bound, for each rule: functions and branches one in another
  MaxRounds,   \* MAX_ITER
  NoSignal     \* prev_signal = None

\* Every form of expression the rules tell apart.
AllForms ==
  Followed \cup BodySources
    \cup {"optionalBody", "environment", "credential", "literal", "newUrl", "receiver", "sequence", "construct"}

\* Every kind of statement they handle.
Kinds ==
  {"declare", "destructure", "assign", "append", "default", "sink", "call", "if", "function", "arrow", "exit"} \cup WalkedThrough

ASSUME ReachAssumption ==
  /\ \A r \in RuleNames : Forms[r] \subseteq AllForms
  /\ \A p \in Projects : IsFiniteSet(DOMAIN p) /\ \A f \in DOMAIN p : p[f].params \in Seq(Names)
  /\ \A p \in Projects : \A f \in DOMAIN p :
       Len(p[f].body) \in Nat /\ \A k \in 1..Len(p[f].body) : p[f].body[k].kind \in Kinds
  /\ RuleNames \subseteq DOMAIN Rules /\ SecretNames \subseteq Names
  /\ {MaxNesting, MaxShortcuts} \subseteq [RuleNames -> Nat] /\ MaxRounds \in Nat \ {0} /\ NoSignal \notin Nat

VARIABLES
  rule, project,
  phase, round, index, signal,   \* the loop of rounds: "extract", then "walk"
  walk,      \* the visitor
  env,       \* the run: for each function entered, what its variables hold
  links,     \* a URL's variable -> the variable it was parsed from
  branches,  \* the branches the run is in, innermost last
  ended,     \* whether a jump has just left the innermost of them
  due,       \* the severities the last statement deserves
  excused    \* what the shortcuts taken may do to the rest of the walk

loop == <<rule, project, phase, round, index, signal>>
course == <<env, links, branches, ended>>
vars == <<loop, walk, course, due, excused>>

-----------------------------------------------------------------------------
\* The rounds.  Only the axes of ConvergenceSignal count; those of the other
\* two rules that look into other files are not among them.
Parameters(ix) == UNION {{n} \X DOMAIN ix[n] : n \in DOMAIN ix}
Reaching(ix) == {p \in Parameters(ix) : ix[p[1]][p[2]].reaches}
FetchOnly(r, ix) == IF r = "ssrf" THEN Cardinality(Reaching(ix)) ELSE 0   \* mutant: an axis is forgotten
ConvergenceSignal(r, ix) == IF r \in {"ssrf", "redirect"} THEN Cardinality(Reaching(ix)) ELSE 0

ExtractRound ==
  LET next == Extract(rule, project, index)
      counted == ConvergenceSignal(rule, next)
  IN  /\ phase = "extract"
      /\ index' = next /\ signal' = counted /\ round' = round + 1
      /\ phase' = IF signal = counted \/ round + 1 = MaxRounds THEN "walk" ELSE "extract"
      /\ UNCHANGED <<rule, project, walk, course, due, excused>>

-----------------------------------------------------------------------------
\* What really happens.  A variable holds the data, the data in a form no
\* rule follows (so lost to it), the operator's own configuration, or nothing
\* of interest.
R == Rules[rule]
Depth == Len(env)
Here == env[Depth]
Bound(n) == \E d \in DOMAIN env : n \in DOMAIN env[d]
Holds(n) == IF Bound(n) THEN env[Max({d \in DOMAIN env : n \in DOMAIN env[d]})][n] ELSE "nothing"

\* The rule is about requests or about secrets; which of these is which.
Sources == {"bodyMember", "bodyCall", "optionalBody", "environment", "credential"}
Dangerous == IF rule = "secret" THEN {"environment", "credential"} ELSE {"bodyMember", "bodyCall", "optionalBody"}
\* What makes the value harmless for this rule: a Mongo operator cannot be
\* smuggled in a string, a sanitised text is no markup, and what a function
\* returns for a secret is not the secret.
Defused ==
  CASE rule = "nosql" -> {"coerce", "sanitise", "template", "tagged", "binary", "pinned", "hosted", "stringify"}
    [] rule = "xss" -> {"sanitise"}
    [] rule = "secret" -> {"argument", "coerce", "sanitise"}
    [] OTHER -> {}
\* `u.trim()`, `(0, u)`, `new URL(u)`, `req?.body`.
Unfollowed ==
  {"newUrl", "receiver", "sequence", "construct", "optionalBody"}
    \cup CASE rule = "nosql" -> {"object", "array"} [] rule = "secret" -> {"assigned", "binary", "tagged"} [] OTHER -> {}
Parts(e) == {Holds(e.of)} \cup IF e.form = "hosted" THEN {Holds(e.host)} ELSE {}
Value(e) ==
  CASE e.form \in Dangerous -> IF e.form \in Unfollowed THEN "lost" ELSE "data"
    [] e.form = "environment" /\ e.form \notin Dangerous -> "operator"
    [] e.form \in (Sources \cup {"literal"}) \ (Dangerous \cup {"environment"}) -> "nothing"
    [] e.form \in Defused -> "nothing"
    [] e.form \notin Sources \cup Defused \cup {"literal"} ->
         IF "data" \in Parts(e) THEN IF e.form \in Unfollowed THEN "lost" ELSE "data"
         ELSE IF "lost" \in Parts(e) THEN "lost"
         ELSE IF e.form \in {"alias", "logical"} THEN Holds(e.of) ELSE "nothing"
Destructured(n, e) ==
  IF rule = "secret" /\ n \in SecretNames THEN IF e.form = "sanitise" THEN "nothing" ELSE "data"
  ELSE IF Value(e) = "operator" THEN "nothing" ELSE Value(e)
Severity(e) ==
  IF rule = "ssrf" /\ (e.form = "pinned" \/ (e.form = "hosted" /\ Holds(e.host) = "operator")) THEN "medium" ELSE R.severity

Owed(s) ==
  CASE s.kind = "sink" -> IF s.at \in R.looksAt /\ Value(s.expr) = "data" THEN {Severity(s.expr)} ELSE {}
    [] s.kind = "call" ->
         IF s.callee \notin DOMAIN index THEN {} ELSE
         {IF index[s.callee][i].pinned THEN "medium" ELSE R.severity :
            i \in {j \in DOMAIN s.args \cap DOMAIN index[s.callee] : index[s.callee][j].reaches /\ Value(s.args[j]) = "data"}}
    [] OTHER -> {}

\* What a variable holds if it may hold any of these.
Worst(values) ==
  IF "data" \in values THEN "data" ELSE IF "lost" \in values THEN "lost"
  ELSE IF values = {"operator"} THEN "operator" ELSE "nothing"

Owner(n) == IF Bound(n) THEN Max({d \in DOMAIN env : n \in DOMAIN env[d]}) ELSE Depth
\* `n += e` makes a string of both.
Appended(n, e) ==
  LET parts == {Holds(n), Value(e)}
  IN  IF "binary" \in Defused \/ parts \cap {"data", "lost"} = {} THEN "nothing"
      ELSE IF "data" \in parts /\ "binary" \notin Unfollowed THEN "data" ELSE "lost"
Stored(s) ==
  CASE s.kind = "destructure" -> Destructured(s.name, s.expr)
    [] s.kind = "append" -> Appended(s.name, s.expr)
    [] s.kind \in {"field", "default"} -> Worst({Holds(s.name), Value(s.expr)})
    [] s.kind = "each" /\ Value(s.expr) = "operator" -> "nothing"
    [] OTHER -> Value(s.expr)
Put(d, n, value) == [env EXCEPT ![d] = With(@, n, value)]

-----------------------------------------------------------------------------
\* Branches: the two of an if, the body of a loop (one turn of it), that of a
\* try.  Any may be taken or not.  Each has what holds on the other ways to its
\* end, if there are any: not taken, left by a jump, through the first branch.
Inner == branches[Len(branches)]
InBranch == branches # <<>> /\ Inner.depth = Depth

\* `if (!ALLOWED.has(u.host))`, or without the not: what it is about, in the
\* function that parsed the URL.
Tested(s) ==
  IF rule \in {"ssrf", "redirect"} /\ s.test # "plain" /\ s.on \in DOMAIN links
       /\ links[s.on].depth = Depth /\ links[s.on].of \in DOMAIN Here
    THEN {s.on, links[s.on].of} ELSE {}
\* What the operator chose stays the operator's.
Marked(names, value) ==
  [env EXCEPT ![Depth] = [n \in DOMAIN @ |-> IF n \in names /\ @[n] \in {"data", "lost"} THEN value ELSE @[n]]]
\* Where the URL is allowed it is vetted, and so is what it was parsed from;
\* where it is rejected they are lost, the visitor having cleared them by then.
Consequent(s) ==
  CASE s.test = "accepting" -> Marked(Tested(s), "nothing")
    [] s.test = "rejecting" /\ s.returns -> Marked(Tested(s), "lost")
    [] OTHER -> env
Alternate(s) == IF s.test = "rejecting" THEN Marked(Tested(s), "nothing") ELSE env

\* What holds where ways meet, of the variables declared before the branch.
Met(ways, b) ==
  [d \in DOMAIN env |-> [n \in DOMAIN env[d] \cap DOMAIN b.env[d] |-> Worst({e[d][n] : e \in ways})]]
Agreed(b) ==
  [u \in {v \in DOMAIN links :
            /\ {v, links[v].of} \subseteq DOMAIN b.env[links[v].depth]
            /\ b.open => v \in DOMAIN b.links /\ b.links[v] = links[v]} |-> links[u]]
WaysOn == (IF ended THEN {} ELSE {env}) \cup (IF Inner.open THEN {Inner.env} ELSE {})

\* A break leaves the loop it is in, a throw the try, a return the function.
Catcher(how) == [break |-> "loop", throw |-> "try", return |-> "function"][how]
Catching(how) == {i \in DOMAIN branches : branches[i].depth = Depth /\ branches[i].kind = Catcher(how)}
Reached(b) == [b EXCEPT !.env = Met({env, b.env}, b), !.links = Agreed(b)]
Jumped(how) ==
  LET left == [branches EXCEPT ![Len(branches)].owes = IF how = "break" THEN @ ELSE "any"]
  IN  IF Catching(how) = {} THEN left ELSE [left EXCEPT ![Max(Catching(how))] = Reached(@)]

Opened(kind, owes, elsewhere) ==
  Append(branches, [depth |-> Depth, kind |-> kind, owes |-> owes, open |-> TRUE, env |-> elsewhere, links |-> links])
Turned == [Inner EXCEPT !.owes = "any", !.kind = "else", !.open = ~ended, !.env = Met({env}, Inner), !.links = links]
Owes(s) == IF s.test # "rejecting" THEN "any" ELSE IF s.returns THEN "return" ELSE "none"
BranchesAfter(s) ==
  CASE s.kind = "if" -> Opened("if", Owes(s), Alternate(s))
    [] s.kind \in {"loop", "try"} -> Opened(s.kind, "any", env)
    [] s.kind = "else" -> [branches EXCEPT ![Len(branches)] = Turned]
    [] s.kind = "jump" -> Jumped(s.how)
    [] s.kind = "close" -> Front(branches)
    [] OTHER -> branches

After(s) ==
  CASE s.kind \in {"declare", "destructure", "each"} -> Put(Depth, s.name, Stored(s))
    [] s.kind \in {"assign", "append", "default", "field"} -> Put(Owner(s.name), s.name, Stored(s))
    [] s.kind = "if" -> Consequent(s)
    [] s.kind = "else" -> Met({Inner.env}, Inner)
    [] s.kind = "close" -> IF WaysOn = {} THEN env ELSE Met(WaysOn, Inner)
    [] s.kind = "function" ->
         Append(env, [n \in s.decorated |-> IF rule = "secret" THEN "nothing" ELSE "data"])
    [] s.kind = "arrow" -> Append(env, <<>>)
    [] s.kind = "exit" -> Front(env)
    [] OTHER -> env
Broken(n) == {u \in DOMAIN links : n \in {u, links[u].of}}
LinksAfter(s) ==
  CASE s.kind \in {"declare", "destructure", "assign", "append", "default", "field", "each"} ->
         LET kept == [u \in DOMAIN links \ Broken(s.name) |-> links[u]]
         IN  IF s.kind = "declare" /\ s.expr.form = "newUrl" /\ s.expr.of # s.name
               THEN With(kept, s.name, [of |-> s.expr.of, depth |-> Depth]) ELSE kept
    [] s.kind \in {"else", "close"} -> Agreed(Inner)
    [] s.kind = "exit" -> [u \in {v \in DOMAIN links : links[v].depth < Depth} |-> links[u]]
    [] OTHER -> links

-----------------------------------------------------------------------------
\* The shortcuts.  What each may lead to: a flow missed, a false alarm, the
\* wrong tier.  "relinked" is a miss the code's comment says cannot be.
Exprs(s) ==
  CASE s.kind \in {"declare", "destructure", "assign", "append", "default", "sink"} -> {s.expr}
    [] s.kind = "call" -> {s.args[i] : i \in DOMAIN s.args}
    [] OTHER -> {}
Combines(s) == s.kind \in {"append", "default"}
Assigns(s) == s.kind = "assign" \/ Combines(s)
Declares(s) == s.kind \in {"declare", "destructure", "each"}
Writes(s) == Assigns(s) \/ Declares(s) \/ s.kind = "field"
Holding(e, value) == {p \in (DOMAIN e) \X Names : p[2] \in DOMAIN e[p[1]] /\ e[p[1]][p[2]] = value}
\* The visitor goes on with what it knew at the end of one branch, whatever the
\* other did, and where the branch does not come back at all; and with the
\* names of the branch.
Turns(s) ==
  UNION {
    IF Holding(After(s), "data") \subseteq Holding(env, "data") THEN {} ELSE {"miss"},
    IF Holding(env, "data") \subseteq Holding(After(s), "data") THEN {} ELSE {"cry"},
    IF Holding(env, "operator") = Holding(After(s), "operator") THEN {} ELSE {"tier"},
    IF LinksAfter(s) = links THEN {} ELSE {"relinked"}}
Shortcuts(s) ==
  UNION {
    \* A string made of the data is still the data to nosql, and a sanitised
    \* text that is assigned, not declared, to xss.
    IF (rule = "nosql" /\ \E e \in Exprs(s) : e.form \in {"template", "pinned", "hosted", "stringify"})
         \/ (rule = "xss" /\ Assigns(s) /\ s.expr.form = "sanitise") THEN {"cry"} ELSE {},
    \* An assignment is made to the innermost scope, whoever owns the variable.
    IF Assigns(s) /\ Owner(s.name) # Depth THEN IF Stored(s) = "data" THEN {"miss"} ELSE {"cry"} ELSE {},
    \* `u += e`, and `u ||= e` with its like, are taken for `u = e`.
    IF Combines(s) /\ (Stored(s) = "data") # (Value(s.expr) = "data")
      THEN IF Stored(s) = "data" THEN {"miss"} ELSE {"cry"} ELSE {},
    \* A field written, and the variable of a for-of, are not looked at.
    IF s.kind = "field" /\ Stored(s) = "data" /\ Holds(s.name) # "data" THEN {"miss"} ELSE {},
    IF s.kind = "each" /\ Stored(s) = "data" THEN {"miss"} ELSE {},
    \* At the end of a branch; where a test accepts; and after one that rejects
    \* by a throw that is caught, which is believed all the same.
    IF s.kind \in {"else", "close"} \/ (s.kind = "if" /\ s.test = "accepting") THEN Turns(s) ELSE {},
    IF s.kind = "jump" /\ Catching(s.how) # {} /\ \E i \in DOMAIN branches : branches[i].owes = "return" THEN {"miss"} ELSE {},
    \* A variable of an outer function is seen through one that hides it.
    IF Declares(s) /\ Holds(s.name) = "data" THEN {"cry"} ELSE {},
    \* Lineage and hosts are by name: what is assigned later is not noticed,
    IF Writes(s) /\ Broken(s.name) # {} THEN {"relinked"} ELSE {},
    IF (Assigns(s) \/ s.kind = "field") /\ "operator" \in {Holds(s.name), Stored(s)} THEN {"tier"} ELSE {},
    \* a callback forgets them, and its own outlive it.
    IF s.kind = "arrow" THEN (IF DOMAIN links # {} THEN {"cry"} ELSE {})
         \cup IF \E d \in DOMAIN env, n \in Names : n \in DOMAIN env[d] /\ env[d][n] = "operator" THEN {"tier"} ELSE {} ELSE {},
    IF s.kind = "declare" /\ Depth > 2 /\ s.expr.form = "newUrl" THEN {"miss", "cry"} ELSE {},
    IF Writes(s) /\ Depth > 2 /\ Stored(s) = "operator" THEN {"tier"} ELSE {},
    \* Secrets: assignments and callbacks are not walked, and a name taken out
    \* of an object tells by itself.
    IF rule = "secret" /\ Assigns(s) THEN IF Stored(s) = "data" THEN {"miss"} ELSE {"cry"} ELSE {},
    IF rule = "secret" /\ s.kind = "arrow" /\ Depth > 1 THEN {"miss"} ELSE {},
    IF rule = "secret" /\ s.kind = "destructure" /\ s.name \notin SecretNames /\ Stored(s) = "data" THEN {"miss"} ELSE {}}

-----------------------------------------------------------------------------
\* The run pass: handlers written one statement at a time.
Given ==
  [form : Forms[rule], of : Names, host : Names]
Plain == {e \in Given : (e.form \in Sources \cup {"literal"} => e.of = e.host /\ e.of = CHOOSE n \in Names : TRUE)
                     /\ (e.form # "hosted" => e.host = e.of)}
Readable == {e \in Plain : e.form \in Sources \cup {"literal"} \/ (Bound(e.of) /\ Bound(e.host))}
Simple == {e \in Readable : e.form \in Sources \cup {"literal", "alias"}}

Ends == {"else", "close", "exit"}
Walk(s) ==
  /\ phase = "walk" /\ Cardinality(excused) <= MaxShortcuts[rule] /\ (ended => s.kind \in Ends)
  /\ walk' = Visit(R, [walk EXCEPT !.found = {}], TRUE, index, s)
  /\ env' = After(s) /\ links' = LinksAfter(s) /\ due' = Owed(s)
  /\ branches' = BranchesAfter(s)
  /\ ended' = (s.kind = "jump" \/ (s.kind = "close" /\ WaysOn = {}))
  /\ excused' = (IF Depth = 1 THEN {} ELSE excused) \cup Shortcuts(s)
  /\ UNCHANGED loop

Room == Depth + Len(branches) <= MaxNesting[rule]
Declare == \E n \in Names \ DOMAIN Here, e \in Readable :
  Depth > 1 /\ Walk([kind |-> "declare", name |-> n, expr |-> e])
DestructureObject == \E n \in Names \ DOMAIN Here, e \in {x \in Readable : x.form \in Sources \cup {"alias", "sanitise"}} :
  Depth > 1 /\ Walk([kind |-> "destructure", name |-> n, expr |-> e])
\* n = e, n += e, n ||= e, n.field = e
AssignVariable == \E how \in {"assign", "append", "default", "field"}, n \in {x \in Names : Bound(x)}, e \in Readable :
  Walk([kind |-> how, name |-> n, expr |-> e])
CallSink == \E at \in Positions[rule], e \in Readable : Depth > 1 /\ Walk([kind |-> "sink", at |-> at, expr |-> e])
CallFunction == \E f \in DOMAIN project : \E args \in [DOMAIN project[f].params -> Simple] :
  Depth > 1 /\ Walk([kind |-> "call", callee |-> f, args |-> args])

\* An if; what its branch has a return for is settled where it opens.
If == \E test \in {"plain", "accepting", "rejecting"}, n \in {x \in Names : Bound(x)}, returns \in BOOLEAN :
  /\ Depth > 1 /\ Room
  /\ Walk([kind |-> "if", test |-> test, on |-> n, returns |-> returns])
LoopOrTry == \E kind \in {"loop", "try"} : Depth > 1 /\ Room /\ Walk([kind |-> kind])
\* The variable of a loop over e.
Each == \E n \in Names \ DOMAIN Here, e \in Simple :
  InBranch /\ Inner.kind = "loop" /\ Walk([kind |-> "each", name |-> n, expr |-> e])
Jump == \E how \in {"return", "throw", "break"} :
  /\ InBranch /\ (how # "return" => Catching(how) # {})
  /\ (how # "break" => Inner.owes # "none")
  /\ Walk([kind |-> "jump", how |-> how])
Settled == InBranch /\ Inner.owes # "return"
Else == Settled /\ Inner.kind = "if" /\ Walk([kind |-> "else"])
Close == Settled /\ Walk([kind |-> "close"])

Function == \E params \in SUBSET Names : Depth = 1 /\ Walk([kind |-> "function", decorated |-> params])
Callback == Room /\ Walk([kind |-> "arrow"])
Leave == Depth > 1 /\ (\A i \in DOMAIN branches : branches[i].depth < Depth) /\ Walk([kind |-> "exit"])

ReachInit ==
  /\ rule \in RuleNames /\ project \in Projects
  /\ phase = "extract" /\ round = 0 /\ signal = NoSignal
  /\ index = [n \in {} |-> <<>>]
  /\ walk = NewVisitor /\ env = <<<<>>>> /\ links = <<>> /\ due = {} /\ excused = {}
  /\ branches = <<>> /\ ended = FALSE

ReachNext ==
  \/ ExtractRound
  \/ Declare \/ DestructureObject \/ AssignVariable
  \/ CallSink \/ CallFunction
  \/ If \/ LoopOrTry \/ Each \/ Jump \/ Else \/ Close
  \/ Function \/ Callback \/ Leave

ReachSpec == ReachInit /\ [][ReachNext]_vars

-----------------------------------------------------------------------------
\* Shapes of the state; the visitor is in as many functions as the run, and a
\* function is left with its branches closed.
ReachTypeOK ==
  /\ rule \in RuleNames /\ round \in 0..MaxRounds /\ signal \in Nat \cup {NoSignal}
  /\ DOMAIN walk.urlInits \cup walk.safeHosts \cup UNION Range(walk.scopes) \subseteq Names
  /\ excused \subseteq {"miss", "cry", "tier", "relinked"}
  /\ Len(walk.scopes) + walk.asleep = Len(env)
  /\ \A i \in DOMAIN branches : branches[i].depth \in 2..Len(env)

\* Data that gets to a sink on some run is reported, whatever was assigned in
\* whichever branch, unless the walk has been through a shortcut that loses it:
\* an assignment from a callback or under a branch, a field, a loop's variable.
NoMissedFlow == due # {} /\ walk.found = {} => excused \cap {"miss", "relinked"} # {}

\* Nothing is reported that did not get there: neither a value overwritten,
\* nor one checked against an allow-list; unless the walk has been through a
\* shortcut that invents, as a branch left by a return.
NoFalseAlarm == walk.found # {} /\ due = {} => "cry" \in excused

\* Medium is for a host the operator chose and only for that, argument by
\* argument, through templates, names and the calls of other functions.
TierExact == due # {} /\ walk.found # {} /\ excused = {} => due = walk.found

\* When the loop stops, one more round would find no new function that takes
\* its argument to a sink, for the two rules whose flags are counted: unless
\* the rounds ran out, and only where they found one in each.
CutShort == round = MaxRounds /\ Cardinality(Reaching(index)) >= MaxRounds
CountedFlagsExact ==
  phase = "walk" /\ rule \in {"ssrf", "redirect"} => Reaching(Extract(rule, project, index)) = Reaching(index) \/ CutShort
=============================================================================
