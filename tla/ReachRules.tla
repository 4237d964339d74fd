----------------------------- MODULE ReachRules -----------------------------
(***************************************************************************)
(* The rules that follow a value from where a request (or a secret) enters *)
(* to a call that must not get it: sql, exec, fetch, redirect, files,      *)
(* eval, deserialisers, prompts, HTML, Mongo filters, response bodies.     *)
(* Each is a visitor with a stack of scopes.  They were written one from   *)
(* another, so here a rule is a record of what it does differently and the *)
(* visitor is one operator.                                                *)
(*                                                                         *)
(* An expression is a form, the name it is made of and, for a template     *)
(* that starts with one, the name of its host.  A statement is a record    *)
(* whose kind is one the visitors handle.                                  *)
(***************************************************************************)
EXTENDS Naturals, Sequences, FiniteSets, SequencesExt, FiniteSetsExt, Functions

CONSTANTS
  Names,         \* the variables of the code walked
  SecretNames    \* those whose name says what they hold is a credential

With(f, n, value) == [x \in DOMAIN f \cup {n} |-> IF x = n THEN value ELSE f[x]]

\* What the request gives, and what an expression may do with it.
BodySources == {"bodyMember", "bodyCall"}
\* The forms expr_taint follows; await, parentheses and casts are aliases.
Followed ==
  {"alias", "member", "argument", "template", "pinned", "hosted", "tagged", "object", "array",
   "conditional", "logical", "binary", "assigned", "coerce", "sanitise", "stringify"}

Sibling(positions, severity) ==
  [request |-> TRUE, sources |-> BodySources, carries |-> Followed, waives |-> {}, looksAt |-> positions,
   severity |-> severity, assigns |-> TRUE, callbacks |-> TRUE, guards |-> FALSE, tiers |-> FALSE]

\* The rules.  Where the value must be: the first argument, for most.
SqlInjection == Sibling({"first"}, "critical")
CommandInjection == Sibling({"first"}, "critical")
PathTraversal == Sibling({"first"}, "high")
EvalInjection == Sibling({"first", "new"}, "critical")
InsecureDeserialize == Sibling({"first"}, "critical")
PromptFields == {"content", "input"}
PromptInjection == Sibling({"first"} \cup PromptFields, "high")
\* A sanitiser's result is clean where it is declared or where it is rendered.
XssDangerousHtml == [Sibling({"html"}, "high") EXCEPT !.waives = {"sanitise"}]
\* Coercions and schema parsers are the fix; objects, arrays and + are not followed.
NoSqlCarries == {"alias", "member", "argument", "template", "conditional", "logical", "assigned", "pinned", "hosted", "stringify"}
NoSqlInjection == [Sibling({"property", "spread"}, "high") EXCEPT !.carries = NoSqlCarries]
RedirectOpen == [Sibling({"first"}, "high") EXCEPT !.guards = TRUE]
Ssrf == [Sibling({"first"}, "high") EXCEPT !.guards = TRUE, !.tiers = TRUE]
\* Assignments are not looked at, nor callbacks; a call is opaque, JSON.stringify apart.
SecretCarries == {"alias", "member", "template", "pinned", "hosted", "object", "array", "conditional", "logical", "stringify"}
SecretToResponse ==
  [Sibling({"first", "second", "new"}, "critical") EXCEPT
     !.request = FALSE, !.sources = {"environment", "credential"}, !.carries = SecretCarries,
     !.assigns = FALSE, !.callbacks = FALSE]

Rules ==
  [sql |-> SqlInjection, exec |-> CommandInjection, path |-> PathTraversal, eval |-> EvalInjection,
   deserialize |-> InsecureDeserialize, prompt |-> PromptInjection, xss |-> XssDangerousHtml,
   nosql |-> NoSqlInjection, redirect |-> RedirectOpen, ssrf |-> Ssrf, secret |-> SecretToResponse]

-----------------------------------------------------------------------------
\* A visitor's state: scopes of tainted names, new URL lineage, names of safe
\* hosts, how many functions it is in without walking them, what it reported.
NewVisitor == [scopes |-> <<{}>>, urlInits |-> <<>>, safeHosts |-> {}, asleep |-> 0, found |-> {}]

IsTainted(w, n) == \E i \in DOMAIN w.scopes : n \in w.scopes[i]
Taint(w, n) == [w EXCEPT !.scopes[Len(w.scopes)] = @ \cup {n}]
Forget(w, n) == [w EXCEPT !.scopes[Len(w.scopes)] = @ \ {n}]
\* The innermost occurrence only.
Untaint(w, n) ==
  IF IsTainted(w, n)
    THEN [w EXCEPT !.scopes[Max({i \in DOMAIN w.scopes : n \in w.scopes[i]})] = @ \ {n}] ELSE w

EnterLeaky(w) == [w EXCEPT !.scopes = Append(@, {}), !.safeHosts = {}]   \* mutant: the lineage is kept
EnterFn(w) == [w EXCEPT !.scopes = Append(@, {}), !.urlInits = <<>>, !.safeHosts = {}]
StayIn(w) == [w EXCEPT !.urlInits = <<>>]   \* mutant: the scope is not closed
\* Neither the lineage nor the safe hosts of the function outside come back.
ExitFn(w) == [w EXCEPT !.scopes = Front(@)]

ExprTaint(r, w, active, e) ==
  \/ e.form \in r.sources /\ (active \/ ~r.request)
  \/ e.form \in r.carries /\ IsTainted(w, e.of)
  \/ e.form = "hosted" /\ e.form \in r.carries /\ IsTainted(w, e.host)

IsSafeHost(w, e) == e.form = "environment" \/ (e.form \in {"alias", "logical"} /\ e.of \in w.safeHosts)
IsHostPinned(w, e) == e.form = "pinned" \/ (e.form = "hosted" /\ e.host \in w.safeHosts)

\* handle_var_decl of one name.
VarDecl(r, w, active, n, e) ==
  LET linked == IF r.guards /\ e.form = "newUrl" THEN [w EXCEPT !.urlInits = With(@, n, e.of)] ELSE w
      hosted == IF r.tiers /\ IsSafeHost(w, e) THEN [linked EXCEPT !.safeHosts = @ \cup {n}] ELSE linked
  IN  IF ExprTaint(r, w, active, e) /\ e.form \notin r.waives THEN Taint(hosted, n) ELSE hosted

\* A name taken out of an object: for secrets it is the name that tells.
Destructure(r, w, active, n, e) ==
  IF r.request THEN IF ExprTaint(r, w, active, e) /\ e.form \notin r.waives THEN Taint(w, n) ELSE w
  ELSE IF n \in SecretNames /\ e.form # "sanitise" THEN Taint(w, n) ELSE w

AssignOnlyTaints(r, w, active, n, e) ==   \* mutant: a clean value does not clear
  IF r.assigns /\ ExprTaint(r, w, active, e) THEN Taint(w, n) ELSE w
Assign(r, w, active, n, e) ==
  IF ~r.assigns THEN w ELSE IF ExprTaint(r, w, active, e) THEN Taint(w, n) ELSE Forget(w, n)

Report(w, severity) == [w EXCEPT !.found = @ \cup {severity}]
AlwaysHigh(r, w, e) == r.severity   \* mutant: no tier
SinkSeverity(r, w, e) == IF r.tiers /\ IsHostPinned(w, e) THEN "medium" ELSE r.severity
CheckSink(r, w, active, at, e) ==
  IF at \in r.looksAt /\ e.form \notin r.waives /\ ExprTaint(r, w, active, e)
    THEN Report(w, SinkSeverity(r, w, e)) ELSE w

\* A finding for each tainted argument whose parameter is known to reach a sink.
CalleeSeverities(r, w, active, index, s) ==
  IF s.callee \notin DOMAIN index THEN {} ELSE
  {IF index[s.callee][i].pinned THEN "medium" ELSE r.severity :
     i \in {j \in DOMAIN s.args \cap DOMAIN index[s.callee] :
              index[s.callee][j].reaches /\ ExprTaint(r, w, active, s.args[j])}}
CheckCrossFileCall(r, w, active, index, s) == [w EXCEPT !.found = @ \cup CalleeSeverities(r, w, active, index, s)]

\* visit_if_statement: an allow-list test that rejects clears the URL and what
\* it was parsed from, if the branch has a return; before the branch is walked.
Narrow(r, w, s) ==
  IF r.guards /\ s.test = "rejecting" /\ s.returns /\ s.on \in DOMAIN w.urlInits
    THEN Untaint(Untaint(w, w.urlInits[s.on]), s.on) ELSE w

EnterFunction(r, w, active, s) ==
  LET entered == EnterFn(w)
  IN  IF r.request /\ active THEN [entered EXCEPT !.scopes[Len(entered.scopes)] = s.decorated] ELSE entered

\* What has no visit_* of its own is walked through where it stands: branches
\* and their ends, loops, try, jumps, a loop's variable, a write to a field.
WalkedThrough == {"loop", "try", "else", "close", "jump", "each", "field"}

\* A statement of a function body.  `u += e` and `u ||= e` are assignments of e.
Visit(r, w, active, index, s) ==
  IF w.asleep > 0
    THEN [w EXCEPT !.asleep = CASE s.kind = "arrow" -> @ + 1 [] s.kind = "exit" -> @ - 1 [] OTHER -> @]
  ELSE CASE s.kind = "declare" -> VarDecl(r, w, active, s.name, s.expr)
         [] s.kind = "destructure" -> Destructure(r, w, active, s.name, s.expr)
         [] s.kind \in {"assign", "append", "default"} -> Assign(r, w, active, s.name, s.expr)
         [] s.kind = "sink" -> CheckSink(r, w, active, s.at, s.expr)
         [] s.kind = "call" -> CheckCrossFileCall(r, w, active, index, s)
         [] s.kind = "if" -> Narrow(r, w, s)
         [] s.kind \in WalkedThrough -> w
         [] s.kind = "function" -> EnterFunction(r, w, active, s)
         [] s.kind = "arrow" /\ (r.callbacks \/ Len(w.scopes) = 1) -> EnterFn(w)
         [] s.kind = "arrow" /\ ~(r.callbacks \/ Len(w.scopes) = 1) -> [w EXCEPT !.asleep = 1]
         [] s.kind = "exit" -> ExitFn(w)

-----------------------------------------------------------------------------
\* build_summary: the function's statements with one parameter tainted and
\* the request's own sources off, under the index of the round before.
Simulate(r, f, i, index) ==
  LET walked[k \in 0..Len(f.body)] ==
        IF k = 0 THEN Taint(NewVisitor, f.params[i]) ELSE Visit(r, walked[k - 1], FALSE, index, f.body[k])
  IN  walked[Len(f.body)]
Summary(r, f, index) ==
  [i \in DOMAIN f.params |->
     LET found == Simulate(r, f, i, index).found IN [reaches |-> found # {}, pinned |-> found = {"medium"}]]

\* extract_summary of each of the four rules that look into other files.
Summaries(r, functions, index) == [n \in DOMAIN functions |-> Summary(r, functions[n], index)]
ExtractSql(functions, index) == Summaries(SqlInjection, functions, index)
ExtractExec(functions, index) == Summaries(CommandInjection, functions, index)
ExtractRedirect(functions, index) == Summaries(RedirectOpen, functions, index)
ExtractSsrf(functions, index) == Summaries(Ssrf, functions, index)
Extract(rule, functions, index) ==
  CASE rule = "sql" -> ExtractSql(functions, index)
    [] rule = "exec" -> ExtractExec(functions, index)
    [] rule = "redirect" -> ExtractRedirect(functions, index)
    [] rule = "ssrf" -> ExtractSsrf(functions, index)
    [] OTHER -> <<>>
=============================================================================
