------------------------------ MODULE MCReach -------------------------------
(***************************************************************************)
(* The reachability rules over two variables, with the forms that set the  *)
(* rules apart, and over chains of functions that look into each other.    *)
(***************************************************************************)
EXTENDS ReachScan, TLC

Nothing == [form |-> "literal", of |-> "u", host |-> "u"]
Of(form, n) == [form |-> form, of |-> n, host |-> n]
Sink(e) == [kind |-> "sink", at |-> "first", expr |-> e]
Call(f, args) == [kind |-> "call", callee |-> f, args |-> args]
Fn(params, body) == [params |-> params, body |-> body]

\* fetch(u), fetch(`https://api/${u}`), and callers of callers of them; one
\* that validates first; one with a callback.
Chain ==
  "open" :> Fn(<<"u">>, <<Sink(Of("alias", "u"))>>)
  @@ "api" :> Fn(<<"p", "u">>, <<Sink(Of("pinned", "u")), Call("client", <<Of("alias", "p")>>)>>)
  @@ "client" :> Fn(<<"u">>, <<[kind |-> "declare", name |-> "p", expr |-> Of("member", "u")], Call("open", <<Of("alias", "p")>>)>>)
Checked ==
  "safe" :> Fn(<<"u">>, <<[kind |-> "declare", name |-> "p", expr |-> Of("newUrl", "u")],
                          [kind |-> "if", test |-> "rejecting", on |-> "p", returns |-> TRUE],
                          [kind |-> "jump", how |-> "return"], [kind |-> "close"], Sink(Of("alias", "u"))>>)
  @@ "later" :> Fn(<<"u">>, <<[kind |-> "arrow"], Call("safe", <<Of("alias", "u")>>), Sink(Of("pinned", "u")), [kind |-> "exit"]>>)
MCProjects == {Chain @@ Checked}

Common == {"bodyMember", "alias", "literal"}
MCForms ==
  [sql |-> Common \cup {"template", "receiver"}, exec |-> Common \cup {"binary"}, path |-> Common \cup {"argument"},
   eval |-> Common \cup {"conditional"}, deserialize |-> Common \cup {"member"}, prompt |-> Common \cup {"array"},
   xss |-> Common \cup {"sanitise"}, nosql |-> Common \cup {"coerce", "template", "object"},
   redirect |-> Common \cup {"newUrl", "logical"},
   ssrf |-> Common \cup {"newUrl", "pinned", "hosted", "environment"},
   secret |-> {"environment", "credential", "alias", "literal", "sanitise", "stringify", "argument", "object"}]
MCRules == DOMAIN Rules
MCPositions ==
  [r \in DOMAIN Rules |->
     CASE r = "xss" -> {"html"} [] r = "nosql" -> {"property", "first"} [] r = "eval" -> {"first", "new"}
       [] r = "prompt" -> {"content", "role"} [] OTHER -> {"first"}]
\* One rule with a branch in another, those of few states with shortcuts.
MCNesting == [r \in DOMAIN Rules |-> IF r = "exec" THEN 3 ELSE 2]
MCShortcuts == [r \in DOMAIN Rules |-> IF r \in {"path", "eval", "xss", "secret"} THEN 1 ELSE 0]
=============================================================================
