------------------------------- MODULE MCScan -------------------------------
(***************************************************************************)
(* Small projects for ScanPipeline: a handler in one file, two helpers in  *)
(* a second, a helper and a service method in a third.  The texts of a     *)
(* file are alternatives; Init combines them freely.                       *)
(***************************************************************************)
EXTENDS ScanPipeline, TLC

CONSTANTS H, A, B, hnd, f1, f2, f3, m, db, sql, fetch

MCFileOf == [fn \in Fns |-> CASE fn = hnd -> H [] fn \in {f1, f2} -> A [] OTHER -> B]

Idle == [sinks |-> {}, calls |-> {}, through |-> {}, ret |-> FALSE, retCalls |-> {}]
Sink(a) == [Idle EXCEPT !.sinks = {a}]
Call(S) == [Idle EXCEPT !.calls = S]
Nest(g, h) == [Idle EXCEPT !.through = {<<g, h>>}]
Ret == [Idle EXCEPT !.ret = TRUE]
RetCall(g) == [Idle EXCEPT !.retCalls = {g}]

\* A text from the flows of its parameters (p) and request bodies (r); a
\* function it does not mention does nothing.
Over(flows, fn) == IF fn \in DOMAIN flows THEN flows[fn] ELSE Idle
Src(p, r, wrapped, muted) ==
  [parses |-> TRUE, param |-> [fn \in Fns |-> Over(p, fn)], req |-> [fn \in Fns |-> Over(r, fn)],
   wrapped |-> wrapped, muted |-> muted]
Plainly(p) == Src(p, <<>>, {}, {})
Handler(flow) == Src(<<>>, hnd :> flow, {}, {})
Broken == [Src(<<>>, <<>>, {}, {}) EXCEPT !.parses = FALSE]

MCTexts ==
  H :> {Handler(Call({f1})), Handler(Nest(f3, f1)), Src(<<>>, hnd :> Call({f1, f2}), {hnd}, {<<hnd, fetch>>})}
  @@ A :> {Plainly(f1 :> Call({f2}) @@ f2 :> Call({f3})),
           Plainly(f1 :> Nest(f2, f3) @@ f2 :> RetCall(f3)),
           Plainly(f1 :> Call({f2}) @@ f2 :> Call({f1, m}))}
  @@ B :> {Plainly(f3 :> Sink(db)), Plainly(f3 :> Sink(sql) @@ m :> Sink(db)),
           Plainly(f3 :> Sink(fetch)),
           Src(f3 :> Ret @@ m :> Call({f3}), f3 :> Sink(db), {}, {}), Broken}

\* A chain of three helpers to an sql sink, for the disagreement between the
\* loop and the comment on its signal.
SqlChainTexts ==
  H :> {Handler(Call({f1}))}
  @@ A :> {Plainly(f1 :> Call({f2}) @@ f2 :> Call({f3}))}
  @@ B :> {Plainly(f3 :> Sink(sql))}
=============================================================================
