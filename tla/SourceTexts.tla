----------------------------- MODULE SourceTexts ----------------------------
(***************************************************************************)
(* The vocabulary the scan driver and its contract share: source files,    *)
(* their functions, and what a source text says about the flow of request  *)
(* data.                                                                   *)
(*                                                                         *)
(* A text is abstracted to the whole-value data flows of its functions:    *)
(* from their parameter (each function has one), and from a request body   *)
(* they read.  Shapes and field offsets belong to module TaintCells.       *)
(***************************************************************************)
EXTENDS Naturals, FiniteSets

CONSTANTS
  Files,      \* source files under the scan root
  Fns,        \* top-level functions and class methods of all the files
  Methods,    \* those of Fns that are class methods
  FileOf,     \* the file that declares a function
  Axes,       \* sink families with a reaches_*_sink_unsanitized flag
  DB,         \* the axis of the flagship rule, flow/unvalidated-body-to-db
  Counted,    \* the axes that ConvergenceSignal counts
  Texts,      \* the texts each file may hold
  NoText      \* no text: not cached, or unreadable on disk

(***************************************************************************)
(* What one origin of taint does in a function's body: the sinks it is     *)
(* passed to, the functions it is passed to, the pairs <<g, h>> of a nested*)
(* call h(g(x)), whether it is returned, and the g of a `return g(x)`.     *)
(***************************************************************************)
Flow == [sinks : SUBSET Axes, calls : SUBSET Fns, through : SUBSET (Fns \X Fns),
         ret : BOOLEAN, retCalls : SUBSET Fns]

(***************************************************************************)
(* A text: its flows per function (param: the function's parameter, req: a *)
(* request body read in it), the handlers whose export is wrapped by a     *)
(* body validator, and the findings its stryx-disable comments cover.      *)
(***************************************************************************)
Text == [parses : BOOLEAN, param : [Fns -> Flow], req : [Fns -> Flow],
         wrapped : SUBSET Fns, muted : SUBSET (Fns \X Axes)]

ASSUME TextsAssumption ==
  /\ IsFiniteSet(Fns) /\ Methods \subseteq Fns
  /\ FileOf \in [Fns -> Files]
  /\ DB \in Axes /\ Counted \subseteq Axes
  /\ Texts \in [Files -> SUBSET Text]
  /\ NoText \notin Text

AllTexts == UNION {Texts[f] : f \in Files}
FnsOf(f) == {fn \in Fns : FileOf[fn] = f}

\* Only a text that parses has summaries and findings.
Parsed(text) == text # NoText /\ text.parses

\* Only the flagship rule summarises class methods or resolves calls to them.
Callable(a, g) == g \in Methods => a = DB

(***************************************************************************)
(* The flows of a summary on axis a.  The flagship rule's build_summary    *)
(* does not switch body sources off while it simulates a parameter, so a   *)
(* body that the function reads itself counts too; the other rules do.     *)
(***************************************************************************)
SummaryFlows(a, fn, text) == {text.param[fn]} \cup IF a = DB THEN {text.req[fn]} ELSE {}

-----------------------------------------------------------------------------
(***************************************************************************)
(* Ground truth for a set of cached texts src: a flow leads to a sink of   *)
(* axis a if it meets one or is passed, as it is or through another call,  *)
(* to a function in S.  A set closed under this contains every function    *)
(* that hands its input to such a sink; the least one is the reference.    *)
(***************************************************************************)
Leads(a, flow, S) ==
  \/ a \in flow.sinks
  \/ \E g \in flow.calls \cap S : Callable(a, g)
  \/ \E gh \in flow.through : gh[2] \in S /\ Callable(a, gh[2])

Closed(a, src, S) ==
  \A fn \in Fns :
    /\ Parsed(src[FileOf[fn]]) /\ Callable(a, fn)
    /\ \E flow \in SummaryFlows(a, fn, src[FileOf[fn]]) : Leads(a, flow, S)
    => fn \in S

\* Does the request data that fn reads get to a sink of axis a?
Vulnerable(a, fn, src) ==
  /\ Parsed(src[FileOf[fn]])
  /\ \A S \in SUBSET Fns : Closed(a, src, S) => Leads(a, src[FileOf[fn]].req[fn], S)

\* Handlers whose wrapper validates the body, and disabled findings.
Excused(a, fn, src) ==
  \/ a = DB /\ fn \in src[FileOf[fn]].wrapped
  \/ <<fn, a>> \in src[FileOf[fn]].muted

(***************************************************************************)
(* Axes on which a converged scan is exact.  The flagship rule's own axis  *)
(* is only when no value passes through a call on its way (propagation     *)
(* through a callee can be withdrawn again) and none goes to a class       *)
(* method (the signal does not count those).                               *)
(***************************************************************************)
PlainFlow(flow) == flow.through = {} /\ flow.calls \cap Methods = {}
Plain(src) ==
  \A fn \in Fns : Parsed(src[FileOf[fn]]) =>
    PlainFlow(src[FileOf[fn]].param[fn]) /\ PlainFlow(src[FileOf[fn]].req[fn])
Tracked(a, src) == a \in Counted /\ (a = DB => Plain(src))
=============================================================================
