---------------------------- MODULE ScanPipeline ----------------------------
(***************************************************************************)
(* The scan driver of stryx_cli (`scan_with_options`): collect the target  *)
(* files, re-extract every file's function summaries against the previous  *)
(* round's index until two rounds give the same convergence signal or the  *)
(* cap is hit, run every rule once against the last index, drop suppressed *)
(* findings.  Files are processed by rayon workers in any order; the disk  *)
(* may change under the scan.                                              *)
(*                                                                         *)
(* The flows of module SourceTexts carry whole values, so a flagged        *)
(* parameter has exactly one tainted leaf and no tainted offset: the       *)
(* signal's counts of those are here the counts of the flags.              *)
(***************************************************************************)
EXTENDS SourceTexts

CONSTANTS
  MaxIter,    \* MAX_ITER, the cap on extraction rounds
  MaxEdits,   \* bound: how often the disk changes during one scan
  NoSignal    \* prev_signal = None

SignalType == [sinks : [Counted -> Nat], prop : Nat, leaves : Nat, wrapped : Nat]

ASSUME ScanAssumption ==
  /\ MaxIter \in Nat \ {0} /\ MaxEdits \in Nat
  /\ NoSignal \notin SignalType

VARIABLES
  disk,       \* what each file holds on disk now
  edits,      \* how often it changed since the scan began
  targets,    \* the files to scan, after the diff filter
  phase,      \* "collect", "extract", "run", "done"
  round,      \* extraction round
  sources,    \* the cache of texts, filled by the first successful read
  pending,    \* files the current parallel pass has yet to process
  ixFiles,    \* project_index: the files it holds a summary of,
  ixReach,    \*   the functions flagged on each axis,
  ixProp,     \*   and those with propagates_to_return
  nxFiles, nxReach, nxProp,   \* the summaries collected in this round
  prevSignal, \* the previous round's convergence signal
  converged,
  steady,     \* history: the last two rounds summarised the same files
  findings    \* <<function, axis>> pairs

index == <<ixFiles, ixReach, ixProp>>
next == <<nxFiles, nxReach, nxProp>>
vars == <<disk, edits, targets, phase, round, sources, pending, index, next,
          prevSignal, converged, steady, findings>>

-----------------------------------------------------------------------------
(***************************************************************************)
(* The callee's summary, as a rule that analyses file f for axis a finds   *)
(* it in the index: through f's own import map, so f must be indexed too.  *)
(***************************************************************************)
Resolves(a, f, g) ==
  f \in ixFiles /\ FileOf[g] \in ixFiles /\ Callable(a, g)

\* callee_propagates_arg: an unknown callee is taken to return its argument.
Propagates(f, g) == Resolves(DB, f, g) => g \in ixProp

\* Does a call's result carry its argument's taint?  Only the flagship rule
\* asks the summary; the other rules' expr_taint always says yes.
CarriesTaint(a, f, g) == a = DB => Propagates(f, g)

\* Mutant of Sinks: a callee the index does not know is assumed to sink.
SinksByDefault(a, f, flow) ==
  a \in flow.sinks \/ \E g \in flow.calls : Resolves(a, f, g) => g \in ixReach[a]

(***************************************************************************)
(* Does this flow of a function of file f produce a finding on axis a,     *)
(* directly or at a call whose callee the index flags?                     *)
(***************************************************************************)
Sinks(a, f, flow) ==
  \/ a \in flow.sinks
  \/ \E g \in flow.calls : Resolves(a, f, g) /\ g \in ixReach[a]
  \/ \E gh \in flow.through :
       /\ Resolves(a, f, gh[2]) /\ gh[2] \in ixReach[a]
       /\ CarriesTaint(a, f, gh[1])

\* build_summary: simulate one parameter and see whether a finding comes out.
ReachesSink(a, fn, text) ==
  /\ Callable(a, fn)
  /\ \E flow \in SummaryFlows(a, fn, text) : Sinks(a, FileOf[fn], flow)

\* tainted_return
Returns(f, flow) == flow.ret \/ \E g \in flow.retCalls : Propagates(f, g)
PropagatesToReturn(fn, text) ==
  Returns(FileOf[fn], text.param[fn]) \/ Returns(FileOf[fn], text.req[fn])

-----------------------------------------------------------------------------
Init ==
  /\ disk \in [Files -> AllTexts \cup {NoText}]
  /\ \A f \in Files : disk[f] \in Texts[f] \cup {NoText}
  /\ edits = 0 /\ targets = {} /\ phase = "collect" /\ round = 0
  /\ sources = [f \in Files |-> NoText] /\ pending = {}
  /\ ixFiles = {} /\ ixReach = [a \in Axes |-> {}] /\ ixProp = {}
  /\ nxFiles = {} /\ nxReach = [a \in Axes |-> {}] /\ nxProp = {}
  /\ prevSignal = NoSignal /\ converged = FALSE /\ steady = FALSE
  /\ findings = {}

\* The environment: an editor saves a file, or a file becomes (un)readable.
EditDisk(f) ==
  /\ edits < MaxEdits
  /\ edits' = edits + 1
  /\ \E text \in (Texts[f] \cup {NoText}) \ {disk[f]} : disk' = [disk EXCEPT ![f] = text]
  /\ UNCHANGED <<targets, phase, round, sources, pending, index, next,
                 prevSignal, converged, steady, findings>>

(***************************************************************************)
(* collect_targets and apply_diff_filter: with --diff any subset of the    *)
(* files may be what git reports as changed; without it, or when git       *)
(* fails, all are kept.  No target: an empty result at once.               *)
(***************************************************************************)
Collect ==
  /\ phase = "collect"
  /\ \E changed \in SUBSET Files :
       /\ targets' = changed /\ pending' = changed
       /\ phase' = IF changed = {} THEN "done" ELSE "extract"
  /\ UNCHANGED <<disk, edits, round, sources, index, next,
                 prevSignal, converged, steady, findings>>

\* Mutant of TextToExtract: every round reads the file again.
TextReread(f) == disk[f]

\* The text extract_file analyses: the cached one, else what the disk holds.
TextToExtract(f) == IF sources[f] # NoText THEN sources[f] ELSE disk[f]

(***************************************************************************)
(* One worker runs extract_file: cache the text on its first successful    *)
(* read, and add every rule's summary of it, computed against the index of *)
(* the previous round, to the round's summaries.                           *)
(***************************************************************************)
ExtractFile(f) ==
  LET text == TextToExtract(f)
  IN  /\ phase = "extract" /\ f \in pending
      /\ pending' = pending \ {f}
      /\ sources' = [sources EXCEPT ![f] = text]
      /\ IF Parsed(text)
           THEN /\ nxFiles' = nxFiles \cup {f}
                /\ nxReach' = [a \in Axes |->
                      nxReach[a] \cup {fn \in FnsOf(f) : ReachesSink(a, fn, text)}]
                /\ nxProp' = nxProp \cup {fn \in FnsOf(f) : PropagatesToReturn(fn, text)}
           ELSE UNCHANGED next
      /\ UNCHANGED <<disk, edits, targets, phase, round, index,
                     prevSignal, converged, steady, findings>>

\* Mutant of Signal, the loop's original signal: only the database flags.
SinkSignal ==
  [sinks |-> [a \in Counted |-> Cardinality(nxReach[DB] \ Methods)],
   prop |-> 0, leaves |-> 0, wrapped |-> 0]

(***************************************************************************)
(* convergence_signal of the collected summaries: exports and locals only, *)
(* so no class method, and only the counted axes.                          *)
(***************************************************************************)
Summarised == {fn \in Fns \ Methods : FileOf[fn] \in nxFiles}
Signal ==
  [sinks  |-> [a \in Counted |-> Cardinality(nxReach[a] \ Methods)],
   prop   |-> Cardinality(nxProp \ Methods),
   leaves |-> Cardinality({fn \in Summarised :
                 LET text == sources[FileOf[fn]] IN text.param[fn].ret \/ text.req[fn].ret}),
   wrapped |-> Cardinality({fn \in Summarised : fn \in sources[FileOf[fn]].wrapped})]

\* Mutant of EndRound: no cap on the rounds.
EndRoundUncapped ==
  /\ phase = "extract" /\ pending = {}
  /\ ixFiles' = nxFiles /\ ixReach' = nxReach /\ ixProp' = nxProp
  /\ nxFiles' = {} /\ nxReach' = [a \in Axes |-> {}] /\ nxProp' = {}
  /\ converged' = (prevSignal = Signal) /\ prevSignal' = Signal
  /\ steady' = (nxFiles = ixFiles) /\ pending' = targets
  /\ IF converged' THEN phase' = "run" /\ UNCHANGED round
                   ELSE round' = round + 1 /\ UNCHANGED phase
  /\ UNCHANGED <<disk, edits, targets, sources, findings>>

\* Mutant of EndRound: leave the loop before the new index is stored.
EndRoundStaleIndex ==
  /\ phase = "extract" /\ pending = {}
  /\ IF prevSignal = Signal
       THEN UNCHANGED index
       ELSE ixFiles' = nxFiles /\ ixReach' = nxReach /\ ixProp' = nxProp
  /\ nxFiles' = {} /\ nxReach' = [a \in Axes |-> {}] /\ nxProp' = {}
  /\ converged' = (prevSignal = Signal) /\ prevSignal' = Signal
  /\ steady' = (nxFiles = ixFiles) /\ pending' = targets
  /\ IF converged' \/ round + 1 = MaxIter
       THEN phase' = "run" /\ UNCHANGED round
       ELSE round' = round + 1 /\ UNCHANGED phase
  /\ UNCHANGED <<disk, edits, targets, sources, findings>>

(***************************************************************************)
(* The end of a round, once every worker is done: the collected summaries  *)
(* become the index, whatever the signal says; the loop ends when the      *)
(* signal repeats or the cap is reached.                                   *)
(***************************************************************************)
EndRound ==
  /\ phase = "extract" /\ pending = {}
  /\ ixFiles' = nxFiles /\ ixReach' = nxReach /\ ixProp' = nxProp
  /\ nxFiles' = {} /\ nxReach' = [a \in Axes |-> {}] /\ nxProp' = {}
  /\ converged' = (prevSignal = Signal)
  /\ prevSignal' = Signal
  /\ steady' = (nxFiles = ixFiles)
  /\ pending' = targets
  /\ IF converged' \/ round + 1 = MaxIter
       THEN phase' = "run" /\ UNCHANGED round
       ELSE round' = round + 1 /\ UNCHANGED phase
  /\ UNCHANGED <<disk, edits, targets, sources, findings>>

\* What the rules report in a file: body-tainted flows that reach a sink.  The
\* flagship rule ignores body sources in a handler whose wrapper validates it.
FindingsIn(f) ==
  {fa \in FnsOf(f) \X Axes :
     /\ Sinks(fa[2], f, sources[f].req[fa[1]])
     /\ ~(fa[2] = DB /\ f \in ixFiles /\ fa[1] \in sources[f].wrapped)}

\* Mutant of RunFile: wait for the text of a file that was never read.
RunReadFile(f) ==
  /\ phase = "run" /\ f \in pending /\ sources[f] # NoText
  /\ pending' = pending \ {f}
  /\ findings' = findings \cup (IF Parsed(sources[f]) THEN FindingsIn(f) ELSE {})
  /\ UNCHANGED <<disk, edits, targets, phase, round, sources, index, next,
                 prevSignal, converged, steady>>

\* run_file: only a text cached during extraction is analysed.
RunFile(f) ==
  /\ phase = "run" /\ f \in pending
  /\ pending' = pending \ {f}
  /\ findings' = findings \cup (IF Parsed(sources[f]) THEN FindingsIn(f) ELSE {})
  /\ UNCHANGED <<disk, edits, targets, phase, round, sources, index, next,
                 prevSignal, converged, steady>>

\* filter_suppressed
Muted(fa) == fa \in sources[FileOf[fa[1]]].muted
Filter ==
  /\ phase = "run" /\ pending = {}
  /\ findings' = {fa \in findings : ~Muted(fa)}
  /\ phase' = "done"
  /\ UNCHANGED <<disk, edits, targets, round, sources, pending, index, next,
                 prevSignal, converged, steady>>

Returned == phase = "done" /\ UNCHANGED vars

Next ==
  \/ Collect \/ EndRound \/ Filter \/ Returned
  \/ \E f \in Files : EditDisk(f) \/ ExtractFile(f) \/ RunFile(f)

\* The scan's own steps are always taken: rayon runs every task it is given.
Spec == Init /\ [][Next]_vars
FairSpec ==
  /\ Spec
  /\ WF_vars(Collect) /\ WF_vars(EndRound) /\ WF_vars(Filter)
  /\ \A f \in Files : WF_vars(ExtractFile(f)) /\ WF_vars(RunFile(f))

-----------------------------------------------------------------------------
TypeOK ==
  /\ disk \in [Files -> AllTexts \cup {NoText}]
  /\ edits \in 0..MaxEdits /\ round \in 0..(MaxIter - 1)
  /\ targets \subseteq Files /\ pending \subseteq targets
  /\ phase \in {"collect", "extract", "run", "done"}
  /\ sources \in [Files -> AllTexts \cup {NoText}]
  /\ ixFiles \subseteq Files /\ ixReach \in [Axes -> SUBSET Fns] /\ ixProp \subseteq Fns
  /\ nxFiles \subseteq Files /\ nxReach \in [Axes -> SUBSET Fns] /\ nxProp \subseteq Fns
  /\ prevSignal \in SignalType \cup {NoSignal}
  /\ converged \in BOOLEAN /\ steady \in BOOLEAN
  /\ findings \subseteq Fns \X Axes

(***************************************************************************)
(* No flag and no finding without a flow: whatever the order of the        *)
(* workers, the round and the edits to the disk, a function is flagged on  *)
(* an axis only if its input gets to such a sink along calls that the      *)
(* cached texts make, and reported only if its request data does.  This is *)
(* ADR 0004's "false positives are not introduced by the loop shape".      *)
(***************************************************************************)
FlagsJustified ==
  \A a \in Axes : \A S \in SUBSET Fns : Closed(a, sources, S) =>
    /\ ixReach[a] \subseteq S /\ nxReach[a] \subseteq S
    /\ \A fa \in findings : fa[2] = a => Leads(a, sources[FileOf[fa[1]]].req[fa[1]], S)

(***************************************************************************)
(* Equality of two consecutive signals is a fixed-point witness on the     *)
(* axes it tracks: once converged, re-extracting any indexed function      *)
(* against the final index gives the flag it already has.                  *)
(***************************************************************************)
Fixed(a) ==
  \A fn \in Fns \ Methods : FileOf[fn] \in ixFiles =>
    (fn \in ixReach[a] <=> ReachesSink(a, fn, sources[FileOf[fn]]))
CountedWitness ==
  converged /\ steady => \A a \in Axes : Tracked(a, sources) => Fixed(a)

(***************************************************************************)
(* The claim the comment on ConvergenceSignal makes of every axis: the     *)
(* signal stands for all of them.                                          *)
(***************************************************************************)
EveryAxisWitness == converged /\ steady => \A a \in Axes : Fixed(a)

(***************************************************************************)
(* The loop never stops before its second round, so on every axis, counted *)
(* or not, a flow of at most two helpers is reported: request data passed  *)
(* to g, and by g to h, which passes it to a sink.                         *)
(***************************************************************************)
Visible(a, fn) == FileOf[fn] \in ixFiles /\ Callable(a, fn)
ShallowFlowsReported ==
  phase = "done" /\ steady =>
    \A a \in Axes, fn \in Fns : FileOf[fn] \in ixFiles /\ ~Excused(a, fn, sources) =>
      LET req == sources[FileOf[fn]].req[fn]
          param(g) == sources[FileOf[g]].param[g]
          helper == {g \in Fns : Visible(a, g) /\ a \in param(g).sinks}
          relay == {g \in Fns : Visible(a, g) /\ param(g).calls \cap helper # {}}
      IN  a \in req.sinks \/ req.calls \cap (helper \cup relay) # {} => <<fn, a>> \in findings

\* The scan ends and returns its result, converged or not.
Terminates == <>(phase = "done")

(***************************************************************************)
(* The driver implements the contract of module ScanContract.              *)
(***************************************************************************)
Status ==
  IF phase # "done" THEN "scanning"
  ELSE IF targets = {} \/ (converged /\ steady) THEN "complete" ELSE "partial"
Contract == INSTANCE ScanContract WITH
  pinned <- sources, status <- Status, report <- IF phase = "done" THEN findings ELSE {}
ImplementsContract == Contract!Spec
=============================================================================
