------------------------- MODULE ScanPipelineProofs -------------------------
(***************************************************************************)
(* What holds of the scan driver for every set of files, functions, axes   *)
(* and texts, every cap and every number of edits.                         *)
(***************************************************************************)
EXTENDS ScanPipeline, FiniteSetTheorems, TLAPS

-----------------------------------------------------------------------------
\* Lemmas about texts.

\* A function's file is a file of the project.
LEMMA FileOfType == \A fn \in Fns : FileOf[fn] \in Files
  BY TextsAssumption

\* What a file may hold is a text, and a text that parses is one.
LEMMA TextsType ==
  /\ \A f \in Files : Texts[f] \subseteq AllTexts
  /\ AllTexts \subseteq Text /\ NoText \notin AllTexts
  BY TextsAssumption DEF AllTexts

\* The functions of a file, and the sets of functions the signal counts.
LEMMA CountType == \A S \in SUBSET Fns : Cardinality(S \ Methods) \in Nat
<1>1. SUFFICES ASSUME NEW S \in SUBSET Fns PROVE Cardinality(S \ Methods) \in Nat
  OBVIOUS
<1>2. IsFiniteSet(S \ Methods)
  BY TextsAssumption, FS_Subset
<1> QED BY <1>2, FS_CardinalityType

\* The signal is always a tuple of counts.
LEMMA SignalTyped == TypeOK => Signal \in SignalType
<1> SUFFICES ASSUME TypeOK PROVE Signal \in SignalType
  OBVIOUS
<1>1. \A a \in Counted : Cardinality(nxReach[a] \ Methods) \in Nat
  BY CountType, TextsAssumption DEF TypeOK
<1>2. Cardinality(nxProp \ Methods) \in Nat
  BY CountType DEF TypeOK
<1>3. \A S : S \subseteq Summarised => Cardinality(S) \in Nat
  BY TextsAssumption, FS_Subset, FS_CardinalityType DEF Summarised
<1>4. Signal.leaves \in Nat /\ Signal.wrapped \in Nat
  BY <1>3 DEF Signal
<1> QED BY <1>1, <1>2, <1>4 DEF Signal, SignalType

-----------------------------------------------------------------------------
(***************************************************************************)
(* Type correctness: every variable of the driver keeps its type, the      *)
(* round stays below MAX_ITER and the work list within the targets.        *)
(***************************************************************************)
THEOREM TypeCorrect == Spec => []TypeOK
<1>1. Init => TypeOK
  <2>1. 0 \in 0..MaxEdits /\ 0 \in 0..(MaxIter - 1)
    BY ScanAssumption
  <2>2. [a \in Axes |-> {}] \in [Axes -> SUBSET Fns]
    OBVIOUS
  <2> QED BY <2>1, <2>2 DEF Init, TypeOK
<1>2. TypeOK /\ [Next]_vars => TypeOK'
  <2> SUFFICES ASSUME TypeOK, [Next]_vars PROVE TypeOK'
    OBVIOUS
  <2>1. CASE Collect
    BY <2>1 DEF Collect, TypeOK, index, next
  <2>2. CASE EndRound
    <3>1. prevSignal' \in SignalType
      BY <2>2, SignalTyped DEF EndRound
    <3>2. round' \in 0..(MaxIter - 1)
      BY <2>2, ScanAssumption DEF EndRound, TypeOK
    <3> QED BY <2>2, <3>1, <3>2 DEF EndRound, TypeOK
  <2>3. CASE Filter
    BY <2>3 DEF Filter, TypeOK, index, next
  <2>4. CASE UNCHANGED vars
    BY <2>4 DEF vars, TypeOK, index, next
  <2>5. ASSUME NEW f \in Files, EditDisk(f) PROVE TypeOK'
    BY <2>5, TextsType, ScanAssumption DEF EditDisk, TypeOK, index, next
  <2>6. ASSUME NEW f \in Files, ExtractFile(f) PROVE TypeOK'
    <3>1. TextToExtract(f) \in AllTexts \cup {NoText}
      BY DEF TextToExtract, TypeOK
    <3>2. sources' \in [Files -> AllTexts \cup {NoText}] /\ pending' \subseteq targets
      BY <2>6, <3>1 DEF ExtractFile, TypeOK
    <3>3. /\ nxFiles' \subseteq Files /\ nxProp' \subseteq Fns
          /\ nxReach' \in [Axes -> SUBSET Fns]
      BY <2>6 DEF ExtractFile, TypeOK, next, FnsOf
    <3> QED BY <2>6, <3>2, <3>3 DEF ExtractFile, TypeOK, index
  <2>7. ASSUME NEW f \in Files, RunFile(f) PROVE TypeOK'
    <3>1. FindingsIn(f) \subseteq Fns \X Axes
      BY DEF FindingsIn, FnsOf
    <3> QED BY <2>7, <3>1 DEF RunFile, TypeOK, index, next
  <2> QED BY <2>1, <2>2, <2>3, <2>4, <2>5, <2>6, <2>7 DEF Next, Returned
<1> QED BY <1>1, <1>2, PTL DEF Spec

-----------------------------------------------------------------------------
\* FlagsJustified.

\* sources only grows: a file keeps the text of its first successful read.
Grows == \A f \in Files : sources[f] = NoText \/ sources'[f] = sources[f]

LEMMA CacheGrows == TypeOK /\ [Next]_vars => Grows
<1> SUFFICES ASSUME TypeOK, [Next]_vars PROVE Grows
  OBVIOUS
<1>1. CASE UNCHANGED sources
  BY <1>1 DEF Grows
<1>2. ASSUME NEW f \in Files, ExtractFile(f) PROVE Grows
  BY <1>2 DEF ExtractFile, TextToExtract, Grows, TypeOK
<1> QED
  BY <1>1, <1>2 DEF Next, vars, Collect, EndRound, Filter, Returned, EditDisk, RunFile

\* A set closed under the texts of a larger cache is closed under the smaller.
LEMMA ClosedShrinks ==
  ASSUME TypeOK, Grows, NEW a \in Axes, NEW S \in SUBSET Fns, Closed(a, sources', S)
  PROVE  Closed(a, sources, S)
<1>1. \A fn \in Fns : Parsed(sources[FileOf[fn]]) => sources'[FileOf[fn]] = sources[FileOf[fn]]
  BY FileOfType DEF Grows, Parsed
<1> QED BY <1>1 DEF Closed

\* What a rule takes to sink in the index does lead to a sink, if the flags of
\* the index do.
LEMMA SinksLead ==
  ASSUME NEW a \in Axes, NEW S \in SUBSET Fns, ixReach[a] \subseteq S,
         NEW f, NEW flow, Sinks(a, f, flow)
  PROVE  Leads(a, flow, S)
  BY DEF Sinks, Leads, Resolves

\* FlagsJustified for one closed set of functions.
Justified(a, S) ==
  /\ ixReach[a] \subseteq S /\ nxReach[a] \subseteq S
  /\ \A fa \in findings : fa[2] = a => Leads(a, sources[FileOf[fa[1]]].req[fa[1]], S)

\* The rules run, and report, only once extraction is over.
NothingYet == phase \in {"collect", "extract"} => findings = {}

LEMMA JustifiedStep ==
  ASSUME TypeOK, [Next]_vars, NothingYet, NEW a \in Axes, NEW S \in SUBSET Fns,
         Justified(a, S), Closed(a, sources', S)
  PROVE  Justified(a, S)'
<1>1. CASE UNCHANGED <<ixReach, nxReach, findings, sources>>
  BY <1>1 DEF Justified
<1>2. CASE EndRound
  BY <1>2 DEF EndRound, Justified
<1>3. CASE Filter
  BY <1>3 DEF Filter, Justified, index, next
<1>4. ASSUME NEW f \in Files, ExtractFile(f) PROVE Justified(a, S)'
  <2> DEFINE text == TextToExtract(f)
  <2>1. sources'[f] = text /\ findings = {} /\ findings' = {} /\ ixReach' = ixReach
    BY <1>4 DEF ExtractFile, TypeOK, NothingYet, index
  <2>2. CASE ~Parsed(text)
    BY <1>4, <2>1, <2>2 DEF ExtractFile, Justified, next
  <2>3. CASE Parsed(text)
    <3>1. nxReach'[a] = nxReach[a] \cup {fn \in FnsOf(f) : ReachesSink(a, fn, text)}
      BY <1>4, <2>3 DEF ExtractFile
    <3>2. ASSUME NEW fn \in FnsOf(f), ReachesSink(a, fn, text) PROVE fn \in S
      <4>1. fn \in Fns /\ FileOf[fn] = f
        BY DEF FnsOf
      <4>2. PICK flow \in SummaryFlows(a, fn, text) : Sinks(a, f, flow)
        BY <3>2, <4>1 DEF ReachesSink
      <4>3. Leads(a, flow, S)
        BY <4>2, SinksLead DEF Justified
      <4>4. Callable(a, fn)
        BY <3>2 DEF ReachesSink
      <4> QED BY <2>1, <2>3, <4>1, <4>2, <4>3, <4>4 DEF Closed
    <3> QED BY <2>1, <3>1, <3>2 DEF Justified
  <2> QED BY <2>2, <2>3
<1>5. ASSUME NEW f \in Files, RunFile(f) PROVE Justified(a, S)'
  <2>1. UNCHANGED <<ixReach, nxReach, sources>>
    BY <1>5 DEF RunFile, index, next
  <2>2. ASSUME NEW fa \in FindingsIn(f), fa[2] = a
        PROVE  Leads(a, sources[FileOf[fa[1]]].req[fa[1]], S)
    <3>1. FileOf[fa[1]] = f /\ Sinks(a, f, sources[f].req[fa[1]])
      BY <2>2 DEF FindingsIn, FnsOf
    <3> QED BY <3>1, SinksLead DEF Justified
  <2> QED BY <1>5, <2>1, <2>2 DEF RunFile, Justified
<1> QED
  BY <1>1, <1>2, <1>3, <1>4, <1>5
  DEF Next, vars, index, next, Collect, Returned, EditDisk

\* Nothing is reported before the rules run.
LEMMA NothingYetHolds == Spec => []NothingYet
<1>1. Init => NothingYet
  BY DEF Init, NothingYet
<1>2. TypeOK /\ NothingYet /\ [Next]_vars => NothingYet'
  BY DEF NothingYet, Next, vars, Collect, EndRound, Filter, Returned, EditDisk,
         ExtractFile, RunFile, TypeOK
<1> QED BY <1>1, <1>2, TypeCorrect, PTL DEF Spec

(***************************************************************************)
(* No flag of the index and no finding without a flow of the cached texts, *)
(* in every state of every scan.  The inductive step fixes one closed set  *)
(* of functions: it contains what the index flags, so it contains what one *)
(* more extraction against that index flags; and a set closed under the    *)
(* cache was closed under every smaller cache before it.                   *)
(***************************************************************************)
THEOREM FlagsAreJustified == Spec => []FlagsJustified
<1>1. Init => FlagsJustified
  BY DEF Init, FlagsJustified
<1>2. TypeOK /\ NothingYet /\ FlagsJustified /\ [Next]_vars => FlagsJustified'
  <2> SUFFICES ASSUME TypeOK, NothingYet, FlagsJustified, [Next]_vars PROVE FlagsJustified'
    OBVIOUS
  <2>1. ASSUME NEW a \in Axes, NEW S \in SUBSET Fns, Closed(a, sources', S)
        PROVE  Justified(a, S)'
    <3>1. Closed(a, sources, S)
      BY <2>1, CacheGrows, ClosedShrinks
    <3>2. Justified(a, S)
      BY <3>1 DEF FlagsJustified, Justified
    <3> QED BY <2>1, <3>2, JustifiedStep
  <2> QED BY <2>1 DEF FlagsJustified, Justified
<1> QED BY <1>1, <1>2, TypeCorrect, NothingYetHolds, PTL DEF Spec

-----------------------------------------------------------------------------
\* CountedWitness.

\* What one more extraction against the index would flag on axis a.
Extracted(a) ==
  {fn \in Fns : FileOf[fn] \in nxFiles /\ ReachesSink(a, fn, sources[FileOf[fn]])}

\* The summaries collected so far are those of the files already processed,
\* each computed from the cached text and the index.
NextExact ==
  phase = "extract" =>
    /\ nxFiles = {f \in targets \ pending : Parsed(sources[f])}
    /\ \A a \in Axes : nxReach[a] = Extracted(a)
NothingIndexed ==
  phase = "collect" => ixFiles = {} /\ nxFiles = {} /\ nxReach = [a \in Axes |-> {}]

\* The index summarises cached texts, and on a tracked axis extraction against
\* it gives at least the flags it has: it is a post-fixed point.
IndexCached == ixFiles \subseteq {f \in targets : Parsed(sources[f])}
PostFixed ==
  \A a \in Axes : Tracked(a, sources) =>
    \A fn \in ixReach[a] :
      FileOf[fn] \in ixFiles /\ ReachesSink(a, fn, sources[FileOf[fn]])

\* The previous signal is the one of the index.
SignalOfIndex ==
  prevSignal # NoSignal =>
    \A a \in Counted : prevSignal.sinks[a] = Cardinality(ixReach[a] \ Methods)

StillLooping == phase \in {"collect", "extract"} => ~converged

WitnessInv ==
  /\ NextExact /\ NothingIndexed /\ IndexCached /\ PostFixed /\ SignalOfIndex /\ StillLooping
  /\ CountedWitness

\* The texts an index summarises do not change any more, and an axis tracked
\* on a larger cache is tracked on the smaller.
LEMMA TrackedShrinks ==
  ASSUME TypeOK, Grows, NEW a \in Axes, Tracked(a, sources') PROVE Tracked(a, sources)
<1>1. \A fn \in Fns : Parsed(sources[FileOf[fn]]) => sources'[FileOf[fn]] = sources[FileOf[fn]]
  BY FileOfType DEF Grows, Parsed
<1> QED BY <1>1 DEF Tracked, Plain

\* A text keeps the flows it has: for a rule other than the flagship's a class
\* method is never a callee, for the flagship's a plain text calls none.
LEMMA PlainTexts ==
  ASSUME NEW a \in Axes, Tracked(a, sources), NEW fn \in Fns, Parsed(sources[FileOf[fn]]),
         NEW flow \in SummaryFlows(a, fn, sources[FileOf[fn]])
  PROVE  a = DB => PlainFlow(flow)
  BY DEF Tracked, Plain, SummaryFlows

\* More flags in the index, more flows seen to sink.
LEMMA SinksGrow ==
  ASSUME NEW a \in Axes, NEW f, NEW flow, a = DB => PlainFlow(flow),
         ixFiles \subseteq ixFiles', ixReach[a] \subseteq ixReach'[a], Sinks(a, f, flow)
  PROVE  Sinks(a, f, flow)'
  BY DEF Sinks, Resolves, CarriesTaint, PlainFlow

\* Flags that differ on class methods only make no difference to a plain text.
LEMMA SinksSame ==
  ASSUME NEW a \in Axes, NEW f, NEW flow, a = DB => PlainFlow(flow), ixFiles = ixFiles',
         ixReach[a] \ Methods = ixReach'[a] \ Methods
  PROVE  Sinks(a, f, flow) <=> Sinks(a, f, flow)'
<1>1. CASE a = DB
  BY <1>1 DEF Sinks, Resolves, Callable, PlainFlow
<1>2. CASE a # DB
  BY <1>2 DEF Sinks, Resolves, Callable, CarriesTaint
<1> QED BY <1>1, <1>2

\* The end of a round, on a tracked axis: no flag of the index is lost, and the
\* new index is again a post-fixed point.
LEMMA RoundGrows ==
  ASSUME TypeOK, WitnessInv, EndRound, NEW a \in Axes, Tracked(a, sources)
  PROVE  /\ ixFiles \subseteq ixFiles' /\ ixReach[a] \subseteq ixReach'[a]
         /\ ixReach'[a] = Extracted(a)
         /\ \A fn \in ixReach'[a] :
              FileOf[fn] \in ixFiles' /\ ReachesSink(a, fn, sources[FileOf[fn]])'
<1>1. nxFiles = {f \in targets : Parsed(sources[f])} /\ nxReach[a] = Extracted(a)
  BY DEF WitnessInv, NextExact, EndRound
<1>2. ixFiles' = nxFiles /\ ixReach' = nxReach /\ sources' = sources
  BY DEF EndRound
<1>3. ixFiles \subseteq ixFiles'
  BY <1>1, <1>2 DEF WitnessInv, IndexCached
<1>4. ixReach[a] \subseteq ixReach'[a]
  BY <1>1, <1>2, <1>3 DEF WitnessInv, PostFixed, Extracted, TypeOK
<1>5. ASSUME NEW fn \in ixReach'[a]
      PROVE  FileOf[fn] \in ixFiles' /\ ReachesSink(a, fn, sources[FileOf[fn]])'
  <2> DEFINE text == sources[FileOf[fn]]
  <2>1. fn \in Fns /\ FileOf[fn] \in nxFiles /\ ReachesSink(a, fn, text)
    BY <1>1, <1>2, <1>5 DEF Extracted
  <2>2. Parsed(text)
    BY <1>1, <2>1
  <2>3. PICK flow \in SummaryFlows(a, fn, text) : Sinks(a, FileOf[fn], flow)
    BY <2>1 DEF ReachesSink
  <2>4. a = DB => PlainFlow(flow)
    BY <2>1, <2>2, PlainTexts
  <2>5. Sinks(a, FileOf[fn], flow)'
    BY <1>3, <1>4, <2>3, <2>4, SinksGrow
  <2> QED BY <1>2, <2>1, <2>5 DEF ReachesSink
<1> QED BY <1>1, <1>2, <1>3, <1>4, <1>5

\* The end of a round whose signal repeats: the new index is a fixed point.
LEMMA RepeatedSignal ==
  ASSUME TypeOK, WitnessInv, EndRound, converged', steady',
         NEW a \in Axes, Tracked(a, sources)
  PROVE  Fixed(a)'
<1>1. ixFiles' = ixFiles /\ ixReach' = nxReach /\ sources' = sources
  BY DEF EndRound
<1>2. prevSignal = Signal /\ prevSignal # NoSignal
  BY SignalTyped, ScanAssumption DEF EndRound
<1>3. Cardinality(ixReach[a] \ Methods) = Cardinality(ixReach'[a] \ Methods)
  BY <1>1, <1>2 DEF WitnessInv, SignalOfIndex, Signal, Tracked
<1>4. ixReach[a] \ Methods = ixReach'[a] \ Methods
  <2>1. ixReach[a] \ Methods \in SUBSET (ixReach'[a] \ Methods)
    BY RoundGrows
  <2>2. IsFiniteSet(ixReach'[a] \ Methods)
    <3>1. ixReach'[a] \ Methods \in SUBSET Fns
      BY <1>1 DEF TypeOK
    <3> QED BY <3>1, TextsAssumption, FS_Subset
  <2> QED BY <1>3, <2>1, <2>2, FS_Subset
<1>5. ASSUME NEW fn \in Fns \ Methods, FileOf[fn] \in ixFiles'
      PROVE  fn \in ixReach'[a] <=> ReachesSink(a, fn, sources[FileOf[fn]])'
  <2> DEFINE text == sources[FileOf[fn]]
  <2>1. FileOf[fn] \in nxFiles /\ Parsed(text)
    BY <1>5 DEF EndRound, WitnessInv, NextExact
  <2>2. fn \in ixReach'[a] <=> ReachesSink(a, fn, text)
    BY <2>1, RoundGrows DEF Extracted
  <2>3. ASSUME NEW flow \in SummaryFlows(a, fn, text)
        PROVE  Sinks(a, FileOf[fn], flow) <=> Sinks(a, FileOf[fn], flow)'
    <3>1. a = DB => PlainFlow(flow)
      BY <2>1, PlainTexts
    <3> QED BY <1>1, <1>4, <3>1, SinksSame
  <2> QED BY <1>1, <2>2, <2>3 DEF ReachesSink
<1> QED BY <1>5 DEF Fixed

\* Extracting one file: what it adds to the round is what its text gives.
LEMMA ExtractExact ==
  ASSUME TypeOK, WitnessInv, NEW f \in Files, ExtractFile(f)
  PROVE  NextExact'
<1> DEFINE text == TextToExtract(f)
<1>1. /\ f \in pending /\ pending' = pending \ {f} /\ targets' = targets
      /\ sources' = [sources EXCEPT ![f] = text] /\ f \in targets
      /\ ixFiles' = ixFiles /\ ixReach' = ixReach /\ ixProp' = ixProp
  BY DEF ExtractFile, TypeOK, index
<1>2. nxFiles = {g \in targets \ pending : Parsed(sources[g])}
  BY DEF ExtractFile, WitnessInv, NextExact
<1>3. f \notin nxFiles /\ \A g \in Files : g # f => sources'[g] = sources[g]
  BY <1>1, <1>2 DEF TypeOK
<1>4. sources'[f] = text
  BY <1>1 DEF TypeOK
<1>5. nxFiles' = {g \in targets' \ pending' : Parsed(sources'[g])}
  <2>1. CASE Parsed(text)
    BY <1>1, <1>2, <1>3, <1>4, <2>1 DEF ExtractFile, TypeOK
  <2>2. CASE ~Parsed(text)
    BY <1>1, <1>2, <1>3, <1>4, <2>2 DEF ExtractFile, TypeOK, next
  <2> QED BY <2>1, <2>2
<1>6. ASSUME NEW a \in Axes PROVE nxReach'[a] = Extracted(a)'
  <2>1. nxReach[a] = Extracted(a)
    BY DEF ExtractFile, WitnessInv, NextExact
  <2>2. \A fn \in Fns : \A t : ReachesSink(a, fn, t)' <=> ReachesSink(a, fn, t)
    BY <1>1 DEF ReachesSink, Sinks, Resolves, CarriesTaint, Propagates
  <2>3. CASE Parsed(text)
    <3>1. /\ nxReach'[a] = nxReach[a] \cup {fn \in FnsOf(f) : ReachesSink(a, fn, text)}
          /\ nxFiles' = nxFiles \cup {f}
      BY <2>3 DEF ExtractFile
    <3>2. Extracted(a)' = {fn \in Fns : /\ FileOf[fn] \in nxFiles \cup {f}
                                       /\ ReachesSink(a, fn, sources'[FileOf[fn]])}
      BY <2>2, <3>1 DEF Extracted
    <3> QED BY <1>3, <1>4, <2>1, <3>1, <3>2, FileOfType DEF Extracted, FnsOf
  <2>4. CASE ~Parsed(text)
    <3>1. nxReach' = nxReach /\ nxFiles' = nxFiles
      BY <2>4 DEF ExtractFile, next
    <3>2. Extracted(a)' = {fn \in Fns : /\ FileOf[fn] \in nxFiles
                                       /\ ReachesSink(a, fn, sources'[FileOf[fn]])}
      BY <2>2, <3>1 DEF Extracted
    <3> QED BY <1>3, <2>1, <3>1, <3>2, FileOfType DEF Extracted
  <2> QED BY <2>3, <2>4
<1> QED BY <1>5, <1>6 DEF NextExact

LEMMA ExtractKeepsWitness ==
  ASSUME TypeOK, WitnessInv, NEW f \in Files, ExtractFile(f)
  PROVE  WitnessInv'
<1>1. /\ phase = "extract" /\ phase' = "extract" /\ targets' = targets
      /\ ixFiles' = ixFiles /\ ixReach' = ixReach /\ ixProp' = ixProp
      /\ prevSignal' = prevSignal /\ converged' = converged
  BY DEF ExtractFile, index
<1>2. Grows
  BY CacheGrows DEF Next
<1>3. \A g \in ixFiles : sources'[g] = sources[g]
  BY <1>2 DEF WitnessInv, IndexCached, Grows, Parsed, TypeOK
<1>4. IndexCached'
  BY <1>1, <1>3 DEF WitnessInv, IndexCached
<1>5. PostFixed'
  <2>1. \A a \in Axes, fn \in Fns : \A t : ReachesSink(a, fn, t)' <=> ReachesSink(a, fn, t)
    BY <1>1 DEF ReachesSink, Sinks, Resolves, CarriesTaint, Propagates
  <2>2. ASSUME NEW a \in Axes, Tracked(a, sources'), NEW fn \in ixReach[a]
        PROVE  FileOf[fn] \in ixFiles /\ ReachesSink(a, fn, sources'[FileOf[fn]])
    <3>1. Tracked(a, sources)
      BY <1>2, <2>2, TrackedShrinks
    <3> QED BY <1>3, <2>2, <3>1 DEF WitnessInv, PostFixed
  <2> QED BY <1>1, <2>1, <2>2 DEF PostFixed, TypeOK
<1>6. NothingIndexed' /\ SignalOfIndex' /\ StillLooping' /\ CountedWitness'
  BY <1>1 DEF WitnessInv, NothingIndexed, SignalOfIndex, StillLooping, CountedWitness
<1> QED BY <1>4, <1>5, <1>6, ExtractExact DEF WitnessInv

LEMMA EndRoundKeepsWitness ==
  ASSUME TypeOK, WitnessInv, EndRound
  PROVE  WitnessInv'
<1>1. /\ phase = "extract" /\ targets' = targets /\ sources' = sources
      /\ pending' = targets /\ ixFiles' = nxFiles /\ ixReach' = nxReach
      /\ nxFiles' = {} /\ nxReach' = [a \in Axes |-> {}]
      /\ prevSignal' = Signal /\ phase' \in {"extract", "run"}
      /\ converged' => phase' = "run"
  BY DEF EndRound
<1>2. NextExact' /\ NothingIndexed' /\ StillLooping'
  BY <1>1 DEF NextExact, Extracted, NothingIndexed, StillLooping
<1>3. IndexCached'
  BY <1>1 DEF WitnessInv, NextExact, IndexCached, EndRound
<1>4. PostFixed'
  BY <1>1, RoundGrows DEF PostFixed
<1>5. SignalOfIndex'
  BY <1>1 DEF SignalOfIndex, Signal
<1>6. CountedWitness'
  BY <1>1, RepeatedSignal DEF CountedWitness
<1> QED BY <1>2, <1>3, <1>4, <1>5, <1>6 DEF WitnessInv

\* The strengthened invariant of the extraction loop.
LEMMA WitnessHolds == Spec => []WitnessInv
<1>1. Init => WitnessInv
  BY DEF Init, WitnessInv, NextExact, NothingIndexed, IndexCached, PostFixed,
         SignalOfIndex, StillLooping, CountedWitness
<1>2. TypeOK /\ WitnessInv /\ [Next]_vars => WitnessInv'
  <2> SUFFICES ASSUME TypeOK, WitnessInv, [Next]_vars PROVE WitnessInv'
    OBVIOUS
  <2> USE DEF WitnessInv
  <2>1. CASE Collect
    BY <2>1 DEF Collect, index, next, NextExact, Extracted, NothingIndexed, IndexCached,
       PostFixed, SignalOfIndex, StillLooping, CountedWitness, TypeOK
  <2>2. CASE EndRound
    BY <2>2, EndRoundKeepsWitness
  <2>3. ASSUME NEW f \in Files, ExtractFile(f) PROVE WitnessInv'
    BY <2>3, ExtractKeepsWitness
  <2>4. ASSUME UNCHANGED <<targets, sources, ixFiles, ixReach, ixProp, nxFiles, nxReach, nxProp>>,
               UNCHANGED <<prevSignal, converged, steady>>,
               \/ UNCHANGED <<phase, pending>>
               \/ phase = "run" /\ phase' \in {"run", "done"}
        PROVE  WitnessInv'
    <3>1. \A a \in Axes, fn \in Fns : \A t : ReachesSink(a, fn, t)' <=> ReachesSink(a, fn, t)
      BY <2>4 DEF ReachesSink, Sinks, Resolves, CarriesTaint, Propagates
    <3> QED BY <2>4, <3>1 DEF NextExact, Extracted, NothingIndexed, IndexCached,
       PostFixed, SignalOfIndex, StillLooping, CountedWitness, Fixed, TypeOK
  <2>5. CASE Filter
    BY <2>4, <2>5 DEF Filter, index, next
  <2>6. ASSUME NEW f \in Files, RunFile(f) PROVE WitnessInv'
    BY <2>4, <2>6 DEF RunFile, index, next
  <2>7. CASE UNCHANGED vars
    BY <2>4, <2>7 DEF vars, index, next
  <2>8. ASSUME NEW f \in Files, EditDisk(f) PROVE WitnessInv'
    BY <2>4, <2>8 DEF EditDisk, index, next
  <2> QED BY <2>1, <2>2, <2>3, <2>5, <2>6, <2>7, <2>8 DEF Next, Returned
<1> QED BY <1>1, <1>2, TypeCorrect, PTL DEF Spec

(***************************************************************************)
(* Equality of two consecutive signals is a fixed-point witness on every   *)
(* tracked axis: when the loop has converged and its last two rounds       *)
(* summarised the same files, extracting any function of the index once    *)
(* more gives the flag it has.  The flags of a tracked axis never fall     *)
(* from one round to the next, because the index is a post-fixed point of  *)
(* extraction; so equal counts mean equal sets, and what a set of flags    *)
(* does to a plain text does not depend on the methods left uncounted.     *)
(***************************************************************************)
THEOREM CountsWitnessFixedPoint == Spec => []CountedWitness
<1>1. WitnessInv => CountedWitness
  BY DEF WitnessInv
<1> QED BY <1>1, WitnessHolds, PTL

-----------------------------------------------------------------------------
\* ImplementsContract.

\* The contract's vocabulary is the driver's.
LEMMA SameWords ==
  ASSUME NEW a, NEW fn, NEW src
  PROVE  /\ Contract!Vulnerable(a, fn, src) <=> Vulnerable(a, fn, src)
         /\ Contract!Excused(a, fn, src) <=> Excused(a, fn, src)
         /\ Contract!Tracked(a, src) <=> Tracked(a, src)
BY DEF Contract!Vulnerable, Vulnerable, Contract!Excused, Excused, Contract!Tracked, Tracked,
       Contract!Plain, Plain, Contract!PlainFlow, PlainFlow, Contract!Closed, Closed,
       Contract!Leads, Leads, Contract!SummaryFlows, SummaryFlows, Contract!Callable, Callable,
       Contract!Parsed, Parsed

\* What is on disk is a text of its file; only a target's text is ever cached.
DiskTyped == \A f \in Files : disk[f] \in Texts[f] \cup {NoText}
TargetsCached ==
  /\ phase = "collect" => targets = {}
  /\ \A f \in Files : sources[f] # NoText => f \in targets

\* The rules run against the summaries of every target that parses, and what
\* they have reported is what they report in the files they are through with.
Analysed == {f \in targets \ pending : Parsed(sources[f])}
RunExact ==
  phase = "run" =>
    /\ ixFiles = {f \in targets : Parsed(sources[f])}
    /\ \A fa : fa \in findings <=> \E f \in Analysed : fa \in FindingsIn(f)

RunInv == DiskTyped /\ TargetsCached /\ RunExact

LEMMA RunInvHolds == Spec => []RunInv
<1>1. Init => RunInv
  BY DEF Init, RunInv, DiskTyped, TargetsCached, RunExact
<1>2. TypeOK /\ WitnessInv /\ NothingYet /\ RunInv /\ [Next]_vars => RunInv'
  <2> SUFFICES ASSUME TypeOK, WitnessInv, NothingYet, RunInv, [Next]_vars PROVE RunInv'
    OBVIOUS
  <2>1. CASE Collect
    BY <2>1 DEF Collect, RunInv, DiskTyped, TargetsCached, RunExact
  <2>2. CASE EndRound
    <3>1. nxFiles = {f \in targets : Parsed(sources[f])} /\ findings = {}
      BY <2>2 DEF EndRound, WitnessInv, NextExact, NothingYet
    <3> QED BY <2>2, <3>1 DEF EndRound, RunInv, DiskTyped, TargetsCached, RunExact, Analysed
  <2>3. ASSUME UNCHANGED <<targets, sources, phase>>, DiskTyped',
               UNCHANGED <<ixFiles, ixReach, ixProp, pending, findings>>
        PROVE  RunInv'
    <3>1. \A f : FindingsIn(f)' = FindingsIn(f)
      BY <2>3 DEF FindingsIn, Sinks, Resolves, CarriesTaint, Propagates
    <3> QED BY <2>3, <3>1 DEF RunInv, TargetsCached, RunExact, Analysed
  <2>4. CASE UNCHANGED vars
    <3>1. DiskTyped'
      BY <2>4 DEF vars, RunInv, DiskTyped
    <3> QED BY <2>3, <2>4, <3>1 DEF vars, index, next
  <2>5. ASSUME NEW f \in Files, EditDisk(f) PROVE RunInv'
    <3>1. DiskTyped'
      BY <2>5 DEF EditDisk, RunInv, DiskTyped, TypeOK
    <3> QED BY <2>3, <2>5, <3>1 DEF EditDisk, index, next
  <2>6. ASSUME NEW f \in Files, ExtractFile(f) PROVE RunInv'
    BY <2>6 DEF ExtractFile, TypeOK, RunInv, DiskTyped, TargetsCached, RunExact
  <2>7. CASE Filter
    BY <2>7 DEF Filter, RunInv, DiskTyped, TargetsCached, RunExact
  <2>8. ASSUME NEW f \in Files, RunFile(f) PROVE RunInv'
    <3>1. \A g : FindingsIn(g)' = FindingsIn(g)
      BY <2>8 DEF RunFile, FindingsIn, Sinks, Resolves, CarriesTaint, Propagates, index, next
    <3>2. /\ phase = "run" /\ f \in pending /\ pending' = pending \ {f} /\ pending \subseteq targets
          /\ UNCHANGED <<targets, sources, phase, disk, ixFiles>>
      BY <2>8 DEF RunFile, TypeOK, index
    <3>3. \A fa : fa \in findings' <=> fa \in findings \/ (Parsed(sources[f]) /\ fa \in FindingsIn(f))
      BY <2>8 DEF RunFile
    <3>4. \A g : g \in Analysed' <=> g \in Analysed \/ (g = f /\ Parsed(sources[f]))
      BY <3>2 DEF Analysed
    <3> QED BY <3>1, <3>2, <3>3, <3>4 DEF RunInv, DiskTyped, TargetsCached, RunExact
  <2> QED BY <2>1, <2>2, <2>4, <2>5, <2>6, <2>7, <2>8 DEF Next, Returned
<1> QED BY <1>1, <1>2, TypeCorrect, WitnessHolds, NothingYetHolds, PTL DEF Spec

\* What the filter lets through of justified findings is sound.
LEMMA FilteredSound ==
  ASSUME TypeOK, FlagsJustified, RunInv, Filter
  PROVE  Contract!Sound(findings')
<1>1. findings' = {fa \in findings : ~Muted(fa)} /\ phase = "run" /\ pending = {}
  BY DEF Filter
<1> SUFFICES ASSUME NEW fa \in findings, ~Muted(fa)
             PROVE  Vulnerable(fa[2], fa[1], sources) /\ ~Excused(fa[2], fa[1], sources)
  BY <1>1, SameWords DEF Contract!Sound
<1>2. PICK f \in Analysed : fa \in FindingsIn(f)
  BY <1>1 DEF RunInv, RunExact
<1>3. /\ fa[1] \in Fns /\ fa[2] \in Axes /\ FileOf[fa[1]] = f /\ Parsed(sources[f])
      /\ f \in ixFiles
      /\ ~(fa[2] = DB /\ f \in ixFiles /\ fa[1] \in sources[f].wrapped)
  BY <1>1, <1>2 DEF FindingsIn, FnsOf, Analysed, RunInv, RunExact
<1>4. Vulnerable(fa[2], fa[1], sources)
  BY <1>3 DEF Vulnerable, FlagsJustified
<1>5. ~Excused(fa[2], fa[1], sources)
  <2>1. fa = <<fa[1], fa[2]>>
    BY <1>2 DEF FindingsIn
  <2> QED BY <1>3, <2>1 DEF Excused, Muted
<1> QED BY <1>4, <1>5

\* Against an index that is a fixed point on a tracked axis, what leads to a
\* sink through the functions flagged, or any class method, is seen to sink.
LEMMA FixedLeads ==
  ASSUME WitnessInv, RunInv, phase = "run", NEW a \in Axes, Tracked(a, sources),
         NEW fn \in Fns, Parsed(sources[FileOf[fn]]), NEW flow, a = DB => PlainFlow(flow),
         Leads(a, flow, ixReach[a] \cup Methods)
  PROVE  Sinks(a, FileOf[fn], flow)
<1>1. FileOf[fn] \in ixFiles
  BY FileOfType DEF RunInv, RunExact, TargetsCached, Parsed
<1>2. \A g \in ixReach[a] : FileOf[g] \in ixFiles
  BY DEF WitnessInv, PostFixed
<1>3. CASE a = DB
  BY <1>1, <1>2, <1>3 DEF Leads, Sinks, Resolves, PlainFlow
<1>4. CASE a # DB
  BY <1>1, <1>2, <1>4 DEF Leads, Sinks, Resolves, Callable, CarriesTaint
<1> QED BY <1>3, <1>4

\* A converged scan's report misses nothing on a tracked axis.
LEMMA FilteredComplete ==
  ASSUME TypeOK, WitnessInv, RunInv, Filter, converged, steady
  PROVE  Contract!Complete(findings')
<1>1. /\ findings' = {fa \in findings : ~Muted(fa)} /\ phase = "run" /\ pending = {}
  BY DEF Filter
<1> SUFFICES ASSUME NEW fn \in Fns, NEW a \in Axes, Tracked(a, sources),
                    Vulnerable(a, fn, sources), ~Excused(a, fn, sources)
             PROVE  <<fn, a>> \in findings'
  BY SameWords DEF Contract!Complete
<1> DEFINE S == ixReach[a] \cup Methods
<1>2. S \in SUBSET Fns
  BY TextsAssumption DEF TypeOK
<1>3. Closed(a, sources, S)
  <2> SUFFICES ASSUME NEW g \in Fns, Parsed(sources[FileOf[g]]), Callable(a, g), g \notin Methods,
                      NEW flow \in SummaryFlows(a, g, sources[FileOf[g]]), Leads(a, flow, S)
               PROVE  g \in ixReach[a]
    BY DEF Closed
  <2>1. a = DB => PlainFlow(flow)
    BY PlainTexts
  <2>2. Sinks(a, FileOf[g], flow)
    BY <1>1, <2>1, FixedLeads
  <2>3. ReachesSink(a, g, sources[FileOf[g]])
    BY <2>2 DEF ReachesSink
  <2>4. FileOf[g] \in ixFiles
    BY <1>1, FileOfType DEF RunInv, RunExact, TargetsCached, Parsed
  <2> QED BY <2>3, <2>4 DEF WitnessInv, CountedWitness, Fixed
<1> DEFINE f == FileOf[fn]
<1>4. Parsed(sources[f]) /\ Leads(a, sources[f].req[fn], S)
  BY <1>2, <1>3 DEF Vulnerable
<1>5. Sinks(a, f, sources[f].req[fn])
  <2>1. a = DB => PlainFlow(sources[f].req[fn])
    BY <1>4 DEF Tracked, Plain
  <2> QED BY <1>1, <1>4, <2>1, FixedLeads
<1>6. f \in Analysed
  BY <1>1, <1>4, FileOfType DEF Analysed, RunInv, TargetsCached, Parsed
<1>7. <<fn, a>> \in FindingsIn(f) /\ ~Muted(<<fn, a>>)
  BY <1>5 DEF FindingsIn, FnsOf, Excused, Muted
<1> QED BY <1>1, <1>6, <1>7 DEF RunInv, RunExact

(***************************************************************************)
(* The driver implements the contract of module ScanContract: whatever the *)
(* order of the workers, the edits to the disk and the axes, the scan pins *)
(* each file's text at most once, publishes once, and what it publishes is *)
(* sound, and complete on every tracked axis when it says so (no target,   *)
(* or converged over the same files).  Collect and Filter map to Publish,  *)
(* a first successful read to Pin, every other step to a stutter.  Sound   *)
(* comes from FlagsJustified; complete from the witness: what the final    *)
(* index flags, with the class methods, is closed under the cached texts.  *)
(***************************************************************************)
THEOREM DriverImplementsContract == Spec => ImplementsContract
<1> DEFINE Inv == TypeOK /\ WitnessInv /\ NothingYet /\ FlagsJustified /\ RunInv
<1> DEFINE Report == IF phase = "done" THEN findings ELSE {}
<1>1. Init => Contract!Init
  BY DEF Init, Contract!Init, Status
<1>2. Inv /\ [Next]_vars => [Contract!Next]_(Contract!vars)
  <2> SUFFICES ASSUME Inv, [Next]_vars PROVE Contract!Next \/ UNCHANGED Contract!vars
    OBVIOUS
  <2>1. ASSUME UNCHANGED <<sources, phase, targets, converged, steady, findings>>
        PROVE  UNCHANGED Contract!vars
    BY <2>1 DEF Contract!vars, Status
  <2>2. CASE Collect
    <3>1. /\ phase = "collect" /\ findings = {} /\ findings' = {} /\ sources' = sources
          /\ \A f \in Files : sources[f] = NoText
      BY <2>2 DEF Collect, NothingYet, RunInv, TargetsCached
    <3>2. CASE phase' = "done"
      <4>1. targets' = {}
        BY <2>2, <3>2 DEF Collect
      <4>2. Status = "scanning" /\ Status' = "complete" /\ Report' = {}
        BY <3>1, <3>2, <4>1 DEF Status
      <4>3. \A fn \in Fns, a \in Axes : ~Vulnerable(a, fn, sources)
        BY <3>1, FileOfType DEF Vulnerable, Parsed
      <4>4. Contract!Sound({}) /\ Contract!Complete({})
        BY <4>3, SameWords DEF Contract!Sound, Contract!Complete
      <4> QED BY <3>1, <4>2, <4>4 DEF Contract!Next, Contract!Publish
    <3>3. CASE phase' # "done"
      BY <3>1, <3>3 DEF Contract!vars, Status
    <3> QED BY <3>2, <3>3
  <2>3. CASE EndRound
    BY <2>3 DEF EndRound, Contract!vars, Status
  <2>4. ASSUME NEW f \in Files, ExtractFile(f) PROVE Contract!Next \/ UNCHANGED Contract!vars
    <3>1. /\ phase = "extract" /\ UNCHANGED <<phase, targets, converged, steady, findings>>
          /\ sources' = [sources EXCEPT ![f] = TextToExtract(f)]
      BY <2>4 DEF ExtractFile
    <3>2. CASE sources' = sources
      BY <2>1, <3>1, <3>2
    <3>3. CASE sources' # sources
      <4>1. sources[f] = NoText /\ TextToExtract(f) \in Texts[f]
        BY <3>1, <3>3 DEF TextToExtract, TypeOK, RunInv, DiskTyped
      <4>2. UNCHANGED <<Status, Report>> /\ Status = "scanning"
        BY <3>1 DEF Status
      <4>3. Contract!Pin(f)
        BY <3>1, <4>1, <4>2 DEF Contract!Pin
      <4> QED BY <4>3 DEF Contract!Next
    <3> QED BY <3>2, <3>3
  <2>5. CASE Filter
    <3>1. /\ phase = "run" /\ phase' = "done"
          /\ UNCHANGED <<sources, targets, converged, steady>>
      BY <2>5 DEF Filter
    <3>2. Status = "scanning" /\ Status' \in {"complete", "partial"} /\ Report' = findings'
      BY <3>1 DEF Status
    <3>3. Contract!Sound(findings')
      BY <2>5, FilteredSound
    <3>4. ASSUME Status' = "complete" PROVE Contract!Complete(findings')
      <4>1. CASE targets = {}
        <5>1. \A fn \in Fns, a \in Axes : ~Vulnerable(a, fn, sources)
          BY <4>1, FileOfType DEF Vulnerable, Parsed, RunInv, TargetsCached
        <5> QED BY <5>1, SameWords DEF Contract!Complete
      <4>2. CASE converged /\ steady
        BY <2>5, <4>2, FilteredComplete
      <4> QED BY <3>1, <3>4, <4>1, <4>2 DEF Status
    <3> QED BY <3>1, <3>2, <3>3, <3>4 DEF Contract!Next, Contract!Publish
  <2>6. ASSUME NEW f \in Files, RunFile(f) PROVE UNCHANGED Contract!vars
    BY <2>6 DEF RunFile, Contract!vars, Status
  <2>7. ASSUME NEW f \in Files, EditDisk(f) PROVE UNCHANGED Contract!vars
    BY <2>1, <2>7 DEF EditDisk
  <2>8. CASE UNCHANGED vars
    BY <2>1, <2>8 DEF vars
  <2> QED BY <2>2, <2>3, <2>4, <2>5, <2>6, <2>7, <2>8 DEF Next, Returned
<1> QED
  BY <1>1, <1>2, TypeCorrect, WitnessHolds, NothingYetHolds, FlagsAreJustified, RunInvHolds, PTL
  DEF Spec, ImplementsContract, Contract!Spec

-----------------------------------------------------------------------------
\* ShallowFlowsReported.

\* Functions the index must flag on axis a: those that meet a sink themselves,
\* and, once the same files were summarised twice, those that call one of them.
Helper(a) == {g \in Fns : Visible(a, g) /\ a \in sources[FileOf[g]].param[g].sinks}
Relay(a) == {g \in Fns : Visible(a, g) /\ sources[FileOf[g]].param[g].calls \cap Helper(a) # {}}
ShallowFlagged ==
  \A a \in Axes : Helper(a) \subseteq ixReach[a] /\ (steady => Relay(a) \subseteq ixReach[a])

\* Extraction against an index that flags the helpers flags the relays.
LEMMA ShallowRound ==
  ASSUME TypeOK, WitnessInv, ShallowFlagged, EndRound
  PROVE  ShallowFlagged'
<1>1. /\ ixFiles' = nxFiles /\ ixReach' = nxReach /\ sources' = sources
      /\ steady' = (nxFiles = ixFiles) /\ \A a \in Axes : nxReach[a] = Extracted(a)
  BY DEF EndRound, WitnessInv, NextExact
<1> SUFFICES ASSUME NEW a \in Axes, NEW g \in Fns, FileOf[g] \in nxFiles, Callable(a, g),
                    LET flow == sources[FileOf[g]].param[g] IN
                      a \in flow.sinks \/ (steady' /\ flow.calls \cap Helper(a)' # {})
             PROVE  ReachesSink(a, g, sources[FileOf[g]])
  BY <1>1 DEF ShallowFlagged, Helper, Relay, Visible, Extracted
<1> DEFINE flow == sources[FileOf[g]].param[g]
<1>2. Sinks(a, FileOf[g], flow)
  <2>1. CASE a \in flow.sinks
    BY <2>1 DEF Sinks
  <2>2. ASSUME steady', NEW h \in flow.calls \cap Helper(a)' PROVE Sinks(a, FileOf[g], flow)
    <3>1. h \in Helper(a) /\ Helper(a) \subseteq ixReach[a]
      BY <1>1, <2>2 DEF Helper, Visible, ShallowFlagged
    <3> QED BY <1>1, <2>2, <3>1 DEF Sinks, Resolves, Helper, Visible
  <2> QED BY <2>1, <2>2
<1>3. flow \in SummaryFlows(a, g, sources[FileOf[g]])
  BY DEF SummaryFlows
<1> QED BY <1>2, <1>3 DEF ReachesSink

LEMMA ShallowFlaggedHolds == Spec => []ShallowFlagged
<1>1. Init => ShallowFlagged
  BY DEF Init, ShallowFlagged, Helper, Relay, Visible
<1>2. TypeOK /\ WitnessInv /\ ShallowFlagged /\ [Next]_vars => ShallowFlagged'
  <2> SUFFICES ASSUME TypeOK, WitnessInv, ShallowFlagged, [Next]_vars PROVE ShallowFlagged'
    OBVIOUS
  <2>1. CASE EndRound
    BY <2>1, ShallowRound
  <2>2. ASSUME UNCHANGED <<ixFiles, ixReach, steady>> PROVE ShallowFlagged'
    <3>1. \A f \in ixFiles : sources'[f] = sources[f]
      BY CacheGrows DEF WitnessInv, IndexCached, Grows, Parsed, TypeOK
    <3> QED BY <2>2, <3>1 DEF ShallowFlagged, Helper, Relay, Visible
  <2> QED
    BY <2>1, <2>2 DEF Next, vars, index, next, Collect, Filter, Returned, EditDisk, ExtractFile, RunFile
<1> QED BY <1>1, <1>2, TypeCorrect, WitnessHolds, PTL DEF Spec

(***************************************************************************)
(* On every axis, counted by the signal or not, a flow through at most two *)
(* helpers is reported by a scan whose last two rounds summarised the same *)
(* files: the first round flags the functions that meet a sink themselves, *)
(* the next one those that call them, and the loop of scan_with_options    *)
(* has no exit before its second round.                                    *)
(***************************************************************************)
THEOREM ShallowFlowsAreReported == Spec => []ShallowFlowsReported
<1>1. Init => ShallowFlowsReported
  BY DEF Init, ShallowFlowsReported
<1> DEFINE Inv == TypeOK /\ RunInv /\ WitnessInv /\ ShallowFlagged
<1>2. Inv /\ ShallowFlowsReported /\ [Next]_vars => ShallowFlowsReported'
  <2> SUFFICES ASSUME Inv, ShallowFlowsReported, [Next]_vars PROVE ShallowFlowsReported'
    OBVIOUS
  <2>1. CASE Filter
    <3>1. /\ findings' = {fa \in findings : ~Muted(fa)} /\ phase = "run" /\ pending = {}
          /\ UNCHANGED <<sources, ixFiles, ixReach, steady>>
      BY <2>1 DEF Filter, index
    <3> SUFFICES ASSUME steady, NEW a \in Axes, NEW fn \in Fns, FileOf[fn] \in ixFiles,
                        ~Excused(a, fn, sources),
                        LET req == sources[FileOf[fn]].req[fn] IN
                          a \in req.sinks \/ req.calls \cap (Helper(a) \cup Relay(a)) # {}
                 PROVE  <<fn, a>> \in findings'
      BY <3>1 DEF ShallowFlowsReported, Helper, Relay, Visible
    <3> DEFINE f == FileOf[fn]
               req == sources[f].req[fn]
    <3>2. Sinks(a, f, req)
      BY DEF Sinks, Resolves, ShallowFlagged, Helper, Relay, Visible
    <3>3. f \in Analysed
      BY <3>1 DEF RunInv, RunExact, Analysed
    <3>4. <<fn, a>> \in FindingsIn(f) /\ ~Muted(<<fn, a>>)
      BY <3>2 DEF FindingsIn, FnsOf, Excused, Muted
    <3> QED BY <3>1, <3>3, <3>4 DEF RunInv, RunExact
  <2>2. CASE Collect
    BY <2>2 DEF Collect, ShallowFlowsReported, WitnessInv, NothingIndexed, index
  <2>3. CASE phase # "done" /\ phase' # "done"
    BY <2>3 DEF ShallowFlowsReported
  <2>4. ASSUME UNCHANGED <<sources, phase, ixFiles, ixReach, steady, findings>>
        PROVE  ShallowFlowsReported'
    BY <2>4 DEF ShallowFlowsReported, Excused, Visible
  <2> QED BY <2>1, <2>2, <2>3, <2>4 DEF Next, vars, index, next, EndRound, Returned, EditDisk, ExtractFile, RunFile
<1> QED
  BY <1>1, <1>2, TypeCorrect, WitnessHolds, RunInvHolds, ShallowFlaggedHolds, PTL DEF Spec
=============================================================================
