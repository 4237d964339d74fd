# Stryx in TLA+

Stryx is a static analyser for TypeScript and JavaScript back ends. It follows
request data from where it enters a handler to the sinks it may reach and
reports the flows that no validation interrupts. This directory holds TLA+
models of its core, the TLC configurations that check them and the TLAPS proofs
about them. Paths below are relative to `crates/`.

## The system

| Component | Source | State it keeps | Operations | Hard part |
|---|---|---|---|---|
| scan driver | `stryx_cli/src/lib.rs` | text cache, project index, last convergence signal, findings | collect, extract a file, end a round, run a file, filter | rayon workers in any order, files changing on disk, a loop that stops on a heuristic witness or a cap |
| taint lattice | `stryx_taint/src/lib.rs` | none: values `Cell`/`Shape`/`Xtaint` | merge, project, mark clean, canonicalize, instantiate, count leaves | a partial order walked by hand-written recursion; counts serve as convergence witness |
| flagship rule | `stryx_rules/src/flows/unvalidated_body_to_db.rs` | scope stack, validator table, findings, accumulated shapes | one handler per statement kind, branch snapshots, sinks, summaries | joins, guards, early returns, per-field sanitising |
| reachability rules | `flows/sql_injection.rs`, `ssrf_via_fetch.rs`, `redirect_open.rs`, `command_injection_via_exec.rs` | scopes of names, URL lineage, safe hosts | the same with plain names; summaries by simulation | cross-file flags and tiers, callbacks, guards |
| single-file rules | `flows/xss_...`, `path_traversal`, `eval_injection`, `prompt_injection`, `nosql_injection`, `insecure_deserialize`, `secret_to_response`, `auth_bypass_via_wrapper`, `generic/hardcoded_secret` | the same | the same without summaries | visitors copied from one another |
| project index | `stryx_index/src/lib.rs` | file summaries, resolved imports | insert/merge, finalize, resolve | barrel files, cycles, hop cap |
| suppression | `stryx_cli/src/suppress.rs` | markers per file | parse, suppress | which line a marker covers |
| routing and exit code | `stryx_cli/src/main.rs`, `config.rs` | surfaces configuration | filter per surface, threshold, exit code | several consumers of one list of findings |
| diff filter | `stryx_cli/src/lib.rs:221-290` | none: asks git twice | the files `--diff` leaves | commit, index and work tree may all differ |
| reporter | `stryx_reporter/src/lib.rs` | none | count, score, group | caps and tiers |
| adapters and matchers | `stryx_rules/src/adapters.rs`, `registry.rs`, `steps/` | none | stateless pattern tables | a fallback next to an inline table, enablement by profile |
| project profile | `stryx_index/src/profile/` | the merged package | read, expand workspaces, merge, detect | directories and maps in any order |
| parser bridge, core types, cache, LLM client, node binding | other crates | none or unused | thin wrappers | see "What is not modelled" |

The driver calls every rule twice per file: `extract` (with the previous round's
index) once per round, and `run` (with the last index) once. A rule's `extract`
simulates each function with one parameter tainted and stores what it saw as a
summary; another file's call finds the summary through the import map of the
index. So the rules are mutually recursive through the index, and the driver's
loop is a fixed-point iteration whose termination test is the convergence
signal. What correctness means, component by component:

- **driver**: no order of workers and no edit to a file changes what the texts it
  read say; no finding without a flow; a converged index really is a fixed point;
  a converged scan misses nothing; the scan ends;
- **lattice and flagship rule**: at every statement the walk reads tainted
  whatever request data a run of the function can hold there, every write of
  such data is both reported and recorded in the summary, and the several walks
  of one expression agree with each other;
- **index**: no rule's flag is lost in merging, an import never resolves to a
  function other than the one it means, and does resolve where it can;
- **reachability and single-file rules**: data that gets to a sink is reported,
  what did not get there is not, and the tier is that of the worst argument;
- **profile, adapters**: two scans of one tree detect one stack, a workspace only
  adds to it, and no adapter changes what the inline recognisers decide;
- **suppression, routing, report**: a muted finding disappears and no other one
  does, a gate fails the build whatever is printed, the report accounts for every
  finding routed to it, more findings never score better;
- **diff filter**: what has been committed since the base is scanned.

## The modules

    SourceTexts          vocabulary: files, functions, flows; the ground truth
      ScanContract       what a scan promises (abstract specification)
      ScanPipeline       the driver; Contract == INSTANCE ScanContract
        MCScan           projects for TLC          ScanPipelineProofs   theorems
    TaintCells           cells and their operations
      TaintCellsProofs   theorems about the operations
      FlowVisitor        the flagship rule's statement walk, beside a run
        MCFlow           helpers for TLC           FlowVisitorProofs    theorems
    FlowHandlers         its handlers, inner functions and callbacks, beside a run
      MCHandlers         exports and forms for TLC
      FlowHandlersProofs theorems
    IndexResolve         merging, finalize, resolution
      MCIndex            projects for TLC          IndexResolveProofs   theorems
    ReachRules           eleven rules as records, and their one visitor
      ReachScan          rounds and walk of one rule, beside a run
        MCReach          a project and forms for TLC
        ReachScanProofs  theorems
    ProjectProfile       stack detection
    StepRecognisers      what is a source, a sink, a sanitiser
      StackAdapters      the adapters' patterns and their enablement
        StackScan        composes detection, adapters and recognisers
          MCProfile      workspaces and expressions for TLC
          StackScanProofs  theorems about the two
    CliSurface           markers, routing, score, groups
      CliSession         a developer, git and runs of stryx
        MCCli            texts and configurations for TLC
                                                   CliSessionProofs     theorems

The parts meet at a few narrow places. FlowVisitor computes one function's
summary from its callees' (`Summary`); ScanPipeline iterates that computation
over a project, with summaries reduced to their flags; IndexResolve is how a
call finds the summary it uses; ReachScan has both for the smaller rules, one
round being one step; StackScan says which recognisers a rule asks; CliSession
takes the findings of a text as given and models everything after them.
Composing them in one state space would multiply independent spaces and relate
nothing new: the driver passes a rule nothing but the previous round's index,
and passes on nothing but a list of findings.

### SourceTexts, ScanContract, ScanPipeline

A *text* is what a rule can see in a source file, as flows of whole values: for
each function what happens to its parameter, and to a request body it reads
(sinks met, functions called, nested calls `h(g(x))`, returned or not). The
ground truth is a closure: a set of functions is `Closed` if every function
whose parameter leads to a sink or into the set is in it, and a handler is
`Vulnerable` if its request data leads to a sink or into the least such set.

| State | Code (`stryx_cli/src/lib.rs`) |
|---|---|
| `disk`, `edits` | the file system, changed by `EditDisk` |
| `targets`, `pending` | the files of the scan, those the current `par_iter` has left |
| `sources` | the `DashMap` of texts |
| `ixFiles`, `ixReach`, `ixProp` | `project_index`, reduced to its flags |
| `nxFiles`, `nxReach`, `nxProp` | the summaries this round's workers have added |
| `prevSignal`, `round` | `prev_signal` and the loop's counter |
| `converged`, `steady` | history: why the loop ended; whether the last two rounds summarised the same files |

| Action | Code |
|---|---|
| `Collect` | `collect_targets`, `apply_diff_filter`, the early return on no target |
| `ExtractFile(f)` | `extract_file` on one worker, with every rule's `extract` |
| `EndRound` | index replaced, `convergence_signal` compared, cap |
| `RunFile(f)` | `run_file` on one worker, with every rule's `run` |
| `Filter` | `filter_suppressed` |
| `EditDisk(f)` | the environment: a save, a file that becomes (un)readable |

`ScanContract` is the promise: pin one text per file, then publish once a report
about exactly those texts, in which every finding is a real flow and which, if
it is called complete, misses none on a tracked axis. The refinement mapping
reads `pinned` off the text cache, `status` off `phase` and the history
variables, and `report` off the findings of a finished scan. A scan that hit the
cap, or whose last two rounds summarised different files, is *partial*.

*Tracked* axes are those `ConvergenceSignal` counts; the flagship rule's own only
for texts in which no value passes through a call on its way to a sink and none
goes to a class method. Both exclusions are the code's: see the findings.

### TaintCells, FlowVisitor

A `Cell` (a mark and a shape of further cells) is one function from the access
paths it has an entry for to their marks. `Merge`, `Project`, `MarkClean`,
`TaintedAt`, `Canonicalize` and `Instantiate` are the code's operations,
including what is odd in them: a merge clones a subtree where the target has no
shape, and merges it with an empty cell where it has one.

`FlowVisitor` is `build_summary`'s simulation of one function. A behaviour
*writes the function*, one statement per step; each action is the visitor's
handler of that statement, and beside it one run of the function goes on. So the
state space is the product of all functions up to a length and all runs of each,
and the properties compare the walk with the run.

| State | Code (`unvalidated_body_to_db.rs`) |
|---|---|
| `scope`, `validatorInits` | the top of `scopes`, `validator_inits` |
| `frames` | the recursion of `handle_statement`: per open statement the snapshot at its entry and the consequent's |
| `taintedReturn`, `returnShape`, `paramShape`, `found` | the visitor's accumulators and whether `findings` is empty |
| `val`, `live`, `accepted`, `hit`, `out` | the run: which fields carry request data, whether it is here, what validators said, whether a write was hit, what was returned |
| `gaps` | history: the losses and blurs that happened on the way |

| Action | Code |
|---|---|
| `Declare`, `Destructure`, `Validate`, `DeclareCall` | `handle_var_decl` by kind of declarator: plain, destructuring, `validate*()` call, helper call; at any nesting |
| `Assign`, `Parse` | the assignment and sanitizer-call branches of `expr_taint` |
| `Write`, `CallHelper` | `scan_for_sinks`: `emit_db_sink_finding`, `check_cross_file_call` |
| `Return` | the return statement; a `throw` is the same as returning a literal |
| `OpenIf`, `Else`, `CloseIf` | an if: snapshot, alternate from the snapshot, join or the surviving branch, narrowing |
| `OpenBlock`, `CloseBlock` | a loop's body, a case, a try block: walked where it stands |

The *losses* are where the walk is known to drop taint; each is recorded when it
happens, and the soundness properties are about the behaviours without one:

- `join`: the consequent's cell replaced the alternate's, which read a field tainted;
- `block`: a body walked as if it ran once made something clean, and might not have run;
- `guard`: an early return cleared a variable its test proves nothing of;
- `rewrite`: ... or one that was assigned between the test and the join;
- `offsets`: a helper's return shape files taint under the argument's field names, not the result's;
- `substitution`: the caller's whole cell was put where only a part of the argument went.

These are not excuses made to get a property through: without a name for each,
the property would say only that the walk is sound when it is sound. The `gaps`
variable takes part in no guard.

### FlowHandlers

FlowVisitor is about fields inside one function; FlowHandlers about what is
around it, with whole values: the file's handlers, those behind a wrapper that
validates (`body_validated_handlers`), inner functions, callbacks, and which of
the three walks of an expression looks where. A behaviour writes a file, or the
function `build_summary` simulates, and beside it goes one run in which every
inner function runs where it stands or not at all.

| State | Code (`unvalidated_body_to_db.rs`) |
|---|---|
| `walk.scopes`, `walk.inits`, `walk.handlers` | `scopes`, `validator_inits`, `body_validated_handlers` |
| `walk.suppress` | `body_source_suppressed`, kept per function as its increments |
| `walk.asleep` | nesting inside a function that the visitor never enters |
| `noticed`, `due` | what the last statement led to, and what it deserves, with whether the run was at it: the tier of a finding, `tainted_return` |
| `env`, `links`, `at`, `trusted`, `ended` | the run: variables by function, which of them vouches for which, how deep it is, whether a wrapper has validated |
| `excused` | history: what the shortcuts so far may lead to |

| Action | Code |
|---|---|
| `Handler`, `InnerFunction` | `visit_function`, `visit_arrow_function_expression`, and the arrow inside a function, which no walk enters |
| `InnerCallback`, `Leave` | `walk_higher_order_callback`; `exit_fn` |
| `Declare`, `AssignVariable`, `WriteDatabase`, `Return`, `Guard` | the cases of `handle_statement`, with the tier from `classify_db_sink_taint` |

The shortcuts: an assignment goes to the innermost scope and a guard clears there;
an outer variable shines through one that hides it; a validator is known by the
names it was declared with; an inner function forgets the validators outside and
leaves its own behind; a callback of what is not tainted, an optional call's or
an arrow kept in a variable is not walked; whatever a callback is given is taken
for an element; a callback's return is taken for the function's; a function named
like a wrapped one passes for it; a write in a test is not looked at.

### IndexResolve

Paths are sequences of components, a component the sequence of its dotted parts,
which is what `with_extension` and `join` tell apart. `InsertFile` merges one
rule's summary of one file (`merge_with`, `merge_per_rule_flags`); `Start`,
`Hop` and `Settle` are `finalize` and `chase_re_exports`, one import at a time in
the order of a hash map. What an import *means* (`Meaning`) is the language's
own rule, over TypeScript's resolution (`TsResolve`): the definitions among the
places that some rounds of re-exports lead to (`Within`), of which there are no
more than `Rounds`. The properties are about projects that link (`Valid`): one
definition, and no re-exported default that is not there.

### ReachRules, ReachScan

The reachability and single-file rules were written one from another. Here a
rule is a record of what it does differently (`Rules`: its sources, the forms
of expression it follows, where its sinks look, whether it walks assignments and
callbacks, believes allow-list guards, has tiers) and the visitor is one
operator, `Visit`, with one case per `visit_*` method. What a visitor leaves to
the default walk of `stryx_ast` (loops, `try`, `else`, jumps, fields written)
it walks through, and the model with it (`WalkedThrough`). Seven of the eleven
are single-file rules; `Extract` builds the summaries of the others by
simulation, one parameter at a time.

| State | Code (`flows/ssrf_via_fetch.rs` and its siblings) |
|---|---|
| `walk.scopes`, `walk.urlInits`, `walk.safeHosts` | the visitor's fields of those names |
| `walk.asleep` | nesting inside a function the rule does not walk |
| `walk.found` | the severities the last statement reported |
| `index`, `signal`, `round`, `phase` | the rule's summaries and the driver's loop about them |
| `env`, `links`, `due` | the run: what each function's variables hold, which URL was parsed from which variable as it still is, what the last statement deserves |
| `branches`, `ended` | the run: the branches open, with what holds on the other ways to their ends; whether a jump has just left the innermost |
| `excused` | history: what the shortcuts taken so far may lead to |

| Action | Code |
|---|---|
| `ExtractRound` | a round: `extract` of every function, the signal, the cap |
| `Declare`, `DestructureObject` | `handle_var_decl` |
| `AssignVariable` | `visit_assignment_expression`: `=`, `+=`, `\|\|=`, a field written |
| `CallSink`, `CallFunction` | `visit_call_expression`: the sink, `check_cross_file_call` |
| `If`, `Else`, `Close` | `visit_if_statement`: the allow-list guard, and both branches walked one after the other in one scope |
| `LoopOrTry`, `Each`, `Jump` | the default walk: a body walked where it stands, a loop's variable, `return`, `throw`, `break` |
| `Function`, `Callback`, `Leave` | `visit_function`, `visit_arrow_function_expression`, their ends |

As in FlowVisitor, a behaviour writes the code it walks: any statement may stand in
any branch. The run beside it is the worst of those that lead to the statement:
where ways meet a variable holds the data if it does on one of them. The
visitors have no notion of a branch, and the places where they are simpler than
JavaScript have names (`Shortcuts`); each excuses either a *miss*, a false alarm
(*cry*) or a wrong *tier*, and never the other two. They are:

- *branches*: there is no snapshot and no join. What the last branch walked leaves
  is what the visitor goes on with, so an assignment that cleans a name in one
  branch loses the data of the other way round (*miss*), and one that taints it
  in a branch that returns is believed after it (*cry*);
- a throw or break that a `try` or loop catches leaves a rejecting branch into code
  where the guard is believed all the same (*miss*);
- `+=` and `||=` are taken for `=`; fields written and the variable of a `for...of`
  are not looked at;
- a callback wipes the one table of lineage and hosts and does not bring it back;
- an assignment goes to the innermost scope, whoever declared the variable;
- an outer variable shines through one that hides it;
- lineage and hosts are kept by name (*relinked*);
- text made of data is data to the Mongo rule, and a sanitised text assigned, not
  declared, is to the markup rule; secrets are told by the names they are
  destructured into, and the secret rule walks no assignment and no callback.

Each is recorded only where it makes a difference to what the run holds: a branch
whose end leaves everything as it was excuses nothing. Past a guard a variable is
vetted whatever it holds, save a host the operator chose, which stays the
operator's: `TierExact` is about whose choice the host was. MaxShortcuts bounds
how many kinds a walk goes through; `excused` is in no other guard.

### ProjectProfile, StepRecognisers, StackAdapters, StackScan

| State | Code (`stryx_index/src/profile/`) |
|---|---|
| `tree` | the workspace: files at the root, packages, directories |
| `package`, `patterns`, `opened` | the root package with what was merged in, the workspace patterns left, the directories of the present one |
| `profile`, `earlier` | what this scan detected and what an earlier one did |
| `looked`, `method`, `tainted` | the expression and the controller method a rule is at, the parameters it taints |

`OpenPattern` and `MergeWorkspace` are `merge_workspace_packages`, one directory
at a time in the order `read_dir` may yield; `Detect` is every `detect_*`
function with `finalize`; `LookAt` is a rule's question about an expression. The
tables of names are the code's, all 22 adapters included; a script is reduced to
whether it runs bun and a version to a token. `Finalize` orders hints by their
rank: the number of those that `sort` puts before them.

### CliSurface, CliSession

| State | Code |
|---|---|
| `head`, `staged`, `work` | what git has: the last commit, its index, the work tree; `Start` is the base |
| `config` | `stryx.toml`: missing, malformed, or its surfaces |
| `report` | what the last run printed and returned, a warning of `--diff` included, while nothing has changed since |

| Action | Code |
|---|---|
| `Run` | `cmd_scan` from the threshold's parse to the exit code, through `apply_diff_filter`, `filter_suppressed`, `StryxConfig::load`, the surfaces and the reporter |
| `InsertLine`, `CreateFile`, `DeleteFile`, `Stage`, `Commit`, `Configure` | the developer (external) |

A line has the findings its code gives and at most one comment that may be a
marker; a marker is reduced to its keyword, the ids it names and whether an
earlier `//` of the line hides it. The engine's findings are a set of records
`[file, line, column, rule, severity]`, and the reporter's sorts put a set in order
by rank: the i-th is the one with i - 1 before it (`InOrder`). No two findings of
a group have one place, so that a sort is stable is of no consequence.

## The runs

| Run | Question | Result |
|---|---|---|
| `scan` | 45 three-file projects, every worker order, any `--diff` subset, one edit at any moment | passes, 84,051 states |
| `flow` | every function of up to four statements over two variables with ifs, guards, loops, validators, and every run of it | passes, 647,307 states |
| `flow_calls` | the same over three variables with calls to six kinds of helper | passes, 311,687 states |
| `index` | 1,536 four-file projects of barrels, stars, cycles, classes, aliases, dotted names | passes, 19,534 states |
| `reach` | every one of eleven rules over handlers of any length, with two variables, branches, loops, jumps, callbacks, guards and calls | passes, 128,420 states |
| `profile` | eight workspaces, monorepos whose packages disagree on frameworks, on versions and on a script among them, scanned twice, and some 500 expressions | passes, 9,917 states |
| `cli` | sessions of two edits over two files with every kind of marker, under four configurations and three thresholds | passes, 161,816 states |
| `handlers` | files of handlers, wrapped or not, and simulated functions of any length over two variables, with callbacks and inner functions | passes, 60,038 states |
| `scan_axes`, `index_dotted`, `diff_worktree`, `score_surface` | one statement of a comment or a document each | violated, see "Findings" |

**`scan`** shows, over every interleaving: flags and findings are always
justified by the texts the scan pinned (`FlagsJustified`), also while a round is
half done; equality of two signals is a fixed-point witness on tracked axes
(`CountedWitness`); flows through at most two helpers are reported on *every*
axis, because the loop never stops before its second round
(`ShallowFlowsReported`); the driver implements the contract
(`ImplementsContract`); it ends (`Terminates`).

**`flow`** and **`flow_calls`** show: away from the losses the walk reads tainted
all the request data there is (`SoundOutsideGaps`), every write of it is reported
and recorded (`NoMissedSink`), every return of it flagged (`ReturnFlagged`); on
straight lines nothing else is tainted (`ExactOutsideBlurs`); a shape with a
tainted leaf implies the flag that goes with it (`ShapeImpliesBoolean`,
`ReachesImpliesFinding`), although two different walks compute them.

**`handlers`** shows: until the first shortcut, request data that is written or
returned anywhere in a handler, its callbacks and inner functions is noticed at
its tier (`NothingUnnoticed`); where the run has been, nothing else is, not what
a wrapper, a validator or an allow-list has vouched for, nor what was overwritten
(`NothingImagined`); the scopes and suppressions open are those of the functions
the text is in (`HandlerTypeOK`).

**`index`** shows: at every moment of merging a function's flags are those of the
rules that have been merged, and its shapes the flagship rule's (`NoFlagLost`);
an import resolves to no function other than the one it means
(`NeverTheWrongFunction`) and does resolve through plain chains
(`PlainChainsResolve`); cycles do not stop `finalize` (`EveryImportSettled`).

**`reach`** shows, rule by rule: data that gets to a sink on some run is reported
(`NoMissedFlow`) and nothing else is (`NoFalseAlarm`), save through a shortcut
that errs that way, of which the branches' are the widest; the tier of a finding is the one its worst argument deserves
(`TierExact`), through templates, names and other functions; when the loop over
the index stops, another round would flag no new function of the two rules the
signal counts, unless the rounds ran out while each still found one (`CutShort`;
`CountedFlagsExact`).

**`profile`** shows: of the evidence detected the order of directories and maps
changes only which of several bun scripts is named; the runtimes, with their
confidence and all other evidence, are the same too, unless two packages of the tree
define a script of one name differently, one with bun and one without
(`SameTreeSameStack`, whose `Disputed` says so: the first directory read wins); merging a workspace loses no hint and no
piece of evidence (`WorkspaceOnlyAdds`); a NestJS application is not taken for
its transport (`NestOutranksTransport`); the adapter fallbacks of the response
and auth recognisers say nothing the inline ones do not (`AdaptersAddNothing`);
the three ways to ask the body source agree (`SourcesAgree`); no adapter takes
`@Body()` away (`BodyAlwaysTaints`).

**`cli`** shows: after a marker is written above a line the findings are those there
were, without its rules' at that line and moved with their lines, not one more or
less (`MarkerSilencesOneLine`); a rule routed to ciFailure fails the build for every
finding of it that is not silenced, and nothing else does but a printed finding at
the threshold (`GateHolds`); the report accounts for every finding routed to the cli, shown or counted, worst
first, and what a group shows is what comes first by place (`WorstFirst`); code that is
written, in an old file or a new one, never raises the score within a tier, not even
where it comes between a marker and its line (`WorseIsNotBetter`); a file `--diff`
leaves out is as it was at the base, or tracked and not yet as committed, and once
everything is committed exactly the files that differ from the base are scanned,
unless git failed, when a warning goes with a scan of all (`DiffSeesCommitted`).

### Bounds

| Bound | Value | Why it is enough |
|---|---|---|
| `MaxIter` | 4 | a cap, as in the code; in three files with three helpers a chain converges within it, and slower or edited ones hit it: both ends of the loop are reached |
| `MaxEdits` | 1 | one edit separates any two reads of one file, and a file has no third kind of read |
| texts per file | 3 x 3 x 5 | each has a feature the others lack: nested call, `return g(x)`, recursion, method, wrapper, muted finding, a file that does not parse |
| `MaxStmts` | 4 | validate, fork, write in the fork, use after the join; each of the losses and every mutant shows within it |
| `Deep` | 2 and 1 | an if inside a branch of an if; the proof covers any depth |
| fields | 2 | one that is validated, one that is not; they are interchangeable in `flow` (symmetry) |
| `MaxHops` | 3 (code: 8) | the walk is cut off after fewer hops than the longest chain or cycle of four files needs |
| `MaxNesting` of `reach` | 2, 3 for exec | functions and branches one in another: a branch or a callback in a handler; for one rule a branch in a branch, which the others would repeat, as no visitor looks at how deep it is |
| `MaxDepth` of `handlers` | 2 | a handler and a function in it, with the file around them: every shortcut and every mutant shows; a third level costs twenty times the states |
| `MaxShortcuts` of `handlers` | 0 | a walk is followed until its first shortcut, whose own step is still checked |
| `MaxShortcuts` of `reach` | 1 for path, eval, xss and secret, else 0 | kinds of shortcut in one walk before it stops: one kind excuses everything it can excuse from then on, and a walk without any has no bound; the four are the rules whose walks have few states |
| `MaxRounds` | 10 | `MAX_ITER`; the chain of the project settles before it, so no walk of the run begins with an index cut short; the theorems hold for any cap |
| variables of `reach` | 2 | a URL and what it was parsed from; the one that hides and the one hidden |
| `MaxLines`, `MaxEdits` | 4, 2 | marker, marker, code, code; two edits bring a marker between a marker and its line |
| `Crowd` | 6 criticals | two of them lose more than 100 points, one crosses no cap: the cut at zero is reached |

Symmetry is used only in `flow`, whose helpers are absent, so nothing
distinguishes the two fields; no liveness is checked there.

### Fairness

`FairSpec` of ScanPipeline assumes weak fairness of the scan's own steps: rayon
runs every task it is given and the loop is ordinary code. `EditDisk` is not
fair: nobody has to save a file. IndexResolve assumes weak fairness of `Next`:
`finalize` is a sequential loop.

FlowVisitor, FlowHandlers, ReachScan, StackScan and CliSession check no liveness: nothing obliges
anyone to write the next statement or to run the tool.

`CHECK_DEADLOCK FALSE` is set for FlowVisitor, where a function ends, for
IndexResolve, where the index is done, for ReachScan and FlowHandlers, which stop past
`MaxShortcuts`, and for StackScan, where both scans are done. ScanPipeline keeps the deadlock check: a
finished scan stutters explicitly (`Returned`), so any other stop is an error.

## Findings

1. **`scan_axes`** (`stryx_cli/src/lib.rs:481`). The comment on
   `ConvergenceSignal` asks for every summary axis that can change. The sql and
   exec flags, among others, and all class methods are left out: a chain of three
   helpers to an sql sink is dropped, as two equal signals end the loop early.
2. **`index_dotted`** (`stryx_index/src/lib.rs:466`). `./users.service` does not
   find `users.service.ts`: `with_extension` replaces `.service`.
3. **`diff_worktree`** (`stryx_cli/src/lib.rs:257`). `--diff` is said to take the
   changes up to the working tree. `git diff base...` compares commits: a tracked
   file that is edited, or a new one that is staged, is left out until it is
   committed.
4. **`score_surface`** (`stryx_cli/src/main.rs:180`). A finding routed to `score`
   alone is said to be counted in the score and the summary though the CLI does not
   list it (`docs/getting-started.md:156`, `stryx_cli/src/config.rs:35`, the test
   `surface_score_only_hides_from_cli_but_keeps_in_summary`). The reporter computes
   both from the findings it is given, which are those routed to the cli.

Other places where the code and what is said of it differ. The models have them
as the code does them, and no run is spent on them:

- The counts of `ConvergenceSignal` are called monotone (`stryx_cli/src/lib.rs:468`,
  `:533`); `propagating_params` may fall when an unknown callee becomes known.
- A join is said to over-approximate both branches; it takes the consequent's
  cell (`unvalidated_body_to_db.rs:281-292`), and a merge is said to be a union;
  it takes over a shape (`stryx_taint/src/lib.rs:239`, `:268`).
- A cell without a mark and without a shape is said to carry no information
  (`stryx_taint/src/lib.rs:181-186`); under a tainted one it does, as `tainted_at` lets
  an entry override, and a path that read clean reads tainted once `canonicalize`
  has dropped its entry.
- A finding is said to imply a tainted leaf in the parameter's shape
  (`unvalidated_body_to_db.rs:3170-3176`); a value whose only tainted field was
  validated yields the finding and no leaf.
- Star re-exports are said to be tried until one declares the name
  (`stryx_index/src/lib.rs:348-357`); one with a star of its own is taken for good.
- Which script is named as evidence of bun depends on a hash map
  (`profile/detect.rs:293`), and where workspaces disagree on a script's text, whether
  bun is detected from it at all depends on the order of `read_dir` (`:174`).
- An adapter is enabled from a confidence of 0.60, as documented; one dependency is
  worth 0.30, so 16 of the 22 adapters are never enabled by a profile.
- The tier's flag is not in `ConvergenceSignal`: at the head of a chain of four
  calls a finding may stay Medium that a further round makes High.
- A misspelt `stryx-disable-nextline` disables the file, and the `//` of a URL
  hides a marker behind it (`suppress.rs:135-140`).
- A surface name the program does not know makes it drop the whole configuration,
  gates included, where newer configurations are said to load (`config.rs:12-15`).
- The score rises from 0, with thirty high findings, to 49 with one critical
  more: only the highest tier is deducted.
- Past the allow-list guard on a URL the variable it was parsed from is said to be
  allow-listed (`ssrf_via_fetch.rs:646`); it is cleared by name, also when it was
  assigned after the URL was parsed (a *miss* of ReachScan's `Shortcuts`).
- `scan_for_sinks` is said to walk the whole expression tree
  (`unvalidated_body_to_db.rs:1180`); it enters no assignment
  (`row = await db.create(body)`), conditional, logical expression, template or cast,
  and is not called for the tests of if, while and for.
- Nested functions are said to be walked after the statements around them
  (`unvalidated_body_to_db.rs:251-256`); a callback is walked where it stands, so a
  validator called before it is forgotten by its guard after it.
- In the rules with a guard, a sink in the branch that rejects is not reported,
  and a literal is no safe host although the field's comment says so.

## Proofs

Every safety property and every action property that a passing run checks is proved,
for every value of the constants, and so is the refinement. Only liveness is left to
TLC.

| Theorem | Says | Assumes |
|---|---|---|
| `TypeCorrect`, `FlagsAreJustified`, `CountsWitnessFixedPoint`, `ShallowFlowsAreReported` | `Spec => []` of `TypeOK`, `FlagsJustified`, `CountedWitness`, `ShallowFlowsReported` of the driver | `ScanAssumption`, `TextsAssumption` |
| `DriverImplementsContract` | `Spec => ImplementsContract`: the driver refines ScanContract | the same |
| `WalkIsTyped`, `WalkIsSound`, `ReturnsAreFlagged`, `SinksAreFound` | `Spec => []` of `TypeOK`, `SoundOutsideGaps`, `ReturnFlagged`, `NoMissedSink` of the walk | `FlowAssumption` |
| `WalkIsExact`, `ShapesAreFlagged`, `ReachesAreFound` | ... of `ExactOutsideBlurs`, `ShapeImpliesBoolean`, `ReachesImpliesFinding` | the same |
| `HandlersAreTyped`, `NothingGoesUnnoticed`, `NothingIsImagined` | `Spec => []` of `HandlerTypeOK`, `NothingUnnoticed`, `NothingImagined` | `HandlerAssumption` |
| `IndexIsTyped`, `MergingLosesNothing`, `ImportsAreRight`, `PlainChainsAreFollowed` | `Spec => []` of `TypeOK`, `NoFlagLost`, `NeverTheWrongFunction`, `PlainChainsResolve` of the index | `IndexAssumption` |
| `WalkKeepsStep`, `EveryFlowIsReported`, `EveryReportIsAFlow`, `SeveritiesAreExact` | `Spec => []` of `ReachTypeOK`, `NoMissedFlow`, `NoFalseAlarm`, `TierExact` | `ReachAssumption` |
| `CountedFlagsSettle` | `ReachSpec => []CountedFlagsExact` | the same |
| `RoundsAscend` | what a round finds reachable with one index, it finds with every larger one | the same |
| `FlagsOnlyGrow` | `ReachSpec => [][Reaching(index) \subseteq Reaching(index')]_vars`: no step takes a flag back | the same |
| `ProfileIsTyped`, `DetectionIsStable`, `NestComesFirst`, `WorkspacesOnlyAdd` | `Spec =>` `[]ProfileTypeOK`, `[]SameTreeSameStack`, `[]NestOutranksTransport`, `WorkspaceOnlyAdds` | `ProfileAssumption` |
| `AdaptersNeverAdd`, `BodySourcesAgree`, `BodyIsAlwaysTainted` | `Spec => []` of `AdaptersAddNothing`, `SourcesAgree`, `BodyAlwaysTaints` | `StackAssumption` |
| `SessionIsTyped`, `GatesHold`, `ReportsWorstFirst` | `SessionSpec => []` of `SessionTypeOK`, `GateHolds`, `WorstFirst` | `RulesAssumption`, `SessionAssumption`, `LinesAssumption`, `AbsentAssumption` |
| `MarkersSilenceOneLine`, `WritingScoresNoHigher` | `SessionSpec =>` `MarkerSilencesOneLine`, `WorseIsNotBetter` | the same |
| `DiffIsComplete` | `SessionSpec => []DiffSeesCommitted` | none |
| `ScoreIsAPercentage`, `MoreNeverScoresBetter` | the score of any list of findings is from 0 to 100, and of two with one highest tier the larger one's is no higher | none |
| `CleaningIsLocal` | `mark_clean_at`, cells and paths of any depth: the path and all below read clean, nothing reads tainted that did not, what lies beside reads as before | none |
| `ProjectingReadsThrough` | `project_path`: what is read out at `p` reads at `r` as the cell did at `p \o r` | none |
| `MergingKeepsTaint` | `merge_into`: an entry is tainted where one of the two has it so, and nowhere else | none |
| `CanonicalForm`, `CanonicalizingOnceIsEnough`, `CanonicalizingKeepsTaint` | `canonicalize` enforces the two invariants documented on `Cell`, is idempotent, and loses no taint but behind a clean entry | none |
| `InstantiatingReads` | `instantiate_tainted`: at each topmost tainted entry the result reads as what is put there, and nothing away from those entries is tainted | none |
| `FlatInstantiate` | a shape tainted as a whole, one field deep: a field both read tainted is tainted in the result | none |

The assumptions are of three kinds. *Finiteness and types*: functions are finite in
number and each has a file (`TextsAssumption`), a tree's files are finite
(`ProfileAssumption`), parameters are sequences of names, expressions have a form
and a path, the files of a session are numbers (`SessionAssumption`), a line has at
most one comment and findings of known rules (`LinesAssumption`), no file's text is
what stands for its absence (`AbsentAssumption`), and no two rules have one id
(`RulesAssumption`). *Bounds are numbers*, and the caps are positive. *What another part
provides*: `FlowAssumption` says return shapes are canonical, as `build_summary`
leaves them, that summaries own up to what the functions do (the index has
converged, which is the driver's part), and that a helper given no request data
returns none, which the proof found missing; `HandlerAssumption`, that the
parameter and the functions the exports wrap have names; `ReachAssumption`, that
the forms written are among those the rules know, that bodies end and consist of
statements of known kinds, and that the signal before the first round is no count;
`IndexAssumption`, that there is a target and a rule and every text is well formed.

**FlagsAreJustified.** Fix an axis and a set of functions closed under the texts
in the *next* state's cache. As the cache only grows (`CacheGrows`), the set is
closed under the present one (`ClosedShrinks`), so the flags are inside it now;
an extraction flags a function only if one of its flows leads to a sink or into
flagged functions (`SinksLead`), so they stay inside it. `NothingYet` is the
strengthening: findings appear only once the cache no longer changes.

**CountsWitnessFixedPoint.** Equal counts say nothing of equal sets, so the
invariant carries monotonicity: on a tracked axis the index is a post-fixed
point of extraction (`PostFixed`), hence one round's flags include the last
one's, and two finite sets one of which includes the other and that have equal
size are equal (`RepeatedSignal`). `NextExact` ties the half-built round to the
files already processed, which is what makes worker order irrelevant.

**ShallowFlowsAreReported.** `ShallowFlagged` says the index flags every helper that
meets a sink itself and, once two rounds have summarised the same files, whoever
calls one. The loop does not end before its second round, as the first signal has
nothing to equal, so both hold when the files are run; what a file's run then
reports is known exactly (`RunExact`).

**DriverImplementsContract.** An extraction that reads a file maps to pinning its
text, `Filter` to publishing, every other step to a stutter. That the published
report is *sound* is `FlagsAreJustified`; that one called complete misses nothing is
`CountsWitnessFixedPoint`: flags that are a fixed point include the least one.
`RunInv` supplies what relates the two vocabularies: which texts are on disk,
that only targets' are cached, and that the findings are those of the files run so
far.

**WalkIsSound.** `Covers(val, scope)` alone is not inductive: at a join the
run may resume that was elsewhere while a branch was walked. `FlowInv` adds, for
every open statement,
- `SkippedPart`: what the run passes by, it still holds the data of the fork;
- `Resuming`: what the run left behind in a consequent is covered by the snapshot;
- `StillProven`: a variable the test proved valid stays so until it is written;
- `Nested`: the run is in an inner statement only if it is in the outer ones.

There is one `...Keeps` lemma per action; those that open, close or replace a
frame rest on one lemma each about sequences of frames. Where a join or a
clearing would break the invariant, a loss is recorded (`AtJoinCovers`,
`CloseIfKeeps`), and losses stay (`LossesStay`).

`WalkIsExact` needs the other direction: `ExactInv` says that without a blur no
statement is open and, while the run is here, the fields that read tainted are
those that carry data. `ShapesAreFlagged` and `ReachesAreFound` need `TypeInv`, the
shapes of every cell and frame, for the two walks of an expression to be
comparable at all.

**NothingGoesUnnoticed, NothingIsImagined.** `HandlerInv` relates visitor and run
function by function, only for functions the run is in:
- `MissInv`, until a *miss*: a scope has whatever its function holds (`Caught`), a
  validator the visitor knows is one the run has (`Noted`), and nothing is
  suppressed that a wrapper has not vouched for;
- `CryInv`, until a *cry*: a scope has nothing but data (`Founded`), no variable
  hides one with data (`Unhidden`), the run's validators are known (`Linked`);
- `TrustInv`: what a wrapper has vouched for is suppressed in the outermost function.

Neither direction is inductive alone: which validators are known decides what a
guard clears in one and what it must clear in the other. There is one `...Keeps`
lemma per action, and one step per shortcut that has to record its excuse.

**The index.** `IndexInv` says what merging amounts to after any number of
insertions (`Gist`: what the rules merged so far say of the file), which is
`MergingLosesNothing` for any order of rules. For `ImportsAreRight` a walk must be
known to be where the language would look: `OnCourse` puts it among the places so
many re-exports away. For `PlainChainsAreFollowed`, `Trail` says that the places
passed define nothing and lead on only to each other and to this one: a walk that
ended without a definition would leave the import without a meaning, and the
project would not link. Cycles need no argument of their own, as a trail is a set.

**The profile.** `MergeInv` ties the package merged so far to the tree: its names
and those of the directories left are the names of the whole tree, at whatever
directory `read_dir` has got to. So a finished scan's evidence is a function of the
tree (`StackInv`), and `DetectionIsStable` compares two scans through it. Which of
several bun scripts is named is not such a function, but that one is, and so what it
adds to the confidence: a script weighs the same whatever its name
(`ScriptsWeighTheSame`), so hints of two scans that differ in names have the same ranks
(`SameRanks`). Of a script's text `MergeInv` says where it may come from (`Gives`): the
root if it has one, else any workspace that has, which is one text unless they dispute it.
`NestComesFirst` is about rank: NestJS's evidence outnumbers its transport's, and
where the cap makes them equal the order of the hints decides. The three theorems
about adapters are about tables of patterns, decided form by form.

**The reachability rules.** `ReachInv` is the same construction over a nesting of
functions, for eleven rules at once: `MissInv` (`Caught`, and lineage the run agrees
with, `Linked`), `CryInv` (`Founded`, `Noted`), `TierInv` (the safe hosts are those
the operator chose, `Hosted`), each until a shortcut that excuses it. `ReadsAreData`
is the lemma all three rest on: for each rule and each form of expression, reading
tainted is holding the data. `BranchInv` says the open branches are those of functions
the run is in; at the end of one the run may hold what the visitor does not, and
either the two agree or `Turns` has recorded on which side they part. Per kind of statement one lemma shows that the
invariant is kept and one that the statement is judged rightly. The proof
found a flaw of the model that runs with two variables could not show: with three,
a guard on a URL also turned the operator's host it was parsed from into nothing, in
the run though not in the visitor.

**CountedFlagsSettle.** The signal is a number, and that two rounds have one number
says nothing unless rounds only ever add. Three steps:
- *A round is monotonic* (`RoundsAscend`). Two walks of one body beside each other,
  with a smaller and a larger index, have the same scopes after every statement, and
  whatever the first has found the second has (the `Alike...` lemmas, one per kind
  of statement). The walk is a recursive function of the statement's number; that
  there is such a function (`WalkIsThere`) and that the two keep step
  (`MoreIsFound`) is shown by a least number at which they do not, as the
  library's induction theorems cannot be used.
- *What is known is found again* (`FlagsInv`): another round with the index as it is
  flags what the index flags. It holds of the empty index, and a monotonic round
  keeps it. So flags only grow (`FlagsOnlyGrow`).
- *Counting* (`CountInv`): the signal is the number of functions flagged, so of two
  sets one of which includes the other and that have one number, neither has more;
  and while the loop has not settled, every round has found at least one. What is
  left when the cap ends it is `CutShort`.

**The session.** A property of the trees and of a report made of earlier ones is
not inductive by itself. `Fresh` says that the report is what `cmd_scan` prints for
some base and threshold on the trees *as they are now*: a run establishes it,
whichever way `cmd_scan` returns, and every edit, stage, commit or change of the
configuration retires the report. With it `SessionInv` has the type of the work tree
and the bound on edits, so that findings are finite in number, and the rest is about
what one run of `cmd_scan` does:
- `GatesHold`: a finding is printed if and only if its group is; the highest printed
  rank reaches the threshold if and only if some printed finding's does.
- `ReportsWorstFirst`: `InOrder` of a finite set by a strict total order is what
  sorting is: each place has one member, in ascending order. Both orders, of groups
  and of places, are shown to be such. The sizes of the groups add up to the number
  printed, by least counterexample over the partial sums.
- `MarkersSilenceOneLine` and `WritingScoresNoHigher` are about `InsertAt`: which line
  each line of the new text was, and which markers it stands under. Of two lists of
  findings the counts of the larger are no smaller (findings are mapped one to one),
  and the score of the larger is no higher (`MoreNeverScoresBetter`): which tier
  counts (`TierIs`), what the score is in it (`ScoreIs`), and that a larger deduction
  is never cut to less.

`DiffIsComplete` follows from `Fresh`, from the three ways a run with `--diff` returns
(`DiffReturns`) and from what a file that git lists nowhere must be (`LeftOutOfDiff`).

**The lattice.** A cell is a function on a set of paths that holds with a path all its
prefixes, so no induction over its depth is needed. What a path reads is decided by
the last entry on the way to it: there is one (`NearestIs`, by the least number of
steps left) and only one (`NearestUnique`, as of two prefixes of a path one leads to
the other). Each theorem is then about where that entry is before and after. That
`canonicalize` *adds* none is no theorem because it is false: an entry without a mark
under a tainted one is dropped, and its path then inherits.

**Only model-checked**: `Terminates` and `EveryImportSettled`. Liveness under fairness
is out of the prover's reach; what bounds the two loops, the caps on rounds and hops,
is part of the type invariants proved.

## What is not modelled

- **The second turn of a loop**: the visitor walks a body once; what a second
  turn carries round is lost to the walk, and the models' runs take at most one.
  For the same reason a callback runs at most once, where it is passed.
- **Exceptions that are not written**: ReachScan's `try` is left early by a `throw`
  in it, not by a call that fails.
- **Parsing**: the parser bridge, and how a test is taken apart into the guards
  the visitors know. A block opens no scope in the visitors; the models' names are
  declared once per function and live to its end, as `var` does, so a block's name
  that hides one of its function is left out.
- **The regular expressions** of `hardcoded_secret`, and the names by which
  `auth_bypass_via_wrapper` tells an auth wrapper.
- **Wording and layout**: messages, spans, the JSON report, the printed profile,
  the `rules` and `version` commands. Serialisation of the index is not used.
- **git's renames** under `--diff`: a renamed file is a new one.
- **Core types, node binding**: plain data and a thin wrapper. **Summary cache, LLM
  client**: no production path uses them.
- **Labels** of taint (there is one in use) and the `Arg` placeholder, which is
  never merged with anything.

## Plan

1. **A second turn of loops** in FlowVisitor, as one more named loss.
2. **Fields in FlowHandlers**: cells instead of whole values in its scopes, which
   would make FlowVisitor its one-function instance; the theorems about cells of any
   depth are what its proof would rest on.
