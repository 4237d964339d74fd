----------------------------- MODULE CliSession -----------------------------
(***************************************************************************)
(* A developer's session with stryx: a git work tree that is edited,       *)
(* staged and committed, a stryx.toml that is rewritten, and runs of       *)
(* `stryx [--diff base] [--fail-on s]`.  The engine is whole: it finds     *)
(* what a text's lines have, in the files it is given.                     *)
(***************************************************************************)
EXTENDS CliSurface

CONSTANTS
  Files,      \* 1..n
  Start,      \* the text each file has at base, or Absent
  NewLines,   \* the lines that may be written
  Configs, Thresholds,
  MaxLines, MaxEdits,   \* bounds: lines of a file, edits of a session
  Absent, NoBase, NotRun

ASSUME SessionAssumption ==
  /\ MaxLines \in Nat /\ MaxEdits \in Nat /\ Files \subseteq Nat /\ IsFiniteSet(Files)
  /\ Start \in [Files -> {Absent} \cup Seq(NewLines)]
  /\ \A c \in Configs : c.state \in {"missing", "malformed", "valid"}

ASSUME LinesAssumption == \A line \in NewLines :
  /\ line.finds \in Seq(Range(RuleIds) \X Range(Severities))
  /\ \A c, d \in line.comment : c = d
ASSUME AbsentAssumption == Absent \notin Seq(NewLines)

VARIABLES
  head, staged, work,   \* the last commit, git's index and the work tree
  config, edits,
  report                \* what the last run printed and returned, if nothing changed since

vars == <<head, staged, work, config, edits, report>>
Tracked == {f \in Files : staged[f] # Absent}
Present == {f \in Files : work[f] # Absent}

-----------------------------------------------------------------------------
\* git diff --name-only --diff-filter=ACMR base...  and
\* git ls-files --others --exclude-standard, as collect_diff_paths asks.
GitDiff == {f \in Files : head[f] # Absent /\ head[f] # Start[f]}
GitUntracked == Present \ Tracked
DiffWithoutNew == GitDiff   \* mutant: untracked files are not asked for
CollectDiffPaths == GitDiff \cup GitUntracked
\* When git fails, everything.
ApplyDiffFilter(base, gitWorks) ==
  IF base = NoBase \/ ~gitWorks THEN Present ELSE Present \cap CollectDiffPaths

Scan(targets, sources) ==
  FilterSuppressed(UNION {FindingsIn(f, sources[f]) : f \in targets}, sources)

\* cmd_scan.  The threshold is read before anything is scanned; with no file
\* there is no report, only the exit code.  A git that fails is warned about.
CmdScan(base, gitWorks, failOn) ==
  LET targets == ApplyDiffFilter(base, gitWorks)
      findings == Scan(targets, work)
      surfaces == Load(config)
      printed == CliFindings(findings, surfaces)
      failed == ThresholdTripped(printed, failOn) \/ CiFailurePresent(findings, surfaces)
      warned == base # NoBase /\ ~gitWorks
  IN  IF failOn \notin Range(Severities) THEN [exit |-> 2, targets |-> {}]
      ELSE IF targets = {} THEN [exit |-> 0, targets |-> {}, base |-> base, warned |-> warned]
      ELSE [exit |-> IF failed THEN 1 ELSE 0, failOn |-> failOn, base |-> base, warned |-> warned, targets |-> targets,
            findings |-> findings, groups |-> Grouped(printed), summary |-> ReportSummary(printed)]

Run == \E base \in {NoBase, "base"}, gitWorks \in BOOLEAN, failOn \in Thresholds :
  /\ report = NotRun
  /\ report' = CmdScan(base, gitWorks, failOn)
  /\ UNCHANGED <<head, staged, work, config, edits>>

-----------------------------------------------------------------------------
\* The developer.
Edit(tree) == edits < MaxEdits /\ work' = tree /\ edits' = edits + 1 /\ report' = NotRun /\ UNCHANGED <<head, staged, config>>
InsertLine == \E f \in Present : \E l \in 1..Len(work[f]) + 1, line \in NewLines :
  Len(work[f]) < MaxLines /\ Edit([work EXCEPT ![f] = InsertAt(@, l, line)])
CreateFile == \E f \in Files \ Present, line \in NewLines : Edit([work EXCEPT ![f] = <<line>>])
DeleteFile == \E f \in Present : Edit([work EXCEPT ![f] = Absent])
Stage == staged # work /\ staged' = work /\ report' = NotRun /\ UNCHANGED <<head, work, config, edits>>
Commit == head # staged /\ head' = staged /\ report' = NotRun /\ UNCHANGED <<staged, work, config, edits>>
Configure == \E c \in Configs \ {config} :
  config' = c /\ report' = NotRun /\ UNCHANGED <<head, staged, work, edits>>

SessionInit ==
  /\ head = Start /\ staged = Start /\ work = Start
  /\ config \in Configs /\ edits = 0 /\ report = NotRun

SessionNext == Run \/ InsertLine \/ CreateFile \/ DeleteFile \/ Stage \/ Commit \/ Configure
SessionSpec == SessionInit /\ [][SessionNext]_vars

-----------------------------------------------------------------------------
Reported == report # NotRun /\ report.targets # {}
AllOf(tree) == Scan({f \in Files : tree[f] # Absent}, tree)

\* Shapes; no run is about a file that is not there.
SessionTypeOK ==
  /\ work \in [Files -> {Absent} \cup Seq(NewLines)] /\ edits \in 0..MaxEdits
  /\ Reported => report.targets \subseteq Present /\ report.summary.score \in 0..100

\* A marker written above a line silences its rules there, and changes
\* nothing for any other line of any file: unless it comes between another
\* marker and that marker's line.
Spelt(line) == \E c \in line.comment : c.keyword = "next"
Moved(l, at) == IF l >= at THEN l + 1 ELSE l
SilencedBy(m) == UNION {ParseRuleIds(c.ids) : c \in {d \in m.comment : ~d.hidden}}
SilencesOneLine(f, at, m, tree) ==
  LET left == {x \in AllOf(work) : ~(x.file = f /\ x.line = at /\ x.rule \in SilencedBy(m))}
  IN  AllOf(tree) = {IF x.file = f THEN [x EXCEPT !.line = Moved(@, at)] ELSE x : x \in left}
MarkerSilencesOneLine ==
  [][\A f \in Present, at \in 1..MaxLines, m \in NewLines :
       /\ at <= Len(work[f]) /\ work' = [work EXCEPT ![f] = InsertAt(@, at, m)]
       /\ Spelt(m) /\ m.finds = <<>> /\ ~(at > 1 /\ Spelt(work[f][at - 1]))
       => SilencesOneLine(f, at, m, work')]_work

\* A rule routed to ciFailure fails the build for any finding of it that no
\* marker silences, printed or not and whatever the threshold; and a build
\* fails for nothing else but a printed finding as severe as asked.
GateHolds ==
  Reported =>
    LET routes == Load(config)
        listed(x) == \E g \in DOMAIN report.groups : report.groups[g].rule = x.rule
        blamed(x) == \/ "ciFailure" \in SurfacesFor(routes, x.rule)
                     \/ Rank(x.severity) >= Rank(report.failOn) /\ listed(x)
    IN  (report.exit = 1) <=> \E x \in AllOf(work) : x.file \in report.targets /\ blamed(x)

\* What a run found that no marker silences and stryx.toml routes to a surface.
Routed(surface) ==
  {x \in AllOf(work) : x.file \in report.targets /\ surface \in SurfacesFor(Load(config), x.rule)}

\* The report leaves out nothing that is routed to the cli: what a group does
\* not show of it, it counts; the groups come worst first, and a group shows
\* what comes first by place.
CountedIn(groups) ==
  LET sum[i \in 0..Len(groups)] == IF i = 0 THEN 0 ELSE sum[i - 1] + Len(groups[i].shown) + groups[i].more
  IN  sum[Len(groups)]
WorstFirst ==
  Reported =>
    LET g == report.groups
        showsFirst(i) == \A x \in report.findings :
          InGroup(x, <<g[i].severity, g[i].rule>>) =>
            x \in Range(g[i].shown) \/ \A k \in DOMAIN g[i].shown : Earlier(g[i].shown[k], x)
    IN  /\ \A i, j \in DOMAIN g : i < j => Rank(g[i].severity) >= Rank(g[j].severity)
        /\ CountedIn(g) = Cardinality(Routed("cli")) /\ report.summary.total = Cardinality(Routed("cli"))
        /\ \A i \in DOMAIN g : showsFirst(i) /\ \A k \in 2..Len(g[i].shown) : Earlier(g[i].shown[k - 1], g[i].shown[k])
        /\ \A i \in DOMAIN g : g[i].more > 0 => Len(g[i].shown) = MaxRepresentatives

\* "counted in the score & summary, hidden from CLI output": the summary has
\* the findings routed to score, of which the groups show none.
ScoreCountsHidden == Reported => report.summary.total = Cardinality(Routed("cli") \cup Routed("score"))

\* Code that is written, in a new file or an old one, and adds findings of no
\* higher tier never raises the score: not even between a marker and its line.
Score(findings) == ReportSummary(findings).score
TopTier(findings) == Tier(ReportSummary(findings).counts)
Writes(line, tree) ==
  \/ \E f \in Present : \E at \in 1..Len(work[f]) + 1 :
       line.comment = {} /\ tree = [work EXCEPT ![f] = InsertAt(@, at, line)]
  \/ \E f \in Files \ Present : tree = [work EXCEPT ![f] = <<line>>]
ScoresNoHigher(before, after) == TopTier(after) = TopTier(before) => Score(after) <= Score(before)
WorseIsNotBetter ==
  [][\A line \in NewLines : Writes(line, work') => ScoresNoHigher(AllOf(work), AllOf(work'))]_work

\* With --diff, also where it finds nothing to scan and exits 0 in silence: a
\* file that is left out is as it was at base, or git tracks it and what has
\* become of it is not committed.  Once everything is committed exactly the
\* files that differ from base are scanned.  When git fails, all are.
DiffSeesCommitted ==
  report # NotRun /\ report.exit # 2 /\ report.base # NoBase =>
    /\ \A f \in Present \ report.targets : work[f] = Start[f] \/ (f \in Tracked /\ work[f] # head[f])
    /\ ~report.warned /\ work = staged /\ staged = head => report.targets = {f \in Present : work[f] # Start[f]}
    /\ report.warned => report.targets = Present

\* "Scan only files changed since <base>": every file of the work tree that
\* is not what it was at base is scanned.
DiffSeesWorkTree ==
  Reported /\ report.base # NoBase => {f \in Present : work[f] # Start[f]} \subseteq report.targets
=============================================================================
