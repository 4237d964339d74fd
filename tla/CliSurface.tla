----------------------------- MODULE CliSurface -----------------------------
(***************************************************************************)
(* What happens to the engine's findings before anyone sees them: the      *)
(* suppression comments of suppress.rs, the routing of config.rs, and the  *)
(* report and exit code of main.rs and the reporter.                       *)
(*                                                                         *)
(* A text is a sequence of lines; a line has code, for which the engine    *)
(* finds a sequence of <<rule, severity>>, and at most one comment that is *)
(* a marker.  A file is a number, in the order of paths; a finding is at a *)
(* line and, where the sequence has it, a column.                          *)
(***************************************************************************)
EXTENDS Integers, Sequences, FiniteSets, TLC, SequencesExt, FiniteSetsExt

CONSTANTS
  RuleIds,      \* the rules' full ids, in the order of their names
  ShortNames    \* what a marker may name without its slash

ASSUME RulesAssumption == RuleIds \in Seq(Range(RuleIds)) /\ IsInjective(RuleIds)

Severities == <<"info", "low", "medium", "high", "critical">>
Rank(s) == CHOOSE i \in DOMAIN Severities : Severities[i] = s
RuleRank(r) == CHOOSE i \in DOMAIN RuleIds : RuleIds[i] = r

-----------------------------------------------------------------------------
\* Suppression.  Only the first of a line's openers is looked behind, and a
\* keyword that goes on after stryx-disable is the file-wide one.
ParseRuleIds(ids) == ids \ ShortNames
ExtractMarkers(line) ==
  {[kind |-> IF c.keyword = "next" THEN "DisableNextLine" ELSE "DisableFile", ruleIds |-> ParseRuleIds(c.ids)] :
     c \in {x \in line.comment : ~x.hidden}}
Named(line, kind) == UNION {m.ruleIds : m \in {x \in ExtractMarkers(line) : x.kind = kind}}
FileLevel(text) == UNION {Named(text[l], "DisableFile") : l \in DOMAIN text}
SameLine(text) ==   \* mutant: the marker's own line, not the one after
  [fileLevel |-> FileLevel(text), lineLevel |-> [l \in DOMAIN text |-> Named(text[l], "DisableNextLine")]]
Parse(text) ==
  [fileLevel |-> FileLevel(text),
   lineLevel |-> [l \in DOMAIN text |-> IF l = 1 THEN {} ELSE Named(text[l - 1], "DisableNextLine")]]
Suppresses(supps, rule, line) == rule \in supps.fileLevel \/ rule \in supps.lineLevel[line]

FindingsIn(f, text) ==
  UNION {{[file |-> f, line |-> l, column |-> k, rule |-> text[l].finds[k][1], severity |-> text[l].finds[k][2]] :
            k \in DOMAIN text[l].finds} : l \in DOMAIN text}
FilterSuppressed(findings, sources) == {x \in findings : ~Suppresses(Parse(sources[x.file]), x.rule, x.line)}

-----------------------------------------------------------------------------
\* Routing.  A config that does not parse is no config at all.
Load(config) == IF config.state = "valid" THEN config.surfaces ELSE [r \in {} |-> {}]
SurfacesFor(surfaces, rule) ==
  IF rule \in DOMAIN surfaces THEN surfaces[rule]
  ELSE IF "default" \in DOMAIN surfaces THEN surfaces["default"] ELSE {"cli"}
CliFindings(findings, surfaces) == {x \in findings : "cli" \in SurfacesFor(surfaces, x.rule)}
Gates(findings, surfaces) == \E x \in findings : "ciFailure" \in SurfacesFor(surfaces, x.rule)
GateAmongPrinted(findings, surfaces) ==   \* mutant: only what is printed can gate
  Gates(CliFindings(findings, surfaces), surfaces)
CiFailurePresent(findings, surfaces) == Gates(findings, surfaces)
ThresholdTripped(printed, failOn) == printed # {} /\ Max({Rank(x.severity) : x \in printed}) >= Rank(failOn)

-----------------------------------------------------------------------------
\* The report: the score of the highest tier there is, and the groups.
CountOf(findings, severity) == Cardinality({x \in findings : x.severity = severity})
Tier(counts) ==
  LET present == {s \in DOMAIN counts \ {"info"} : counts[s] > 0}
  IN  IF present = {} THEN "info" ELSE CHOOSE s \in present : \A t \in present : Rank(t) <= Rank(s)
PerFinding == [critical |-> 10, high |-> 5, medium |-> 2, low |-> 1]
Cap == [critical |-> 49, high |-> 74, medium |-> 89, low |-> 99]
Wrapping(counts) ==   \* mutant: the subtraction does not saturate
  LET t == Tier(counts) IN
  IF t = "info" THEN 100 ELSE IF PerFinding[t] * counts[t] > 100 THEN Cap[t] ELSE Min({Cap[t], 100 - PerFinding[t] * counts[t]})
Signed(counts) ==   \* mutant: nothing stops it at zero
  LET t == Tier(counts) IN IF t = "info" THEN 100 ELSE Min({Cap[t], 100 - PerFinding[t] * counts[t]})
ComputeScore(counts) ==
  LET t == Tier(counts) IN
  IF t = "info" THEN 100 ELSE IF PerFinding[t] * counts[t] > 100 THEN 0 ELSE Min({Cap[t], 100 - PerFinding[t] * counts[t]})
ReportSummary(findings) ==
  LET counts == [s \in Range(Severities) |-> CountOf(findings, s)]
  IN  [total |-> Cardinality(findings), counts |-> counts, score |-> ComputeScore(counts)]

MaxRepresentatives == 3
\* The members of S by an order that is a set of pairs: the i-th has i - 1 before it.
InOrder(S, order) ==
  [i \in 1..Cardinality(S) |-> CHOOSE x \in S : Cardinality({y \in S : <<y, x>> \in order}) = i - 1]
InGroup(x, key) == x.severity = key[1] /\ x.rule = key[2]
Unranked(k, j) == RuleRank(k[2]) < RuleRank(j[2]) \/ (k[2] = j[2] /\ Rank(k[1]) < Rank(j[1]))   \* mutant: by rule first
Precedes(k, j) == Rank(k[1]) > Rank(j[1]) \/ (k[1] = j[1] /\ RuleRank(k[2]) < RuleRank(j[2]))
Earlier(x, y) ==
  x.file < y.file \/ (x.file = y.file /\ (x.line < y.line \/ (x.line = y.line /\ x.column < y.column)))
KeysOf(findings) == {<<x.severity, x.rule>> : x \in findings}
Group(findings, key) ==
  LET items == {x \in findings : InGroup(x, key)}
      ordered == InOrder(items, {p \in items \X items : Earlier(p[1], p[2])})
      shown == [i \in 1..Min({Cardinality(items), MaxRepresentatives}) |-> ordered[i]]
  IN  [severity |-> key[1], rule |-> key[2], shown |-> shown, more |-> Cardinality(items) - Len(shown)]
Grouped(findings) ==
  LET keys == InOrder(KeysOf(findings), {p \in KeysOf(findings) \X KeysOf(findings) : Precedes(p[1], p[2])})
  IN  [g \in DOMAIN keys |-> Group(findings, keys[g])]
=============================================================================
