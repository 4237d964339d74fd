---------------------------- MODULE IndexResolve ----------------------------
(***************************************************************************)
(* The project index of one round: every rule's summary of every file is   *)
(* merged in, then finalize follows each import through the re-exports of  *)
(* other files to the function it names.                                   *)
(*                                                                         *)
(* A path is a sequence of components, a component the sequence of its     *)
(* dot-separated parts.  A specifier's path is the one the code arrives at *)
(* by joining it to its file's directory (relative) or by putting what the *)
(* alias pattern's * matched into a replacement (aliased).                 *)
(***************************************************************************)
EXTENDS Naturals, Sequences, FiniteSets, SequencesExt, Functions

CONSTANTS
  Targets,      \* the paths of the scanned files, in the order they are merged in
  Names,        \* exported and imported names, DefaultName among them
  Rules,        \* the rules with an extract pass, the one that fills everything first
  Programs,     \* the projects looked at: what each file says
  Specifiers,   \* what they import from
  Extensions,   \* those tried, in order
  Aliases,      \* tsconfig's patterns: prefix and replacements
  MaxHops, DefaultName, NoFile, Idle

VARIABLES
  says,         \* what the files say
  inserted,     \* how many summaries are in: file by file, rule by rule
  index,        \* for each file, the merged summary
  todo,         \* the imports finalize has left
  chase,        \* the one it is following
  resolved      \* (caller, local name) -> where it ended, and what it met

vars == <<says, inserted, index, todo, chase, resolved>>

(***************************************************************************)
(* What a file says: functions it exports where it declares them, those it *)
(* declares only (some of them `listed` in an `export {f}`), its classes,  *)
(* and for each rule the functions that reach its sink.                    *)
(***************************************************************************)
RefTo == [spec : Specifiers, name : Names]
IsText(t) ==
  /\ t.exports \subseteq Names /\ t.locals \subseteq Names /\ t.listed \subseteq t.locals
  /\ t.classes \subseteq Names /\ t.stars \in Seq(Specifiers)
  /\ \E imported, passedOn \in SUBSET Names :
       t.imports \in [imported -> RefTo] /\ t.reExports \in [passedOn -> RefTo]
  /\ t.reaching \in [ToSet(Rules) -> SUBSET Names]

Files == ToSet(Targets)
IsSeq(s) == s \in Seq(ToSet(s))

ASSUME IndexAssumption ==
  /\ IsSeq(Targets) /\ IsSeq(Rules) /\ Targets # <<>> /\ Rules # <<>>
  /\ IsSeq(Extensions) /\ IsSeq(Aliases) /\ \A a \in DOMAIN Aliases : IsSeq(Aliases[a].replacements)
  /\ NoFile \notin Files /\ IsFiniteSet(Names)
  /\ \A s \in Specifiers : s.kind \in {"relative", "aliased", "package"} /\ s.path # <<>>
  /\ MaxHops \in Nat
  /\ \A program \in Programs : DOMAIN program = Files /\ \A f \in Files : IsText(program[f])

-----------------------------------------------------------------------------
\* Path::with_extension replaces what follows the last dot, if there is one.
WithExtension(p, ext) ==
  LET base == Last(p)
  IN  Front(p) \o << IF Len(base) > 1 THEN Append(Front(base), ext) ELSE Append(base, ext) >>
AddExtension(p, ext) == Front(p) \o << Append(Last(p), ext) >>
IndexFile(p, ext) == Append(p, <<"index", ext>>)

\* The first file that was found, of those looked for in order.
FirstOf(found) ==
  IF \A i \in DOMAIN found : found[i] = NoFile THEN NoFile
  ELSE found[CHOOSE i \in DOMAIN found :
               found[i] # NoFile /\ \A j \in DOMAIN found : found[j] # NoFile => i <= j]
Indexed(p) == IF p \in Files THEN p ELSE NoFile
IndexIn(p) == FirstOf([i \in DOMAIN Extensions |-> Indexed(IndexFile(p, Extensions[i]))])

\* resolve_indexed_path.
IndexedPath(p) ==
  FirstOf(<<Indexed(p), FirstOf([i \in DOMAIN Extensions |-> Indexed(WithExtension(p, Extensions[i]))]), IndexIn(p)>>)

\* What TypeScript does: an extension is added; .js stands for .ts.
TsPath(p) ==
  FirstOf(<<Indexed(p), IF Len(Last(p)) > 1 /\ Last(Last(p)) = "js" THEN Indexed(WithExtension(p, "ts")) ELSE NoFile,
            FirstOf([i \in DOMAIN Extensions |-> Indexed(AddExtension(p, Extensions[i]))]), IndexIn(p)>>)

\* apply_alias, for patterns that end in their *.
Rewritten(alias, path) ==
  IF ~IsPrefix(alias.prefix, path) THEN <<>>
  ELSE [r \in DOMAIN alias.replacements |->
          alias.replacements[r] \o SubSeq(path, Len(alias.prefix) + 1, Len(path))]

\* resolve_specifier, for either way of finding the file of a path.
Resolved(spec, File(_)) ==
  CASE spec.kind = "relative" -> File(spec.path)
    [] spec.kind = "aliased" ->
         FirstOf([a \in DOMAIN Aliases |->
           LET paths == Rewritten(Aliases[a], spec.path)
           IN  FirstOf([r \in DOMAIN paths |-> File(paths[r])])])
    [] OTHER -> NoFile
ResolveSpecifier == [spec \in Specifiers |-> Resolved(spec, IndexedPath)]
TsResolve == [spec \in Specifiers |-> Resolved(spec, TsPath)]

-----------------------------------------------------------------------------
(***************************************************************************)
(* The summaries.  The first rule's has everything and the rich fields of  *)
(* its functions; the others bring functions with their own flag.          *)
(***************************************************************************)
ExportsAll(f) == says[f].exports \cup says[f].locals   \* mutant: every function counts as exported
ExportsOf(f) == says[f].exports
Empty == [exports |-> <<>>, locals |-> <<>>, imports |-> <<>>, classes |-> {},
          reExports |-> <<>>, stars |-> <<>>]
Summarised(f, rule, names) ==
  [n \in names |-> [by |-> rule, flags |-> {r \in {rule} : n \in says[f].reaching[r]}]]
SummaryBy(rule, f) ==
  LET functions == [Empty EXCEPT !.exports = Summarised(f, rule, ExportsOf(f)),
                                 !.locals = Summarised(f, rule, says[f].locals)]
  IN  IF rule # Rules[1] THEN functions
      ELSE [functions EXCEPT !.imports = says[f].imports, !.classes = says[f].classes,
                             !.reExports = says[f].reExports, !.stars = says[f].stars]

FirstKept(mine, other) ==
  [n \in DOMAIN mine \cup DOMAIN other |-> IF n \in DOMAIN mine THEN mine[n] ELSE other[n]]
\* merge_per_rule_flags on a name both have: flags are unioned, the rest is kept.
FlagsMerged(mine, other) ==
  [n \in DOMAIN mine \cup DOMAIN other |->
     IF n \notin DOMAIN mine THEN other[n]
     ELSE IF n \notin DOMAIN other THEN mine[n]
     ELSE [by |-> mine[n].by, flags |-> mine[n].flags \cup other[n].flags]]
\* A star source is pushed unless it is there.
Pushed(stars, s) == IF s \in ToSet(stars) THEN stars ELSE Append(stars, s)
StarsPushed(mine, other) ==
  LET pushed[i \in 0..Len(other)] == IF i = 0 THEN mine ELSE Pushed(pushed[i - 1], other[i])
  IN  pushed[Len(other)]
MergeWith(mine, other) ==
  [exports |-> FlagsMerged(mine.exports, other.exports), locals |-> FlagsMerged(mine.locals, other.locals),
   imports |-> FirstKept(mine.imports, other.imports), classes |-> mine.classes \cup other.classes,
   reExports |-> FirstKept(mine.reExports, other.reExports),
   stars |-> StarsPushed(mine.stars, other.stars)]

Init ==
  /\ says \in Programs
  /\ inserted = 0 /\ index = [f \in Files |-> Empty]
  /\ todo = {} /\ chase = Idle /\ resolved = <<>>

Insertions == Len(Targets) * Len(Rules)
RulesIn(f) == {Rules[k] : k \in {k \in DOMAIN Rules :
                 \E t \in DOMAIN Targets : Targets[t] = f /\ (t - 1) * Len(Rules) + k <= inserted}}
InsertFile ==
  LET f == Targets[(inserted \div Len(Rules)) + 1]
      rule == Rules[(inserted % Len(Rules)) + 1]
  IN  /\ inserted < Insertions /\ inserted' = inserted + 1
      /\ index' = [index EXCEPT ![f] = MergeWith(@, SummaryBy(rule, f))]
      /\ todo' = IF inserted' = Insertions
                   THEN UNION {{g} \X DOMAIN index'[g].imports : g \in Files} ELSE {}
      /\ UNCHANGED <<says, chase, resolved>>

-----------------------------------------------------------------------------
\* finalize takes the imports in the order of a hash map.
Start(f, n) ==
  LET ref == index[f].imports[n]
      file == ResolveSpecifier[ref.spec]
  IN  /\ chase = Idle /\ <<f, n>> \in todo
      /\ todo' = todo \ {<<f, n>>}
      /\ chase' = IF file = NoFile THEN Idle
                  ELSE [import |-> <<f, n>>, file |-> file, name |-> ref.name, hops |-> 0,
                        met |-> IF file = TsResolve[ref.spec] THEN {} ELSE {"extension"}]
      /\ UNCHANGED <<says, inserted, index, resolved>>

Defines(f, n) == n \in DOMAIN index[f].exports \cup DOMAIN index[f].locals \cup index[f].classes
MayLeadHere(f, n) == Defines(f, n)                \* mutant: a source must define the name itself
\* A star source that may lead on: it knows the name or has stars of its own.
MayLead(f, n) == Defines(f, n) \/ n \in DOMAIN index[f].reExports \/ index[f].stars # <<>>

StarSource(f, n) ==
  FirstOf([i \in DOMAIN index[f].stars |->
             LET g == ResolveSpecifier[index[f].stars[i]]
             IN  IF g # NoFile /\ MayLead(g, n) THEN g ELSE NoFile])

NextFileStarFirst(f, n) ==                        \* mutant: stars before named re-exports
  IF StarSource(f, n) # NoFile THEN StarSource(f, n)
  ELSE IF n \in DOMAIN index[f].reExports THEN ResolveSpecifier[index[f].reExports[n].spec] ELSE NoFile
NextFile(f, n) ==
  IF n \in DOMAIN index[f].reExports THEN ResolveSpecifier[index[f].reExports[n].spec]
  ELSE StarSource(f, n)

\* History: what the walk may go astray on.
Doubtful(f, n) ==
  (IF n \in DOMAIN index[f].locals THEN {"local"} ELSE {})
  \cup (IF n \notin DOMAIN index[f].reExports /\ Len(index[f].stars) > 1 THEN {"stars"} ELSE {})
  \cup (IF \E s \in ToSet(index[f].stars) \cup {r.spec : r \in Range(index[f].reExports)} :
             ResolveSpecifier[s] # TsResolve[s] THEN {"extension"} ELSE {})

Finish(met) ==
  /\ resolved' = [i \in DOMAIN resolved \cup {chase.import} |->
       IF i = chase.import THEN [file |-> chase.file, name |-> chase.name, met |-> met] ELSE resolved[i]]
  /\ chase' = Idle

\* One turn of chase_re_exports: the name is here, or nowhere from here, or
\* a hop away, or the hops are used up.
Settle ==
  /\ chase # Idle
  /\ \/ chase.hops = MaxHops /\ Finish(chase.met \cup {"hops"})
     \/ /\ chase.hops < MaxHops
        /\ Defines(chase.file, chase.name) \/ NextFile(chase.file, chase.name) = NoFile
        /\ Finish(chase.met \cup Doubtful(chase.file, chase.name))
  /\ UNCHANGED <<says, inserted, index, todo>>

HopsUncounted == chase.hops                       \* mutant
Hops == chase.hops + 1
Hop ==
  LET f == chase.file
      n == chase.name
  IN  /\ chase # Idle /\ chase.hops < MaxHops
      /\ ~Defines(f, n) /\ NextFile(f, n) # NoFile
      /\ chase' = [chase EXCEPT !.file = NextFile(f, n), !.hops = Hops,
                     !.name = IF n \in DOMAIN index[f].reExports THEN index[f].reExports[n].name ELSE n,
                     !.met = @ \cup Doubtful(f, n)]
      /\ UNCHANGED <<says, inserted, index, todo, resolved>>

Next ==
  \/ InsertFile
  \/ \E f \in Files, n \in Names : Start(f, n)
  \/ Settle \/ Hop
Spec == Init /\ [][Next]_vars
FairSpec == Spec /\ WF_vars(Next)

\* resolve_summary and resolve_class look the end of the walk up again.
Found(end) == end.name \in DOMAIN index[end.file].exports \cup index[end.file].classes

-----------------------------------------------------------------------------
(***************************************************************************)
(* What the import means in the language: every definition that named and  *)
(* star re-exports lead to, a name's own export before its re-export, that *)
(* before the stars, and no star for the default export.                   *)
(***************************************************************************)
Exported(f) == says[f].exports \cup says[f].classes \cup says[f].listed
Leads(f, n) ==
  IF n \in Exported(f) THEN {}
  ELSE IF n \in DOMAIN says[f].reExports
    THEN {<<TsResolve[says[f].reExports[n].spec], says[f].reExports[n].name>>}
  ELSE IF n = DefaultName THEN {}
  ELSE {<<TsResolve[s], n>> : s \in ToSet(says[f].stars)}

\* What is at most so many re-exports away; there are no more places than Rounds.
Rounds == MaxHops + Len(Targets) * Cardinality(Names)
Onwards(met) == met \cup {q \in UNION {Leads(p[1], p[2]) : p \in met} : q[1] # NoFile}
Within(start) ==
  LET within[k \in 0..Rounds] == IF k = 0 THEN {start} ELSE Onwards(within[k - 1])
  IN  within
Closure(start) == Within(start)[Rounds]

\* The file an import names, and the definitions it leads to.
Target(f, n) == TsResolve[says[f].imports[n].spec]
Origin(f, n) == <<Target(f, n), says[f].imports[n].name>>
Meaning(f, n) ==
  IF Target(f, n) = NoFile THEN {} ELSE {p \in Closure(Origin(f, n)) : p[2] \in Exported(p[1])}

\* Else the project does not compile: one definition, and no default re-exported that there is not.
Valid(f, n) ==
  /\ Cardinality(Meaning(f, n)) = 1
  /\ \A p \in Closure(Origin(f, n)) :
       p[2] = DefaultName /\ p[2] \notin Exported(p[1]) => Leads(p[1], p[2]) # {}

-----------------------------------------------------------------------------
TypeOK ==
  /\ says \in Programs /\ inserted \in 0..Insertions
  /\ \A f \in Files : LET s == index[f] IN
       /\ DOMAIN s.exports = (IF RulesIn(f) = {} THEN {} ELSE says[f].exports)
       /\ \A n \in DOMAIN s.exports : s.exports[n].flags \subseteq RulesIn(f)
  /\ todo \subseteq Files \X Names
  /\ chase # Idle => chase.file \in Files /\ chase.name \in Names /\ chase.hops \in 0..MaxHops
  /\ \A i \in DOMAIN resolved : i \in Files \X Names /\ resolved[i].file \in Files

\* Nothing a rule found is lost or invented by merging, at any moment, and the rich fields are those of the rule that computes them.
NoFlagLost ==
  \A f \in Files : LET s == index[f] IN
    \A n \in DOMAIN s.exports :
      /\ s.exports[n].by = Rules[1]
      /\ s.exports[n].flags = {r \in RulesIn(f) : n \in says[f].reaching[r]}

\* An import that resolves to a summary resolves to the right function's, in
\* every project that compiles, unless an extension was swapped on the way.
NeverTheWrongFunction ==
  \A i \in DOMAIN resolved :
    Found(resolved[i]) /\ "extension" \notin resolved[i].met /\ Valid(i[1], i[2])
      => <<resolved[i].file, resolved[i].name>> \in Meaning(i[1], i[2])

\* And it does resolve, through any chain of named and single star re-exports
\* that the hops suffice for, and past no unexported function of that name.
PlainChainsResolve ==
  \A i \in DOMAIN resolved :
    resolved[i].met = {} /\ Valid(i[1], i[2]) => Found(resolved[i])

\* finalize gets to the end of every import, through cycles of re-exports too.
EveryImportSettled == <>(todo = {} /\ chase = Idle /\ inserted = Insertions)

\* The comments on finalize and resolve_indexed_path: relative specifiers "are
\* resolved", by "the standard TS/JS module resolution dance".  So an import of
\* a function from the file that exports it is found.
DirectImportsResolve ==
  inserted = Insertions /\ todo = {} /\ chase = Idle =>
    \A f \in Files : \A n \in DOMAIN says[f].imports :
      LET ref == says[f].imports[n]
          target == TsResolve[ref.spec]
      IN  target # NoFile /\ ref.name \in says[target].exports
            => <<f, n>> \in DOMAIN resolved /\ Found(resolved[<<f, n>>])
=============================================================================
