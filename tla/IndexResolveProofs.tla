------------------------- MODULE IndexResolveProofs -------------------------
(***************************************************************************)
(* Theorems about IndexResolve: merging loses and invents no flag, and an  *)
(* import ends at what it means in the language or at no summary at all.   *)
(***************************************************************************)
EXTENDS IndexResolve, WellFoundedInduction, FiniteSetTheorems, TLAPS

-----------------------------------------------------------------------------
(***************************************************************************)
(* Natural numbers, and functions defined by recursion on them.            *)
(***************************************************************************)
\* A set of natural numbers has a least one.
LEMMA LeastNumber ==
  ASSUME NEW T, T \subseteq Nat, T # {}
  PROVE  \E m \in T : \A n \in T : m <= n
<1>1. PICK m \in T : \A n \in T : ~ (<<n, m>> \in OpToRel(<, Nat))
  BY NatLessThanWellFounded, WFMin
<1>2. \A n \in T : ~ (n < m)
  BY <1>1 DEF OpToRel
<1> QED
  BY <1>2

\* f is what recursion makes of a, step by step.
IsRun(f, n, a, step) == f = [i \in 0..n |-> IF i = 0 THEN a ELSE step[i][f[i - 1]]]

\* The function a recursion from 0 to n describes exists.
LEMMA Recursion ==
  ASSUME NEW S, NEW n \in Nat, NEW a \in S, NEW step \in [1..n -> [S -> S]]
  PROVE  \E f \in [0..n -> S] : IsRun(f, n, a, step)
<1> DEFINE Runs(k, f) == \A i \in 0..k : f[i] = IF i = 0 THEN a ELSE step[i][f[i - 1]]
           Stuck == {k \in 0..n : \A f \in [0..k -> S] : ~ Runs(k, f)}
<1>1. Stuck = {}
  <2> SUFFICES ASSUME Stuck # {} PROVE FALSE
    OBVIOUS
  <2>1. PICK m \in Stuck : \A k \in Stuck : m <= k
    <3>1. Stuck \subseteq Nat
      OBVIOUS
    <3> HIDE DEF Stuck
    <3> QED BY <3>1, LeastNumber
  <2>2. m \in 0..n /\ \A f \in [0..m -> S] : ~ Runs(m, f)
    BY <2>1
  <2>3. CASE m = 0
    <3>1. [i \in 0..0 |-> a] \in [0..0 -> S] /\ Runs(0, [i \in 0..0 |-> a])
      OBVIOUS
    <3> QED BY <2>2, <2>3, <3>1
  <2>4. CASE m # 0
    <3>1. m - 1 \in 0..n /\ m - 1 \notin Stuck
      <4>1. m \in 0..n
        BY <2>2
      <4>2. m - 1 \in 0..n /\ ~ (m <= m - 1)
        BY <4>1, <2>4
      <4> HIDE DEF Stuck
      <4> QED BY <4>2, <2>1
    <3>2. PICK f \in [0..(m - 1) -> S] : Runs(m - 1, f)
      BY <3>1
    <3> DEFINE g == [i \in 0..m |-> IF i = m THEN step[m][f[m - 1]] ELSE f[i]]
    <3>3. m \in 1..n /\ m - 1 \in 0..(m - 1)
      BY <2>2, <2>4
    <3>4. step[m][f[m - 1]] \in S
      BY <3>3
    <3>5. \A i \in 0..m : i # m => i \in 0..(m - 1)
      BY <3>3
    <3>6. g \in [0..m -> S]
      BY <3>4, <3>5
    <3>7. Runs(m, g)
      <4> SUFFICES ASSUME NEW i \in 0..m PROVE g[i] = IF i = 0 THEN a ELSE step[i][g[i - 1]]
        OBVIOUS
      <4>1. CASE i = m
        <5>1. g[m] = step[m][f[m - 1]] /\ g[m - 1] = f[m - 1]
          BY <3>3
        <5> QED BY <4>1, <5>1, <2>4
      <4>2. CASE i # m
        <5>1. g[i] = f[i] /\ i \in 0..(m - 1)
          BY <3>5, <4>2
        <5>2. i # 0 => i - 1 \in 0..m /\ i - 1 # m /\ g[i - 1] = f[i - 1]
          BY <3>3, <5>1
        <5> QED BY <3>2, <5>1, <5>2
      <4> QED BY <4>1, <4>2
    <3> QED BY <2>2, <3>6, <3>7
  <2> QED BY <2>3, <2>4
<1>2. PICK f \in [0..n -> S] : Runs(n, f)
  BY <1>1
<1>3. IsRun(f, n, a, step)
  BY <1>2 DEF IsRun
<1> QED
  BY <1>3

-----------------------------------------------------------------------------
(***************************************************************************)
(* Looking files up.                                                       *)
(***************************************************************************)
Place == Files \X Names
Maybe == Files \cup {NoFile}

\* FirstOf finds one of what it looks through, and nothing only if nothing is there.
LEMMA FirstOfFinds ==
  ASSUME NEW D, D \subseteq Nat, NEW found \in [D -> Maybe]
  PROVE  /\ FirstOf(found) \in Maybe
         /\ FirstOf(found) = NoFile => \A i \in D : found[i] = NoFile
         /\ FirstOf(found) # NoFile => \E i \in D : found[i] = FirstOf(found)
<1>1. CASE \A i \in D : found[i] = NoFile
  BY <1>1 DEF FirstOf, Maybe
<1>2. CASE ~ \A i \in D : found[i] = NoFile
  <2> DEFINE There == {i \in D : found[i] # NoFile}
             First(i) == found[i] # NoFile /\ \A j \in D : found[j] # NoFile => i <= j
  <2>1. There # {} /\ There \subseteq Nat
    BY <1>2
  <2>2. \E i \in There : \A j \in There : i <= j
    <3> HIDE DEF There
    <3> QED BY <2>1, LeastNumber
  <2>3. \E i \in D : First(i)
    BY <2>2
  <2>4. (CHOOSE i \in D : First(i)) \in D /\ First(CHOOSE i \in D : First(i))
    <3> HIDE DEF First
    <3> QED BY <2>3
  <2>5. FirstOf(found) = found[CHOOSE i \in D : First(i)]
    BY <1>2 DEF FirstOf
  <2> HIDE DEF There
  <2> QED BY <2>4, <2>5
<1> QED
  BY <1>1, <1>2

LEMMA IndexedIsMaybe ==
  ASSUME NEW p
  PROVE  Indexed(p) \in Maybe
BY DEF Indexed, Maybe

\* The look-ups of resolve_indexed_path are over sequences.
LEMMA ConstantsAreSequences ==
  /\ DOMAIN Extensions \subseteq Nat /\ DOMAIN Aliases \subseteq Nat
  /\ \A a \in DOMAIN Aliases : DOMAIN Aliases[a].replacements \subseteq Nat
<1>1. \A s : IsSeq(s) => DOMAIN s \subseteq Nat
  BY DEF IsSeq
<1> QED
  BY <1>1, IndexAssumption

LEMMA IndexInIsMaybe ==
  ASSUME NEW p
  PROVE  IndexIn(p) \in Maybe
BY FirstOfFinds, IndexedIsMaybe, ConstantsAreSequences DEF IndexIn

LEMMA IndexedPathIsMaybe ==
  ASSUME NEW p
  PROVE  IndexedPath(p) \in Maybe
<1> DEFINE extended == [i \in DOMAIN Extensions |-> Indexed(WithExtension(p, Extensions[i]))]
           tried == <<Indexed(p), FirstOf(extended), IndexIn(p)>>
<1>1. extended \in [DOMAIN Extensions -> Maybe]
  BY IndexedIsMaybe
<1>2. FirstOf(extended) \in Maybe
  <2> HIDE DEF extended
  <2> QED BY <1>1, FirstOfFinds, ConstantsAreSequences
<1>3. tried \in [1..3 -> Maybe] /\ 1..3 \subseteq Nat
  <2> HIDE DEF extended
  <2> QED BY <1>2, IndexedIsMaybe, IndexInIsMaybe
<1>4. FirstOf(tried) \in Maybe
  <2> HIDE DEF tried
  <2> QED BY <1>3, FirstOfFinds
<1> QED
  BY <1>4 DEF IndexedPath

LEMMA TsPathIsMaybe ==
  ASSUME NEW p
  PROVE  TsPath(p) \in Maybe
<1> DEFINE extended == [i \in DOMAIN Extensions |-> Indexed(AddExtension(p, Extensions[i]))]
           script == IF Len(Last(p)) > 1 /\ Last(Last(p)) = "js" THEN Indexed(WithExtension(p, "ts")) ELSE NoFile
           tried == <<Indexed(p), script, FirstOf(extended), IndexIn(p)>>
<1>1. extended \in [DOMAIN Extensions -> Maybe]
  BY IndexedIsMaybe
<1>2. FirstOf(extended) \in Maybe
  <2> HIDE DEF extended
  <2> QED BY <1>1, FirstOfFinds, ConstantsAreSequences
<1>3. script \in Maybe
  BY IndexedIsMaybe DEF Maybe
<1>4. tried \in [1..4 -> Maybe] /\ 1..4 \subseteq Nat
  <2> HIDE DEF extended, script
  <2> QED BY <1>2, <1>3, IndexedIsMaybe, IndexInIsMaybe
<1>5. FirstOf(tried) \in Maybe
  <2> HIDE DEF tried
  <2> QED BY <1>4, FirstOfFinds
<1> QED
  BY <1>5 DEF TsPath

LEMMA RewrittenIsSequence ==
  ASSUME NEW a \in DOMAIN Aliases, NEW path
  PROVE  DOMAIN Rewritten(Aliases[a], path) \subseteq Nat
BY ConstantsAreSequences DEF Rewritten

\* Both ways of resolving a specifier find a scanned file or none.
LEMMA ResolveSpecifierFinds ==
  ASSUME NEW spec \in Specifiers
  PROVE  ResolveSpecifier[spec] \in Maybe
<1> DEFINE replaced(a) == LET paths == Rewritten(Aliases[a], spec.path)
                          IN  FirstOf([r \in DOMAIN paths |-> IndexedPath(paths[r])])
           via == [a \in DOMAIN Aliases |-> replaced(a)]
<1>1. ASSUME NEW a \in DOMAIN Aliases PROVE replaced(a) \in Maybe
  BY FirstOfFinds, IndexedPathIsMaybe, RewrittenIsSequence
<1>2. FirstOf(via) \in Maybe
  <2>1. via \in [DOMAIN Aliases -> Maybe]
    <3> HIDE DEF replaced
    <3> QED BY <1>1
  <2> HIDE DEF via
  <2> QED BY <2>1, FirstOfFinds, ConstantsAreSequences
<1>3. ResolveSpecifier[spec] = CASE spec.kind = "relative" -> IndexedPath(spec.path)
                                 [] spec.kind = "aliased" -> FirstOf(via)
                                 [] OTHER -> NoFile
  BY DEF ResolveSpecifier, Resolved
<1> HIDE DEF via
<1> QED
  BY <1>2, <1>3, IndexedPathIsMaybe, IndexAssumption DEF Maybe

LEMMA TsResolveFinds ==
  ASSUME NEW spec \in Specifiers
  PROVE  TsResolve[spec] \in Maybe
<1> DEFINE replaced(a) == LET paths == Rewritten(Aliases[a], spec.path)
                          IN  FirstOf([r \in DOMAIN paths |-> TsPath(paths[r])])
           via == [a \in DOMAIN Aliases |-> replaced(a)]
<1>1. ASSUME NEW a \in DOMAIN Aliases PROVE replaced(a) \in Maybe
  BY FirstOfFinds, TsPathIsMaybe, RewrittenIsSequence
<1>2. FirstOf(via) \in Maybe
  <2>1. via \in [DOMAIN Aliases -> Maybe]
    <3> HIDE DEF replaced
    <3> QED BY <1>1
  <2> HIDE DEF via
  <2> QED BY <2>1, FirstOfFinds, ConstantsAreSequences
<1>3. TsResolve[spec] = CASE spec.kind = "relative" -> TsPath(spec.path)
                          [] spec.kind = "aliased" -> FirstOf(via)
                          [] OTHER -> NoFile
  BY DEF TsResolve, Resolved
<1> HIDE DEF via
<1> QED
  BY <1>2, <1>3, TsPathIsMaybe, IndexAssumption DEF Maybe

-----------------------------------------------------------------------------
(***************************************************************************)
(* Merging summaries.                                                      *)
(***************************************************************************)
LEMMA PushedStars ==
  ASSUME NEW stars \in Seq(Specifiers), NEW s \in Specifiers
  PROVE  /\ Pushed(stars, s) \in Seq(Specifiers)
         /\ ToSet(Pushed(stars, s)) = ToSet(stars) \cup {s}
<1>1. CASE s \in ToSet(stars)
  BY <1>1 DEF Pushed
<1>2. CASE s \notin ToSet(stars)
  <2>1. Pushed(stars, s) = Append(stars, s)
    BY <1>2 DEF Pushed
  <2> DEFINE more == Append(stars, s)
  <2>2. /\ more \in Seq(Specifiers) /\ Len(more) = Len(stars) + 1
        /\ DOMAIN more = 1..(Len(stars) + 1)
        /\ \A i \in 1..Len(stars) : more[i] = stars[i]
        /\ more[Len(stars) + 1] = s
    OBVIOUS
  <2>3. ToSet(more) = ToSet(stars) \cup {s}
    <3>1. DOMAIN more = DOMAIN stars \cup {Len(stars) + 1}
      BY <2>2
    <3>2. \A i \in DOMAIN stars : more[i] = stars[i]
      BY <2>2
    <3> HIDE DEF more
    <3> QED BY <3>1, <3>2, <2>2 DEF ToSet
  <2> QED BY <2>1, <2>2, <2>3
<1> QED
  BY <1>1, <1>2

\* Pushing the stars of another summary adds exactly those, and nothing if all are there.
LEMMA StarsPushedAdds ==
  ASSUME NEW mine \in Seq(Specifiers), NEW other \in Seq(Specifiers)
  PROVE  /\ StarsPushed(mine, other) \in Seq(Specifiers)
         /\ ToSet(StarsPushed(mine, other)) = ToSet(mine) \cup ToSet(other)
         /\ ToSet(other) \subseteq ToSet(mine) => StarsPushed(mine, other) = mine
<1> DEFINE n == Len(other)
           S == Seq(Specifiers)
           step == [i \in 1..n |-> [stars \in S |-> Pushed(stars, other[i])]]
           Runs(g) == g = [i \in 0..n |-> IF i = 0 THEN mine ELSE Pushed(g[i - 1], other[i])]
           run == CHOOSE g : Runs(g)
<1>1. n \in Nat /\ \A i \in 1..n : other[i] \in Specifiers
  OBVIOUS
<1>2. \E f : Runs(f)
  <2>1. step \in [1..n -> [S -> S]]
    BY <1>1, PushedStars
  <2>2. \E f \in [0..n -> S] : IsRun(f, n, mine, step)
    <3>1. mine \in S
      OBVIOUS
    <3>2. n \in Nat
      OBVIOUS
    <3> HIDE DEF S, n, step, Runs, run
    <3> QED BY <2>1, <3>1, <3>2, Recursion
  <2>3. PICK f \in [0..n -> S] : f = [i \in 0..n |-> IF i = 0 THEN mine ELSE step[i][f[i - 1]]]
    BY <2>2 DEF IsRun
  <2>4. \A i \in 0..n : i # 0 => step[i][f[i - 1]] = Pushed(f[i - 1], other[i])
    <3> TAKE i \in 0..n
    <3> HAVE i # 0
    <3>1. i \in 1..n /\ i - 1 \in 0..n
      BY <1>1
    <3> HIDE DEF n, S
    <3> QED BY <3>1
  <2>5. Runs(f)
    <3> HIDE DEF step, n
    <3> QED BY <2>3, <2>4
  <2> QED BY <2>5
<1>3. Runs(run)
  <2> HIDE DEF Runs
  <2> QED BY <1>2
<1>4. StarsPushed(mine, other) = run[n]
  BY DEF StarsPushed
<1>5. run[0] = mine /\ \A i \in 1..n : run[i] = Pushed(run[i - 1], other[i])
  <2> HIDE DEF run
  <2>1. 0 \in 0..n /\ \A i \in 1..n : i \in 0..n /\ i # 0
    BY <1>1
  <2> HIDE DEF n
  <2> QED BY <1>3, <2>1
<1> DEFINE Good(i) == /\ run[i] \in Seq(Specifiers)
                      /\ ToSet(run[i]) = ToSet(mine) \cup {other[j] : j \in 1..i}
                      /\ ToSet(other) \subseteq ToSet(mine) => run[i] = mine
           Bad == {i \in 0..n : ~ Good(i)}
<1>6. Good(0)
  <2> HIDE DEF run
  <2>1. {other[j] : j \in 1..0} = {}
    OBVIOUS
  <2> QED BY <2>1, <1>5
<1>7. ASSUME NEW i \in 1..n, Good(i - 1) PROVE Good(i)
  <2> HIDE DEF run
  <2>1. other[i] \in Specifiers /\ other[i] \in ToSet(other)
    BY <1>1 DEF ToSet
  <2>2. ToSet(run[i]) = ToSet(run[i - 1]) \cup {other[i]} /\ run[i] \in Seq(Specifiers)
    BY <2>1, <1>5, <1>7, PushedStars
  <2>3. 1..i = (1..(i - 1)) \cup {i}
    BY <1>1
  <2>4. ToSet(run[i]) = ToSet(mine) \cup {other[j] : j \in 1..i}
    BY <2>2, <2>3, <1>7
  <2>5. ToSet(other) \subseteq ToSet(mine) => run[i] = mine
    BY <2>1, <1>5, <1>7 DEF Pushed
  <2> QED BY <2>2, <2>4, <2>5
<1>8. Bad = {}
  <2> HIDE DEF Good, run
  <2> SUFFICES ASSUME Bad # {} PROVE FALSE
    OBVIOUS
  <2>1. Bad \subseteq Nat
    BY <1>1
  <2>2. PICK m \in Bad : \A k \in Bad : m <= k
    <3> HIDE DEF Bad
    <3> QED BY <2>1, LeastNumber
  <2>3. m \in 0..n /\ ~ Good(m)
    BY <2>2 DEF IsRun
  <2>4. m \in 1..n /\ m - 1 \in 0..n /\ ~ (m <= m - 1)
    BY <2>3, <1>6, <1>1
  <2>5. Good(m - 1)
    BY <2>4, <2>2
  <2> QED BY <2>3, <2>4, <2>5, <1>7
<1>9. Good(n)
  <2> HIDE DEF Good
  <2> QED BY <1>8, <1>1
<1>10. {other[j] : j \in 1..n} = ToSet(other)
  BY DEF ToSet
<1> QED
  BY <1>4, <1>9, <1>10

-----------------------------------------------------------------------------
(***************************************************************************)
(* What imports mean in the language.                                      *)
(***************************************************************************)
LEMMA TextOf ==
  ASSUME says \in Programs, NEW f \in Files
  PROVE  /\ IsText(says[f])
         /\ \A n \in DOMAIN says[f].imports : n \in Names /\ says[f].imports[n] \in RefTo
         /\ \A n \in DOMAIN says[f].reExports : n \in Names /\ says[f].reExports[n] \in RefTo
         /\ \A s \in ToSet(says[f].stars) : s \in Specifiers
<1>1. IsText(says[f])
  BY IndexAssumption
<1>2. \A s \in ToSet(says[f].stars) : s \in Specifiers
  BY <1>1 DEF IsText, ToSet
<1> QED
  BY <1>1, <1>2 DEF IsText

LEMMA LeadsToPlaces ==
  ASSUME says \in Programs, NEW p \in Place, NEW q \in Leads(p[1], p[2]), q[1] # NoFile
  PROVE  q \in Place
<1> DEFINE f == p[1]
           n == p[2]
<1>1. f \in Files /\ n \in Names
  BY DEF Place
<1>2. CASE n \in DOMAIN says[f].reExports
  <2>1. q = <<TsResolve[says[f].reExports[n].spec], says[f].reExports[n].name>>
    BY <1>2 DEF Leads
  <2>2. says[f].reExports[n].spec \in Specifiers /\ says[f].reExports[n].name \in Names
    BY <1>1, <1>2, TextOf DEF RefTo
  <2> QED BY <2>1, <2>2, TsResolveFinds DEF Place, Maybe
<1>3. CASE n \notin DOMAIN says[f].reExports
  <2>1. PICK s \in ToSet(says[f].stars) : q = <<TsResolve[s], n>>
    BY <1>3 DEF Leads
  <2>2. s \in Specifiers
    BY <1>1, TextOf
  <2> QED BY <1>1, <2>1, <2>2, TsResolveFinds DEF Place, Maybe
<1> QED
  BY <1>2, <1>3

LEMMA OnwardsStays ==
  ASSUME says \in Programs, NEW met \in SUBSET Place
  PROVE  Onwards(met) \in SUBSET Place
BY LeadsToPlaces DEF Onwards

LEMMA RoundsIsNat == Rounds \in Nat /\ MaxHops \in 0..Rounds
<1>1. Len(Targets) \in Nat
  BY IndexAssumption DEF IsSeq
<1>2. Cardinality(Names) \in Nat
  BY IndexAssumption, FS_CardinalityType
<1> DEFINE a == Len(Targets)
           b == Cardinality(Names)
<1>3. a * b \in Nat
  <2> HIDE DEF a, b
  <2>1. a \in Nat /\ b \in Nat
    BY <1>1, <1>2 DEF a, b
  <2> QED BY <2>1
<1>4. Rounds = MaxHops + a * b
  BY DEF Rounds
<1> HIDE DEF a, b
<1> QED
  BY <1>3, <1>4, IndexAssumption

\* Within is what its recursion says.
LEMMA WithinSteps ==
  ASSUME says \in Programs, NEW start \in Place
  PROVE  /\ Within(start)[0] = {start}
         /\ \A k \in 1..Rounds : Within(start)[k] = Onwards(Within(start)[k - 1])
<1> DEFINE n == Rounds
           S == SUBSET Place
           step == [i \in 1..n |-> [met \in S |-> Onwards(met)]]
           Runs(g) == g = [k \in 0..n |-> IF k = 0 THEN {start} ELSE Onwards(g[k - 1])]
           run == CHOOSE g : Runs(g)
<1>1. n \in Nat
  BY RoundsIsNat
<1>2. \E f : Runs(f)
  <2>1. step \in [1..n -> [S -> S]]
    BY OnwardsStays
  <2>2. \E f \in [0..n -> S] : IsRun(f, n, {start}, step)
    <3>1. {start} \in S
      OBVIOUS
    <3> HIDE DEF S, n, step, Runs, run
    <3> QED BY <1>1, <2>1, <3>1, Recursion
  <2>3. PICK f \in [0..n -> S] : f = [i \in 0..n |-> IF i = 0 THEN {start} ELSE step[i][f[i - 1]]]
    BY <2>2 DEF IsRun
  <2>4. \A i \in 0..n : i # 0 => step[i][f[i - 1]] = Onwards(f[i - 1])
    <3> TAKE i \in 0..n
    <3> HAVE i # 0
    <3>1. i \in 1..n /\ i - 1 \in 0..n
      BY <1>1
    <3> HIDE DEF n, S
    <3> QED BY <3>1
  <2>5. Runs(f)
    <3> HIDE DEF step, n
    <3> QED BY <2>3, <2>4
  <2> QED BY <2>5
<1>3. Runs(run)
  <2> HIDE DEF Runs
  <2> QED BY <1>2
<1>4. Within(start) = run
  BY DEF Within
<1>5. run[0] = {start} /\ \A i \in 1..n : run[i] = Onwards(run[i - 1])
  <2> HIDE DEF run
  <2>1. 0 \in 0..n /\ \A i \in 1..n : i \in 0..n /\ i # 0
    BY <1>1
  <2> HIDE DEF n
  <2> QED BY <1>3, <2>1
<1> QED
  BY <1>4, <1>5

\* An induction over the rounds.
LEMMA WithinKeeps ==
  ASSUME says \in Programs, NEW start \in Place, NEW T, start \in T,
         \A met \in SUBSET T : Onwards(met) \subseteq T,
         NEW k \in 0..Rounds
  PROVE  Within(start)[k] \subseteq T
<1> DEFINE Bad == {i \in 0..Rounds : ~ (Within(start)[i] \subseteq T)}
<1> SUFFICES ASSUME Bad # {} PROVE FALSE
  OBVIOUS
<1>1. Bad \subseteq Nat
  BY RoundsIsNat
<1>2. PICK m \in Bad : \A i \in Bad : m <= i
  <2> HIDE DEF Bad
  <2> QED BY <1>1, LeastNumber
<1>3. m \in 0..Rounds /\ ~ (Within(start)[m] \subseteq T)
  BY <1>2
<1>4. m # 0
  BY <1>3, WithinSteps
<1>5. m \in 1..Rounds /\ m - 1 \in 0..Rounds /\ ~ (m <= m - 1)
  BY <1>3, <1>4, RoundsIsNat
<1>6. Within(start)[m - 1] \subseteq T
  BY <1>2, <1>5
<1> QED
  BY <1>3, <1>5, <1>6, WithinSteps

\* What a place leads to is a round further.
LEMMA LeadsWithin ==
  ASSUME says \in Programs, NEW start \in Place, NEW k \in 0..Rounds, k # Rounds,
         NEW p \in Within(start)[k], NEW q \in Leads(p[1], p[2]), q[1] # NoFile
  PROVE  q \in Within(start)[k + 1]
<1>1. k + 1 \in 1..Rounds /\ (k + 1) - 1 = k
  BY RoundsIsNat
<1>2. Within(start)[k + 1] = Onwards(Within(start)[k])
  BY <1>1, WithinSteps
<1> QED
  BY <1>2 DEF Onwards

LEMMA WithinGrows ==
  ASSUME says \in Programs, NEW start \in Place, NEW k \in 0..Rounds
  PROVE  Within(start)[k] \subseteq Closure(start)
<1> DEFINE Lost == {i \in 0..Rounds : ~ (Within(start)[Rounds - i] \subseteq Within(start)[Rounds])}
<1>1. Lost = {}
  <2> SUFFICES ASSUME Lost # {} PROVE FALSE
    OBVIOUS
  <2>1. Lost \subseteq Nat
    BY RoundsIsNat
  <2>2. PICK m \in Lost : \A i \in Lost : m <= i
    <3> HIDE DEF Lost
    <3> QED BY <2>1, LeastNumber
  <2>3. m \in 0..Rounds /\ ~ (Within(start)[Rounds - m] \subseteq Within(start)[Rounds])
    BY <2>2
  <2>4. m # 0
    BY <2>3, RoundsIsNat
  <2>5. m - 1 \in 0..Rounds /\ ~ (m <= m - 1) /\ Rounds - (m - 1) \in 1..Rounds
        /\ (Rounds - (m - 1)) - 1 = Rounds - m
    BY <2>3, <2>4, RoundsIsNat
  <2>6. Within(start)[Rounds - (m - 1)] \subseteq Within(start)[Rounds]
    BY <2>2, <2>5
  <2>7. Within(start)[Rounds - (m - 1)] = Onwards(Within(start)[Rounds - m])
    BY <2>5, WithinSteps
  <2> QED BY <2>3, <2>6, <2>7 DEF Onwards
<1>2. Rounds - k \in 0..Rounds /\ Rounds - (Rounds - k) = k
  BY RoundsIsNat
<1> QED
  BY <1>1, <1>2 DEF Closure

-----------------------------------------------------------------------------
(***************************************************************************)
(* Whose turn it is: file by file, rule by rule.                           *)
(***************************************************************************)
LEMMA TimesMonotone ==
  ASSUME NEW a \in Nat, NEW b \in Nat, NEW c \in Nat, a <= b
  PROVE  a * c <= b * c
<1>1. PICK d \in Nat : b = a + d
  <2>1. b - a \in Nat /\ b = a + (b - a)
    OBVIOUS
  <2> QED BY <2>1
<1>2. b * c = a * c + d * c /\ d * c \in Nat
  BY <1>1
<1>3. a * c \in Nat
  OBVIOUS
<1> QED
  BY <1>2, <1>3

LEMMA DivMod ==
  ASSUME NEW i \in Nat, NEW n \in Nat, n # 0
  PROVE  /\ i \div n \in Nat /\ i % n \in 0..(n - 1)
         /\ i = (i \div n) * n + (i % n)
OBVIOUS

LEMMA SameTurn ==
  ASSUME NEW n \in Nat, NEW a \in Nat, NEW b \in Nat, NEW j \in 1..n, NEW k \in 1..n,
         a * n + j = b * n + k
  PROVE  a = b /\ j = k
<1>1. ~ (a < b)
  <2> SUFFICES ASSUME a < b PROVE FALSE
    OBVIOUS
  <2>1. (a + 1) * n <= b * n
    BY TimesMonotone
  <2>2. (a + 1) * n = a * n + n
    OBVIOUS
  <2>3. a * n \in Nat /\ b * n \in Nat
    OBVIOUS
  <2> QED BY <2>1, <2>2, <2>3
<1>2. ~ (b < a)
  <2> SUFFICES ASSUME b < a PROVE FALSE
    OBVIOUS
  <2>1. (b + 1) * n <= a * n
    BY TimesMonotone
  <2>2. (b + 1) * n = b * n + n
    OBVIOUS
  <2>3. a * n \in Nat /\ b * n \in Nat
    OBVIOUS
  <2> QED BY <2>1, <2>2, <2>3
<1>3. a = b
  BY <1>1, <1>2
<1>4. a * n \in Nat
  OBVIOUS
<1> QED
  BY <1>3, <1>4

\* The rules whose summary of f is in after i insertions.
RulesAt(f, i) ==
  {Rules[k] : k \in {k \in DOMAIN Rules :
     \E t \in DOMAIN Targets : Targets[t] = f /\ (t - 1) * Len(Rules) + k <= i}}

LEMMA Lengths ==
  /\ Len(Targets) \in Nat \ {0} /\ DOMAIN Targets = 1..Len(Targets)
  /\ Len(Rules) \in Nat \ {0} /\ DOMAIN Rules = 1..Len(Rules)
  /\ Insertions \in Nat /\ Insertions = Len(Targets) * Len(Rules)
<1>1. Len(Targets) \in Nat /\ DOMAIN Targets = 1..Len(Targets) /\ Len(Targets) # 0
  BY IndexAssumption DEF IsSeq
<1>2. Len(Rules) \in Nat /\ DOMAIN Rules = 1..Len(Rules) /\ Len(Rules) # 0
  BY IndexAssumption DEF IsSeq
<1> QED
  BY <1>1, <1>2 DEF Insertions

\* The insertion after i is that of file t0's rule k0, and a file's first rule comes first.
IsTurn(i, t0, k0) ==
  /\ t0 \in DOMAIN Targets /\ k0 \in DOMAIN Rules
  /\ \A f : RulesAt(f, i + 1) = RulesAt(f, i) \cup (IF f = Targets[t0] THEN {Rules[k0]} ELSE {})
  /\ k0 # 1 => RulesAt(Targets[t0], i) # {}

LEMMA TurnIs ==
  ASSUME NEW i \in Nat, i < Insertions, NEW n \in Nat \ {0}, n = Len(Rules),
         NEW a \in Nat, NEW t0 \in Nat, t0 - 1 = a, NEW k0 \in 1..n, i + 1 = a * n + k0
  PROVE  IsTurn(i, t0, k0)
<1>1. a * n \in Nat
  OBVIOUS
<1>2. a < Len(Targets)
  <2> SUFFICES ASSUME ~ (a < Len(Targets)) PROVE FALSE
    OBVIOUS
  <2>1. Len(Targets) * n <= a * n
    BY Lengths, TimesMonotone
  <2>2. i < Len(Targets) * n /\ Len(Targets) * n \in Nat
    BY Lengths
  <2> QED BY <1>1, <2>1, <2>2
<1>3. t0 \in DOMAIN Targets /\ k0 \in DOMAIN Rules
  BY <1>1, <1>2, Lengths
<1>4. ASSUME NEW f PROVE RulesAt(f, i + 1) = RulesAt(f, i) \cup (IF f = Targets[t0] THEN {Rules[k0]} ELSE {})
  <2> DEFINE In(t, k, j) == Targets[t] = f /\ (t - 1) * n + k <= j
  <2>1. ASSUME NEW t \in DOMAIN Targets, NEW k \in DOMAIN Rules
        PROVE  In(t, k, i + 1) <=> (In(t, k, i) \/ (Targets[t] = f /\ t = t0 /\ k = k0))
    <3>1. t - 1 \in Nat /\ k \in 1..n /\ t \in Nat
      BY Lengths
    <3>2. (t - 1) * n + k = i + 1 => t = t0 /\ k = k0
      <4> SUFFICES ASSUME (t - 1) * n + k = i + 1 PROVE t = t0 /\ k = k0
        OBVIOUS
      <4>1. (t - 1) * n + k = a * n + k0
        OBVIOUS
      <4>2. t - 1 = a /\ k = k0
        <5> DEFINE c == t - 1
        <5>1. c \in Nat
          BY <3>1
        <5>2. k \in 1..n /\ k0 \in 1..n /\ n \in Nat
          BY <3>1
        <5>3. c * n + k = a * n + k0
          BY <4>1
        <5> HIDE DEF c
        <5>4. c = a /\ k = k0
          BY <5>1, <5>2, <5>3, SameTurn
        <5> QED BY <5>4 DEF c
      <4> QED BY <4>2, <3>1
    <3>3. t = t0 /\ k = k0 => (t - 1) * n + k = i + 1
      <4>1. t = t0 => t - 1 = a
        OBVIOUS
      <4> QED BY <4>1
    <3> DEFINE at == (t - 1) * n + k
    <3>4. at \in Nat
      <4>1. (t - 1) * n \in Nat
        BY <3>1
      <4> QED BY <4>1, <3>1
    <3> HIDE DEF at
    <3>5. at <= i + 1 <=> (at <= i \/ at = i + 1)
      BY <3>4
    <3> QED BY <3>2, <3>3, <3>5 DEF at
  <2>2. RulesAt(f, i + 1) = {Rules[k] : k \in {k \in DOMAIN Rules : \E t \in DOMAIN Targets : In(t, k, i + 1)}}
        /\ RulesAt(f, i) = {Rules[k] : k \in {k \in DOMAIN Rules : \E t \in DOMAIN Targets : In(t, k, i)}}
    BY DEF RulesAt
  <2>3. ASSUME NEW k \in DOMAIN Rules
        PROVE  (\E t \in DOMAIN Targets : In(t, k, i + 1))
                 <=> ((\E t \in DOMAIN Targets : In(t, k, i)) \/ (Targets[t0] = f /\ k = k0))
    <3> HIDE DEF In
    <3> QED BY <2>1, <1>3
  <2> HIDE DEF In
  <2> QED BY <2>2, <2>3, <1>3
<1>5. k0 # 1 => RulesAt(Targets[t0], i) # {}
  <2> SUFFICES ASSUME k0 # 1 PROVE RulesAt(Targets[t0], i) # {}
    OBVIOUS
  <2>1. (t0 - 1) * n + 1 <= i
    <3>1. (t0 - 1) * n = a * n
      OBVIOUS
    <3> QED BY <3>1, <1>1
  <2>2. 1 \in DOMAIN Rules
    BY Lengths
  <2>3. Rules[1] \in RulesAt(Targets[t0], i)
    BY <2>1, <2>2, <1>3 DEF RulesAt
  <2> QED BY <2>3
<1> QED
  BY <1>3, <1>4, <1>5 DEF IsTurn

\* It is the turn the indices of the code say.
LEMMA NextTurn ==
  ASSUME NEW i \in Nat, i < Insertions
  PROVE  IsTurn(i, (i \div Len(Rules)) + 1, (i % Len(Rules)) + 1)
<1> DEFINE n == Len(Rules)
           a == i \div n
           t0 == a + 1
           k0 == (i % n) + 1
<1>1. n \in Nat \ {0}
  BY Lengths
<1>2. a \in Nat /\ i % n \in 0..(n - 1) /\ i = a * n + (i % n)
  BY <1>1, DivMod
<1>3. t0 \in Nat /\ t0 - 1 = a /\ k0 \in 1..n /\ i + 1 = a * n + k0
  <2> DEFINE m == i % n
             b == a * n
  <2>1. b \in Nat
    <3> HIDE DEF a, n
    <3> QED BY <1>1, <1>2
  <2>2. m \in 0..(n - 1) /\ i = b + m /\ k0 = m + 1 /\ t0 = a + 1
    BY <1>2
  <2> HIDE DEF m, b, a, t0, k0, n
  <2>3. i + 1 = b + k0
    BY <2>1, <2>2, <1>1
  <2> QED BY <2>2, <2>3, <1>1, <1>2 DEF b
<1> HIDE DEF t0, k0, a, n
<1>4. n = Len(Rules)
  BY DEF n
<1>6. a \in Nat
  BY <1>2
<1>7. t0 \in Nat
  BY <1>3
<1>8. k0 \in 1..n
  BY <1>3
<1>9. t0 - 1 = a /\ i + 1 = a * n + k0
  BY <1>3
<1>5. IsTurn(i, t0, k0)
  BY <1>1, <1>4, <1>6, <1>7, <1>8, <1>9, TurnIs
<1> QED
  BY <1>5 DEF t0, k0, a, n

\* In the end every file has been summarised.
LEMMA AllSummarised ==
  ASSUME NEW f \in Files
  PROVE  RulesAt(f, Insertions) # {}
<1>1. PICK t \in DOMAIN Targets : Targets[t] = f
  BY DEF Files, ToSet
<1>2. t - 1 \in Nat /\ t <= Len(Targets) /\ t \in Nat
  BY Lengths
<1> DEFINE n == Len(Rules)
<1>3. t * n <= Len(Targets) * n
  BY <1>2, Lengths, TimesMonotone
<1>4. (t - 1) * n + n = t * n /\ (t - 1) * n \in Nat
  <2> HIDE DEF n
  <2> QED BY <1>2, Lengths DEF n
<1>5. (t - 1) * n + 1 <= Insertions
  <2>1. n \in Nat /\ 1 <= n
    BY Lengths
  <2>2. Insertions = Len(Targets) * n /\ Insertions \in Nat
    BY Lengths
  <2> HIDE DEF n
  <2> QED BY <1>3, <1>4, <2>1, <2>2
<1>6. 1 \in DOMAIN Rules
  BY Lengths
<1>7. Rules[1] \in RulesAt(f, Insertions)
  BY <1>1, <1>5, <1>6 DEF RulesAt
<1> QED
  BY <1>7

-----------------------------------------------------------------------------
(***************************************************************************)
(* What is in the index after any number of insertions.                    *)
(***************************************************************************)
\* Functions of f with the flags of some rules, and all that is known of f from them.
Gathered(f, names, rules) ==
  [n \in names |-> [by |-> Rules[1], flags |-> {r \in rules : n \in says[f].reaching[r]}]]
Gist(f, rules) ==
  IF rules = {} THEN Empty
  ELSE [exports |-> Gathered(f, says[f].exports, rules), locals |-> Gathered(f, says[f].locals, rules),
        imports |-> says[f].imports, classes |-> says[f].classes,
        reExports |-> says[f].reExports, stars |-> StarsPushed(<<>>, says[f].stars)]

LEMMA NothingIsEmpty ==
  /\ DOMAIN <<>> = {} /\ ToSet(<<>>) = {} /\ <<>> \in Seq(Specifiers)
BY DEF ToSet

LEMMA MergedFirst ==
  ASSUME NEW f, NEW names
  PROVE  FlagsMerged(<<>>, Summarised(f, Rules[1], names)) = Gathered(f, names, {Rules[1]})
<1>1. DOMAIN Summarised(f, Rules[1], names) = names
  BY DEF Summarised
<1>2. \A n \in names : Summarised(f, Rules[1], names)[n]
                         = [by |-> Rules[1], flags |-> {r \in {Rules[1]} : n \in says[f].reaching[r]}]
  BY DEF Summarised
<1> QED
  BY <1>1, <1>2, NothingIsEmpty DEF FlagsMerged, Gathered

LEMMA MergedLater ==
  ASSUME NEW f, NEW names, NEW rules, NEW rule
  PROVE  FlagsMerged(Gathered(f, names, rules), Summarised(f, rule, names)) = Gathered(f, names, rules \cup {rule})
<1> DEFINE mine == Gathered(f, names, rules)
           other == Summarised(f, rule, names)
           flagged(n, some) == {r \in some : n \in says[f].reaching[r]}
<1>1. /\ DOMAIN mine = names /\ DOMAIN other = names
      /\ \A n \in names : /\ mine[n] = [by |-> Rules[1], flags |-> flagged(n, rules)]
                          /\ other[n] = [by |-> rule, flags |-> flagged(n, {rule})]
  BY DEF Gathered, Summarised
<1>2. FlagsMerged(mine, other) = [n \in names |-> [by |-> mine[n].by, flags |-> mine[n].flags \cup other[n].flags]]
  <2> HIDE DEF mine, other
  <2> QED BY <1>1 DEF FlagsMerged
<1>3. ASSUME NEW n \in names
      PROVE  [by |-> mine[n].by, flags |-> mine[n].flags \cup other[n].flags]
               = [by |-> Rules[1], flags |-> flagged(n, rules \cup {rule})]
  <2>1. flagged(n, rules) \cup flagged(n, {rule}) = flagged(n, rules \cup {rule})
    OBVIOUS
  <2> HIDE DEF mine, other, flagged
  <2>2. other[n].flags = flagged(n, {rule}) /\ mine[n].by = Rules[1] /\ mine[n].flags = flagged(n, rules)
    BY <1>1
  <2> QED BY <2>1, <2>2
<1>4. Gathered(f, names, rules \cup {rule}) = [n \in names |-> [by |-> Rules[1], flags |-> flagged(n, rules \cup {rule})]]
  BY DEF Gathered
<1> HIDE DEF mine, other, flagged
<1> QED
  BY <1>2, <1>3, <1>4 DEF mine, other

LEMMA KeptFirst ==
  ASSUME NEW g, NEW S, NEW D, g \in [D -> S]
  PROVE  FirstKept(<<>>, g) = g /\ FirstKept(g, <<>>) = g /\ FirstKept(g, g) = g
BY NothingIsEmpty DEF FirstKept

\* The parts of a rule's summary of f.
LEMMA SummaryParts ==
  ASSUME NEW f, NEW rule
  PROVE  /\ SummaryBy(rule, f).exports = Summarised(f, rule, says[f].exports)
         /\ SummaryBy(rule, f).locals = Summarised(f, rule, says[f].locals)
         /\ SummaryBy(rule, f).imports = IF rule = Rules[1] THEN says[f].imports ELSE <<>>
         /\ SummaryBy(rule, f).classes = IF rule = Rules[1] THEN says[f].classes ELSE {}
         /\ SummaryBy(rule, f).reExports = IF rule = Rules[1] THEN says[f].reExports ELSE <<>>
         /\ SummaryBy(rule, f).stars = IF rule = Rules[1] THEN says[f].stars ELSE <<>>
BY DEF SummaryBy, Empty, ExportsOf

\* Merging in one more rule's summary adds that rule to those known, and nothing else.
LEMMA MergeAdds ==
  ASSUME says \in Programs, NEW f \in Files, NEW rules, NEW rule, rules = {} => rule = Rules[1]
  PROVE  MergeWith(Gist(f, rules), SummaryBy(rule, f)) = Gist(f, rules \cup {rule})
<1> DEFINE other == SummaryBy(rule, f)
           mine == Gist(f, rules)
           t == says[f]
<1>1. /\ \E D : t.imports \in [D -> RefTo]
      /\ \E D : t.reExports \in [D -> RefTo]
      /\ t.stars \in Seq(Specifiers)
  BY TextOf DEF IsText
<1>2. /\ FirstKept(<<>>, t.imports) = t.imports /\ FirstKept(t.imports, <<>>) = t.imports
      /\ FirstKept(t.imports, t.imports) = t.imports
  BY <1>1, KeptFirst
<1>3. /\ FirstKept(<<>>, t.reExports) = t.reExports /\ FirstKept(t.reExports, <<>>) = t.reExports
      /\ FirstKept(t.reExports, t.reExports) = t.reExports
  BY <1>1, KeptFirst
<1> DEFINE stars == StarsPushed(<<>>, t.stars)
<1>4. stars \in Seq(Specifiers) /\ ToSet(stars) = ToSet(t.stars)
  <2>1. <<>> \in Seq(Specifiers) /\ ToSet(<<>>) = {}
    BY NothingIsEmpty
  <2>2. t.stars \in Seq(Specifiers)
    BY <1>1
  <2> HIDE DEF t
  <2>3. /\ StarsPushed(<<>>, t.stars) \in Seq(Specifiers)
        /\ ToSet(StarsPushed(<<>>, t.stars)) = ToSet(<<>>) \cup ToSet(t.stars)
    BY <2>1, <2>2, StarsPushedAdds
  <2> QED BY <2>1, <2>3
<1>5. StarsPushed(stars, t.stars) = stars /\ StarsPushed(stars, <<>>) = stars
  <2> HIDE DEF stars
  <2>1. StarsPushed(stars, t.stars) = stars
    BY <1>1, <1>4, StarsPushedAdds
  <2>2. StarsPushed(stars, <<>>) = stars
    BY <1>4, NothingIsEmpty, StarsPushedAdds
  <2> QED BY <2>1, <2>2
<1>6. rules \cup {rule} # {}
  OBVIOUS
<1>7. Gist(f, rules \cup {rule}) =
        [exports |-> Gathered(f, t.exports, rules \cup {rule}), locals |-> Gathered(f, t.locals, rules \cup {rule}),
         imports |-> t.imports, classes |-> t.classes, reExports |-> t.reExports, stars |-> stars]
  BY <1>6 DEF Gist
<1>8. MergeWith(mine, other) =
        [exports |-> FlagsMerged(mine.exports, other.exports), locals |-> FlagsMerged(mine.locals, other.locals),
         imports |-> FirstKept(mine.imports, other.imports), classes |-> mine.classes \cup other.classes,
         reExports |-> FirstKept(mine.reExports, other.reExports),
         stars |-> StarsPushed(mine.stars, other.stars)]
  BY DEF MergeWith
<1>9. CASE rules = {}
  <2>1. /\ mine.exports = <<>> /\ mine.locals = <<>> /\ mine.imports = <<>> /\ mine.classes = {}
        /\ mine.reExports = <<>> /\ mine.stars = <<>>
    BY <1>9 DEF Gist, Empty
  <2>2. rule = Rules[1] /\ rules \cup {rule} = {Rules[1]}
    BY <1>9
  <2>3. /\ other.exports = Summarised(f, Rules[1], t.exports) /\ other.locals = Summarised(f, Rules[1], t.locals)
        /\ other.imports = t.imports /\ other.classes = t.classes
        /\ other.reExports = t.reExports /\ other.stars = t.stars
    BY <2>2, SummaryParts
  <2>4. FlagsMerged(mine.exports, other.exports) = Gathered(f, t.exports, rules \cup {rule})
    <3> HIDE DEF mine, other
    <3> QED BY <2>1, <2>2, <2>3, MergedFirst
  <2>5. FlagsMerged(mine.locals, other.locals) = Gathered(f, t.locals, rules \cup {rule})
    <3> HIDE DEF mine, other
    <3> QED BY <2>1, <2>2, <2>3, MergedFirst
  <2>6. StarsPushed(mine.stars, other.stars) = stars
    <3> HIDE DEF mine, other
    <3> QED BY <2>1, <2>3
  <2> HIDE DEF mine, other
  <2>7. /\ FirstKept(mine.imports, other.imports) = t.imports
        /\ FirstKept(mine.reExports, other.reExports) = t.reExports
        /\ mine.classes \cup other.classes = t.classes
    BY <2>1, <2>3, <1>2, <1>3
  <2> HIDE DEF t, stars
  <2>8. MergeWith(mine, other) = Gist(f, rules \cup {rule})
    BY <1>7, <1>8, <2>4, <2>5, <2>6, <2>7
  <2> QED BY <2>8 DEF mine, other
<1>10. CASE rules # {}
  <2>1. /\ mine.exports = Gathered(f, t.exports, rules) /\ mine.locals = Gathered(f, t.locals, rules)
        /\ mine.imports = t.imports /\ mine.classes = t.classes
        /\ mine.reExports = t.reExports /\ mine.stars = stars
    BY <1>10 DEF Gist
  <2>3. /\ other.exports = Summarised(f, rule, t.exports) /\ other.locals = Summarised(f, rule, t.locals)
        /\ other.imports \in {t.imports, <<>>} /\ other.classes \in {t.classes, {}}
        /\ other.reExports \in {t.reExports, <<>>} /\ other.stars \in {t.stars, <<>>}
    BY SummaryParts
  <2>4. FlagsMerged(mine.exports, other.exports) = Gathered(f, t.exports, rules \cup {rule})
    <3> HIDE DEF mine, other
    <3> QED BY <2>1, <2>3, MergedLater
  <2>5. FlagsMerged(mine.locals, other.locals) = Gathered(f, t.locals, rules \cup {rule})
    <3> HIDE DEF mine, other
    <3> QED BY <2>1, <2>3, MergedLater
  <2>6. StarsPushed(mine.stars, other.stars) = stars
    <3> HIDE DEF mine, other, stars
    <3> QED BY <2>1, <2>3, <1>5
  <2> HIDE DEF mine, other
  <2>7. /\ FirstKept(mine.imports, other.imports) = t.imports
        /\ FirstKept(mine.reExports, other.reExports) = t.reExports
        /\ mine.classes \cup other.classes = t.classes
    BY <2>1, <2>3, <1>2, <1>3
  <2> HIDE DEF t, stars
  <2>8. MergeWith(mine, other) = Gist(f, rules \cup {rule})
    BY <1>7, <1>8, <2>4, <2>5, <2>6, <2>7
  <2> QED BY <2>8 DEF mine, other
<1> QED
  BY <1>9, <1>10

-----------------------------------------------------------------------------
(***************************************************************************)
(* The invariant: the index holds what the summaries merged so far say,    *)
(* and the walks stay where the language would look.                       *)
(***************************************************************************)
IndexInv ==
  /\ says \in Programs /\ inserted \in 0..Insertions
  /\ DOMAIN index = Files
  /\ \A f \in Files : index[f] = Gist(f, RulesAt(f, inserted))

Imported(i) == i \in Place /\ i[2] \in DOMAIN says[i[1]].imports
Known(f, n) == n \in says[f].exports \cup says[f].classes

\* Unless an extension was swapped, the walk is at a place the import leads to.
OnCourse(i, here, met, hops) ==
  "extension" \notin met =>
    /\ Target(i[1], i[2]) # NoFile
    /\ Valid(i[1], i[2]) => here \in Within(Origin(i[1], i[2]))[hops]

\* The places passed define nothing and lead to each other, and here.
Trail(start, here) ==
  \E T \in SUBSET Place :
    /\ start \in T /\ here \in T
    /\ \A p \in T : p # here =>
         /\ p[2] \notin Exported(p[1])
         /\ \A q \in Leads(p[1], p[2]) : q[1] # NoFile => q \in T

Doubts == {"local", "stars", "extension", "hops"}
Chase == [import : Place, file : Files, name : Names, hops : 0..MaxHops, met : SUBSET Doubts]
Sound(c) ==
  LET here == <<c.file, c.name>>
      i == c.import
  IN  /\ Imported(i)
      /\ OnCourse(i, here, c.met, c.hops)
      /\ c.met = {} => Trail(Origin(i[1], i[2]), here)
Ended(i, end) ==
  /\ Imported(i)
  /\ end.file \in Files
  /\ OnCourse(i, <<end.file, end.name>>, end.met, Rounds)
  /\ end.met = {} /\ Valid(i[1], i[2]) => Known(end.file, end.name)

ChaseInv == \A c \in {chase} : c # Idle => inserted = Insertions /\ c \in Chase /\ Sound(c)
TodoInv == \A i \in todo : inserted = Insertions /\ Imported(i)
EndInv == \A i \in DOMAIN resolved : \A end \in {resolved[i]} : inserted = Insertions /\ Ended(i, end)

Inv == IndexInv /\ ChaseInv /\ TodoInv /\ EndInv

-----------------------------------------------------------------------------
(***************************************************************************)
(* What the project says stays what it is.                                 *)
(***************************************************************************)
LEMMA MeaningStays ==
  ASSUME says' = says
  PROVE  /\ \A f, n : Leads(f, n)' = Leads(f, n) /\ Known(f, n)' = Known(f, n)
         /\ \A i : Imported(i)' = Imported(i)
         /\ \A f, rules : Gist(f, rules)' = Gist(f, rules)
         /\ \A c : Sound(c)' = Sound(c)
         /\ \A i, end : Ended(i, end)' = Ended(i, end)
<1>1. \A f, n : Leads(f, n)' = Leads(f, n) /\ Exported(f)' = Exported(f) /\ Known(f, n)' = Known(f, n)
  BY DEF Leads, Exported, Known
<1>2. \A i : Imported(i)' = Imported(i)
  BY DEF Imported
<1>3. \A f, rules : Gist(f, rules)' = Gist(f, rules)
  BY DEF Gist, Gathered
<1>4. \A c : Sound(c)' = Sound(c)
  BY DEF Sound, Imported, Trail, OnCourse, Valid, Meaning, Target, Origin, Closure, Within, Onwards, Leads, Exported
<1>5. \A i, end : Ended(i, end)' = Ended(i, end)
  BY DEF Ended, Imported, Known, OnCourse, Valid, Meaning, Target, Origin, Closure, Within, Onwards, Leads, Exported
<1> QED
  BY <1>1, <1>2, <1>3, <1>4, <1>5

\* Once finalize runs, the index says what the files say.
LEMMA IndexIsComplete ==
  ASSUME IndexInv, inserted = Insertions, NEW f \in Files
  PROVE  /\ DOMAIN index[f].exports = says[f].exports /\ DOMAIN index[f].locals = says[f].locals
         /\ index[f].imports = says[f].imports /\ index[f].classes = says[f].classes
         /\ index[f].reExports = says[f].reExports
         /\ index[f].stars \in Seq(Specifiers) /\ ToSet(index[f].stars) = ToSet(says[f].stars)
<1>1. index[f] = Gist(f, RulesAt(f, Insertions)) /\ RulesAt(f, Insertions) # {}
  BY AllSummarised DEF IndexInv
<1>2. /\ index[f].exports = Gathered(f, says[f].exports, RulesAt(f, Insertions))
      /\ index[f].locals = Gathered(f, says[f].locals, RulesAt(f, Insertions))
      /\ index[f].imports = says[f].imports /\ index[f].classes = says[f].classes
      /\ index[f].reExports = says[f].reExports
      /\ index[f].stars = StarsPushed(<<>>, says[f].stars)
  BY <1>1 DEF Gist
<1>3. \A names, rules : DOMAIN Gathered(f, names, rules) = names
  BY DEF Gathered
<1>4. says[f].stars \in Seq(Specifiers)
  BY TextOf DEF IndexInv, IsText
<1>5. index[f].stars \in Seq(Specifiers) /\ ToSet(index[f].stars) = ToSet(says[f].stars)
  <2>1. <<>> \in Seq(Specifiers) /\ ToSet(<<>>) = {}
    BY NothingIsEmpty
  <2>2. /\ StarsPushed(<<>>, says[f].stars) \in Seq(Specifiers)
        /\ ToSet(StarsPushed(<<>>, says[f].stars)) = ToSet(<<>>) \cup ToSet(says[f].stars)
    BY <1>4, <2>1, StarsPushedAdds
  <2> QED BY <1>2, <2>1, <2>2
<1> QED
  BY <1>2, <1>3, <1>5

LEMMA KnownIsDefined ==
  ASSUME IndexInv, inserted = Insertions, NEW f \in Files, NEW n
  PROVE  /\ n \in Exported(f) => Defines(f, n)
         /\ Known(f, n) => n \in Exported(f)
         /\ Defines(f, n) <=> Known(f, n) \/ n \in says[f].locals
<1>1. says[f].listed \subseteq says[f].locals
  BY TextOf DEF IndexInv, IsText
<1> QED
  BY <1>1, IndexIsComplete DEF Exported, Known, Defines

\* The star source followed is one of those named; if none is, none may lead on.
LEMMA StarSourceIs ==
  ASSUME IndexInv, inserted = Insertions, NEW f \in Files, NEW n
  PROVE  /\ StarSource(f, n) \in Maybe
         /\ StarSource(f, n) # NoFile =>
              \E s \in ToSet(says[f].stars) : StarSource(f, n) = ResolveSpecifier[s]
         /\ StarSource(f, n) = NoFile =>
              \A s \in ToSet(says[f].stars) : ResolveSpecifier[s] = NoFile \/ ~ MayLead(ResolveSpecifier[s], n)
<1> DEFINE stars == index[f].stars
           D == DOMAIN stars
           leads == [i \in D |-> LET g == ResolveSpecifier[stars[i]]
                                 IN  IF g # NoFile /\ MayLead(g, n) THEN g ELSE NoFile]
<1>1. stars \in Seq(Specifiers) /\ ToSet(stars) = ToSet(says[f].stars)
  BY IndexIsComplete
<1>2. D \subseteq Nat /\ \A i \in D : stars[i] \in Specifiers /\ stars[i] \in ToSet(says[f].stars)
  <2> HIDE DEF stars
  <2> QED BY <1>1 DEF ToSet
<1>3. \A s \in ToSet(says[f].stars) : \E i \in D : s = stars[i]
  <2> HIDE DEF stars
  <2> QED BY <1>1 DEF ToSet
<1>4. leads \in [D -> Maybe]
  <2> HIDE DEF D, stars
  <2> QED BY <1>2, ResolveSpecifierFinds DEF Maybe
<1>5. /\ FirstOf(leads) \in Maybe
      /\ FirstOf(leads) = NoFile => \A i \in D : leads[i] = NoFile
      /\ FirstOf(leads) # NoFile => \E i \in D : leads[i] = FirstOf(leads)
  <2> HIDE DEF D, leads
  <2> QED BY <1>2, <1>4, FirstOfFinds
<1>6. StarSource(f, n) = FirstOf(leads)
  BY DEF StarSource
<1>7. \A i \in D : leads[i] = IF ResolveSpecifier[stars[i]] # NoFile /\ MayLead(ResolveSpecifier[stars[i]], n)
                                THEN ResolveSpecifier[stars[i]] ELSE NoFile
  OBVIOUS
<1> HIDE DEF leads, D, stars
<1>8. FirstOf(leads) # NoFile => \E s \in ToSet(says[f].stars) : FirstOf(leads) = ResolveSpecifier[s]
  BY <1>2, <1>5, <1>7
<1>9. FirstOf(leads) = NoFile =>
        \A s \in ToSet(says[f].stars) : ResolveSpecifier[s] = NoFile \/ ~ MayLead(ResolveSpecifier[s], n)
  BY <1>3, <1>5, <1>7
<1> QED
  BY <1>5, <1>6, <1>8, <1>9

-----------------------------------------------------------------------------
(***************************************************************************)
(* The steps.                                                              *)
(***************************************************************************)
LEMMA InitInv == Init => Inv
<1> SUFFICES ASSUME Init PROVE Inv
  OBVIOUS
<1>1. \A f \in Files : RulesAt(f, 0) = {}
  <2> SUFFICES ASSUME NEW t \in DOMAIN Targets, NEW k \in DOMAIN Rules
               PROVE  ~ ((t - 1) * Len(Rules) + k <= 0)
    BY DEF RulesAt
  <2> DEFINE n == Len(Rules)
  <2>1. t - 1 \in Nat /\ k \in 1..n /\ n \in Nat
    BY Lengths
  <2> HIDE DEF n
  <2>2. (t - 1) * n \in Nat
    BY <2>1
  <2>3. ~ ((t - 1) * n + k <= 0)
    BY <2>1, <2>2
  <2> QED BY <2>3 DEF n
<1>2. IndexInv
  BY <1>1, Lengths DEF Init, IndexInv, Gist
<1>3. ChaseInv /\ TodoInv
  BY DEF Init, ChaseInv, TodoInv
<1>4. EndInv
  BY NothingIsEmpty DEF Init, EndInv
<1> QED
  BY <1>2, <1>3, <1>4 DEF Inv

LEMMA InsertStep == Inv /\ InsertFile => Inv'
<1> SUFFICES ASSUME Inv, InsertFile PROVE Inv'
  OBVIOUS
<1> DEFINE t0 == (inserted \div Len(Rules)) + 1
           k0 == (inserted % Len(Rules)) + 1
           f0 == Targets[t0]
           rule == Rules[k0]
<1>1. /\ inserted \in Nat /\ inserted < Insertions /\ inserted' = inserted + 1
      /\ inserted' \in 0..Insertions /\ says' = says
  BY Lengths DEF Inv, IndexInv, InsertFile
<1>2. /\ t0 \in DOMAIN Targets /\ k0 \in DOMAIN Rules
      /\ \A f : RulesAt(f, inserted + 1) = RulesAt(f, inserted) \cup (IF f = f0 THEN {rule} ELSE {})
      /\ k0 # 1 => RulesAt(f0, inserted) # {}
  BY <1>1, NextTurn DEF IsTurn
<1>3. index' = [index EXCEPT ![f0] = MergeWith(index[f0], SummaryBy(rule, f0))]
  BY DEF InsertFile
<1>4. todo' = IF inserted' = Insertions THEN UNION {{g} \X DOMAIN index'[g].imports : g \in Files} ELSE {}
  BY DEF InsertFile
<1>5. chase = Idle /\ todo = {} /\ DOMAIN resolved = {}
  <2>1. inserted # Insertions
    BY <1>1, Lengths
  <2>2. chase = Idle
    BY <2>1 DEF Inv, ChaseInv
  <2>3. todo = {}
    BY <2>1 DEF Inv, TodoInv
  <2>4. DOMAIN resolved = {}
    BY <2>1 DEF Inv, EndInv
  <2> QED BY <2>2, <2>3, <2>4
<1>6. chase' = chase /\ resolved' = resolved
  BY DEF InsertFile
<1> HIDE DEF t0, k0
<1>7. f0 \in Files
  BY <1>2 DEF Files, ToSet
<1> HIDE DEF f0
<1>8. RulesAt(f0, inserted) = {} => rule = Rules[1]
  BY <1>2
<1>9. says \in Programs /\ DOMAIN index = Files /\ \A f \in Files : index[f] = Gist(f, RulesAt(f, inserted))
  BY DEF Inv, IndexInv
<1>10. MergeWith(index[f0], SummaryBy(rule, f0)) = Gist(f0, RulesAt(f0, inserted) \cup {rule})
  <2> HIDE DEF rule
  <2> QED BY <1>7, <1>8, <1>9, MergeAdds
<1>11. \A f \in Files : index'[f] = Gist(f, RulesAt(f, inserted + 1))
  <2> HIDE DEF rule
  <2> TAKE f \in Files
  <2>1. CASE f = f0
    BY <2>1, <1>2, <1>3, <1>7, <1>9, <1>10
  <2>2. CASE f # f0
    <3>1. RulesAt(f, inserted + 1) = RulesAt(f, inserted)
      BY <2>2, <1>2
    <3>2. index'[f] = index[f]
      BY <2>2, <1>3, <1>9
    <3> QED BY <3>1, <3>2, <1>9
  <2> QED BY <2>1, <2>2
<1>12. IndexInv'
  <2>1. \A f \in Files : index'[f] = Gist(f, RulesAt(f, inserted))'
    BY <1>1, <1>11 DEF Gist, Gathered
  <2>2. DOMAIN index' = Files
    BY <1>3, <1>9
  <2> QED BY <1>1, <1>9, <2>1, <2>2 DEF IndexInv
<1>13. TodoInv'
  <2> SUFFICES ASSUME NEW i \in todo' PROVE inserted' = Insertions /\ Imported(i)
    BY <1>1, MeaningStays DEF TodoInv
  <2>1. inserted' = Insertions
    BY <1>4
  <2>2. PICK g \in Files : i \in {g} \X DOMAIN index'[g].imports
    BY <1>4, <2>1
  <2>3. index'[g] = Gist(g, RulesAt(g, Insertions)) /\ RulesAt(g, Insertions) # {}
    BY <1>1, <1>11, <2>1, AllSummarised
  <2>4. index'[g].imports = says[g].imports
    BY <2>3 DEF Gist
  <2>5. i[1] = g /\ i[2] \in DOMAIN says[g].imports /\ i = <<i[1], i[2]>>
    BY <2>2, <2>4
  <2>6. i[2] \in Names
    BY <1>9, <2>5, TextOf
  <2> QED BY <2>1, <2>5, <2>6 DEF Imported, Place
<1>14. ChaseInv' /\ EndInv'
  BY <1>5, <1>6 DEF ChaseInv, EndInv
<1> QED
  BY <1>12, <1>13, <1>14 DEF Inv

\* Where the import starts is where the language starts, unless the extension was swapped.
LEMMA StartStep ==
  ASSUME NEW f \in Files, NEW n \in Names, Inv, Start(f, n)
  PROVE  Inv'
<1> DEFINE ref == says[f].imports[n]
           file == ResolveSpecifier[ref.spec]
           met == IF file = TsResolve[ref.spec] THEN {} ELSE {"extension"}
<1>1. /\ <<f, n>> \in todo /\ todo' = todo \ {<<f, n>>} /\ chase = Idle
      /\ says' = says /\ inserted' = inserted /\ index' = index /\ resolved' = resolved
  BY DEF Start
<1>2. inserted = Insertions /\ Imported(<<f, n>>)
  BY <1>1 DEF Inv, TodoInv
<1>3. n \in DOMAIN says[f].imports /\ <<f, n>> \in Place
  BY <1>2 DEF Imported
<1>4. index[f].imports = says[f].imports /\ says \in Programs
  BY <1>2, IndexIsComplete DEF Inv, IndexInv
<1>5. ref.spec \in Specifiers /\ ref.name \in Names
  BY <1>3, <1>4, TextOf DEF RefTo
<1>6. file \in Maybe
  BY <1>5, ResolveSpecifierFinds
<1>7. chase' = IF file = NoFile THEN Idle
               ELSE [import |-> <<f, n>>, file |-> file, name |-> ref.name, hops |-> 0, met |-> met]
  BY <1>4 DEF Start
<1>8. IndexInv' /\ EndInv'
  <2>1. IndexInv'
    BY <1>1, MeaningStays DEF Inv, IndexInv
  <2>2. EndInv'
    BY <1>1, MeaningStays DEF Inv, EndInv
  <2> QED BY <2>1, <2>2
<1>9. TodoInv'
  BY <1>1, MeaningStays DEF Inv, TodoInv
<1>10. ChaseInv'
  <2> SUFFICES ASSUME chase' # Idle PROVE ChaseInv'
    BY DEF ChaseInv
  <2> HIDE DEF file, met, ref
  <2>1. file # NoFile /\ file \in Files
    BY <1>6, <1>7 DEF Maybe
  <2>2. chase' = [import |-> <<f, n>>, file |-> file, name |-> ref.name, hops |-> 0, met |-> met]
    BY <1>7, <2>1
  <2>3. met \in SUBSET Doubts
    BY DEF met, Doubts
  <2>4. 0 \in 0..MaxHops
    BY IndexAssumption
  <2>5. chase' \in Chase
    BY <2>1, <2>2, <2>3, <2>4, <1>3, <1>5 DEF Chase
  <2>6. "extension" \notin met => file = Target(f, n)
    BY DEF met, file, ref, Target
  <2>7. Origin(f, n) = <<Target(f, n), ref.name>>
    BY DEF Origin, ref
  <2>8. "extension" \notin met => Origin(f, n) = <<file, ref.name>> /\ Origin(f, n) \in Place
    BY <2>1, <2>6, <2>7, <1>5 DEF Place
  <2>9. OnCourse(<<f, n>>, <<file, ref.name>>, met, 0)
    <3> SUFFICES ASSUME "extension" \notin met
                 PROVE  Target(f, n) # NoFile /\ <<file, ref.name>> \in Within(Origin(f, n))[0]
      BY DEF OnCourse
    <3> QED BY <2>1, <2>6, <2>8, <1>4, WithinSteps
  <2>10. met = {} => Trail(Origin(f, n), <<file, ref.name>>)
    <3> SUFFICES ASSUME met = {} PROVE Trail(Origin(f, n), <<file, ref.name>>)
      OBVIOUS
    <3>1. {Origin(f, n)} \in SUBSET Place /\ Origin(f, n) = <<file, ref.name>>
      BY <2>8
    <3> QED BY <3>1 DEF Trail
  <2>11. /\ chase'.file = file /\ chase'.name = ref.name /\ chase'.import = <<f, n>>
         /\ chase'.met = met /\ chase'.hops = 0
    BY <2>2
  <2>12. Sound(chase')
    BY <2>9, <2>10, <2>11, <1>2 DEF Sound
  <2> SUFFICES ASSUME NEW c, c = chase' PROVE inserted' = Insertions /\ c \in Chase /\ Sound(c)'
    BY DEF ChaseInv
  <2> QED BY <1>1, <1>2, <2>5, <2>12, MeaningStays
<1> QED
  BY <1>8, <1>9, <1>10 DEF Inv

-----------------------------------------------------------------------------
NextName(f, n) == IF n \in DOMAIN index[f].reExports THEN index[f].reExports[n].name ELSE n

LEMMA NoSwap ==
  ASSUME IndexInv, inserted = Insertions, NEW f \in Files, NEW n, "extension" \notin Doubtful(f, n)
  PROVE  /\ \A s \in ToSet(says[f].stars) : ResolveSpecifier[s] = TsResolve[s]
         /\ \A m \in DOMAIN says[f].reExports :
              ResolveSpecifier[says[f].reExports[m].spec] = TsResolve[says[f].reExports[m].spec]
<1>1. \A s \in ToSet(index[f].stars) \cup {r.spec : r \in Range(index[f].reExports)} :
        ResolveSpecifier[s] = TsResolve[s]
  BY DEF Doubtful
<1>2. \A m \in DOMAIN index[f].reExports : index[f].reExports[m].spec \in {r.spec : r \in Range(index[f].reExports)}
  BY DEF Range
<1> QED
  BY <1>1, <1>2, IndexIsComplete

\* The next place of the walk is one the language leads to, and without a doubt the only one.
LEMMA NextPlace ==
  ASSUME IndexInv, inserted = Insertions, NEW f \in Files, NEW n \in Names, ~ Defines(f, n)
  PROVE  LET next == <<NextFile(f, n), NextName(f, n)>>
         IN  /\ NextFile(f, n) \in Maybe /\ NextName(f, n) \in Names
             /\ n \notin Exported(f)
             /\ "extension" \notin Doubtful(f, n) /\ NextFile(f, n) # NoFile =>
                  next \in Leads(f, n) \/ (n = DefaultName /\ Leads(f, n) = {})
             /\ Doubtful(f, n) = {} /\ NextFile(f, n) # NoFile =>
                  \A q \in Leads(f, n) : q[1] # NoFile => q = next
             /\ Doubtful(f, n) = {} /\ NextFile(f, n) = NoFile =>
                  \A q \in Leads(f, n) : q[1] # NoFile => ~ MayLead(q[1], q[2])
<1> DEFINE named == n \in DOMAIN says[f].reExports
           ref == says[f].reExports[n]
           next == <<NextFile(f, n), NextName(f, n)>>
<1>1. n \notin Exported(f)
  BY KnownIsDefined
<1>2. says \in Programs /\ index[f].reExports = says[f].reExports
  BY IndexIsComplete DEF IndexInv
<1>3. CASE named
  <2>1. ref.spec \in Specifiers /\ ref.name \in Names
    BY <1>2, <1>3, TextOf DEF RefTo
  <2>2. NextFile(f, n) = ResolveSpecifier[ref.spec] /\ NextName(f, n) = ref.name
    BY <1>2, <1>3 DEF NextFile, NextName
  <2>3. Leads(f, n) = {<<TsResolve[ref.spec], ref.name>>}
    BY <1>1, <1>3 DEF Leads
  <2>4. "extension" \notin Doubtful(f, n) => Leads(f, n) = {next}
    BY <1>3, <2>2, <2>3, NoSwap
  <2>5. Doubtful(f, n) = {} => Leads(f, n) = {next}
    BY <2>4
  <2> HIDE DEF ref, named
  <2>6. NextFile(f, n) \in Maybe /\ NextName(f, n) \in Names
    BY <2>1, <2>2, ResolveSpecifierFinds
  <2> QED BY <1>1, <2>4, <2>5, <2>6
<1>4. CASE ~ named
  <2> DEFINE stars == ToSet(says[f].stars)
  <2>1. NextFile(f, n) = StarSource(f, n) /\ NextName(f, n) = n
    BY <1>2, <1>4 DEF NextFile, NextName
  <2>2. Leads(f, n) = IF n = DefaultName THEN {} ELSE {<<TsResolve[s], n>> : s \in stars}
    BY <1>1, <1>4 DEF Leads
  <2>3. NextFile(f, n) \in Maybe /\ NextName(f, n) \in Names
    BY <2>1, StarSourceIs
  <2>4. "extension" \notin Doubtful(f, n) => \A s \in stars : ResolveSpecifier[s] = TsResolve[s]
    BY NoSwap
  <2>5. StarSource(f, n) # NoFile => \E s \in stars : StarSource(f, n) = ResolveSpecifier[s]
    BY StarSourceIs
  <2>6. StarSource(f, n) = NoFile => \A s \in stars : ResolveSpecifier[s] = NoFile \/ ~ MayLead(ResolveSpecifier[s], n)
    BY StarSourceIs
  <2>7. Doubtful(f, n) = {} => \A r, s \in stars : r = s
    <3> SUFFICES ASSUME Doubtful(f, n) = {} PROVE \A r, s \in stars : r = s
      OBVIOUS
    <3>1. ~ (Len(index[f].stars) > 1)
      BY <1>2, <1>4 DEF Doubtful
    <3>2. index[f].stars \in Seq(Specifiers) /\ ToSet(index[f].stars) = stars
      BY IndexIsComplete
    <3> DEFINE listed == index[f].stars
    <3> HIDE DEF listed
    <3>3. \A i, j \in DOMAIN listed : i = j
      BY <3>1, <3>2 DEF listed
    <3>4. stars = {listed[i] : i \in DOMAIN listed}
      BY <3>2 DEF listed, ToSet
    <3> HIDE DEF stars
    <3> QED BY <3>3, <3>4
  <2> HIDE DEF stars
  <2>8. "extension" \notin Doubtful(f, n) /\ NextFile(f, n) # NoFile =>
          next \in Leads(f, n) \/ (n = DefaultName /\ Leads(f, n) = {})
    BY <2>1, <2>2, <2>4, <2>5
  <2>9. Doubtful(f, n) = {} /\ NextFile(f, n) # NoFile => \A q \in Leads(f, n) : q[1] # NoFile => q = next
    BY <2>1, <2>2, <2>4, <2>5, <2>7
  <2>10. Doubtful(f, n) = {} /\ NextFile(f, n) = NoFile =>
           \A q \in Leads(f, n) : q[1] # NoFile => ~ MayLead(q[1], q[2])
    BY <2>1, <2>2, <2>4, <2>6
  <2> HIDE DEF next
  <2> QED BY <1>1, <2>3, <2>8, <2>9, <2>10 DEF next
<1> QED
  BY <1>3, <1>4

\* A place no star may lead on from is none the language finds anything at.
LEMMA DeadEnd ==
  ASSUME IndexInv, inserted = Insertions, NEW f \in Files, NEW n, ~ MayLead(f, n)
  PROVE  n \notin Exported(f) /\ Leads(f, n) = {}
<1>1. ~ Defines(f, n) /\ n \notin DOMAIN index[f].reExports /\ index[f].stars = <<>>
  BY DEF MayLead
<1>2. n \notin Exported(f)
  BY <1>1, KnownIsDefined
<1>3. n \notin DOMAIN says[f].reExports /\ ToSet(says[f].stars) = {}
  BY <1>1, IndexIsComplete, NothingIsEmpty
<1> QED
  BY <1>2, <1>3 DEF Leads

\* Where a trail ends without an export, the import means nothing.
LEMMA TrailEndsNowhere ==
  ASSUME IndexInv, inserted = Insertions, NEW f \in Files, NEW n \in Names,
         ~ Defines(f, n), NextFile(f, n) = NoFile, Doubtful(f, n) = {},
         NEW i \in Place, Target(i[1], i[2]) # NoFile, Trail(Origin(i[1], i[2]), <<f, n>>)
  PROVE  ~ Valid(i[1], i[2])
<1> DEFINE start == Origin(i[1], i[2])
           here == <<f, n>>
<1>1. PICK T \in SUBSET Place :
        /\ start \in T /\ here \in T
        /\ \A p \in T : p # here =>
             /\ p[2] \notin Exported(p[1])
             /\ \A q \in Leads(p[1], p[2]) : q[1] # NoFile => q \in T
  BY DEF Trail
<1> DEFINE further == {q \in Leads(f, n) : q[1] # NoFile}
           all == T \cup further
<1>2. here \in Place /\ here[1] = f /\ here[2] = n
  BY DEF Place
<1>3. says \in Programs
  BY DEF IndexInv
<1>4. \A q \in further : q \in Place /\ q[1] \in Files /\ ~ MayLead(q[1], q[2])
  <2>1. \A q \in Leads(f, n) : q[1] # NoFile => ~ MayLead(q[1], q[2])
    BY NextPlace
  <2>2. \A q \in Leads(f, n) : q[1] # NoFile => q \in Place
    <3> TAKE q \in Leads(f, n)
    <3> HAVE q[1] # NoFile
    <3>1. q \in Leads(here[1], here[2])
      BY <1>2
    <3> HIDE DEF here
    <3> QED BY <1>2, <1>3, <3>1, LeadsToPlaces
  <2>3. \A q \in Place : q[1] \in Files
    BY DEF Place
  <2> QED BY <2>1, <2>2, <2>3
<1>5. n \notin Exported(f)
  BY KnownIsDefined
<1>6. \A p \in all : p[2] \notin Exported(p[1]) /\ \A q \in Leads(p[1], p[2]) : q[1] # NoFile => q \in all
  <2> TAKE p \in all
  <2>1. CASE p \in further
    BY <2>1, <1>4, DeadEnd
  <2>2. CASE p = here
    BY <2>2, <1>2, <1>5
  <2>3. CASE p \in T /\ p # here
    BY <2>3, <1>1
  <2> QED BY <2>1, <2>2, <2>3
<1>7. start \in all /\ start \in Place
  BY <1>1
<1> HIDE DEF all, start
<1>8. \A met \in SUBSET all : Onwards(met) \subseteq all
  BY <1>6 DEF Onwards
<1>9. Closure(start) \subseteq all
  <2>1. Rounds \in 0..Rounds
    BY RoundsIsNat
  <2>2. Within(start)[Rounds] \subseteq all
    BY <1>3, <1>7, <1>8, <2>1, WithinKeeps
  <2> QED BY <2>2 DEF Closure
<1>10. Meaning(i[1], i[2]) = {}
  BY <1>6, <1>9 DEF Meaning, start
<1> QED
  BY <1>10, FS_EmptySet DEF Valid

-----------------------------------------------------------------------------
LEMMA DoubtsAreDoubts ==
  ASSUME NEW f, NEW n
  PROVE  Doubtful(f, n) \in SUBSET Doubts
BY DEF Doubtful, Doubts

LEMMA HopStep == Inv /\ Hop => Inv'
<1> SUFFICES ASSUME Inv, Hop PROVE Inv'
  OBVIOUS
<1> DEFINE f == chase.file
           n == chase.name
           i == chase.import
           start == Origin(i[1], i[2])
           next == NextFile(f, n)
           name == NextName(f, n)
           met == chase.met \cup Doubtful(f, n)
<1>1. /\ chase # Idle /\ chase.hops < MaxHops /\ ~ Defines(f, n) /\ next # NoFile
      /\ says' = says /\ inserted' = inserted /\ index' = index /\ todo' = todo /\ resolved' = resolved
  BY DEF Hop
<1>2. chase' = [chase EXCEPT !.file = next, !.hops = chase.hops + 1, !.name = name, !.met = met]
  BY DEF Hop, Hops, NextName
<1>3. inserted = Insertions /\ chase \in Chase /\ Sound(chase)
  BY <1>1 DEF Inv, ChaseInv
<1>4. /\ f \in Files /\ n \in Names /\ i \in Place /\ chase.hops \in 0..MaxHops /\ chase.met \in SUBSET Doubts
  BY <1>3 DEF Chase
<1>5. IndexInv /\ says \in Programs
  BY DEF Inv, IndexInv
<1> DEFINE led == <<next, name>>
<1>6. /\ next \in Maybe /\ name \in Names /\ n \notin Exported(f)
      /\ "extension" \notin Doubtful(f, n) => led \in Leads(f, n) \/ (n = DefaultName /\ Leads(f, n) = {})
      /\ Doubtful(f, n) = {} => \A q \in Leads(f, n) : q[1] # NoFile => q = led
  BY <1>1, <1>3, <1>4, <1>5, NextPlace
<1>7. next \in Files /\ led \in Place /\ led[1] = next
  BY <1>1, <1>6 DEF Maybe, Place
<1>8. met \in SUBSET Doubts
  BY <1>4, DoubtsAreDoubts
<1>9. chase.hops + 1 \in 0..MaxHops /\ chase.hops \in 0..Rounds /\ chase.hops # Rounds
  BY <1>1, <1>4, RoundsIsNat, IndexAssumption
<1> DEFINE here == <<f, n>>
<1>10. here \in Place /\ here[1] = f /\ here[2] = n
  BY <1>4 DEF Place
<1>11. Imported(i) /\ OnCourse(i, here, chase.met, chase.hops) /\ (chase.met = {} => Trail(start, here))
  BY <1>3 DEF Sound
<1>12. i[1] \in Files /\ i[2] \in DOMAIN says[i[1]].imports
  BY <1>11 DEF Imported, Place
<1>13. Target(i[1], i[2]) # NoFile => start \in Place
  <2>1. says[i[1]].imports[i[2]].spec \in Specifiers /\ says[i[1]].imports[i[2]].name \in Names
    BY <1>5, <1>12, TextOf DEF RefTo
  <2>2. Target(i[1], i[2]) \in Maybe
    BY <2>1, TsResolveFinds DEF Target
  <2> QED BY <2>1, <2>2 DEF Origin, Place, Maybe
<1>14. OnCourse(i, led, met, chase.hops + 1)
  <2> SUFFICES ASSUME "extension" \notin met
               PROVE  /\ Target(i[1], i[2]) # NoFile
                      /\ Valid(i[1], i[2]) => led \in Within(start)[chase.hops + 1]
    BY DEF OnCourse
  <2>1. "extension" \notin chase.met /\ "extension" \notin Doubtful(f, n)
    OBVIOUS
  <2>2. Target(i[1], i[2]) # NoFile /\ (Valid(i[1], i[2]) => here \in Within(start)[chase.hops])
    BY <1>11, <2>1 DEF OnCourse
  <2>3. start \in Place
    BY <1>13, <2>2
  <2> SUFFICES ASSUME Valid(i[1], i[2]) PROVE led \in Within(start)[chase.hops + 1]
    BY <2>2
  <2> HIDE DEF here, led, start, next, name, met, f, n
  <2>4. here \in Within(start)[chase.hops]
    BY <2>2
  <2>5. led \in Leads(f, n)
    <3>1. here \in Closure(start)
      BY <1>5, <1>9, <2>3, <2>4, WithinGrows
    <3>2. \A p \in Closure(start) : p[2] = DefaultName /\ p[2] \notin Exported(p[1]) => Leads(p[1], p[2]) # {}
      BY DEF Valid, start
    <3>3. ~ (n = DefaultName /\ Leads(f, n) = {})
      BY <3>1, <3>2, <1>6, <1>10
    <3> QED BY <2>1, <3>3, <1>6
  <2>6. led \in Leads(here[1], here[2]) /\ led[1] # NoFile
    BY <2>5, <1>1, <1>7, <1>10
  <2> QED BY <1>5, <1>9, <2>3, <2>4, <2>6, LeadsWithin
<1>15. met = {} => Trail(start, led)
  <2> SUFFICES ASSUME met = {} PROVE Trail(start, led)
    OBVIOUS
  <2>1. chase.met = {} /\ Doubtful(f, n) = {}
    OBVIOUS
  <2>2. Trail(start, here)
    BY <1>11, <2>1
  <2> HIDE DEF here, led, start, met
  <2>3. PICK T \in SUBSET Place :
          /\ start \in T /\ here \in T
          /\ \A p \in T : p # here =>
               /\ p[2] \notin Exported(p[1])
               /\ \A q \in Leads(p[1], p[2]) : q[1] # NoFile => q \in T
    BY <2>2 DEF Trail
  <2> DEFINE all == T \cup {led}
  <2>4. \A p \in all : p # led =>
          /\ p[2] \notin Exported(p[1])
          /\ \A q \in Leads(p[1], p[2]) : q[1] # NoFile => q \in all
    <3> SUFFICES ASSUME NEW p \in T
                 PROVE  /\ p[2] \notin Exported(p[1])
                        /\ \A q \in Leads(p[1], p[2]) : q[1] # NoFile => q \in all
      OBVIOUS
    <3>1. CASE p = here
      BY <3>1, <1>6, <1>10, <2>1
    <3>2. CASE p # here
      BY <3>2, <2>3
    <3> QED BY <3>1, <3>2
  <2>5. all \in SUBSET Place /\ start \in all /\ led \in all
    BY <2>3, <1>7
  <2> HIDE DEF all
  <2> QED BY <2>4, <2>5 DEF Trail
<1>16. /\ chase' \in Chase /\ chase'.file = next /\ chase'.name = name /\ chase'.import = i
       /\ chase'.met = met /\ chase'.hops = chase.hops + 1
  <2> HIDE DEF next, name, met
  <2> QED BY <1>2, <1>3, <1>6, <1>7, <1>8, <1>9 DEF Chase
<1>17. Sound(chase')
  <2> HIDE DEF next, name, met, i
  <2> QED BY <1>11, <1>14, <1>15, <1>16 DEF Sound
<1>18. ChaseInv'
  <2> SUFFICES ASSUME NEW c, c = chase' PROVE inserted' = Insertions /\ c \in Chase /\ Sound(c)'
    BY DEF ChaseInv
  <2> QED BY <1>1, <1>3, <1>16, <1>17, MeaningStays
<1>19. IndexInv' /\ EndInv' /\ TodoInv'
  <2>1. IndexInv'
    BY <1>1, MeaningStays DEF Inv, IndexInv
  <2>2. EndInv'
    BY <1>1, MeaningStays DEF Inv, EndInv
  <2>3. TodoInv'
    BY <1>1, MeaningStays DEF Inv, TodoInv
  <2> QED BY <2>1, <2>2, <2>3
<1> QED
  BY <1>18, <1>19 DEF Inv

\* What the walk ends with, if it met nothing it may go astray on, is a function or class.
LEMMA SettleStep == Inv /\ Settle => Inv'
<1> SUFFICES ASSUME Inv, Settle PROVE Inv'
  OBVIOUS
<1> DEFINE f == chase.file
           n == chase.name
           i == chase.import
           start == Origin(i[1], i[2])
           here == <<f, n>>
           place(met) == [file |-> f, name |-> n, met |-> met]
<1>1. /\ chase # Idle /\ chase' = Idle
      /\ says' = says /\ inserted' = inserted /\ index' = index /\ todo' = todo
  BY DEF Settle, Finish
<1>2. PICK met :
        /\ \/ met = chase.met \cup {"hops"}
           \/ /\ met = chase.met \cup Doubtful(f, n)
              /\ Defines(f, n) \/ NextFile(f, n) = NoFile
        /\ resolved' = [j \in DOMAIN resolved \cup {i} |-> IF j = i THEN place(met) ELSE resolved[j]]
  BY DEF Settle, Finish
<1>3. inserted = Insertions /\ chase \in Chase /\ Sound(chase)
  BY <1>1 DEF Inv, ChaseInv
<1>4. f \in Files /\ n \in Names /\ i \in Place /\ chase.hops \in 0..MaxHops
  BY <1>3 DEF Chase
<1>5. IndexInv /\ says \in Programs
  BY DEF Inv, IndexInv
<1>6. Imported(i) /\ OnCourse(i, here, chase.met, chase.hops) /\ (chase.met = {} => Trail(start, here))
  BY <1>3 DEF Sound
<1>7. i[1] \in Files /\ i[2] \in DOMAIN says[i[1]].imports
  BY <1>6 DEF Imported, Place
<1>8. Target(i[1], i[2]) # NoFile => start \in Place
  <2>1. says[i[1]].imports[i[2]].spec \in Specifiers /\ says[i[1]].imports[i[2]].name \in Names
    BY <1>5, <1>7, TextOf DEF RefTo
  <2>2. Target(i[1], i[2]) \in Maybe
    BY <2>1, TsResolveFinds DEF Target
  <2> QED BY <2>1, <2>2 DEF Origin, Place, Maybe
<1>9. OnCourse(i, here, met, Rounds)
  <2> SUFFICES ASSUME "extension" \notin met
               PROVE  /\ Target(i[1], i[2]) # NoFile
                      /\ Valid(i[1], i[2]) => here \in Within(start)[Rounds]
    BY DEF OnCourse
  <2>1. Target(i[1], i[2]) # NoFile /\ (Valid(i[1], i[2]) => here \in Within(start)[chase.hops])
    BY <1>2, <1>6 DEF OnCourse
  <2>2. start \in Place /\ chase.hops \in 0..Rounds
    BY <1>4, <1>8, <2>1, RoundsIsNat, IndexAssumption
  <2> HIDE DEF start, here
  <2>3. Within(start)[chase.hops] \subseteq Within(start)[Rounds]
    BY <1>5, <2>2, WithinGrows DEF Closure
  <2> QED BY <2>1, <2>3
<1>10. met = {} /\ Valid(i[1], i[2]) => Known(f, n)
  <2> SUFFICES ASSUME met = {}, Valid(i[1], i[2]), ~ Known(f, n) PROVE FALSE
    OBVIOUS
  <2>1. chase.met = {} /\ Doubtful(f, n) = {} /\ (Defines(f, n) \/ NextFile(f, n) = NoFile)
    BY <1>2
  <2>2. n \notin says[f].locals
    <3>1. n \notin DOMAIN index[f].locals
      BY <2>1 DEF Doubtful
    <3> QED BY <3>1, <1>3, <1>4, <1>5, IndexIsComplete
  <2>3. ~ Defines(f, n)
    BY <2>2, <1>3, <1>4, <1>5, KnownIsDefined
  <2>4. Trail(start, here) /\ Target(i[1], i[2]) # NoFile
    BY <1>6, <2>1 DEF OnCourse
  <2> QED BY <1>3, <1>4, <1>5, <2>1, <2>3, <2>4, TrailEndsNowhere
<1>11. Ended(i, place(met))
  <2> HIDE DEF i
  <2> QED BY <1>4, <1>6, <1>9, <1>10 DEF Ended
<1>12. EndInv'
  <2> SUFFICES ASSUME NEW j \in DOMAIN resolved', NEW end, end = resolved'[j]
               PROVE  inserted' = Insertions /\ Ended(j, end)'
    BY DEF EndInv
  <2>1. Ended(j, end)
    <3> HIDE DEF i, place
    <3>1. CASE j = i
      BY <3>1, <1>2, <1>11
    <3>2. CASE j # i
      BY <3>2, <1>2 DEF Inv, EndInv
    <3> QED BY <3>1, <3>2
  <2> QED BY <2>1, <1>1, <1>3, MeaningStays
<1>13. IndexInv' /\ ChaseInv' /\ TodoInv'
  <2>1. IndexInv'
    BY <1>1, MeaningStays DEF Inv, IndexInv
  <2>2. ChaseInv'
    BY <1>1 DEF ChaseInv
  <2>3. TodoInv'
    BY <1>1, MeaningStays DEF Inv, TodoInv
  <2> QED BY <2>1, <2>2, <2>3
<1> QED
  BY <1>12, <1>13 DEF Inv

LEMMA StepInv == Inv /\ [Next]_vars => Inv'
<1> SUFFICES ASSUME Inv, [Next]_vars PROVE Inv'
  OBVIOUS
<1>1. CASE InsertFile
  BY <1>1, InsertStep
<1>2. ASSUME NEW f \in Files, NEW n \in Names, Start(f, n) PROVE Inv'
  BY <1>2, StartStep
<1>3. CASE Settle
  BY <1>3, SettleStep
<1>4. CASE Hop
  BY <1>4, HopStep
<1>5. CASE UNCHANGED vars
  <2>1. /\ says' = says /\ inserted' = inserted /\ index' = index /\ todo' = todo
        /\ chase' = chase /\ resolved' = resolved
    BY <1>5 DEF vars
  <2>2. IndexInv' /\ ChaseInv'
    BY <2>1, MeaningStays DEF Inv, IndexInv, ChaseInv
  <2>3. TodoInv' /\ EndInv'
    BY <2>1, MeaningStays DEF Inv, TodoInv, EndInv
  <2> QED BY <2>2, <2>3 DEF Inv
<1> QED
  BY <1>1, <1>2, <1>3, <1>4, <1>5 DEF Next

LEMMA SpecInv == Spec => []Inv
<1> QED
  BY InitInv, StepInv, PTL DEF Spec

-----------------------------------------------------------------------------
LEMMA RulesInIs == \A f : RulesIn(f) = RulesAt(f, inserted)
BY DEF RulesIn, RulesAt

\* The index, the imports left and the walks have the types they are declared to have.
THEOREM IndexIsTyped == Spec => []TypeOK
<1>1. Inv => TypeOK
  <2> SUFFICES ASSUME Inv PROVE TypeOK
    OBVIOUS
  <2>1. says \in Programs /\ inserted \in 0..Insertions
    BY DEF Inv, IndexInv
  <2>2. ASSUME NEW f \in Files
        PROVE  /\ DOMAIN index[f].exports = (IF RulesIn(f) = {} THEN {} ELSE says[f].exports)
               /\ \A n \in DOMAIN index[f].exports : index[f].exports[n].flags \subseteq RulesIn(f)
    <3>1. index[f] = Gist(f, RulesIn(f))
      BY RulesInIs DEF Inv, IndexInv
    <3>2. CASE RulesIn(f) = {}
      <4>1. index[f].exports = <<>>
        BY <3>1, <3>2 DEF Gist, Empty
      <4> QED BY <3>2, <4>1, NothingIsEmpty
    <3>3. CASE RulesIn(f) # {}
      <4>1. index[f].exports = Gathered(f, says[f].exports, RulesIn(f))
        BY <3>1, <3>3 DEF Gist
      <4> QED BY <3>3, <4>1 DEF Gathered
    <3> QED BY <3>2, <3>3
  <2>3. todo \subseteq Files \X Names
    BY DEF Inv, TodoInv, Imported, Place
  <2>4. chase # Idle => chase.file \in Files /\ chase.name \in Names /\ chase.hops \in 0..MaxHops
    BY DEF Inv, ChaseInv, Chase
  <2>5. \A i \in DOMAIN resolved : i \in Files \X Names /\ resolved[i].file \in Files
    BY DEF Inv, EndInv, Ended, Imported, Place
  <2> QED BY <2>1, <2>2, <2>3, <2>4, <2>5 DEF TypeOK
<1> QED
  BY <1>1, SpecInv, PTL

\* Whatever rules' summaries have been merged, an exported function has exactly
\* their flags and the shapes of the rule that computes them.
THEOREM MergingLosesNothing == Spec => []NoFlagLost
<1>1. Inv => NoFlagLost
  <2> SUFFICES ASSUME Inv, NEW f \in Files, NEW n \in DOMAIN index[f].exports
               PROVE  /\ index[f].exports[n].by = Rules[1]
                      /\ index[f].exports[n].flags = {r \in RulesIn(f) : n \in says[f].reaching[r]}
    BY DEF NoFlagLost
  <2>1. index[f] = Gist(f, RulesIn(f))
    BY RulesInIs DEF Inv, IndexInv
  <2>2. RulesIn(f) # {}
    BY <2>1, NothingIsEmpty DEF Gist, Empty
  <2>3. index[f].exports = Gathered(f, says[f].exports, RulesIn(f))
    BY <2>1, <2>2 DEF Gist
  <2> QED BY <2>3 DEF Gathered
<1> QED
  BY <1>1, SpecInv, PTL

LEMMA FoundIsKnown ==
  ASSUME Inv, NEW i \in DOMAIN resolved
  PROVE  Found(resolved[i]) <=> Known(resolved[i].file, resolved[i].name)
<1>1. inserted = Insertions /\ resolved[i].file \in Files /\ IndexInv
  BY DEF Inv, EndInv, Ended
<1> QED
  BY <1>1, IndexIsComplete DEF Found, Known

\* However files re-export each other, an import that resolves to a summary
\* resolves to that of a definition it leads to in the language.
THEOREM ImportsAreRight == Spec => []NeverTheWrongFunction
<1>1. Inv => NeverTheWrongFunction
  <2> SUFFICES ASSUME Inv, NEW i \in DOMAIN resolved,
                      Found(resolved[i]), "extension" \notin resolved[i].met, Valid(i[1], i[2])
               PROVE  <<resolved[i].file, resolved[i].name>> \in Meaning(i[1], i[2])
    BY DEF NeverTheWrongFunction
  <2> DEFINE end == resolved[i]
             here == <<end.file, end.name>>
  <2>1. inserted = Insertions /\ IndexInv /\ Ended(i, end)
    BY DEF Inv, EndInv
  <2>2. Target(i[1], i[2]) # NoFile /\ here \in Closure(Origin(i[1], i[2]))
    BY <2>1 DEF Ended, OnCourse, Closure
  <2>3. end.file \in Files /\ Known(end.file, end.name)
    BY <2>1, FoundIsKnown DEF Ended
  <2>4. end.name \in Exported(end.file)
    BY <2>1, <2>3, KnownIsDefined
  <2> QED BY <2>2, <2>4 DEF Meaning
<1> QED
  BY <1>1, SpecInv, PTL

\* And it does resolve, through any re-exports that leave the walk no choice.
THEOREM PlainChainsAreFollowed == Spec => []PlainChainsResolve
<1>1. Inv => PlainChainsResolve
  BY FoundIsKnown DEF PlainChainsResolve, Inv, EndInv, Ended
<1> QED
  BY <1>1, SpecInv, PTL
=============================================================================
