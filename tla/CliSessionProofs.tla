-------------------------- MODULE CliSessionProofs --------------------------
(***************************************************************************)
(* Proofs about CliSession, for any files, any texts, any stryx.toml and   *)
(* any number of edits: the score, for any number of findings; the groups  *)
(* of a report; what --diff may leave out and what fails a build; and what *)
(* a line that is written does to the findings there were.                 *)
(***************************************************************************)
EXTENDS CliSession, FiniteSetTheorems, WellFoundedInduction, TLAPS

(***************************************************************************)
(* The score, for any counts of findings.                                  *)
(***************************************************************************)
Counts == [Range(Severities) -> Nat]

LEMMA TheSeverities ==
  /\ Range(Severities) = {"info", "low", "medium", "high", "critical"}
  /\ Rank("info") = 1 /\ Rank("low") = 2 /\ Rank("medium") = 3 /\ Rank("high") = 4 /\ Rank("critical") = 5
<1>1. DOMAIN Severities = 1..5
  BY DEF Severities
<1>2. Severities[1] = "info" /\ Severities[2] = "low" /\ Severities[3] = "medium" /\ Severities[4] = "high" /\ Severities[5] = "critical"
  BY DEF Severities
<1>3. Range(Severities) = {"info", "low", "medium", "high", "critical"}
  BY <1>1, <1>2 DEF Range
<1>4. ASSUME NEW k \in 1..5 PROVE Rank(Severities[k]) = k
  BY <1>1, <1>2 DEF Rank
<1> QED BY <1>2, <1>3, <1>4

\* The least of two numbers.
LEMMA LeastOfTwo ==
  ASSUME NEW a \in Int, NEW b \in Int
  PROVE  Min({a, b}) = IF a <= b THEN a ELSE b
BY DEF Min

\* The tier is the highest that has findings.
LEMMA TierIs ==
  ASSUME NEW c \in Counts
  PROVE  \/ Tier(c) = "info"
         \/ Tier(c) \in {"low", "medium", "high", "critical"} /\ c[Tier(c)] > 0
<1> DEFINE present == {s \in DOMAIN c \ {"info"} : c[s] > 0}
           highest(s) == \A t \in present : Rank(t) <= Rank(s)
<1>1. present \subseteq {"low", "medium", "high", "critical"}
  BY TheSeverities DEF Counts
<1>2. Tier(c) = IF present = {} THEN "info" ELSE CHOOSE s \in present : highest(s)
  BY DEF Tier
<1>3. present # {} => \E s \in present : highest(s)
  <2>1. "critical" \in present => highest("critical")
    BY <1>1, TheSeverities
  <2>2. "critical" \notin present /\ "high" \in present => highest("high")
    BY <1>1, TheSeverities
  <2>3. "critical" \notin present /\ "high" \notin present /\ "medium" \in present => highest("medium")
    BY <1>1, TheSeverities
  <2>4. present = {"low"} => highest("low")
    BY TheSeverities
  <2> QED BY <1>1, <2>1, <2>2, <2>3, <2>4
<1>4. present # {} => Tier(c) \in present
  <2> HIDE DEF present, highest
  <2> QED BY <1>2, <1>3
<1> QED BY <1>1, <1>2, <1>4

\* What the score is, tier by tier.
LEMMA ScoreIs ==
  ASSUME NEW c \in Counts, Tier(c) # "info"
  PROVE  LET t == Tier(c) IN
         /\ PerFinding[t] \in 1..10 /\ Cap[t] \in 49..99 /\ c[t] \in Nat \ {0}
         /\ ComputeScore(c) = IF PerFinding[t] * c[t] > 100 THEN 0
                              ELSE IF Cap[t] <= 100 - PerFinding[t] * c[t] THEN Cap[t] ELSE 100 - PerFinding[t] * c[t]
<1> DEFINE t == Tier(c)
           lost == PerFinding[t] * c[t]
<1>1. t \in {"low", "medium", "high", "critical"} /\ c[t] > 0
  BY TierIs
<1>2. c[t] \in Nat \ {0}
  BY <1>1, TheSeverities DEF Counts
<1>3. PerFinding[t] \in 1..10 /\ Cap[t] \in 49..99
  BY <1>1 DEF PerFinding, Cap
<1>4. lost \in Nat
  BY <1>2, <1>3
<1>5. ComputeScore(c) = IF lost > 100 THEN 0 ELSE Min({Cap[t], 100 - lost})
  BY DEF ComputeScore
<1>6. ComputeScore(c) = IF lost > 100 THEN 0 ELSE IF Cap[t] <= 100 - lost THEN Cap[t] ELSE 100 - lost
  <2> HIDE DEF lost
  <2> QED BY <1>3, <1>4, <1>5, LeastOfTwo
<1> QED BY <1>2, <1>3, <1>6

\* No count takes the score out of 0..100.
LEMMA ScoreIsTyped == \A c \in Counts : ComputeScore(c) \in 0..100
<1> SUFFICES ASSUME NEW c \in Counts PROVE ComputeScore(c) \in 0..100
  OBVIOUS
<1>1. CASE Tier(c) = "info"
  BY <1>1 DEF ComputeScore
<1>2. CASE Tier(c) # "info"
  <2> DEFINE lost == PerFinding[Tier(c)] * c[Tier(c)]
  <2>1. /\ lost \in Nat /\ Cap[Tier(c)] \in 49..99
        /\ ComputeScore(c) = IF lost > 100 THEN 0 ELSE IF Cap[Tier(c)] <= 100 - lost THEN Cap[Tier(c)] ELSE 100 - lost
    BY <1>2, ScoreIs
  <2> HIDE DEF lost
  <2> QED BY <2>1
<1> QED BY <1>1, <1>2

\* Of the same tier, the more the lower.
LEMMA ScoreFalls ==
  \A c, d \in Counts : Tier(c) = Tier(d) /\ (\A s \in Range(Severities) : c[s] <= d[s]) => ComputeScore(d) <= ComputeScore(c)
<1> SUFFICES ASSUME NEW c \in Counts, NEW d \in Counts, Tier(c) = Tier(d), \A s \in Range(Severities) : c[s] <= d[s]
             PROVE  ComputeScore(d) <= ComputeScore(c)
  OBVIOUS
<1>1. CASE Tier(c) = "info"
  BY <1>1 DEF ComputeScore
<1>2. CASE Tier(c) # "info"
  <2> DEFINE t == Tier(c)
             less == PerFinding[t] * c[t]
             more == PerFinding[t] * d[t]
  <2>1. c[t] <= d[t]
    BY <1>2, TierIs, TheSeverities
  <2>2. /\ PerFinding[t] \in 1..10 /\ Cap[t] \in 49..99 /\ c[t] \in Nat /\ d[t] \in Nat
        /\ ComputeScore(c) = IF less > 100 THEN 0 ELSE IF Cap[t] <= 100 - less THEN Cap[t] ELSE 100 - less
        /\ ComputeScore(d) = IF more > 100 THEN 0 ELSE IF Cap[t] <= 100 - more THEN Cap[t] ELSE 100 - more
    BY <1>2, ScoreIs
  <2>3. less \in Nat /\ more \in Nat /\ less <= more
    <3>1. ASSUME NEW p \in 1..10, NEW x \in Nat, NEW y \in Nat, x <= y PROVE p * x \in Nat /\ p * y \in Nat /\ p * x <= p * y
      BY <3>1
    <3> QED BY <2>1, <2>2, <3>1
  <2> HIDE DEF less, more, t
  <2> QED BY <2>2, <2>3
<1> QED BY <1>1, <1>2

\* The counts of a report are numbers.
LEMMA CountsAre ==
  ASSUME NEW findings, IsFiniteSet(findings)
  PROVE  ReportSummary(findings).counts \in Counts /\ ReportSummary(findings).score = ComputeScore(ReportSummary(findings).counts)
<1>1. ASSUME NEW s PROVE CountOf(findings, s) \in Nat
  <2>1. {x \in findings : x.severity = s} \subseteq findings
    OBVIOUS
  <2> QED BY <2>1, FS_Subset, FS_CardinalityType DEF CountOf
<1>2. [s \in Range(Severities) |-> CountOf(findings, s)] \in Counts
  BY <1>1 DEF Counts
<1> QED BY <1>2 DEF ReportSummary

\* The score of a report is a percentage, whatever is found: the deduction,
\* which many findings carry past 100, is cut before it is subtracted.
THEOREM ScoreIsAPercentage ==
  ASSUME NEW findings, IsFiniteSet(findings)
  PROVE  ReportSummary(findings).score \in 0..100
BY CountsAre, ScoreIsTyped

\* More findings never score better: as long as the highest tier stays what it
\* is, a report that has as many of each severity, or more, scores as low.
THEOREM MoreNeverScoresBetter ==
  ASSUME NEW before, NEW after, IsFiniteSet(before), IsFiniteSet(after),
         TopTier(before) = TopTier(after),
         \A s \in Range(Severities) : CountOf(before, s) <= CountOf(after, s)
  PROVE  Score(after) <= Score(before)
<1> DEFINE c == ReportSummary(before).counts
           d == ReportSummary(after).counts
<1>1. c \in Counts /\ d \in Counts /\ Score(before) = ComputeScore(c) /\ Score(after) = ComputeScore(d)
  BY CountsAre DEF Score
<1>2. Tier(c) = Tier(d)
  BY DEF TopTier
<1>3. \A s \in Range(Severities) : c[s] <= d[s]
  BY DEF ReportSummary
<1> HIDE DEF c, d
<1> QED BY <1>1, <1>2, <1>3, ScoreFalls

-----------------------------------------------------------------------------
(* Sets in order.                                                           *)

\* The members of S that R puts before x.
AheadOf(S, R, x) == {y \in S : <<y, x>> \in R}
\* R is a strict total order on S.
Orders(R, S) ==
  /\ \A x \in S : <<x, x>> \notin R
  /\ \A x, y \in S : x # y => <<x, y>> \in R \/ <<y, x>> \in R
  /\ \A x, y, z \in S : <<x, y>> \in R /\ <<y, z>> \in R => <<x, z>> \in R

\* Each number below that of the members is the rank of one of them.
LEMMA RanksAreTaken ==
  ASSUME NEW S, NEW R, IsFiniteSet(S), Orders(R, S)
  PROVE  /\ Cardinality(S) \in Nat
         /\ \A x \in S : Cardinality(AheadOf(S, R, x)) \in 0..(Cardinality(S) - 1)
         /\ \A x, y \in S : <<x, y>> \in R => Cardinality(AheadOf(S, R, x)) < Cardinality(AheadOf(S, R, y))
         /\ \A k \in 0..(Cardinality(S) - 1) : \E x \in S : Cardinality(AheadOf(S, R, x)) = k
<1> DEFINE n == Cardinality(S)
           rank == [x \in S |-> Cardinality(AheadOf(S, R, x))]
<1>1. n \in Nat
  BY FS_CardinalityType
<1>2. ASSUME NEW x \in S
      PROVE  IsFiniteSet(AheadOf(S, R, x)) /\ Cardinality(AheadOf(S, R, x)) \in 0..(n - 1)
  <2>1. AheadOf(S, R, x) \subseteq S \ {x}
    BY DEF AheadOf, Orders
  <2>2. IsFiniteSet(S \ {x}) /\ Cardinality(S \ {x}) = n - 1
    BY FS_RemoveElement
  <2>3. IsFiniteSet(AheadOf(S, R, x)) /\ Cardinality(AheadOf(S, R, x)) <= n - 1
    BY <2>1, <2>2, FS_Subset
  <2>4. Cardinality(AheadOf(S, R, x)) \in Nat
    BY <2>3, FS_CardinalityType
  <2> QED BY <1>1, <2>3, <2>4
<1>3. ASSUME NEW x \in S, NEW y \in S, <<x, y>> \in R
      PROVE  Cardinality(AheadOf(S, R, x)) < Cardinality(AheadOf(S, R, y))
  <2>1. AheadOf(S, R, x) \subseteq AheadOf(S, R, y) /\ x \in AheadOf(S, R, y) /\ x \notin AheadOf(S, R, x)
    BY <1>3 DEF AheadOf, Orders
  <2>2. IsFiniteSet(AheadOf(S, R, y)) /\ IsFiniteSet(AheadOf(S, R, x))
    BY <1>2
  <2>3. Cardinality(AheadOf(S, R, x)) <= Cardinality(AheadOf(S, R, y)) /\ Cardinality(AheadOf(S, R, x)) # Cardinality(AheadOf(S, R, y))
    BY <2>1, <2>2, FS_Subset
  <2>4. Cardinality(AheadOf(S, R, x)) \in Int /\ Cardinality(AheadOf(S, R, y)) \in Int
    BY <1>2
  <2> QED BY <2>3, <2>4
<1>4. ASSUME NEW x \in S, NEW y \in S, Cardinality(AheadOf(S, R, x)) = Cardinality(AheadOf(S, R, y)) PROVE x = y
  <2>1. Cardinality(AheadOf(S, R, x)) \in Int
    BY <1>2
  <2>2. ~ (Cardinality(AheadOf(S, R, x)) < Cardinality(AheadOf(S, R, y))) /\ ~ (Cardinality(AheadOf(S, R, y)) < Cardinality(AheadOf(S, R, x)))
    BY <1>4, <2>1
  <2>3. <<x, y>> \notin R /\ <<y, x>> \notin R
    BY <1>3, <2>2
  <2> QED BY <2>3 DEF Orders
<1>5. rank \in Injection(S, 0..(n - 1))
  BY <1>2, <1>4 DEF Injection, IsInjective
<1>6. IsFiniteSet(0..(n - 1)) /\ Cardinality(0..(n - 1)) = n
  <2>1. 0 \in Int /\ n - 1 \in Int
    BY <1>1
  <2>2. IsFiniteSet(0..(n - 1)) /\ Cardinality(0..(n - 1)) = IF 0 > n - 1 THEN 0 ELSE (n - 1) - 0 + 1
    BY <2>1, FS_Interval
  <2> QED BY <1>1, <2>2
<1>7. rank \in Surjection(S, 0..(n - 1))
  <2> HIDE DEF rank
  <2> QED BY <1>5, <1>6, FS_Injection
<1>8. \A k \in 0..(n - 1) : \E x \in S : Cardinality(AheadOf(S, R, x)) = k
  BY <1>7 DEF Surjection
<1> QED BY <1>1, <1>2, <1>3, <1>8

\* InOrder lists the members of S, each once, as R orders them.
LEMMA InOrderIs ==
  ASSUME NEW S, NEW R, IsFiniteSet(S), Orders(R, S)
  PROVE  /\ Cardinality(S) \in Nat
         /\ InOrder(S, R) \in Seq(S) /\ Len(InOrder(S, R)) = Cardinality(S)
         /\ \A i, j \in 1..Cardinality(S) : i < j => <<InOrder(S, R)[i], InOrder(S, R)[j]>> \in R
         /\ \A x \in S : \E i \in 1..Cardinality(S) : InOrder(S, R)[i] = x
<1> DEFINE n == Cardinality(S)
           rank(x) == Cardinality(AheadOf(S, R, x))
           place(i) == CHOOSE x \in S : rank(x) = i - 1
<1>1. InOrder(S, R) = [i \in 1..n |-> place(i)]
  BY DEF InOrder, AheadOf
<1>2. n \in Nat
  BY RanksAreTaken
<1>3. ASSUME NEW i \in 1..n
      PROVE  place(i) \in S /\ rank(place(i)) = i - 1
  <2>1. i - 1 \in 0..(n - 1)
    BY <1>2
  <2>2. \E x \in S : rank(x) = i - 1
    BY <2>1, RanksAreTaken
  <2> HIDE DEF rank
  <2> QED BY <2>2
<1>4. ASSUME NEW i \in 1..n, NEW j \in 1..n, i < j
      PROVE  <<place(i), place(j)>> \in R
  <2>1. place(i) \in S /\ place(j) \in S /\ rank(place(i)) = i - 1 /\ rank(place(j)) = j - 1
    BY <1>3
  <2>2. i \in Int /\ j \in Int
    BY <1>2
  <2> HIDE DEF place
  <2>3. place(i) # place(j)
    BY <1>4, <2>1, <2>2
  <2>4. <<place(j), place(i)>> \in R => rank(place(j)) < rank(place(i))
    BY <2>1, RanksAreTaken
  <2> QED BY <1>4, <2>1, <2>2, <2>3, <2>4 DEF Orders
<1>5. ASSUME NEW x \in S
      PROVE  \E i \in 1..n : place(i) = x
  <2>1. rank(x) \in 0..(n - 1)
    BY RanksAreTaken
  <2>2. PICK i \in 1..n : rank(x) = i - 1
    <3> HIDE DEF rank
    <3> QED BY <1>2, <2>1
  <2>3. place(i) \in S /\ rank(place(i)) = i - 1
    BY <1>3
  <2> HIDE DEF place
  <2>4. i \in Int /\ (<<place(i), x>> \in R => rank(place(i)) < rank(x)) /\ (<<x, place(i)>> \in R => rank(x) < rank(place(i)))
    BY <1>2, <2>3, RanksAreTaken
  <2>5. place(i) = x
    <3> HIDE DEF rank
    <3> QED BY <2>2, <2>3, <2>4 DEF Orders
  <2> QED BY <2>5
<1>6. [i \in 1..n |-> place(i)] \in Seq(S) /\ Len([i \in 1..n |-> place(i)]) = n
  <2> HIDE DEF place
  <2> QED BY <1>2, <1>3
<1> HIDE DEF place
<1> QED BY <1>1, <1>2, <1>4, <1>5, <1>6

-----------------------------------------------------------------------------
(* Texts, and what the session does to them.                                *)

Texts == Seq(NewLines)
WorkTyped == work \in [Files -> {Absent} \cup Texts]

\* Two texts, one after the other.
LEMMA Joined ==
  ASSUME NEW S, NEW c \in Seq(S), NEW b \in Seq(S)
  PROVE  /\ c \o b \in Seq(S) /\ Len(c \o b) = Len(c) + Len(b)
         /\ \A i \in 1..Len(c) : (c \o b)[i] = c[i]
         /\ \A i \in 1..Len(b) : (c \o b)[Len(c) + i] = b[i]
OBVIOUS

\* What a line that is inserted does to a text.
LEMMA InsertIs ==
  ASSUME NEW S, NEW s \in Seq(S), NEW m \in S, NEW at \in 1..(Len(s) + 1)
  PROVE  /\ InsertAt(s, at, m) \in Seq(S) /\ Len(InsertAt(s, at, m)) = Len(s) + 1
         /\ InsertAt(s, at, m)[at] = m
         /\ \A l \in 1..Len(s) : InsertAt(s, at, m)[Moved(l, at)] = s[l]
<1> DEFINE a == SubSeq(s, 1, at - 1)
           b == SubSeq(s, at, Len(s))
<1>1. Len(s) \in Nat /\ at \in Int
  OBVIOUS
<1>2. a \in Seq(S) /\ Len(a) = at - 1 /\ \A i \in 1..(at - 1) : a[i] = s[i]
  BY <1>1
<1>3. b \in Seq(S) /\ Len(b) = Len(s) - at + 1 /\ \A i \in 1..(Len(s) - at + 1) : b[i] = s[i + at - 1]
  BY <1>1
<1> HIDE DEF a, b
<1>4. <<m>> \in Seq(S) /\ Len(<<m>>) = 1 /\ <<m>>[1] = m
  OBVIOUS
<1> DEFINE c == a \o <<m>>
<1>5. /\ c \in Seq(S) /\ Len(c) = at
      /\ \A i \in 1..(at - 1) : c[i] = s[i]
      /\ c[at] = m
  <2>1. /\ c \in Seq(S) /\ Len(c) = Len(a) + Len(<<m>>)
        /\ \A i \in 1..Len(a) : c[i] = a[i]
        /\ \A i \in 1..Len(<<m>>) : c[Len(a) + i] = <<m>>[i]
    BY <1>2, <1>4, Joined
  <2>2. 1 \in 1..Len(<<m>>)
    BY <1>4
  <2>3. c[Len(a) + 1] = m
    BY <1>4, <2>1, <2>2
  <2> HIDE DEF c
  <2> QED BY <1>1, <1>2, <1>4, <2>1, <2>3
<1> HIDE DEF c
<1>6. /\ c \o b \in Seq(S) /\ Len(c \o b) = at + Len(b)
      /\ \A i \in 1..at : (c \o b)[i] = c[i]
      /\ \A i \in 1..Len(b) : (c \o b)[at + i] = b[i]
  BY <1>3, <1>5, Joined
<1>7. ASSUME NEW i \in at..Len(s) PROVE (c \o b)[i + 1] = s[i]
  <2> DEFINE j == i + 1 - at
  <2>1. j \in 1..Len(b) /\ at + j = i + 1 /\ j + at - 1 = i
    BY <1>1, <1>3
  <2>2. j \in 1..(Len(s) - at + 1)
    BY <1>3, <2>1
  <2>3. b[j] = s[j + at - 1] /\ (c \o b)[at + j] = b[j]
    BY <1>3, <1>6, <2>1, <2>2
  <2> QED BY <2>1, <2>3
<1>8. InsertAt(s, at, m) = c \o b
  BY DEF InsertAt, a, b, c
<1>9. at + Len(b) = Len(s) + 1 /\ at \in 1..at
  BY <1>1, <1>3
<1>10. \A i \in 1..Len(s) : IF i >= at THEN i \in at..Len(s) ELSE i \in 1..(at - 1) /\ i \in 1..at
  BY <1>1
<1> QED BY <1>5, <1>6, <1>7, <1>8, <1>9, <1>10 DEF Moved

\* Every step leaves texts where there are texts.
LEMMA WorkTypedStep == WorkTyped /\ [SessionNext]_vars => WorkTyped'
<1> SUFFICES ASSUME WorkTyped, [SessionNext]_vars PROVE WorkTyped'
  OBVIOUS
<1>1. CASE InsertLine
  <2>1. PICK f \in Present : \E l \in 1..(Len(work[f]) + 1), line \in NewLines : work' = [work EXCEPT ![f] = InsertAt(@, l, line)]
    BY <1>1 DEF InsertLine, Edit
  <2>2. PICK l \in 1..(Len(work[f]) + 1), line \in NewLines : work' = [work EXCEPT ![f] = InsertAt(@, l, line)]
    BY <2>1
  <2>3. f \in Files /\ work[f] \in Texts
    BY DEF WorkTyped, Present
  <2>4. InsertAt(work[f], l, line) \in Texts
    BY <2>3, InsertIs DEF Texts
  <2> QED BY <2>2, <2>4 DEF WorkTyped
<1>2. CASE CreateFile
  <2>1. PICK f \in Files, line \in NewLines : work' = [work EXCEPT ![f] = <<line>>]
    BY <1>2 DEF CreateFile, Edit
  <2>2. <<line>> \in Texts
    BY DEF Texts
  <2> QED BY <2>1, <2>2 DEF WorkTyped
<1>3. CASE DeleteFile
  <2>1. PICK f \in Files : work' = [work EXCEPT ![f] = Absent]
    BY <1>3 DEF DeleteFile, Edit, Present
  <2> QED BY <2>1 DEF WorkTyped
<1>4. CASE Run \/ Stage \/ Commit \/ Configure \/ UNCHANGED vars
  BY <1>4 DEF Run, Stage, Commit, Configure, vars, WorkTyped
<1> QED BY <1>1, <1>2, <1>3, <1>4 DEF SessionNext

-----------------------------------------------------------------------------
(* Findings.                                                               *)

Finding(f, text, l, k) == [file |-> f, line |-> l, column |-> k, rule |-> text[l].finds[k][1], severity |-> text[l].finds[k][2]]
IsFinding(x) ==
  /\ x.file \in Files /\ x.line \in Nat \ {0} /\ x.column \in Nat \ {0}
  /\ x.rule \in Range(RuleIds) /\ x.severity \in Range(Severities)
\* A finite set of findings, one at a place.
AreFindings(F) ==
  /\ IsFiniteSet(F) /\ \A x \in F : IsFinding(x)
  /\ \A x, y \in F : x.file = y.file /\ x.line = y.line /\ x.column = y.column => x = y

\* What the engine finds in a text: one finding per line and column.
LEMMA FindingsAre ==
  ASSUME NEW f \in Files, NEW text \in Texts
  PROVE  /\ AreFindings(FindingsIn(f, text))
         /\ \A x \in FindingsIn(f, text) :
              x.file = f /\ x.line \in 1..Len(text) /\ x.column \in DOMAIN text[x.line].finds
              /\ x = Finding(f, text, x.line, x.column)
         /\ \A l \in 1..Len(text) : \A k \in DOMAIN text[l].finds : Finding(f, text, l, k) \in FindingsIn(f, text)
<1> DEFINE found(l) == {Finding(f, text, l, k) : k \in DOMAIN text[l].finds}
<1>1. DOMAIN text = 1..Len(text) /\ Len(text) \in Nat
  BY DEF Texts
<1>2. FindingsIn(f, text) = UNION {found(l) : l \in 1..Len(text)}
  BY <1>1 DEF FindingsIn, Finding
<1>3. ASSUME NEW l \in 1..Len(text)
      PROVE  /\ text[l].finds \in Seq(Range(RuleIds) \X Range(Severities))
             /\ IsFiniteSet(found(l))
             /\ \A k \in DOMAIN text[l].finds : IsFinding(Finding(f, text, l, k))
  <2>1. text[l] \in NewLines
    BY DEF Texts
  <2>2. text[l].finds \in Seq(Range(RuleIds) \X Range(Severities))
    BY <2>1, LinesAssumption
  <2> DEFINE finds == text[l].finds
             g == [k \in DOMAIN finds |-> Finding(f, text, l, k)]
  <2>3. DOMAIN finds = 1..Len(finds) /\ Len(finds) \in Nat
    BY <2>2
  <2>4. IsFiniteSet(DOMAIN finds)
    <3> HIDE DEF finds
    <3> QED BY <2>3, FS_Interval
  <2>5. g \in Surjection(DOMAIN finds, found(l))
    BY DEF Surjection
  <2>6. IsFiniteSet(found(l))
    <3> HIDE DEF g, finds, found
    <3> QED BY <2>4, <2>5, FS_Surjection
  <2>7. \A k \in DOMAIN finds : finds[k] \in Range(RuleIds) \X Range(Severities)
    <3> HIDE DEF finds
    <3> QED BY <2>2, <2>3 DEF finds
  <2>8. ASSUME NEW k \in DOMAIN finds PROVE IsFinding(Finding(f, text, l, k))
    <3>1. finds[k][1] \in Range(RuleIds) /\ finds[k][2] \in Range(Severities)
      BY <2>7
    <3>2. l \in Nat \ {0} /\ k \in Nat \ {0}
      BY <1>1, <2>3
    <3> QED BY <3>1, <3>2 DEF IsFinding, Finding
  <2> QED BY <2>2, <2>6, <2>8
<1>4. IsFiniteSet(FindingsIn(f, text))
  <2> DEFINE h == [l \in 1..Len(text) |-> found(l)]
             T == {found(l) : l \in 1..Len(text)}
  <2>1. IsFiniteSet(1..Len(text))
    BY <1>1, FS_Interval
  <2>2. h \in Surjection(1..Len(text), T)
    BY DEF Surjection
  <2>3. IsFiniteSet(T)
    <3> HIDE DEF h, T
    <3> QED BY <2>1, <2>2, FS_Surjection
  <2>4. \A t \in T : IsFiniteSet(t)
    BY <1>3
  <2> HIDE DEF T
  <2>5. IsFiniteSet(UNION T)
    BY <2>3, <2>4, FS_UNION
  <2> QED BY <1>2, <2>5 DEF T
<1>5. ASSUME NEW x \in FindingsIn(f, text)
      PROVE  x.file = f /\ x.line \in 1..Len(text) /\ x.column \in DOMAIN text[x.line].finds
              /\ x = Finding(f, text, x.line, x.column)
  <2>1. PICK l \in 1..Len(text) : x \in found(l)
    BY <1>2
  <2>2. PICK k \in DOMAIN text[l].finds : x = Finding(f, text, l, k)
    BY <2>1
  <2>3. x.file = f /\ x.line = l /\ x.column = k
    BY <2>2 DEF Finding
  <2> QED BY <2>2, <2>3
<1>6. \A x \in FindingsIn(f, text) : IsFinding(x)
  BY <1>3, <1>5
<1>7. \A l \in 1..Len(text) : \A k \in DOMAIN text[l].finds : Finding(f, text, l, k) \in FindingsIn(f, text)
  BY <1>2
<1>8. ASSUME NEW x \in FindingsIn(f, text), NEW y \in FindingsIn(f, text), x.line = y.line, x.column = y.column PROVE x = y
  <2>1. x = Finding(f, text, x.line, x.column) /\ y = Finding(f, text, y.line, y.column)
    BY <1>5
  <2> QED BY <1>8, <2>1
<1> QED BY <1>4, <1>5, <1>6, <1>7, <1>8 DEF AreFindings

Trees == [Files -> {Absent} \cup Texts]
PresentIn(tree) == {f \in Files : tree[f] # Absent}
\* A scan of some files is what a scan of all has of them.
LEMMA ScanIs ==
  ASSUME NEW tree \in Trees, NEW targets \in SUBSET PresentIn(tree)
  PROVE  /\ AreFindings(Scan(targets, tree))
         /\ Scan(targets, tree) = {x \in AllOf(tree) : x.file \in targets}
         /\ \A x : x \in Scan(targets, tree) <=>
              \E f \in targets : x \in FindingsIn(f, tree[f]) /\ ~Suppresses(Parse(tree[f]), x.rule, x.line)
<1> DEFINE all == UNION {FindingsIn(f, tree[f]) : f \in targets}
<1>1. \A f \in PresentIn(tree) : f \in Files /\ tree[f] \in Texts
  BY DEF PresentIn, Trees
<1>2. \A f \in targets : AreFindings(FindingsIn(f, tree[f]))
  BY <1>1, FindingsAre
<1>3. IsFiniteSet(all)
  <2> DEFINE h == [f \in targets |-> FindingsIn(f, tree[f])]
             T == {FindingsIn(f, tree[f]) : f \in targets}
  <2>1. IsFiniteSet(targets)
    <3>1. targets \subseteq Files
      BY DEF PresentIn
    <3> QED BY <3>1, SessionAssumption, FS_Subset
  <2>2. h \in Surjection(targets, T)
    BY DEF Surjection
  <2>3. IsFiniteSet(T)
    <3> HIDE DEF h, T
    <3> QED BY <2>1, <2>2, FS_Surjection
  <2>4. \A t \in T : IsFiniteSet(t)
    BY <1>2 DEF AreFindings
  <2> HIDE DEF T
  <2>5. IsFiniteSet(UNION T)
    BY <2>3, <2>4, FS_UNION
  <2> QED BY <2>5 DEF T
<1>4. Scan(targets, tree) = {x \in all : ~Suppresses(Parse(tree[x.file]), x.rule, x.line)}
  BY DEF Scan, FilterSuppressed
<1>5. ASSUME NEW f \in PresentIn(tree), NEW x \in FindingsIn(f, tree[f])
      PROVE  x.file = f /\ IsFinding(x)
  BY <1>1, FindingsAre DEF AreFindings
<1>6. \A x : x \in Scan(targets, tree) <=>
              \E f \in targets : x \in FindingsIn(f, tree[f]) /\ ~Suppresses(Parse(tree[f]), x.rule, x.line)
  BY <1>4, <1>5
<1>7. AllOf(tree) = {x \in UNION {FindingsIn(f, tree[f]) : f \in PresentIn(tree)} : ~Suppresses(Parse(tree[x.file]), x.rule, x.line)}
  BY DEF AllOf, Scan, FilterSuppressed, PresentIn
<1>8. \A x : x \in AllOf(tree) <=>
              \E f \in PresentIn(tree) : x \in FindingsIn(f, tree[f]) /\ ~Suppresses(Parse(tree[f]), x.rule, x.line)
  BY <1>5, <1>7
<1>9. Scan(targets, tree) = {x \in AllOf(tree) : x.file \in targets}
  BY <1>5, <1>6, <1>8
<1>10. AreFindings(Scan(targets, tree))
  <2>1. IsFiniteSet(Scan(targets, tree))
    <3>1. Scan(targets, tree) \subseteq all
      BY <1>4
    <3> HIDE DEF all
    <3> QED BY <1>3, <3>1, FS_Subset
  <2>2. \A x \in Scan(targets, tree) : IsFinding(x)
    BY <1>5, <1>6
  <2>3. ASSUME NEW x \in Scan(targets, tree), NEW y \in Scan(targets, tree), x.file = y.file, x.line = y.line, x.column = y.column
        PROVE  x = y
    <3>1. PICK f \in targets : x \in FindingsIn(f, tree[f])
      BY <1>6
    <3>2. PICK g \in targets : y \in FindingsIn(g, tree[g])
      BY <1>6
    <3>3. f = g
      BY <2>3, <3>1, <3>2, <1>5
    <3> QED BY <1>2, <2>3, <3>1, <3>2, <3>3 DEF AreFindings
  <2> QED BY <2>1, <2>2, <2>3 DEF AreFindings
<1> QED BY <1>6, <1>9, <1>10

-----------------------------------------------------------------------------
(* The groups of a report.                                                  *)

\* Rules and severities are told apart by their ranks.
IsRuleRank(r) == RuleRank(r) \in Int /\ RuleIds[RuleRank(r)] = r
LEMMA RuleRanks == \A r \in Range(RuleIds) : IsRuleRank(r)
<1> SUFFICES ASSUME NEW r \in Range(RuleIds) PROVE IsRuleRank(r)
  OBVIOUS
<1>1. DOMAIN RuleIds \subseteq Int
  BY RulesAssumption
<1>2. \E i \in DOMAIN RuleIds : RuleIds[i] = r
  BY DEF Range
<1> QED BY <1>1, <1>2 DEF IsRuleRank, RuleRank

LEMMA SeverityRanks ==
  /\ \A s \in Range(Severities) : Rank(s) \in 1..5
  /\ \A s, t \in Range(Severities) : Rank(s) = Rank(t) => s = t
BY TheSeverities

KeyOrder(F) == {p \in KeysOf(F) \X KeysOf(F) : Precedes(p[1], p[2])}
ItemsOf(F, key) == {x \in F : InGroup(x, key)}
PlaceOrder(S) == {p \in S \X S : Earlier(p[1], p[2])}

\* The keys by severity and rule, and the findings of one key by place.
LEMMA KeysAreOrdered ==
  ASSUME NEW F, AreFindings(F)
  PROVE  IsFiniteSet(KeysOf(F)) /\ Orders(KeyOrder(F), KeysOf(F))
<1>1. \A k \in KeysOf(F) : k = <<k[1], k[2]>> /\ k[1] \in Range(Severities) /\ k[2] \in Range(RuleIds)
  BY DEF KeysOf, AreFindings, IsFinding
<1>2. \A k \in KeysOf(F) : Rank(k[1]) \in Int /\ RuleRank(k[2]) \in Int /\ RuleIds[RuleRank(k[2])] = k[2]
  BY <1>1, SeverityRanks, RuleRanks DEF IsRuleRank
<1>3. \A k, j \in KeysOf(F) : k # j => k[1] # j[1] \/ k[2] # j[2]
  BY <1>1
<1>4. \A k, j \in KeysOf(F) : k # j => Rank(k[1]) # Rank(j[1]) \/ (k[1] = j[1] /\ RuleRank(k[2]) # RuleRank(j[2]))
  BY <1>1, <1>2, <1>3, SeverityRanks
<1>5. \A k, j : <<k, j>> \in KeyOrder(F) <=> k \in KeysOf(F) /\ j \in KeysOf(F) /\ Precedes(k, j)
  BY DEF KeyOrder
<1>6. ASSUME NEW k \in KeysOf(F) PROVE ~Precedes(k, k)
  BY <1>2 DEF Precedes
<1>7. ASSUME NEW k \in KeysOf(F), NEW j \in KeysOf(F), k # j PROVE Precedes(k, j) \/ Precedes(j, k)
  BY <1>2, <1>4, <1>7 DEF Precedes
<1>8. ASSUME NEW k \in KeysOf(F), NEW j \in KeysOf(F), NEW i \in KeysOf(F), Precedes(k, j), Precedes(j, i) PROVE Precedes(k, i)
  BY <1>2, <1>8 DEF Precedes
<1>9. IsFiniteSet(KeysOf(F))
  <2> DEFINE h == [x \in F |-> <<x.severity, x.rule>>]
  <2>1. h \in Surjection(F, KeysOf(F))
    BY DEF Surjection, KeysOf
  <2> HIDE DEF h
  <2> QED BY <2>1, FS_Surjection DEF AreFindings
<1> QED BY <1>5, <1>6, <1>7, <1>8, <1>9 DEF Orders

LEMMA ItemsAreOrdered ==
  ASSUME NEW F, AreFindings(F), NEW key
  PROVE  IsFiniteSet(ItemsOf(F, key)) /\ Orders(PlaceOrder(ItemsOf(F, key)), ItemsOf(F, key))
<1> DEFINE S == ItemsOf(F, key)
<1>1. S \subseteq F
  BY DEF ItemsOf
<1>2. IsFiniteSet(S)
  BY <1>1, FS_Subset DEF AreFindings
<1>3. \A x \in S : x.file \in Int /\ x.line \in Int /\ x.column \in Int
  <2>1. Files \subseteq Nat
    BY SessionAssumption
  <2>2. ASSUME NEW x \in F PROVE x.file \in Files /\ x.line \in Nat /\ x.column \in Nat
    BY DEF AreFindings, IsFinding
  <2>3. ASSUME NEW x \in S PROVE x.file \in Int /\ x.line \in Int /\ x.column \in Int
    <3>1. x \in F
      BY <1>1
    <3>2. x.file \in Files /\ x.line \in Nat /\ x.column \in Nat
      BY <2>2, <3>1
    <3> HIDE DEF S
    <3>3. \A a \in Files : a \in Int
      BY <2>1
    <3>4. x.file \in Int
      BY <3>2, <3>3, Zenon
    <3>5. \A a \in Nat : a \in Int
      OBVIOUS
    <3> QED BY <3>2, <3>4, <3>5, Zenon
  <2> QED BY <2>3
<1>4. \A x, y \in S : x # y => x.file # y.file \/ x.line # y.line \/ x.column # y.column
  BY <1>1 DEF AreFindings
<1>5. \A x, y : <<x, y>> \in PlaceOrder(S) <=> x \in S /\ y \in S /\ Earlier(x, y)
  BY DEF PlaceOrder
<1> HIDE DEF S
<1>6. ASSUME NEW x \in S PROVE ~Earlier(x, x)
  BY <1>3 DEF Earlier
<1>7. ASSUME NEW x \in S, NEW y \in S, x # y PROVE Earlier(x, y) \/ Earlier(y, x)
  BY <1>3, <1>4, <1>7 DEF Earlier
<1>8. ASSUME NEW x \in S, NEW y \in S, NEW z \in S, Earlier(x, y), Earlier(y, z) PROVE Earlier(x, z)
  BY <1>3, <1>8 DEF Earlier
<1>9. Orders(PlaceOrder(S), S)
  BY <1>5, <1>6, <1>7, <1>8 DEF Orders
<1> QED BY <1>2, <1>9 DEF S

\* A group is what the findings of its key are: the first of them, and how many more.
LEMMA GroupIs ==
  ASSUME NEW F, AreFindings(F), NEW key
  PROVE  LET g == Group(F, key)
             n == Cardinality(ItemsOf(F, key))
         IN  /\ n \in Nat /\ Len(g.shown) \in Int /\ g.more \in Int
             /\ g.severity = key[1] /\ g.rule = key[2]
             /\ Len(g.shown) = (IF n <= MaxRepresentatives THEN n ELSE MaxRepresentatives)
             /\ DOMAIN g.shown = 1..Len(g.shown)
             /\ Len(g.shown) + g.more = n
             /\ g.more > 0 => Len(g.shown) = MaxRepresentatives
             /\ \A k \in 2..Len(g.shown) : Earlier(g.shown[k - 1], g.shown[k])
             /\ \A x \in ItemsOf(F, key) : x \in Range(g.shown) \/ \A k \in DOMAIN g.shown : Earlier(g.shown[k], x)
<1> DEFINE items == ItemsOf(F, key)
           n == Cardinality(items)
           ordered == InOrder(items, PlaceOrder(items))
           shown == [i \in 1..Min({n, MaxRepresentatives}) |-> ordered[i]]
           g == [severity |-> key[1], rule |-> key[2], shown |-> shown, more |-> n - Len(shown)]
           m == IF n <= MaxRepresentatives THEN n ELSE MaxRepresentatives
<1>1. Group(F, key) = g
  BY DEF Group, ItemsOf, PlaceOrder
<1>2. /\ n \in Nat
      /\ ordered \in Seq(items) /\ Len(ordered) = n
      /\ \A i, j \in 1..n : i < j => <<ordered[i], ordered[j]>> \in PlaceOrder(items)
      /\ \A x \in items : \E i \in 1..n : ordered[i] = x
  <2>1. IsFiniteSet(items) /\ Orders(PlaceOrder(items), items)
    BY ItemsAreOrdered
  <2> HIDE DEF items
  <2> QED BY <2>1, InOrderIs
<1>3. \A i, j \in 1..n : i < j => Earlier(ordered[i], ordered[j])
  BY <1>2 DEF PlaceOrder
<1>4. Min({n, MaxRepresentatives}) = m /\ m \in Nat /\ m <= n
  <2> HIDE DEF n
  <2> QED BY <1>2, LeastOfTwo DEF MaxRepresentatives
<1> HIDE DEF ordered, items, m, n
<1>5. DOMAIN shown = 1..m /\ Len(shown) = m /\ \A i \in 1..m : shown[i] = ordered[i]
  <2>1. shown = [i \in 1..m |-> ordered[i]]
    BY <1>4
  <2> HIDE DEF shown
  <2>2. DOMAIN shown = 1..m /\ \A i \in 1..m : shown[i] = ordered[i]
    BY <2>1
  <2>3. Len(shown) = m
    BY <1>4, <2>1
  <2> QED BY <2>2, <2>3
<1> HIDE DEF shown
<1>6. m + (n - m) = n /\ n - m \in Int /\ (n - m > 0 => m = MaxRepresentatives)
  BY <1>2, <1>4 DEF m
<1>7. \A k \in 2..m : Earlier(shown[k - 1], shown[k])
  <2> TAKE k \in 2..m
  <2>1. k \in 1..n /\ k - 1 \in 1..n /\ k \in 1..m /\ k - 1 \in 1..m /\ k - 1 < k
    BY <1>2, <1>4
  <2> QED BY <1>3, <1>5, <2>1
<1>8. \A x \in items : x \in Range(shown) \/ \A k \in 1..m : Earlier(shown[k], x)
  <2> TAKE x \in items
  <2>1. PICK i \in 1..n : ordered[i] = x
    BY <1>2
  <2>2. CASE i <= m
    <3>1. i \in 1..m
      BY <2>2, <1>4, <1>2
    <3> QED BY <3>1, <2>1, <1>5 DEF Range
  <2>3. CASE ~(i <= m)
    <3>1. \A k \in 1..m : k \in 1..n /\ k < i
      BY <2>3, <1>4, <1>2
    <3> QED BY <3>1, <2>1, <1>3, <1>5
  <2> QED BY <2>2, <2>3
<1> QED BY <1>1, <1>2, <1>5, <1>6, <1>7, <1>8 DEF g, m, n, items

\* Numbers have a least.
LEMMA LeastNumber ==
  ASSUME NEW T, T \subseteq Nat, T # {}
  PROVE  \E m \in T : \A n \in T : m <= n
<1>1. PICK m \in T : \A n \in T : ~ (<<n, m>> \in OpToRel(<, Nat))
  BY NatLessThanWellFounded, WFMin
<1>2. \A n \in T : ~ (n < m)
  BY <1>1 DEF OpToRel
<1> QED
  BY <1>2

KeysInOrder(F) == InOrder(KeysOf(F), KeyOrder(F))
\* The groups are the keys in order, each with its findings.
LEMMA KeysInOrderAre ==
  ASSUME NEW F, AreFindings(F)
  PROVE  LET n == Cardinality(KeysOf(F)) IN
         /\ n \in Nat /\ Len(Grouped(F)) = n /\ DOMAIN Grouped(F) = 1..n
         /\ \A i \in 1..n : Grouped(F)[i] = Group(F, KeysInOrder(F)[i]) /\ KeysInOrder(F)[i] \in KeysOf(F)
         /\ \A k \in KeysOf(F) : \E i \in 1..n : KeysInOrder(F)[i] = k
         /\ \A i, j \in 1..n : i < j => Precedes(KeysInOrder(F)[i], KeysInOrder(F)[j])
         /\ \A i, j \in 1..n : i # j => KeysInOrder(F)[i] # KeysInOrder(F)[j]
<1> DEFINE n == Cardinality(KeysOf(F))
           keys == KeysInOrder(F)
<1>1. IsFiniteSet(KeysOf(F)) /\ Orders(KeyOrder(F), KeysOf(F))
  BY KeysAreOrdered
<1>2. /\ n \in Nat /\ keys \in Seq(KeysOf(F)) /\ Len(keys) = n
      /\ \A i, j \in 1..n : i < j => <<keys[i], keys[j]>> \in KeyOrder(F)
      /\ \A k \in KeysOf(F) : \E i \in 1..n : keys[i] = k
  BY <1>1, InOrderIs DEF KeysInOrder
<1>3. Grouped(F) = [g \in DOMAIN keys |-> Group(F, keys[g])]
  BY DEF Grouped, KeysInOrder, KeyOrder
<1> HIDE DEF keys, n
<1>4. DOMAIN keys = 1..n
  BY <1>2
<1>5. DOMAIN Grouped(F) = 1..n /\ Len(Grouped(F)) = n /\ \A i \in 1..n : Grouped(F)[i] = Group(F, keys[i]) /\ keys[i] \in KeysOf(F)
  BY <1>2, <1>3, <1>4
<1>6. \A i, j \in 1..n : i < j => Precedes(keys[i], keys[j])
  BY <1>2 DEF KeyOrder
<1>7. \A i, j \in 1..n : i # j => keys[i] # keys[j]
  <2>1. \A i, j \in 1..n : i < j => keys[i] # keys[j]
    BY <1>1, <1>2, <1>5 DEF Orders
  <2>2. \A i, j \in 1..n : i # j => i < j \/ j < i
    BY <1>2
  <2> QED BY <2>1, <2>2
<1> QED BY <1>2, <1>5, <1>6, <1>7 DEF keys, n

\* A rule is listed when it has findings.
LEMMA ListedIs ==
  ASSUME NEW F, AreFindings(F), NEW r
  PROVE  (\E g \in DOMAIN Grouped(F) : Grouped(F)[g].rule = r) <=> (\E x \in F : x.rule = r)
<1> DEFINE n == Cardinality(KeysOf(F))
           keys == KeysInOrder(F)
<1>1. \A i \in 1..n : Grouped(F)[i].rule = keys[i][2]
  <2> TAKE i \in 1..n
  <2>1. Grouped(F)[i] = Group(F, keys[i])
    BY KeysInOrderAre
  <2> HIDE DEF keys
  <2> QED BY <2>1 DEF Group
<1>2. \A i \in 1..n : \E x \in F : keys[i] = <<x.severity, x.rule>>
  BY KeysInOrderAre DEF KeysOf
<1>3. \A x \in F : \E i \in 1..n : keys[i] = <<x.severity, x.rule>>
  BY KeysInOrderAre DEF KeysOf
<1>4. DOMAIN Grouped(F) = 1..n
  BY KeysInOrderAre
<1> HIDE DEF keys, n
<1>5. ASSUME NEW i \in 1..n, Grouped(F)[i].rule = r PROVE \E x \in F : x.rule = r
  BY <1>1, <1>2, <1>5
<1>6. ASSUME NEW x \in F, x.rule = r PROVE \E i \in 1..n : Grouped(F)[i].rule = r
  BY <1>1, <1>3, <1>6
<1> QED BY <1>4, <1>5, <1>6

\* The groups divide the findings: what they show and count is all of them.
LEMMA CountedIs ==
  ASSUME NEW F, AreFindings(F)
  PROVE  CountedIn(Grouped(F)) = Cardinality(F)
<1> DEFINE G == Grouped(F)
           n == Cardinality(KeysOf(F))
           keys == KeysInOrder(F)
           upto(i) == {x \in F : \E j \in 1..i : InGroup(x, keys[j])}
           Runs(s) == s = [i \in 0..n |-> IF i = 0 THEN 0 ELSE s[i - 1] + Len(G[i].shown) + G[i].more]
           sum == CHOOSE s : Runs(s)
           f == [i \in 0..n |-> Cardinality(upto(i))]
<1>1. n \in Nat /\ Len(G) = n
  BY KeysInOrderAre
<1>2. CountedIn(G) = sum[n]
  BY <1>1 DEF CountedIn
<1>3. ASSUME NEW i \in 0..n PROVE IsFiniteSet(upto(i)) /\ Cardinality(upto(i)) \in Nat
  <2>1. upto(i) \subseteq F
    OBVIOUS
  <2> HIDE DEF upto
  <2> QED BY <2>1, FS_Subset, FS_CardinalityType DEF AreFindings
<1>4. upto(0) = {} /\ Cardinality(upto(0)) = 0
  <2>1. upto(0) = {}
    OBVIOUS
  <2> QED BY <2>1, FS_EmptySet
<1>5. \A x \in F : \A i, j \in 1..n : InGroup(x, keys[i]) /\ InGroup(x, keys[j]) => i = j
  <2> TAKE x \in F
  <2> TAKE i, j \in 1..n
  <2> HAVE InGroup(x, keys[i]) /\ InGroup(x, keys[j])
  <2>1. \A k \in KeysOf(F) : k = <<k[1], k[2]>>
    BY DEF KeysOf
  <2>2. keys[i] \in KeysOf(F) /\ keys[j] \in KeysOf(F)
    BY KeysInOrderAre
  <2> HIDE DEF keys
  <2>3. keys[i] = keys[j]
    BY <2>1, <2>2 DEF InGroup
  <2> QED BY <2>3, KeysInOrderAre DEF keys
<1>6. ASSUME NEW i \in 1..n
      PROVE  /\ Cardinality(upto(i)) = Cardinality(upto(i - 1)) + (Len(G[i].shown) + G[i].more)
             /\ Len(G[i].shown) \in Int /\ G[i].more \in Int
  <2> DEFINE items == ItemsOf(F, keys[i])
  <2>1. i - 1 \in 0..n /\ i \in 0..n /\ 1..i = (1..(i - 1)) \cup {i}
    BY <1>1
  <2>2. upto(i) = upto(i - 1) \cup items
    BY <2>1 DEF ItemsOf
  <2>3. upto(i - 1) \cap items = {}
    <3>1. ASSUME NEW x \in upto(i - 1), x \in items PROVE FALSE
      <4>1. PICK j \in 1..(i - 1) : InGroup(x, keys[j])
        OBVIOUS
      <4>2. j \in 1..n /\ j # i /\ InGroup(x, keys[i])
        BY <1>1, <3>1 DEF ItemsOf
      <4> HIDE DEF keys
      <4> QED BY <1>5, <4>1, <4>2
    <3> QED BY <3>1
  <2>4. IsFiniteSet(items)
    BY ItemsAreOrdered
  <2>5. IsFiniteSet(upto(i - 1)) /\ Cardinality(upto(i - 1)) \in Nat
    BY <1>3, <2>1
  <2>6. Cardinality(items) \in Nat /\ Len(G[i].shown) + G[i].more = Cardinality(items) /\ Len(G[i].shown) \in Int /\ G[i].more \in Int
    <3>1. G[i] = Group(F, keys[i])
      BY KeysInOrderAre
    <3> HIDE DEF keys, G
    <3>2. /\ Cardinality(items) \in Nat /\ Len(Group(F, keys[i]).shown) + Group(F, keys[i]).more = Cardinality(items)
          /\ Len(Group(F, keys[i]).shown) \in Int /\ Group(F, keys[i]).more \in Int
      BY GroupIs
    <3> QED BY <3>1, <3>2
  <2> HIDE DEF upto, items
  <2>7. Cardinality(upto(i)) = Cardinality(upto(i - 1)) + Cardinality(items) - Cardinality({})
    BY <2>2, <2>3, <2>4, <2>5, FS_Union
  <2>8. Cardinality({}) = 0
    BY FS_EmptySet
  <2> QED BY <2>5, <2>6, <2>7, <2>8
<1> HIDE DEF upto, G, keys
<1>7. Runs(f)
  <2>1. \A i \in 0..n : i # 0 => i \in 1..n /\ i - 1 \in 0..n
    BY <1>1
  <2>2. ASSUME NEW i \in 0..n PROVE f[i] = IF i = 0 THEN 0 ELSE f[i - 1] + Len(G[i].shown) + G[i].more
    <3>1. CASE i = 0
      BY <1>4, <3>1
    <3>2. CASE i # 0
      <4>1. i \in 1..n /\ i - 1 \in 0..n
        BY <2>1, <3>2
      <4>2. f[i] = Cardinality(upto(i)) /\ f[i - 1] = Cardinality(upto(i - 1)) /\ Cardinality(upto(i - 1)) \in Nat
        BY <4>1, <1>3
      <4> HIDE DEF f
      <4> QED BY <1>6, <4>1, <4>2, <3>2
    <3> QED BY <3>1, <3>2
  <2>3. f = [i \in 0..n |-> f[i]]
    OBVIOUS
  <2> HIDE DEF f, n
  <2> QED BY <2>2, <2>3
<1>8. Runs(sum)
  <2> HIDE DEF Runs, f
  <2> QED BY <1>7
<1>9. sum[n] = Cardinality(upto(n))
  <2> DEFINE Bad == {i \in 0..n : sum[i] # Cardinality(upto(i))}
  <2>1. SUFFICES ASSUME Bad # {} PROVE FALSE
    <3>1. n \in 0..n
      BY <1>1
    <3> HIDE DEF sum
    <3> QED BY <3>1
  <2>2. Bad \subseteq Nat
    BY <1>1
  <2>3. PICK m \in Bad : \A i \in Bad : m <= i
    <3> HIDE DEF Bad
    <3> QED BY <2>1, <2>2, LeastNumber
  <2>4. m \in 0..n /\ sum[m] # Cardinality(upto(m))
    BY <2>3
  <2> HIDE DEF sum
  <2>5. m # 0
    <3>1. sum[0] = 0
      <4>1. 0 \in 0..n
        BY <1>1
      <4> HIDE DEF n
      <4> QED BY <1>8, <4>1
    <3> QED BY <1>4, <2>4, <3>1
  <2>6. m \in 1..n /\ m - 1 \in 0..n /\ ~ (m <= m - 1)
    BY <1>1, <2>4, <2>5
  <2>7. sum[m - 1] = Cardinality(upto(m - 1))
    BY <2>3, <2>6
  <2>8. sum[m] = sum[m - 1] + Len(G[m].shown) + G[m].more
    <3> HIDE DEF n
    <3> QED BY <1>8, <2>4, <2>5
  <2>9. Cardinality(upto(m - 1)) \in Nat
    BY <1>3, <2>6
  <2> QED BY <1>6, <2>4, <2>6, <2>7, <2>8, <2>9
<1>10. upto(n) = F
  <2>1. ASSUME NEW x \in F PROVE \E i \in 1..n : InGroup(x, keys[i])
    <3>1. PICK i \in 1..n : KeysInOrder(F)[i] = <<x.severity, x.rule>>
      BY KeysInOrderAre DEF KeysOf
    <3> QED BY <3>1 DEF InGroup, keys
  <2> QED BY <2>1 DEF upto
<1> QED BY <1>2, <1>9, <1>10 DEF G

-----------------------------------------------------------------------------
(* Reports: one stays only while everything it was made of does.            *)

Fresh ==
  report # NotRun =>
    \E base \in {NoBase, "base"}, gitWorks \in BOOLEAN, failOn \in Thresholds : report = CmdScan(base, gitWorks, failOn)

\* What a run that has files to scan returns.
LEMMA ScanReturns ==
  ASSUME NEW base, NEW gitWorks, NEW failOn, CmdScan(base, gitWorks, failOn).targets # {}
  PROVE  LET r == CmdScan(base, gitWorks, failOn)
             findings == Scan(r.targets, work)
             printed == CliFindings(findings, Load(config))
         IN  /\ failOn \in Range(Severities)
             /\ r.targets = ApplyDiffFilter(base, gitWorks) /\ r.base = base /\ r.failOn = failOn
             /\ r.findings = findings /\ r.groups = Grouped(printed) /\ r.summary = ReportSummary(printed)
             /\ r.exit = IF ThresholdTripped(printed, failOn) \/ CiFailurePresent(findings, Load(config)) THEN 1 ELSE 0
<1> DEFINE targets == ApplyDiffFilter(base, gitWorks)
           findings == Scan(targets, work)
           surfaces == Load(config)
           printed == CliFindings(findings, surfaces)
           failed == ThresholdTripped(printed, failOn) \/ CiFailurePresent(findings, surfaces)
           warned == base # NoBase /\ ~gitWorks
           bad == [exit |-> 2, targets |-> {}]
           none == [exit |-> 0, targets |-> {}, base |-> base, warned |-> warned]
           full == [exit |-> IF failed THEN 1 ELSE 0, failOn |-> failOn, base |-> base, warned |-> warned, targets |-> targets,
                    findings |-> findings, groups |-> Grouped(printed), summary |-> ReportSummary(printed)]
<1>1. CmdScan(base, gitWorks, failOn) =
        IF failOn \notin Range(Severities) THEN bad ELSE IF targets = {} THEN none ELSE full
  BY DEF CmdScan
<1>2. bad.targets = {} /\ none.targets = {}
  OBVIOUS
<1>3. CmdScan(base, gitWorks, failOn) = full /\ failOn \in Range(Severities)
  <2> HIDE DEF full, targets, bad, none
  <2> QED BY <1>1, <1>2
<1> QED BY <1>3

\* Whatever changes what a report was made of retires it.
LEMMA FreshInit == SessionInit => Fresh
BY DEF SessionInit, Fresh

LEMMA FreshStep == Fresh /\ [SessionNext]_vars => Fresh'
<1> SUFFICES ASSUME Fresh, [SessionNext]_vars PROVE Fresh'
  OBVIOUS
<1>1. ASSUME NEW base, NEW gitWorks, NEW failOn, UNCHANGED <<head, staged, work, config>>
      PROVE  CmdScan(base, gitWorks, failOn)' = CmdScan(base, gitWorks, failOn)
  <2>1. ApplyDiffFilter(base, gitWorks)' = ApplyDiffFilter(base, gitWorks)
    BY <1>1 DEF ApplyDiffFilter, CollectDiffPaths, GitDiff, GitUntracked, Present, Tracked
  <2>2. work' = work /\ config' = config
    BY <1>1
  <2> QED BY <2>1, <2>2 DEF CmdScan
<1>2. CASE Run
  <2>1. PICK base \in {NoBase, "base"}, gitWorks \in BOOLEAN, failOn \in Thresholds :
          report' = CmdScan(base, gitWorks, failOn)
    BY <1>2 DEF Run
  <2>2. UNCHANGED <<head, staged, work, config>>
    BY <1>2 DEF Run
  <2>3. report' = CmdScan(base, gitWorks, failOn)'
    BY <1>1, <2>1, <2>2
  <2> QED BY <2>3 DEF Fresh
<1>3. CASE InsertLine \/ CreateFile \/ DeleteFile
  BY <1>3 DEF InsertLine, CreateFile, DeleteFile, Edit, Fresh
<1>4. CASE Stage \/ Commit \/ Configure
  BY <1>4 DEF Stage, Commit, Configure, Fresh
<1>5. CASE UNCHANGED vars
  <2>1. UNCHANGED <<head, staged, work, config>> /\ report' = report
    BY <1>5 DEF vars
  <2>2. CASE report = NotRun
    BY <2>1, <2>2 DEF Fresh
  <2>3. CASE report # NotRun
    <3>1. PICK base \in {NoBase, "base"}, gitWorks \in BOOLEAN, failOn \in Thresholds : report = CmdScan(base, gitWorks, failOn)
      BY <2>3 DEF Fresh
    <3>2. report' = CmdScan(base, gitWorks, failOn)'
      BY <1>1, <2>1, <3>1
    <3> QED BY <3>2 DEF Fresh
  <2> QED BY <2>2, <2>3
<1> QED BY <1>2, <1>3, <1>4, <1>5 DEF SessionNext

Filtered == Present \cap (GitDiff \cup GitUntracked)
Printed == CliFindings(report.findings, Load(config))
\* What a report that stands says of the trees as they are.
LEMMA ReportIs ==
  ASSUME Fresh, Reported
  PROVE  /\ report.targets = Present \/ (report.base # NoBase /\ report.targets = Filtered)
         /\ report.failOn \in Range(Severities)
         /\ report.findings = Scan(report.targets, work)
         /\ report.groups = Grouped(Printed) /\ report.summary = ReportSummary(Printed)
         /\ report.exit = IF ThresholdTripped(Printed, report.failOn) \/ CiFailurePresent(report.findings, Load(config)) THEN 1 ELSE 0
<1>1. PICK base \in {NoBase, "base"}, gitWorks \in BOOLEAN, failOn \in Thresholds : report = CmdScan(base, gitWorks, failOn)
  BY DEF Fresh, Reported
<1>2. CmdScan(base, gitWorks, failOn).targets # {}
  BY <1>1 DEF Reported
<1>3. /\ failOn \in Range(Severities)
      /\ report.targets = ApplyDiffFilter(base, gitWorks) /\ report.base = base /\ report.failOn = failOn
      /\ report.findings = Scan(report.targets, work)
      /\ report.groups = Grouped(Printed) /\ report.summary = ReportSummary(Printed)
      /\ report.exit = IF ThresholdTripped(Printed, failOn) \/ CiFailurePresent(report.findings, Load(config)) THEN 1 ELSE 0
  <2> DEFINE r == CmdScan(base, gitWorks, failOn)
             printed == CliFindings(r.findings, Load(config))
  <2>1. /\ failOn \in Range(Severities)
        /\ r.targets = ApplyDiffFilter(base, gitWorks) /\ r.base = base /\ r.failOn = failOn
        /\ r.findings = Scan(r.targets, work)
    BY <1>2, ScanReturns
  <2>2. /\ r.groups = Grouped(printed) /\ r.summary = ReportSummary(printed)
        /\ r.exit = IF ThresholdTripped(printed, failOn) \/ CiFailurePresent(r.findings, Load(config)) THEN 1 ELSE 0
    BY <1>2, <2>1, ScanReturns
  <2>3. report = r
    BY <1>1
  <2> HIDE DEF r
  <2> QED BY <2>1, <2>2, <2>3 DEF Printed
<1>4. report.targets = Present \/ (report.base # NoBase /\ report.targets = Filtered)
  BY <1>3 DEF ApplyDiffFilter, CollectDiffPaths, Filtered
<1> QED BY <1>3, <1>4

\* Which files a run whose threshold is a severity scans.
LEMMA DiffReturns ==
  ASSUME NEW base, NEW gitWorks, NEW failOn, CmdScan(base, gitWorks, failOn).exit # 2
  PROVE  LET r == CmdScan(base, gitWorks, failOn)
         IN  r.targets = ApplyDiffFilter(base, gitWorks) /\ r.base = base /\ r.warned = (base # NoBase /\ ~gitWorks)
<1> DEFINE r == CmdScan(base, gitWorks, failOn)
           targets == ApplyDiffFilter(base, gitWorks)
           warned == base # NoBase /\ ~gitWorks
<1>1. failOn \in Range(Severities)
  BY DEF CmdScan
<1>2. CASE targets = {}
  <2>1. r = [exit |-> 0, targets |-> {}, base |-> base, warned |-> warned]
    BY <1>1, <1>2 DEF CmdScan
  <2> HIDE DEF r, warned, targets
  <2>2. r.targets = targets /\ r.base = base /\ r.warned = warned
    BY <1>2, <2>1
  <2> QED BY <2>2 DEF r, warned, targets
<1>3. CASE targets # {}
  <2>1. PICK code, findings, groups, summary :
          r = [exit |-> code, failOn |-> failOn, base |-> base, warned |-> warned, targets |-> targets,
               findings |-> findings, groups |-> groups, summary |-> summary]
    BY <1>1, <1>3 DEF CmdScan
  <2> HIDE DEF r, warned, targets
  <2>2. r.targets = targets /\ r.base = base /\ r.warned = warned
    BY <2>1
  <2> QED BY <2>2 DEF r, warned, targets
<1> QED BY <1>2, <1>3

\* What the two git calls leave out is as it was, or is tracked and not as committed.
LEMMA LeftOutOfDiff ==
  /\ \A f \in Present \ Filtered : work[f] = Start[f] \/ (f \in Tracked /\ work[f] # head[f])
  /\ work = staged /\ staged = head => Filtered = {f \in Present : work[f] # Start[f]}
<1>1. ASSUME NEW f \in Present, f \notin Filtered PROVE work[f] = Start[f] \/ (f \in Tracked /\ work[f] # head[f])
  <2>1. f \in Tracked /\ (head[f] = Absent \/ head[f] = Start[f]) /\ work[f] # Absent
    BY <1>1 DEF Filtered, GitUntracked, GitDiff, Present
  <2> QED BY <2>1
<1>2. ASSUME work = staged, staged = head, NEW f \in Present PROVE f \in Filtered <=> work[f] # Start[f]
  <2>1. f \in Files /\ f \in Tracked /\ head[f] = work[f] /\ work[f] # Absent
    BY <1>2 DEF Present, Tracked
  <2> QED BY <2>1 DEF Filtered, GitUntracked, GitDiff
<1>3. Filtered \subseteq Present
  BY DEF Filtered
<1> QED BY <1>1, <1>2, <1>3

LEMMA FreshSeesCommitted == Fresh => DiffSeesCommitted
<1> SUFFICES ASSUME Fresh, report # NotRun, report.exit # 2, report.base # NoBase
             PROVE  /\ \A f \in Present \ report.targets : work[f] = Start[f] \/ (f \in Tracked /\ work[f] # head[f])
                    /\ ~report.warned /\ work = staged /\ staged = head => report.targets = {f \in Present : work[f] # Start[f]}
                    /\ report.warned => report.targets = Present
  BY DEF DiffSeesCommitted
<1>1. PICK base \in {NoBase, "base"}, gitWorks \in BOOLEAN, failOn \in Thresholds : report = CmdScan(base, gitWorks, failOn)
  BY DEF Fresh
<1>2. report.targets = ApplyDiffFilter(base, gitWorks) /\ report.base = base /\ report.warned = (base # NoBase /\ ~gitWorks)
  BY <1>1, DiffReturns
<1>3. report.warned = ~gitWorks /\ report.targets = IF gitWorks THEN Filtered ELSE Present
  BY <1>2 DEF ApplyDiffFilter, CollectDiffPaths, Filtered
<1>4. CASE gitWorks
  BY <1>3, <1>4, LeftOutOfDiff
<1>5. CASE ~gitWorks
  BY <1>3, <1>5
<1> QED BY <1>4, <1>5

\* With --diff, whatever the session did before, what is left out is as it was
\* at base or is not committed, and once all is committed what differs from
\* base is scanned and nothing else.
THEOREM DiffIsComplete == SessionSpec => []DiffSeesCommitted
<1>1. SessionSpec => []Fresh
  BY FreshInit, FreshStep, PTL DEF SessionSpec
<1>2. Fresh => DiffSeesCommitted
  BY FreshSeesCommitted
<1> QED BY <1>1, <1>2, PTL

-----------------------------------------------------------------------------
(***************************************************************************)
(* A whole session.                                                        *)
(***************************************************************************)
SessionInv == WorkTyped /\ edits \in 0..MaxEdits /\ Fresh

\* The invariant, and that it is one.
LEMMA SessionInvInit == SessionInit => SessionInv
BY SessionAssumption, FreshInit DEF SessionInit, SessionInv, WorkTyped, Texts

LEMMA SessionInvStep == SessionInv /\ [SessionNext]_vars => SessionInv'
<1> SUFFICES ASSUME SessionInv, [SessionNext]_vars PROVE SessionInv'
  OBVIOUS
<1>1. WorkTyped' /\ Fresh'
  BY WorkTypedStep, FreshStep DEF SessionInv
<1>2. edits' = edits \/ (edits < MaxEdits /\ edits' = edits + 1)
  BY DEF SessionNext, Run, InsertLine, CreateFile, DeleteFile, Stage, Commit, Configure, Edit, vars
<1>3. edits' \in 0..MaxEdits
  BY <1>2, SessionAssumption DEF SessionInv
<1> QED BY <1>1, <1>3 DEF SessionInv

LEMMA SessionIsInvariant == SessionSpec => []SessionInv
BY SessionInvInit, SessionInvStep, PTL DEF SessionSpec

\* The findings a report is made of, and those it prints.
LEMMA ReportedFindings ==
  ASSUME SessionInv, Reported
  PROVE  /\ AreFindings(report.findings) /\ AreFindings(Printed)
         /\ report.findings = {x \in AllOf(work) : x.file \in report.targets}
         /\ report.targets \subseteq Present
<1>1. work \in Trees /\ Present = PresentIn(work)
  BY DEF SessionInv, WorkTyped, Trees, Present, PresentIn
<1>2. report.targets \subseteq Present /\ report.findings = Scan(report.targets, work)
  BY ReportIs DEF SessionInv, Filtered
<1>3. AreFindings(report.findings) /\ report.findings = {x \in AllOf(work) : x.file \in report.targets}
  BY <1>1, <1>2, ScanIs
<1>4. Printed \subseteq report.findings
  BY DEF Printed, CliFindings
<1>5. IsFiniteSet(Printed)
  BY <1>3, <1>4, FS_Subset DEF AreFindings
<1>6. AreFindings(Printed)
  BY <1>3, <1>4, <1>5 DEF AreFindings
<1> QED BY <1>2, <1>3, <1>6

\* The invariant has the shapes, the gate and the order of the groups.
LEMMA InvIsTyped == SessionInv => SessionTypeOK
<1> SUFFICES ASSUME SessionInv PROVE SessionTypeOK
  OBVIOUS
<1>1. ASSUME Reported PROVE report.targets \subseteq Present /\ report.summary.score \in 0..100
  <2>1. IsFiniteSet(Printed)
    BY <1>1, ReportedFindings DEF AreFindings
  <2>2. report.summary = ReportSummary(Printed)
    BY <1>1, ReportIs DEF SessionInv
  <2> QED BY <1>1, <2>1, <2>2, ReportedFindings, ScoreIsAPercentage
<1> QED BY <1>1 DEF SessionTypeOK, SessionInv, WorkTyped, Texts

\* Throughout a session the trees hold texts, no report is about a file that is
\* gone, and every score is a percentage.
THEOREM SessionIsTyped == SessionSpec => []SessionTypeOK
BY SessionIsInvariant, InvIsTyped, PTL

\* The highest of the severities printed reaches the threshold when one of them does.
LEMMA ThresholdIs ==
  ASSUME NEW F, AreFindings(F), NEW t \in Range(Severities)
  PROVE  ThresholdTripped(F, t) <=> \E x \in F : Rank(x.severity) >= Rank(t)
<1> DEFINE ranks == {Rank(x.severity) : x \in F}
<1>1. ranks \subseteq 1..5 /\ Rank(t) \in 1..5
  BY SeverityRanks DEF AreFindings, IsFinding
<1>2. F # {} => ranks # {}
  OBVIOUS
<1>3. ThresholdTripped(F, t) <=> F # {} /\ Max(ranks) >= Rank(t)
  BY DEF ThresholdTripped
<1>4. \A x \in F : Rank(x.severity) \in ranks
  OBVIOUS
<1>5. \A r \in ranks : \E x \in F : r = Rank(x.severity)
  OBVIOUS
<1> HIDE DEF ranks
<1>6. ranks # {} => Max(ranks) \in ranks /\ \A r \in ranks : r <= Max(ranks)
  <2> SUFFICES ASSUME ranks # {} PROVE Max(ranks) \in ranks /\ \A r \in ranks : r <= Max(ranks)
    OBVIOUS
  <2>1. \E m \in ranks : \A r \in ranks : m >= r
    <3>1. \/ 5 \in ranks
          \/ 5 \notin ranks /\ 4 \in ranks
          \/ 5 \notin ranks /\ 4 \notin ranks /\ 3 \in ranks
          \/ 5 \notin ranks /\ 4 \notin ranks /\ 3 \notin ranks /\ 2 \in ranks
          \/ 5 \notin ranks /\ 4 \notin ranks /\ 3 \notin ranks /\ 2 \notin ranks /\ 1 \in ranks
      <4>1. PICK r : r \in ranks
        OBVIOUS
      <4>2. r \in 1..5
        BY <1>1, <4>1
      <4> QED BY <4>1, <4>2
    <3>2. \A r \in ranks : r = 1 \/ r = 2 \/ r = 3 \/ r = 4 \/ r = 5
      BY <1>1
    <3> QED BY <3>1, <3>2
  <2>2. Max(ranks) = CHOOSE m \in ranks : \A r \in ranks : m >= r
    BY DEF Max
  <2>3. Max(ranks) \in ranks /\ \A r \in ranks : Max(ranks) >= r
    BY <2>1, <2>2
  <2> QED BY <1>1, <2>3
<1>7. \A r \in ranks : r \in Int
  BY <1>1
<1>8. ASSUME ThresholdTripped(F, t) PROVE \E x \in F : Rank(x.severity) >= Rank(t)
  BY <1>2, <1>3, <1>5, <1>6, <1>8
<1>9. ASSUME NEW x \in F, Rank(x.severity) >= Rank(t) PROVE ThresholdTripped(F, t)
  <2>1. Rank(x.severity) \in ranks
    BY <1>4
  <2>2. ranks # {} /\ F # {}
    BY <2>1
  <2>3. Max(ranks) \in Int /\ Rank(x.severity) <= Max(ranks)
    BY <1>6, <1>7, <2>1, <2>2
  <2>4. Max(ranks) >= Rank(t)
    <3>1. Rank(x.severity) \in Int /\ Rank(t) \in Int
      <4>1. \A a \in 1..5 : a \in Int
        OBVIOUS
      <4> QED BY <1>1, <1>7, <2>1, <4>1, Zenon
    <3>2. \A a, b, c \in Int : a >= b /\ a <= c => c >= b
      OBVIOUS
    <3> QED BY <1>9, <2>3, <3>1, <3>2, Zenon
  <2> QED BY <1>3, <2>2, <2>4
<1> QED BY <1>8, <1>9

LEMMA InvGates == SessionInv => GateHolds
<1> SUFFICES ASSUME SessionInv, Reported PROVE GateHolds
  BY DEF GateHolds
<1> DEFINE routes == Load(config)
           listed(x) == \E g \in DOMAIN report.groups : report.groups[g].rule = x.rule
           blamed(x) == \/ "ciFailure" \in SurfacesFor(routes, x.rule)
                        \/ Rank(x.severity) >= Rank(report.failOn) /\ listed(x)
<1>1. /\ AreFindings(report.findings) /\ AreFindings(Printed)
      /\ report.findings = {x \in AllOf(work) : x.file \in report.targets}
  BY ReportedFindings
<1>2. /\ report.failOn \in Range(Severities) /\ report.groups = Grouped(Printed)
      /\ report.exit = IF ThresholdTripped(Printed, report.failOn) \/ CiFailurePresent(report.findings, routes) THEN 1 ELSE 0
  BY ReportIs DEF SessionInv
<1>3. \A x : x \in Printed <=> x \in report.findings /\ "cli" \in SurfacesFor(routes, x.rule)
  BY DEF Printed, CliFindings
<1>4. \A x \in report.findings : x \in Printed <=> listed(x)
  <2> TAKE x \in report.findings
  <2>1. listed(x) <=> \E y \in Printed : y.rule = x.rule
    BY <1>1, <1>2, ListedIs
  <2> QED BY <1>3, <2>1
<1>5. ThresholdTripped(Printed, report.failOn) <=> \E x \in Printed : Rank(x.severity) >= Rank(report.failOn)
  BY <1>1, <1>2, ThresholdIs
<1>6. CiFailurePresent(report.findings, routes) <=> \E x \in report.findings : "ciFailure" \in SurfacesFor(routes, x.rule)
  BY DEF CiFailurePresent, Gates
<1>7. (report.exit = 1) <=> (ThresholdTripped(Printed, report.failOn) \/ CiFailurePresent(report.findings, routes))
  BY <1>2
<1> HIDE DEF routes, listed
<1>8. (report.exit = 1) <=> \E x \in report.findings : blamed(x)
  BY <1>3, <1>4, <1>5, <1>6, <1>7
<1> HIDE DEF blamed
<1>9. (report.exit = 1) <=> \E x \in AllOf(work) : x.file \in report.targets /\ blamed(x)
  BY <1>1, <1>8
<1> QED BY <1>9 DEF GateHolds, blamed, listed, routes

\* The exit code is 1 exactly when a finding no marker silences is gated or,
\* being listed, as severe as asked.
THEOREM GatesHold == SessionSpec => []GateHolds
BY SessionIsInvariant, InvGates, PTL

LEMMA InvIsWorstFirst == SessionInv => WorstFirst
<1> SUFFICES ASSUME SessionInv, Reported PROVE WorstFirst
  BY DEF WorstFirst
<1> DEFINE F == Printed
           g == report.groups
           n == Cardinality(KeysOf(F))
           keys == KeysInOrder(F)
<1>1. AreFindings(F) /\ AreFindings(report.findings)
  BY ReportedFindings
<1>2. g = Grouped(F) /\ report.summary = ReportSummary(F)
  BY ReportIs DEF SessionInv
<1>3. DOMAIN g = 1..n /\ n \in Nat /\ \A i \in 1..n : g[i] = Group(F, keys[i]) /\ keys[i] \in KeysOf(F)
  BY <1>1, <1>2, KeysInOrderAre
<1>4. \A i, j \in 1..n : i < j => Precedes(keys[i], keys[j])
  BY <1>1, KeysInOrderAre
<1>5. \A i \in 1..n : keys[i][1] \in Range(Severities) /\ Rank(keys[i][1]) \in Int
  BY <1>1, <1>3, SeverityRanks DEF KeysOf, AreFindings, IsFinding
<1>6. CountedIn(g) = Cardinality(Routed("cli")) /\ report.summary.total = Cardinality(Routed("cli"))
  <2>1. F = Routed("cli")
    BY ReportedFindings DEF Printed, CliFindings, Routed
  <2>2. CountedIn(g) = Cardinality(F) /\ report.summary.total = Cardinality(F)
    BY <1>1, <1>2, CountedIs DEF ReportSummary
  <2> QED BY <2>1, <2>2
<1> HIDE DEF keys, n, g, F
<1>7. ASSUME NEW i \in 1..n
      PROVE  /\ g[i].severity = keys[i][1] /\ g[i].rule = keys[i][2]
             /\ DOMAIN g[i].shown = 1..Len(g[i].shown)
             /\ g[i].more > 0 => Len(g[i].shown) = MaxRepresentatives
             /\ \A k \in 2..Len(g[i].shown) : Earlier(g[i].shown[k - 1], g[i].shown[k])
             /\ \A x \in ItemsOf(F, keys[i]) : x \in Range(g[i].shown) \/ \A k \in DOMAIN g[i].shown : Earlier(g[i].shown[k], x)
  <2>1. g[i] = Group(F, keys[i])
    BY <1>3
  <2>2. PICK key : key = keys[i]
    OBVIOUS
  <2>3. g[i] = Group(F, key)
    BY <2>1, <2>2
  <2>4. PICK h : h = Group(F, key)
    OBVIOUS
  <2>5. /\ h.severity = key[1] /\ h.rule = key[2]
        /\ DOMAIN h.shown = 1..Len(h.shown)
        /\ h.more > 0 => Len(h.shown) = MaxRepresentatives
        /\ \A k \in 2..Len(h.shown) : Earlier(h.shown[k - 1], h.shown[k])
        /\ \A x \in ItemsOf(F, key) : x \in Range(h.shown) \/ \A k \in DOMAIN h.shown : Earlier(h.shown[k], x)
    BY <1>1, <2>4, GroupIs
  <2> QED BY <2>2, <2>3, <2>4, <2>5
<1>8. ASSUME NEW i \in 1..n, NEW j \in 1..n, i < j PROVE Rank(g[i].severity) >= Rank(g[j].severity)
  <2>1. Precedes(keys[i], keys[j])
    BY <1>4, <1>8
  <2> QED BY <1>5, <1>7, <2>1 DEF Precedes
<1>9. ASSUME NEW i \in 1..n, NEW x \in report.findings, InGroup(x, <<g[i].severity, g[i].rule>>)
      PROVE  x \in Range(g[i].shown) \/ \A k \in DOMAIN g[i].shown : Earlier(g[i].shown[k], x)
  <2>1. x.severity = keys[i][1] /\ x.rule = keys[i][2]
    BY <1>7, <1>9 DEF InGroup
  <2>2. PICK y \in F : keys[i] = <<y.severity, y.rule>>
    BY <1>3 DEF KeysOf
  <2>3. x \in F
    BY <2>1, <2>2 DEF F, Printed, CliFindings
  <2>4. x \in ItemsOf(F, keys[i])
    BY <2>1, <2>3 DEF ItemsOf, InGroup
  <2> QED BY <1>7, <2>4
<1> QED BY <1>3, <1>6, <1>7, <1>8, <1>9 DEF WorstFirst, g

\* Every report lists the worst first and each group by place, and what its
\* groups show and count adds up to the findings routed to the cli.
THEOREM ReportsWorstFirst == SessionSpec => []WorstFirst
BY SessionIsInvariant, InvIsWorstFirst, PTL

-----------------------------------------------------------------------------
(* A line that is written into a text.                                      *)

\* The rules the line above names, and a finding where an insertion moves it.
AboveNames(text, l) == IF l = 1 THEN {} ELSE Named(text[l - 1], "DisableNextLine")
Shift(f, at, x) == IF x.file = f THEN [x EXCEPT !.line = Moved(@, at)] ELSE x

\* Suppresses, line by line.
LEMMA SuppressedIs ==
  ASSUME NEW text \in Texts, NEW l \in 1..Len(text), NEW r
  PROVE  Suppresses(Parse(text), r, l) <=> r \in FileLevel(text) \/ r \in AboveNames(text, l)
<1>1. DOMAIN text = 1..Len(text)
  BY DEF Texts
<1> QED BY <1>1 DEF Suppresses, Parse, AboveNames

LEMMA InsertedText ==
  ASSUME NEW s \in Texts, NEW m \in NewLines, NEW at \in 1..(Len(s) + 1)
  PROVE  LET t == InsertAt(s, at, m) IN
         /\ t \in Texts /\ Len(t) = Len(s) + 1 /\ t[at] = m
         /\ \A l \in 1..Len(s) : Moved(l, at) \in 1..Len(t) /\ Moved(l, at) # at /\ t[Moved(l, at)] = s[l]
         /\ \A l \in 1..Len(t) : l = at \/ \E k \in 1..Len(s) : l = Moved(k, at)
         /\ \A k, l \in 1..Len(s) : Moved(k, at) = Moved(l, at) => k = l
<1> DEFINE t == InsertAt(s, at, m)
<1>1. /\ t \in Texts /\ Len(t) = Len(s) + 1 /\ t[at] = m
      /\ \A l \in 1..Len(s) : t[Moved(l, at)] = s[l]
  BY InsertIs DEF Texts
<1>2. Len(s) \in Nat /\ at \in Int
  BY DEF Texts
<1> HIDE DEF t
<1>3. \A l \in 1..Len(s) : Moved(l, at) \in 1..Len(t) /\ Moved(l, at) # at
  BY <1>1, <1>2 DEF Moved
<1>4. ASSUME NEW l \in 1..Len(t), l # at PROVE \E k \in 1..Len(s) : l = Moved(k, at)
  <2>1. CASE l < at
    <3>1. l \in 1..Len(s) /\ Moved(l, at) = l
      BY <1>1, <1>2, <2>1 DEF Moved
    <3> QED BY <3>1
  <2>2. CASE l > at
    <3>1. l - 1 \in 1..Len(s) /\ Moved(l - 1, at) = l
      BY <1>1, <1>2, <2>2 DEF Moved
    <3> QED BY <3>1
  <2> QED BY <1>1, <1>2, <1>4, <2>1, <2>2
<1>5. \A k, l \in 1..Len(s) : Moved(k, at) = Moved(l, at) => k = l
  BY <1>2 DEF Moved
<1> QED BY <1>1, <1>3, <1>4, <1>5 DEF t

\* What the markers of a text silence once a line is inserted.
LEMMA InsertedMarkers ==
  ASSUME NEW s \in Texts, NEW m \in NewLines, NEW at \in 1..(Len(s) + 1)
  PROVE  LET t == InsertAt(s, at, m) IN
         /\ FileLevel(t) = FileLevel(s) \cup Named(m, "DisableFile")
         /\ \A l \in 1..Len(s) : l # at => AboveNames(t, Moved(l, at)) = AboveNames(s, l)
         /\ at <= Len(s) => AboveNames(t, Moved(at, at)) = Named(m, "DisableNextLine")
<1> DEFINE t == InsertAt(s, at, m)
<1>1. /\ t \in Texts /\ Len(t) = Len(s) + 1 /\ t[at] = m /\ at \in 1..Len(t)
      /\ \A l \in 1..Len(s) : Moved(l, at) \in 1..Len(t) /\ t[Moved(l, at)] = s[l]
      /\ \A l \in 1..Len(t) : l = at \/ \E k \in 1..Len(s) : l = Moved(k, at)
  <2>1. Len(s) \in Nat
    BY DEF Texts
  <2> QED BY <2>1, InsertedText
<1>2. Len(s) \in Nat /\ at \in Int /\ DOMAIN s = 1..Len(s) /\ DOMAIN t = 1..Len(t)
  BY <1>1 DEF Texts
<1> HIDE DEF t
<1>3. FileLevel(t) = FileLevel(s) \cup Named(m, "DisableFile")
  <2>1. \A x : x \in FileLevel(t) <=> \E l \in 1..Len(t) : x \in Named(t[l], "DisableFile")
    BY <1>2 DEF FileLevel
  <2>2. \A x : x \in FileLevel(s) <=> \E l \in 1..Len(s) : x \in Named(s[l], "DisableFile")
    BY <1>2 DEF FileLevel
  <2>3. ASSUME NEW x \in FileLevel(t) PROVE x \in FileLevel(s) \cup Named(m, "DisableFile")
    BY <1>1, <2>1, <2>2
  <2>4. ASSUME NEW x \in FileLevel(s) \cup Named(m, "DisableFile") PROVE x \in FileLevel(t)
    <3>1. CASE x \in FileLevel(s)
      <4>1. PICK l \in 1..Len(s) : x \in Named(s[l], "DisableFile")
        BY <2>2, <3>1
      <4>2. Moved(l, at) \in 1..Len(t) /\ t[Moved(l, at)] = s[l]
        BY <1>1
      <4> QED BY <2>1, <4>1, <4>2
    <3>2. CASE x \in Named(m, "DisableFile")
      BY <1>1, <2>1, <3>2
    <3> QED BY <3>1, <3>2
  <2> QED BY <2>3, <2>4
<1>4. ASSUME NEW l \in 1..Len(s), l # at PROVE AboveNames(t, Moved(l, at)) = AboveNames(s, l)
  <2>1. CASE l = 1
    <3>1. Moved(l, at) = 1
      BY <1>2, <1>4, <2>1 DEF Moved
    <3> QED BY <2>1, <3>1 DEF AboveNames
  <2>2. CASE l # 1
    <3>1. l - 1 \in 1..Len(s) /\ Moved(l, at) # 1 /\ Moved(l, at) - 1 = Moved(l - 1, at)
      BY <1>2, <1>4, <2>2 DEF Moved
    <3>2. t[Moved(l - 1, at)] = s[l - 1]
      BY <1>1, <3>1
    <3> QED BY <2>2, <3>1, <3>2 DEF AboveNames
  <2> QED BY <2>1, <2>2
<1>5. AboveNames(t, Moved(at, at)) = Named(m, "DisableNextLine")
  <2>1. Moved(at, at) = at + 1 /\ at + 1 # 1 /\ (at + 1) - 1 = at
    BY <1>2 DEF Moved
  <2> QED BY <1>1, <2>1 DEF AboveNames
<1> QED BY <1>3, <1>4, <1>5 DEF t

\* The findings of the text move with its lines; the line's own are added.
LEMMA InsertedFindings ==
  ASSUME NEW f \in Files, NEW s \in Texts, NEW m \in NewLines, NEW at \in 1..(Len(s) + 1)
  PROVE  LET t == InsertAt(s, at, m) IN
         /\ \A x \in FindingsIn(f, s) :
              /\ Shift(f, at, x) \in FindingsIn(f, t)
              /\ Shift(f, at, x).line = Moved(x.line, at) /\ Shift(f, at, x).rule = x.rule
              /\ Shift(f, at, x).severity = x.severity /\ Shift(f, at, x).file = f
         /\ \A x, y \in FindingsIn(f, s) : Shift(f, at, x) = Shift(f, at, y) => x = y
         /\ \A y \in FindingsIn(f, t) : y.line = at \/ \E x \in FindingsIn(f, s) : y = Shift(f, at, x)
<1> DEFINE t == InsertAt(s, at, m)
<1>1. /\ t \in Texts
      /\ \A l \in 1..Len(s) : Moved(l, at) \in 1..Len(t) /\ t[Moved(l, at)] = s[l]
      /\ \A l \in 1..Len(t) : l = at \/ \E k \in 1..Len(s) : l = Moved(k, at)
      /\ \A k, l \in 1..Len(s) : Moved(k, at) = Moved(l, at) => k = l
  BY InsertedText
<1> HIDE DEF t
<1>2. ASSUME NEW l \in 1..Len(s), NEW k \in DOMAIN s[l].finds
      PROVE  /\ Finding(f, t, Moved(l, at), k) = Shift(f, at, Finding(f, s, l, k))
             /\ Finding(f, t, Moved(l, at), k) \in FindingsIn(f, t)
  <2>1. Moved(l, at) \in 1..Len(t) /\ t[Moved(l, at)] = s[l]
    BY <1>1
  <2>2. Finding(f, t, Moved(l, at), k) \in FindingsIn(f, t)
    BY <1>1, <2>1, FindingsAre
  <2>3. Finding(f, t, Moved(l, at), k) = Shift(f, at, Finding(f, s, l, k))
    BY <2>1 DEF Finding, Shift
  <2> QED BY <2>2, <2>3
<1>3. \A x \in FindingsIn(f, s) : x.file = f /\ x.line \in 1..Len(s) /\ x.column \in DOMAIN s[x.line].finds /\ x = Finding(f, s, x.line, x.column)
  BY FindingsAre
<1>4. ASSUME NEW x \in FindingsIn(f, s)
      PROVE  /\ Shift(f, at, x) \in FindingsIn(f, t)
             /\ Shift(f, at, x).line = Moved(x.line, at) /\ Shift(f, at, x).rule = x.rule
             /\ Shift(f, at, x).severity = x.severity /\ Shift(f, at, x).file = f /\ Shift(f, at, x).column = x.column
  <2> DEFINE l == x.line
             k == x.column
  <2>1. l \in 1..Len(s) /\ k \in DOMAIN s[l].finds /\ x = Finding(f, s, l, k)
    BY <1>3
  <2> HIDE DEF l, k
  <2>2. Shift(f, at, x) \in FindingsIn(f, t)
    BY <1>2, <2>1
  <2>3. /\ Shift(f, at, x).line = Moved(x.line, at) /\ Shift(f, at, x).rule = x.rule
        /\ Shift(f, at, x).severity = x.severity /\ Shift(f, at, x).file = f /\ Shift(f, at, x).column = x.column
    BY <2>1 DEF Shift, Finding
  <2> QED BY <2>2, <2>3
<1>5. ASSUME NEW x \in FindingsIn(f, s), NEW y \in FindingsIn(f, s), Shift(f, at, x) = Shift(f, at, y) PROVE x = y
  <2>1. Moved(x.line, at) = Moved(y.line, at) /\ x.column = y.column
    BY <1>4, <1>5
  <2>2. x.line = y.line
    BY <1>1, <1>3, <2>1
  <2> QED BY <1>3, <2>1, <2>2
<1>6. ASSUME NEW y \in FindingsIn(f, t), y.line # at PROVE \E x \in FindingsIn(f, s) : y = Shift(f, at, x)
  <2>1. y.line \in 1..Len(t) /\ y.column \in DOMAIN t[y.line].finds /\ y = Finding(f, t, y.line, y.column)
    BY <1>1, FindingsAre
  <2>2. PICK l \in 1..Len(s) : y.line = Moved(l, at)
    BY <1>1, <1>6, <2>1
  <2>3. y.column \in DOMAIN s[l].finds
    BY <1>1, <2>1, <2>2
  <2>4. y = Shift(f, at, Finding(f, s, l, y.column))
    BY <1>2, <2>1, <2>2, <2>3
  <2>5. Finding(f, s, l, y.column) \in FindingsIn(f, s)
    BY <2>3, FindingsAre
  <2> QED BY <2>4, <2>5
<1> QED BY <1>4, <1>5, <1>6 DEF t

\* Who is in the whole tree's findings.
LEMMA AllIs ==
  ASSUME NEW tree \in Trees
  PROVE  /\ AreFindings(AllOf(tree))
         /\ \A x : x \in AllOf(tree) <=> \E f \in PresentIn(tree) : x \in FindingsIn(f, tree[f]) /\ ~Suppresses(Parse(tree[f]), x.rule, x.line)
         /\ \A f \in PresentIn(tree) : f \in Files /\ tree[f] \in Texts
<1>1. AllOf(tree) = Scan(PresentIn(tree), tree)
  BY DEF AllOf, PresentIn
<1>2. PresentIn(tree) \in SUBSET PresentIn(tree)
  OBVIOUS
<1>3. \A f \in PresentIn(tree) : f \in Files /\ tree[f] \in Texts
  BY DEF PresentIn, Trees
<1> QED BY <1>1, <1>2, <1>3, ScanIs

\* The tree an insertion makes.
InsertedIn(f, at, m) == [work EXCEPT ![f] = InsertAt(@, at, m)]
LEMMA InsertedTree ==
  ASSUME WorkTyped, NEW f \in Present, NEW at \in 1..(Len(work[f]) + 1), NEW m \in NewLines,
         NEW tree, tree = InsertedIn(f, at, m)
  PROVE  /\ work \in Trees /\ tree \in Trees /\ PresentIn(work) = Present /\ PresentIn(tree) = Present
         /\ f \in Files /\ work[f] \in Texts /\ tree[f] = InsertAt(work[f], at, m)
         /\ \A g \in Files : g # f => tree[g] = work[g]
<1>1. work \in Trees /\ f \in Files /\ work[f] \in Texts
  BY DEF WorkTyped, Trees, Present
<1>2. InsertAt(work[f], at, m) \in Texts
  BY <1>1, InsertedText
<1>3. tree \in Trees /\ tree[f] = InsertAt(work[f], at, m) /\ \A g \in Files : g # f => tree[g] = work[g]
  BY <1>1, <1>2 DEF Trees, InsertedIn
<1>4. tree[f] # Absent
  BY <1>2, <1>3, AbsentAssumption DEF Texts
<1>5. PresentIn(work) = Present
  BY DEF PresentIn, Present
<1>6. PresentIn(tree) = PresentIn(work)
  BY <1>3, <1>4, <1>5 DEF PresentIn, Present
<1> QED BY <1>1, <1>3, <1>5, <1>6

\* What a line's comment names: a line has one at most.
LEMMA CommentsAre ==
  ASSUME NEW m \in NewLines
  PROVE  /\ Spelt(m) => Named(m, "DisableFile") = {} /\ Named(m, "DisableNextLine") = SilencedBy(m)
         /\ ~Spelt(m) => Named(m, "DisableNextLine") = {}
         /\ m.comment = {} => Named(m, "DisableFile") = {} /\ Named(m, "DisableNextLine") = {}
<1> DEFINE open == {c \in m.comment : ~c.hidden}
           kind(c) == IF c.keyword = "next" THEN "DisableNextLine" ELSE "DisableFile"
<1>1. \A c, d \in m.comment : c = d
  BY LinesAssumption
<1>2. ASSUME NEW k PROVE \A r : r \in Named(m, k) <=> \E c \in open : kind(c) = k /\ r \in ParseRuleIds(c.ids)
  <2>1. \A e : e \in ExtractMarkers(m) <=> \E c \in open : e = [kind |-> kind(c), ruleIds |-> ParseRuleIds(c.ids)]
    BY DEF ExtractMarkers
  <2>2. \A r : r \in Named(m, k) <=> \E e \in ExtractMarkers(m) : e.kind = k /\ r \in e.ruleIds
    BY DEF Named
  <2> HIDE DEF open, kind
  <2>3. ASSUME NEW r \in Named(m, k) PROVE \E c \in open : kind(c) = k /\ r \in ParseRuleIds(c.ids)
    <3>1. PICK e \in ExtractMarkers(m) : e.kind = k /\ r \in e.ruleIds
      BY <2>2
    <3>2. PICK c \in open : e = [kind |-> kind(c), ruleIds |-> ParseRuleIds(c.ids)]
      BY <2>1
    <3> QED BY <3>1, <3>2
  <2>4. ASSUME NEW r, NEW c \in open, kind(c) = k, r \in ParseRuleIds(c.ids) PROVE r \in Named(m, k)
    <3>1. PICK e : e = [kind |-> kind(c), ruleIds |-> ParseRuleIds(c.ids)]
      OBVIOUS
    <3>2. e \in ExtractMarkers(m) /\ e.kind = k /\ r \in e.ruleIds
      BY <2>1, <2>4, <3>1
    <3> QED BY <2>2, <3>2
  <2> QED BY <2>3, <2>4
<1>3. \A r : r \in SilencedBy(m) <=> \E c \in open : r \in ParseRuleIds(c.ids)
  BY DEF SilencedBy
<1>4. Spelt(m) => \A c \in open : c.keyword = "next"
  BY <1>1 DEF Spelt
<1>5. ~Spelt(m) => \A c \in open : c.keyword # "next"
  BY DEF Spelt
<1>6. m.comment = {} => open = {}
  OBVIOUS
<1> HIDE DEF open
<1>7. "DisableNextLine" # "DisableFile"
  OBVIOUS
<1>8. ASSUME Spelt(m) PROVE Named(m, "DisableFile") = {} /\ Named(m, "DisableNextLine") = SilencedBy(m)
  BY <1>2, <1>3, <1>4, <1>7, <1>8
<1>9. ASSUME ~Spelt(m) PROVE Named(m, "DisableNextLine") = {}
  BY <1>2, <1>5, <1>7, <1>9
<1>10. ASSUME m.comment = {} PROVE Named(m, "DisableFile") = {} /\ Named(m, "DisableNextLine") = {}
  BY <1>2, <1>6, <1>10
<1> QED BY <1>8, <1>9, <1>10

\* A marker above a line adds its rules to what is silent there, and nothing elsewhere.
LEMMA MarkedLines ==
  ASSUME NEW s \in Texts, NEW m \in NewLines, NEW at \in 1..Len(s), Spelt(m), ~(at > 1 /\ Spelt(s[at - 1])),
         NEW l \in 1..Len(s), NEW r
  PROVE  Suppresses(Parse(InsertAt(s, at, m)), r, Moved(l, at)) <=> Suppresses(Parse(s), r, l) \/ (l = at /\ r \in SilencedBy(m))
<1> DEFINE t == InsertAt(s, at, m)
<1>1. Len(s) \in Nat /\ at \in 1..(Len(s) + 1) /\ at <= Len(s)
  BY DEF Texts
<1>2. t \in Texts /\ Moved(l, at) \in 1..Len(t)
  BY <1>1, InsertedText
<1>3. /\ FileLevel(t) = FileLevel(s) \cup Named(m, "DisableFile")
      /\ l # at => AboveNames(t, Moved(l, at)) = AboveNames(s, l)
      /\ AboveNames(t, Moved(at, at)) = Named(m, "DisableNextLine")
  BY <1>1, InsertedMarkers
<1>4. Named(m, "DisableFile") = {} /\ Named(m, "DisableNextLine") = SilencedBy(m)
  BY CommentsAre
<1> HIDE DEF t
<1>5. Suppresses(Parse(t), r, Moved(l, at)) <=> r \in FileLevel(t) \/ r \in AboveNames(t, Moved(l, at))
  BY <1>2, SuppressedIs
<1>6. Suppresses(Parse(s), r, l) <=> r \in FileLevel(s) \/ r \in AboveNames(s, l)
  BY SuppressedIs
<1>7. AboveNames(s, at) = {}
  <2>1. CASE at = 1
    BY <2>1 DEF AboveNames
  <2>2. CASE at # 1
    <3>1. at > 1 /\ at - 1 \in 1..Len(s)
      BY <1>1, <2>2
    <3>2. s[at - 1] \in NewLines /\ ~Spelt(s[at - 1])
      BY <3>1 DEF Texts
    <3> QED BY <2>2, <3>2, CommentsAre DEF AboveNames
  <2> QED BY <2>1, <2>2
<1> QED BY <1>3, <1>4, <1>5, <1>6, <1>7 DEF t

\* The findings of the tree an inserted marker makes.
LEMMA MarkerStep ==
  ASSUME WorkTyped, NEW f \in Present, NEW at \in 1..MaxLines, NEW m \in NewLines,
         at <= Len(work[f]), NEW tree, tree = InsertedIn(f, at, m),
         Spelt(m), m.finds = <<>>, ~(at > 1 /\ Spelt(work[f][at - 1]))
  PROVE  SilencesOneLine(f, at, m, tree)
<1> DEFINE s == work[f]
           t == InsertAt(s, at, m)
           gone(x) == x.file = f /\ x.line = at /\ x.rule \in SilencedBy(m)
           left == {x \in AllOf(work) : ~gone(x)}
<1>1. s \in Texts /\ Len(s) \in Nat /\ at \in 1..Len(s) /\ at \in 1..(Len(s) + 1)
  <2>1. s \in Texts
    BY DEF WorkTyped, Present
  <2>2. MaxLines \in Nat
    BY SessionAssumption
  <2> HIDE DEF s
  <2>3. Len(s) \in Nat
    BY <2>1 DEF Texts
  <2> QED BY <2>1, <2>2, <2>3 DEF s
<1>2. /\ work \in Trees /\ tree \in Trees /\ PresentIn(work) = Present /\ PresentIn(tree) = Present
      /\ f \in Files /\ tree[f] = t
      /\ \A g \in Files : g # f => tree[g] = work[g]
  BY <1>1, InsertedTree
<1>3. \A x : x \in AllOf(work) <=> \E g \in Present : x \in FindingsIn(g, work[g]) /\ ~Suppresses(Parse(work[g]), x.rule, x.line)
  BY <1>2, AllIs
<1>4. \A x : x \in AllOf(tree) <=> \E g \in Present : x \in FindingsIn(g, tree[g]) /\ ~Suppresses(Parse(tree[g]), x.rule, x.line)
  BY <1>2, AllIs
<1>5. \A g \in Present : g \in Files /\ \A x \in FindingsIn(g, work[g]) : x.file = g
  <2> TAKE g \in Present
  <2>1. g \in Files /\ work[g] \in Texts
    BY <1>2, AllIs
  <2> QED BY <2>1, FindingsAre
<1>6. /\ \A x \in FindingsIn(f, s) :
           /\ Shift(f, at, x) \in FindingsIn(f, t)
           /\ Shift(f, at, x).line = Moved(x.line, at) /\ Shift(f, at, x).rule = x.rule
      /\ \A y \in FindingsIn(f, t) : y.line = at \/ \E x \in FindingsIn(f, s) : y = Shift(f, at, x)
  BY <1>1, <1>2, InsertedFindings
<1>7. \A y \in FindingsIn(f, t) : y.line # at
  <2>1. t \in Texts /\ t[at] = m
    BY <1>1, InsertedText
  <2>2. DOMAIN m.finds = {}
    OBVIOUS
  <2>3. \A y \in FindingsIn(f, t) : y.column \in DOMAIN t[y.line].finds
    BY <1>2, <2>1, FindingsAre
  <2> HIDE DEF t
  <2> QED BY <2>1, <2>2, <2>3
<1>8. \A x \in FindingsIn(f, s) :
        /\ x.file = f
        /\ Suppresses(Parse(t), x.rule, Moved(x.line, at)) <=> Suppresses(Parse(s), x.rule, x.line) \/ gone(x)
  <2> TAKE x \in FindingsIn(f, s)
  <2>1. x.file = f /\ x.line \in 1..Len(s)
    BY <1>1, <1>2, FindingsAre
  <2> QED BY <1>1, <2>1, MarkedLines
<1>9. \A x : x.file # f => Shift(f, at, x) = x /\ ~gone(x)
  BY DEF Shift
<1> HIDE DEF t, gone
<1>10. ASSUME NEW y \in AllOf(tree) PROVE \E x \in left : y = Shift(f, at, x)
  <2>1. PICK g \in Present : y \in FindingsIn(g, tree[g]) /\ ~Suppresses(Parse(tree[g]), y.rule, y.line)
    BY <1>4
  <2>2. CASE g # f
    <3>1. y \in FindingsIn(g, work[g]) /\ ~Suppresses(Parse(work[g]), y.rule, y.line)
      BY <1>2, <1>5, <2>1, <2>2
    <3>2. y \in AllOf(work) /\ y.file # f
      BY <1>3, <1>5, <2>2, <3>1
    <3> QED BY <1>9, <3>2
  <2>3. CASE g = f
    <3>1. y \in FindingsIn(f, t) /\ ~Suppresses(Parse(t), y.rule, y.line)
      BY <1>2, <2>1, <2>3
    <3>2. PICK x \in FindingsIn(f, s) : y = Shift(f, at, x)
      BY <1>6, <1>7, <3>1
    <3>3. y.line = Moved(x.line, at) /\ y.rule = x.rule
      BY <1>6, <3>2
    <3>4. ~Suppresses(Parse(s), x.rule, x.line) /\ ~gone(x)
      BY <1>8, <3>1, <3>3
    <3>5. x \in AllOf(work)
      BY <1>3, <3>4
    <3> QED BY <3>2, <3>4, <3>5
  <2> QED BY <2>2, <2>3
<1>11. ASSUME NEW x \in left PROVE Shift(f, at, x) \in AllOf(tree)
  <2>1. x \in AllOf(work) /\ ~gone(x)
    OBVIOUS
  <2>2. PICK g \in Present : x \in FindingsIn(g, work[g]) /\ ~Suppresses(Parse(work[g]), x.rule, x.line)
    BY <1>3, <2>1
  <2>3. CASE g # f
    <3>1. x.file # f /\ tree[g] = work[g]
      BY <1>2, <1>5, <2>2, <2>3
    <3>2. x \in AllOf(tree)
      BY <1>4, <2>2, <3>1
    <3> QED BY <1>9, <3>1, <3>2
  <2>4. CASE g = f
    <3>1. x \in FindingsIn(f, s) /\ ~Suppresses(Parse(s), x.rule, x.line)
      BY <2>2, <2>4
    <3>2. ~Suppresses(Parse(t), x.rule, Moved(x.line, at))
      BY <1>8, <2>1, <3>1
    <3>3. Shift(f, at, x) \in FindingsIn(f, t) /\ ~Suppresses(Parse(t), Shift(f, at, x).rule, Shift(f, at, x).line)
      BY <1>6, <3>1, <3>2
    <3> QED BY <1>2, <1>4, <3>3
  <2> QED BY <2>3, <2>4
<1>12. AllOf(tree) = {Shift(f, at, x) : x \in left}
  <2> HIDE DEF left
  <2> QED BY <1>10, <1>11
<1> QED BY <1>12 DEF SilencesOneLine, Shift, gone

\* A marker written above a line takes the findings of its rules there from the
\* whole tree, and moves the others.
THEOREM MarkersSilenceOneLine == SessionSpec => MarkerSilencesOneLine
<1> DEFINE Marks(f, at, m) ==
             /\ at <= Len(work[f]) /\ work' = [work EXCEPT ![f] = InsertAt(@, at, m)]
             /\ Spelt(m) /\ m.finds = <<>> /\ ~(at > 1 /\ Spelt(work[f][at - 1]))
           Step == \A f \in Present, at \in 1..MaxLines, m \in NewLines : Marks(f, at, m) => SilencesOneLine(f, at, m, work')
<1>1. SessionInv => Step
  BY MarkerStep DEF SessionInv, InsertedIn
<1>2. SessionSpec => [][Step]_work
  <2> HIDE DEF Step
  <2> QED BY SessionIsInvariant, <1>1, PTL
<1> QED BY <1>2 DEF MarkerSilencesOneLine

-----------------------------------------------------------------------------
\* Findings that each have one of their severity in after are no more than those.
LEMMA CountsGrow ==
  ASSUME NEW F, NEW G, IsFiniteSet(F), IsFiniteSet(G), NEW h \in Injection(F, G),
         \A x \in F : h[x].severity = x.severity, NEW s
  PROVE  CountOf(F, s) <= CountOf(G, s)
<1> DEFINE A == {x \in F : x.severity = s}
           B == {x \in G : x.severity = s}
           k == [x \in A |-> h[x]]
<1>1. k \in Injection(A, B)
  BY DEF Injection, IsInjective
<1>2. IsFiniteSet(B)
  BY FS_Subset
<1> HIDE DEF A, B, k
<1>3. Cardinality(A) <= Cardinality(B)
  BY <1>1, <1>2, FS_Injection
<1> QED BY <1>3 DEF CountOf, A, B

\* The findings there were are still there, moved.
LEMMA WrittenLine ==
  ASSUME WorkTyped, NEW f \in Present, NEW at \in 1..(Len(work[f]) + 1), NEW m \in NewLines, m.comment = {},
         NEW tree, tree = InsertedIn(f, at, m)
  PROVE  /\ tree \in Trees
         /\ \E h \in Injection(AllOf(work), AllOf(tree)) : \A x \in AllOf(work) : h[x].severity = x.severity
<1> DEFINE s == work[f]
           t == InsertAt(s, at, m)
           h == [x \in AllOf(work) |-> Shift(f, at, x)]
<1>1. /\ work \in Trees /\ tree \in Trees /\ PresentIn(work) = Present /\ PresentIn(tree) = Present
      /\ f \in Files /\ s \in Texts /\ tree[f] = t
      /\ \A g \in Files : g # f => tree[g] = work[g]
  BY InsertedTree
<1>2. Len(s) \in Nat
  <2> HIDE DEF s
  <2> QED BY <1>1 DEF Texts
<1>3. \A x : x \in AllOf(work) <=> \E g \in Present : x \in FindingsIn(g, work[g]) /\ ~Suppresses(Parse(work[g]), x.rule, x.line)
  BY <1>1, AllIs
<1>4. \A x : x \in AllOf(tree) <=> \E g \in Present : x \in FindingsIn(g, tree[g]) /\ ~Suppresses(Parse(tree[g]), x.rule, x.line)
  BY <1>1, AllIs
<1>5. \A g \in Present : g \in Files /\ \A x \in FindingsIn(g, work[g]) : x.file = g
  <2> TAKE g \in Present
  <2>1. g \in Files /\ work[g] \in Texts
    BY <1>1, AllIs
  <2> QED BY <2>1, FindingsAre
<1>6. /\ \A x \in FindingsIn(f, s) :
           /\ Shift(f, at, x) \in FindingsIn(f, t)
           /\ Shift(f, at, x).line = Moved(x.line, at) /\ Shift(f, at, x).rule = x.rule
           /\ Shift(f, at, x).severity = x.severity /\ Shift(f, at, x).file = f
      /\ \A x, y \in FindingsIn(f, s) : Shift(f, at, x) = Shift(f, at, y) => x = y
  BY <1>1, InsertedFindings
<1>7. ASSUME NEW x \in FindingsIn(f, s), Suppresses(Parse(t), x.rule, Moved(x.line, at))
      PROVE  Suppresses(Parse(s), x.rule, x.line)
  <2>1. x.line \in 1..Len(s)
    BY <1>1, FindingsAre
  <2>2. t \in Texts /\ Moved(x.line, at) \in 1..Len(t)
    BY <1>1, <2>1, InsertedText
  <2>3. /\ FileLevel(t) = FileLevel(s) \cup Named(m, "DisableFile")
        /\ x.line # at => AboveNames(t, Moved(x.line, at)) = AboveNames(s, x.line)
        /\ at <= Len(s) => AboveNames(t, Moved(at, at)) = Named(m, "DisableNextLine")
    BY <1>1, <2>1, InsertedMarkers
  <2>4. Named(m, "DisableFile") = {} /\ Named(m, "DisableNextLine") = {}
    BY CommentsAre
  <2> HIDE DEF t, s
  <2>5. x.rule \in FileLevel(t) \/ x.rule \in AboveNames(t, Moved(x.line, at))
    BY <1>7, <2>2, SuppressedIs
  <2>6. x.rule \in FileLevel(s) \/ x.rule \in AboveNames(s, x.line)
    <3>1. x.line = at => at <= Len(s)
      BY <1>2, <2>1
    <3> QED BY <2>3, <2>4, <2>5, <3>1
  <2> QED BY <1>1, <2>1, <2>6, SuppressedIs
<1> HIDE DEF t, s
<1>8. ASSUME NEW x \in AllOf(work)
      PROVE  /\ Shift(f, at, x) \in AllOf(tree) /\ Shift(f, at, x).severity = x.severity /\ Shift(f, at, x).file = x.file
             /\ x.file = f => x \in FindingsIn(f, s)
             /\ x.file # f => Shift(f, at, x) = x
  <2>1. PICK g \in Present : x \in FindingsIn(g, work[g]) /\ ~Suppresses(Parse(work[g]), x.rule, x.line)
    BY <1>3
  <2>2. CASE g = f
    <3>1. x \in FindingsIn(f, s) /\ ~Suppresses(Parse(s), x.rule, x.line)
      BY <2>1, <2>2 DEF s
    <3>2. Shift(f, at, x) \in FindingsIn(f, t) /\ ~Suppresses(Parse(t), Shift(f, at, x).rule, Shift(f, at, x).line)
      BY <1>6, <1>7, <3>1
    <3>3. Shift(f, at, x) \in AllOf(tree)
      BY <1>1, <1>4, <3>2
    <3> QED BY <1>5, <1>6, <2>1, <2>2, <3>1, <3>3
  <2>3. CASE g # f
    <3>1. x.file # f /\ tree[g] = work[g]
      BY <1>1, <1>5, <2>1, <2>3
    <3>2. x \in AllOf(tree) /\ Shift(f, at, x) = x
      BY <1>4, <2>1, <3>1 DEF Shift
    <3> QED BY <3>1, <3>2
  <2> QED BY <2>2, <2>3
<1>9. ASSUME NEW x \in AllOf(work), NEW y \in AllOf(work), Shift(f, at, x) = Shift(f, at, y) PROVE x = y
  <2>1. x.file = y.file
    BY <1>8, <1>9
  <2> QED BY <1>6, <1>8, <1>9, <2>1
<1>10. h \in Injection(AllOf(work), AllOf(tree)) /\ \A x \in AllOf(work) : h[x].severity = x.severity
  BY <1>8, <1>9 DEF Injection, IsInjective
<1> QED BY <1>1, <1>10

\* A new file adds its findings to those there were.
LEMMA WrittenFile ==
  ASSUME WorkTyped, NEW f \in Files \ Present, NEW m \in NewLines, NEW tree, tree = [work EXCEPT ![f] = <<m>>]
  PROVE  /\ tree \in Trees
         /\ \E h \in Injection(AllOf(work), AllOf(tree)) : \A x \in AllOf(work) : h[x].severity = x.severity
<1> DEFINE h == [x \in AllOf(work) |-> x]
<1>1. work \in Trees /\ tree \in Trees
  BY DEF WorkTyped, Trees, Texts
<1>2. \A g \in PresentIn(work) : g \in PresentIn(tree) /\ tree[g] = work[g]
  BY <1>1 DEF PresentIn, Present, Trees
<1>3. AllOf(work) \subseteq AllOf(tree)
  BY <1>1, <1>2, AllIs
<1>4. h \in Injection(AllOf(work), AllOf(tree)) /\ \A x \in AllOf(work) : h[x].severity = x.severity
  BY <1>3 DEF Injection, IsInjective
<1> QED BY <1>1, <1>4

\* Each severity has as many findings as before, or more.
LEMMA WritingStep ==
  ASSUME WorkTyped, NEW m \in NewLines, NEW tree, Writes(m, tree)
  PROVE  ScoresNoHigher(AllOf(work), AllOf(tree))
<1>1. work \in Trees
  BY DEF WorkTyped, Trees
<1>2. /\ tree \in Trees
      /\ \E h \in Injection(AllOf(work), AllOf(tree)) : \A x \in AllOf(work) : h[x].severity = x.severity
  <2>1. CASE \E f \in Present : \E at \in 1..(Len(work[f]) + 1) : m.comment = {} /\ tree = [work EXCEPT ![f] = InsertAt(@, at, m)]
    <3>1. PICK f \in Present : \E at \in 1..(Len(work[f]) + 1) : m.comment = {} /\ tree = InsertedIn(f, at, m)
      BY <2>1 DEF InsertedIn
    <3> QED BY <3>1, WrittenLine
  <2>2. CASE \E f \in Files \ Present : tree = [work EXCEPT ![f] = <<m>>]
    BY <2>2, WrittenFile
  <2> QED BY <2>1, <2>2 DEF Writes
<1>3. IsFiniteSet(AllOf(work)) /\ IsFiniteSet(AllOf(tree))
  BY <1>1, <1>2, AllIs DEF AreFindings
<1>4. \A s \in Range(Severities) : CountOf(AllOf(work), s) <= CountOf(AllOf(tree), s)
  BY <1>2, <1>3, CountsGrow
<1> SUFFICES ASSUME TopTier(AllOf(tree)) = TopTier(AllOf(work)) PROVE Score(AllOf(tree)) <= Score(AllOf(work))
  BY DEF ScoresNoHigher
<1> QED BY <1>3, <1>4, MoreNeverScoresBetter

\* Code written between any lines, or in a new file, raises no score of the
\* same tier: every finding there was is still one.
THEOREM WritingScoresNoHigher == SessionSpec => WorseIsNotBetter
<1> DEFINE Step == \A line \in NewLines : Writes(line, work') => ScoresNoHigher(AllOf(work), AllOf(work'))
<1>1. SessionInv => Step
  BY WritingStep DEF SessionInv
<1>2. SessionSpec => [][Step]_work
  <2> HIDE DEF Step
  <2> QED BY SessionIsInvariant, <1>1, PTL
<1> QED BY <1>2 DEF WorseIsNotBetter
=============================================================================
