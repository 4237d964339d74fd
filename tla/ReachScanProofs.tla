--------------------------- MODULE ReachScanProofs --------------------------
(***************************************************************************)
(* Theorems about ReachScan: for every rule, any variables and functions,  *)
(* however deeply nested, what a visitor reports and what gets to a sink   *)
(* differ only where a named shortcut was taken on the way; and when the   *)
(* rounds stop on equal counts there was nothing more to find.             *)
(***************************************************************************)
EXTENDS ReachScan, FiniteSetTheorems, WellFoundedInduction, SequenceTheorems, TLAPS

-----------------------------------------------------------------------------
(***************************************************************************)
(* The inductive invariant, in parts.                                      *)
(***************************************************************************)
Values == {"data", "lost", "operator", "nothing"}
Severities == {"medium", "high", "critical"}
Frames == UNION {[D -> Values] : D \in SUBSET Names}
Inits == UNION {[D -> Names] : D \in SUBSET Names}
Lineage == UNION {[D -> [of : Names, depth : Nat]] : D \in SUBSET Names}
Visitor ==
  [scopes : Seq(SUBSET Names), urlInits : Inits, safeHosts : SUBSET Names, asleep : Nat, found : SUBSET Severities]

\* The visitor has entered the functions the run is in, one by one, and given
\* up only where it loses something; it knows nothing of the file itself.
LoopType ==
  /\ rule \in RuleNames /\ project \in Projects /\ phase \in {"extract", "walk"}
  /\ round \in 0..MaxRounds /\ (phase = "extract" => round < MaxRounds) /\ signal \in Nat \cup {NoSignal}
  /\ rule \notin {"sql", "exec", "redirect", "ssrf"} => DOMAIN index = {}
WalkType ==
  /\ walk \in Visitor /\ walk.scopes # <<>> /\ walk.scopes[1] = {}
  /\ Len(walk.scopes) + walk.asleep = Len(env)
  /\ walk.asleep > 0 => rule = "secret" /\ "miss" \in excused
RunType ==
  /\ env \in Seq(Frames) /\ env # <<>> /\ DOMAIN env[1] = {}
  /\ links \in Lineage /\ \A u \in DOMAIN links : links[u].depth \in 2..Len(env)
  /\ excused \subseteq {"miss", "cry", "tier", "relinked"}
TypeInv == LoopType /\ WalkType /\ RunType

\* The function o is the one whose n is meant, and there n holds the value v.
Owns(e, o, n) == o \in DOMAIN e /\ n \in DOMAIN e[o] /\ \A d \in DOMAIN e : n \in DOMAIN e[d] => d <= o
Has(e, o, n, v) == Owns(e, o, n) /\ e[o][n] = v

\* Each scope has the names of its function that hold the data ...
Caught(w, e) == \A d \in DOMAIN w.scopes : \A n \in DOMAIN e[d] : e[d][n] = "data" => n \in w.scopes[d]
\* ... and only names that mean a variable that does, here or further out.
Founded(w, e) == \A d \in DOMAIN w.scopes : \A n \in w.scopes[d] : \E o \in 1..d : Has(e, o, n, "data")

\* What the visitor takes for a URL was parsed, in the outermost function,
\* from the very variable it believes; and it knows of every such URL.
Linked(w, e, l) ==
  Len(e) > 1 =>
    \A u \in DOMAIN w.urlInits :
      Len(e) = 2 /\ u \in DOMAIN l /\ l[u] = [of |-> w.urlInits[u], depth |-> 2] /\ w.urlInits[u] \in DOMAIN e[2]
Noted(w, e, l) ==
  \A u \in DOMAIN l : Len(e) = 2 /\ u \in DOMAIN w.urlInits /\ l[u].of = w.urlInits[u]

\* A host is safe where the name means one the operator chose; inside a
\* callback there is none.
Hosted(w, e) ==
  Len(e) > 1 =>
    /\ \A n \in Names : n \in w.safeHosts <=> \E o \in DOMAIN e : Has(e, o, n, "operator")
    /\ Len(e) > 2 => \A d \in DOMAIN e : \A n \in DOMAIN e[d] : e[d][n] # "operator"

MissInv == excused \cap {"miss", "relinked"} = {} => Caught(walk, env) /\ Linked(walk, env, links)
CryInv == "cry" \notin excused => Founded(walk, env) /\ (R.guards => Noted(walk, env, links))
TierInv == "tier" \notin excused /\ rule = "ssrf" => Hosted(walk, env)
ReachInv == TypeInv /\ MissInv /\ CryInv /\ TierInv

-----------------------------------------------------------------------------
(***************************************************************************)
(* Functions, sequences and the largest number.                            *)
(***************************************************************************)
LEMMA FrontOf ==
  ASSUME NEW S, NEW s \in Seq(S), s # <<>>
  PROVE  /\ Len(s) \in Nat \ {0} /\ Last(s) = s[Len(s)] /\ Last(s) \in S
         /\ Front(s) \in Seq(S) /\ Len(Front(s)) = Len(s) - 1 /\ DOMAIN Front(s) = 1..Len(s) - 1
         /\ \A i \in 1..Len(s) - 1 : Front(s)[i] = s[i]
<1>1. Len(s) \in Nat \ {0} /\ Len(s) \in 1..Len(s)
  BY EmptySeq
<1>2. \A i \in 1..Len(s) : s[i] \in S
  BY ElementOfSeq
<1> DEFINE n == Len(s) - 1
<1>3. n \in Nat /\ 1 \in Int /\ n \in Int /\ \A i \in 1..n : s[i] \in S
  BY <1>1, <1>2
<1> HIDE DEF n
<1>4. /\ SubSeq(s, 1, n) \in Seq(S)
      /\ Len(SubSeq(s, 1, n)) = (IF 1 <= n THEN n - 1 + 1 ELSE 0)
      /\ \A i \in 1..(n - 1 + 1) : SubSeq(s, 1, n)[i] = s[1 + i - 1]
  BY <1>3, SubSeqProperties
<1>5. Len(SubSeq(s, 1, n)) = n /\ \A i \in 1..n : SubSeq(s, 1, n)[i] = s[i]
  BY <1>3, <1>4
<1>6. DOMAIN SubSeq(s, 1, n) = 1..n
  BY <1>4, <1>5
<1> QED BY <1>1, <1>2, <1>4, <1>5, <1>6 DEF Front, Last, n

\* A set of natural numbers with a bound has a largest.
LEMMA Largest ==
  ASSUME NEW k \in Nat, NEW T, T \subseteq 0..k, T # {}
  PROVE  Max(T) \in T /\ \A y \in T : y <= Max(T)
<1> DEFINE Gaps == {k - t : t \in T}
<1>1. Gaps \subseteq Nat /\ Gaps # {}
  <2>1. \A t \in T : t \in 0..k
    OBVIOUS
  <2>2. \A t \in 0..k : k - t \in Nat
    OBVIOUS
  <2>3. \A t \in T : k - t \in Nat
    BY <2>1, <2>2
  <2> QED BY <2>3
<1>2. PICK g \in Gaps : \A h \in Gaps : ~ (<<h, g>> \in OpToRel(<, Nat))
  BY <1>1, NatLessThanWellFounded, WFMin
<1>3. PICK m \in T : g = k - m
  BY <1>2
<1>4. \A t \in T : k - t \in Gaps /\ ~(k - t < k - m)
  BY <1>1, <1>2, <1>3 DEF OpToRel
<1>5. m \in T /\ \A y \in T : m >= y
  BY <1>4
<1> HIDE DEF Gaps
<1>6. Max(T) \in T /\ \A y \in T : Max(T) >= y
  BY <1>5 DEF Max
<1> QED BY <1>6

LEMMA MapsAre ==
  ASSUME NEW T, NEW f
  PROVE  f \in UNION {[D -> T] : D \in SUBSET Names}
           <=> f = [n \in DOMAIN f |-> f[n]] /\ DOMAIN f \subseteq Names /\ \A n \in DOMAIN f : f[n] \in T
OBVIOUS

LEMMA WithTyped ==
  ASSUME NEW T, NEW f \in UNION {[D -> T] : D \in SUBSET Names}, NEW n \in Names, NEW v \in T
  PROVE  With(f, n, v) \in UNION {[D -> T] : D \in SUBSET Names}
<1>1. DOMAIN f \subseteq Names /\ \A x \in DOMAIN f : f[x] \in T
  BY MapsAre
<1>2. With(f, n, v) \in [DOMAIN f \cup {n} -> T]
  BY <1>1 DEF With
<1> QED BY <1>1, <1>2

LEMMA NoneTyped == <<>> \in Frames /\ <<>> \in Inits /\ <<>> \in Lineage /\ DOMAIN <<>> = {}
<1>1. \A T : <<>> \in [{} -> T]
  OBVIOUS
<1> QED BY <1>1 DEF Frames, Inits, Lineage

-----------------------------------------------------------------------------
(***************************************************************************)
(* The rules.                                                              *)
(***************************************************************************)
LEMMA RuleIs ==
  ASSUME rule \in RuleNames
  PROVE  /\ rule \in {"sql", "exec", "path", "eval", "deserialize", "prompt", "xss", "nosql", "redirect", "ssrf", "secret"}
         /\ R.request <=> rule # "secret"
         /\ R.assigns <=> rule # "secret"
         /\ R.callbacks <=> rule # "secret"
         /\ R.guards <=> rule \in {"redirect", "ssrf"}
         /\ R.tiers <=> rule = "ssrf"
         /\ R.severity \in Severities
         /\ R.sources = IF rule = "secret" THEN {"environment", "credential"} ELSE BodySources
         /\ R.waives = IF rule = "xss" THEN {"sanitise"} ELSE {}
         /\ R.carries = CASE rule = "secret" -> SecretCarries [] rule = "nosql" -> NoSqlCarries [] OTHER -> Followed
<1>1. rule \in DOMAIN Rules
  BY ReachAssumption
<1>2. rule \in {"sql", "exec", "path", "eval", "deserialize", "prompt", "xss", "nosql", "redirect", "ssrf", "secret"}
  BY <1>1 DEF Rules
<1> USE DEF Severities, Sibling, R, Rules
<1>3. CASE rule = "sql" 
  BY <1>3 DEF SqlInjection
<1>4. CASE rule = "exec"
  BY <1>4 DEF CommandInjection
<1>5. CASE rule = "path"
  BY <1>5 DEF PathTraversal
<1>6. CASE rule = "eval"
  BY <1>6 DEF EvalInjection
<1>7. CASE rule = "deserialize"
  BY <1>7 DEF InsecureDeserialize
<1>8. CASE rule = "prompt"
  BY <1>8 DEF PromptInjection
<1>9. CASE rule = "xss"
  BY <1>9 DEF XssDangerousHtml
<1>10. CASE rule = "nosql"
  BY <1>10 DEF NoSqlInjection
<1>11. CASE rule = "redirect"
  BY <1>11 DEF RedirectOpen
<1>12. CASE rule = "ssrf"
  BY <1>12 DEF Ssrf
<1>13. CASE rule = "secret"
  BY <1>13 DEF SecretToResponse
<1> QED BY <1>2, <1>3, <1>4, <1>5, <1>6, <1>7, <1>8, <1>9, <1>10, <1>11, <1>12, <1>13

\* The forms in which the data is still there for the rule, and in which the
\* visitor follows it, differ by the strings of nosql alone.
Plainly(f) == f \notin Sources \cup Defused \cup {"literal"} /\ f \notin Unfollowed
Cries(f) == rule = "nosql" /\ f \in {"template", "pinned", "hosted", "stringify"}

LEMMA FormsAre ==
  ASSUME rule \in RuleNames, NEW f \in AllForms
  PROVE  /\ f \in R.sources <=> f \in Dangerous /\ f \notin Unfollowed
         /\ f \in R.sources => f \notin R.waives
         /\ Plainly(f) => f \in R.carries /\ f \notin R.waives
         /\ f \in R.carries /\ f \notin R.waives /\ ~Cries(f) => Plainly(f)
<1>1. /\ rule \in {"sql", "exec", "path", "eval", "deserialize", "prompt", "xss", "nosql", "redirect", "ssrf", "secret"}
      /\ R.sources = IF rule = "secret" THEN {"environment", "credential"} ELSE BodySources
      /\ R.waives = IF rule = "xss" THEN {"sanitise"} ELSE {}
      /\ R.carries = CASE rule = "secret" -> SecretCarries [] rule = "nosql" -> NoSqlCarries [] OTHER -> Followed
  BY RuleIs
<1> USE DEF Plainly, Cries, Sources, AllForms, Followed, BodySources, SecretCarries, NoSqlCarries, Dangerous, Unfollowed, Defused
<1>2. CASE rule = "secret"
  BY <1>1, <1>2
<1>3. CASE rule = "nosql"
  BY <1>1, <1>3
<1>4. CASE rule = "xss"
  BY <1>1, <1>4
<1>5. CASE rule \notin {"secret", "nosql", "xss"}
  BY <1>1, <1>5
<1> QED BY <1>2, <1>3, <1>4, <1>5

-----------------------------------------------------------------------------
(***************************************************************************)
(* What the visitor's operations do to its scopes.                         *)
(***************************************************************************)
Expressions == [form : AllForms, of : Names, host : Names]
\* All that v may differ from w in is the scopes, the innermost of which is `top`.
Rest(v, w) == v.asleep = w.asleep /\ v.found = w.found
Lineal(v, w) == v.urlInits = w.urlInits /\ v.safeHosts = w.safeHosts
Topped(v, w, top) ==
  /\ v \in Visitor /\ v.asleep = w.asleep
  /\ Len(v.scopes) = Len(w.scopes) /\ DOMAIN v.scopes = DOMAIN w.scopes
  /\ \A d \in DOMAIN w.scopes : v.scopes[d] = IF d = Len(w.scopes) THEN top ELSE w.scopes[d]

LEMMA TopIs ==
  ASSUME NEW w \in Visitor
  PROVE  /\ Len(w.scopes) \in Nat /\ DOMAIN w.scopes = 1..Len(w.scopes) /\ w.scopes \in Seq(SUBSET Names)
         /\ \A d \in 1..Len(w.scopes) : w.scopes[d] \subseteq Names
         /\ w.scopes # <<>> => Len(w.scopes) # 0
<1>1. w.scopes \in Seq(SUBSET Names)
  BY DEF Visitor
<1>2. Len(w.scopes) \in Nat /\ DOMAIN w.scopes = 1..Len(w.scopes) /\ (w.scopes # <<>> => Len(w.scopes) # 0)
  BY <1>1, EmptySeq
<1> QED BY <1>1, <1>2, ElementOfSeq

LEMMA TaintIs ==
  ASSUME NEW w \in Visitor, w.scopes # <<>>, NEW n \in Names
  PROVE  /\ Topped(Taint(w, n), w, w.scopes[Len(w.scopes)] \cup {n})
         /\ Rest(Taint(w, n), w) /\ Lineal(Taint(w, n), w)
<1>1. Len(w.scopes) \in Nat \ {0} /\ DOMAIN w.scopes = 1..Len(w.scopes) /\ w.scopes[Len(w.scopes)] \in SUBSET Names
  BY TopIs
<1>2. w.scopes \in Seq(SUBSET Names)
  BY TopIs
<1> DEFINE s == [w.scopes EXCEPT ![Len(w.scopes)] = @ \cup {n}]
<1>3. s \in Seq(SUBSET Names) /\ Len(s) = Len(w.scopes) /\ DOMAIN s = DOMAIN w.scopes
  BY <1>1, <1>2
<1>4. \A d \in DOMAIN w.scopes : s[d] = IF d = Len(w.scopes) THEN w.scopes[d] \cup {n} ELSE w.scopes[d]
  BY <1>1
<1>5. Taint(w, n) = [w EXCEPT !.scopes = s]
  BY DEF Taint
<1> HIDE DEF s
<1> QED BY <1>3, <1>4, <1>5 DEF Visitor, Topped, Rest, Lineal

LEMMA ForgetIs ==
  ASSUME NEW w \in Visitor, w.scopes # <<>>, NEW n \in Names
  PROVE  /\ Topped(Forget(w, n), w, w.scopes[Len(w.scopes)] \ {n})
         /\ Rest(Forget(w, n), w) /\ Lineal(Forget(w, n), w)
<1>1. Len(w.scopes) \in Nat \ {0} /\ DOMAIN w.scopes = 1..Len(w.scopes) /\ w.scopes[Len(w.scopes)] \in SUBSET Names
  BY TopIs
<1>2. w.scopes \in Seq(SUBSET Names)
  BY TopIs
<1> DEFINE s == [w.scopes EXCEPT ![Len(w.scopes)] = @ \ {n}]
<1>3. s \in Seq(SUBSET Names) /\ Len(s) = Len(w.scopes) /\ DOMAIN s = DOMAIN w.scopes
  BY <1>1, <1>2
<1>4. \A d \in DOMAIN w.scopes : s[d] = IF d = Len(w.scopes) THEN w.scopes[d] \ {n} ELSE w.scopes[d]
  BY <1>1
<1>5. Forget(w, n) = [w EXCEPT !.scopes = s]
  BY DEF Forget
<1> HIDE DEF s
<1> QED BY <1>3, <1>4, <1>5 DEF Visitor, Topped, Rest, Lineal

\* v is w with names of `gone` taken out of some scopes.
Shrunk(v, w, gone) ==
  /\ v \in Visitor /\ Rest(v, w) /\ Lineal(v, w) /\ Len(v.scopes) = Len(w.scopes) /\ DOMAIN v.scopes = DOMAIN w.scopes
  /\ \A d \in DOMAIN w.scopes : v.scopes[d] \subseteq w.scopes[d] /\ w.scopes[d] \ gone \subseteq v.scopes[d]

LEMMA UntaintIs ==
  ASSUME NEW w \in Visitor, NEW n \in Names
  PROVE  /\ Shrunk(Untaint(w, n), w, {n})
         /\ \A d \in DOMAIN w.scopes :
              (\A j \in DOMAIN w.scopes : j # d => n \notin w.scopes[j]) => n \notin Untaint(w, n).scopes[d]
<1> DEFINE T == {i \in DOMAIN w.scopes : n \in w.scopes[i]}
<1>1. CASE IsTainted(w, n)
  <2>1. T # {} /\ T \subseteq 0..Len(w.scopes) /\ Len(w.scopes) \in Nat
    BY <1>1, TopIs DEF IsTainted
  <2>2. Max(T) \in T
    <3> HIDE DEF T
    <3> QED BY <2>1, Largest
  <2>3. PICK m \in DOMAIN w.scopes : m = Max(T) /\ n \in w.scopes[m] /\ w.scopes[m] \in SUBSET Names
    BY <2>2, TopIs
  <2> DEFINE s == [w.scopes EXCEPT ![m] = @ \ {n}]
  <2>4. w.scopes \in Seq(SUBSET Names) /\ DOMAIN w.scopes = 1..Len(w.scopes) /\ Len(w.scopes) \in Nat
    BY TopIs
  <2>5. m \in 1..Len(w.scopes) /\ w.scopes[m] \in SUBSET Names /\ m \in Int
    BY <2>3, <2>4
  <2>6. s \in Seq(SUBSET Names) /\ Len(s) = Len(w.scopes) /\ DOMAIN s = DOMAIN w.scopes
    BY <2>4, <2>5
  <2>7. \A i \in DOMAIN w.scopes : s[i] = IF i = m THEN w.scopes[i] \ {n} ELSE w.scopes[i]
    BY <2>3, <2>4
  <2>8. Untaint(w, n) = [w EXCEPT !.scopes = s]
    BY <1>1, <2>3 DEF Untaint
  <2> HIDE DEF s, T
  <2>9. Untaint(w, n) \in Visitor /\ Untaint(w, n).scopes = s /\ Rest(Untaint(w, n), w) /\ Lineal(Untaint(w, n), w)
    BY <2>6, <2>7, <2>8 DEF Visitor, Rest, Lineal
  <2>10. Shrunk(Untaint(w, n), w, {n})
    BY <2>6, <2>7, <2>9 DEF Shrunk
  <2>11. ASSUME NEW d \in DOMAIN w.scopes, \A j \in DOMAIN w.scopes : j # d => n \notin w.scopes[j]
        PROVE  n \notin Untaint(w, n).scopes[d]
    BY <2>3, <2>7, <2>9, <2>11
  <2> QED BY <2>10, <2>11
<1>2. CASE ~IsTainted(w, n)
  BY <1>2 DEF Untaint, IsTainted, Shrunk, Rest, Lineal
<1> QED BY <1>1, <1>2

Clears(w, s) == rule \in {"redirect", "ssrf"} /\ s.test = "rejecting" /\ s.returns /\ s.on \in DOMAIN w.urlInits
LEMMA NarrowIs ==
  ASSUME rule \in RuleNames, NEW w \in Visitor, NEW s, s.on \in Names
  PROVE  LET v == Narrow(R, w, s)
         IN  /\ ~Clears(w, s) => v = w
             /\ Clears(w, s) =>
                  /\ Shrunk(v, w, {s.on, w.urlInits[s.on]})
                  /\ Len(w.scopes) = 2 /\ w.scopes[1] = {} => s.on \notin v.scopes[2] /\ w.urlInits[s.on] \notin v.scopes[2]
<1>1. R.guards <=> rule \in {"redirect", "ssrf"}
  BY RuleIs
<1>2. CASE ~Clears(w, s)
  BY <1>1, <1>2 DEF Narrow, Clears
<1>3. CASE Clears(w, s)
  <2>1. w.urlInits \in Inits
    BY DEF Visitor
  <2>2. s.on \in DOMAIN w.urlInits
    BY <1>3 DEF Clears
  <2>3. PICK of \in Names : of = w.urlInits[s.on]
    BY <2>1, <2>2, MapsAre DEF Inits
  <2> DEFINE x == Untaint(w, of)
  <2> DEFINE v == Untaint(x, s.on)
  <2>4. Narrow(R, w, s) = v
    BY <1>1, <1>3, <2>3 DEF Narrow, Clears
  <2>5. /\ Shrunk(x, w, {of})
        /\ \A d \in DOMAIN w.scopes : (\A j \in DOMAIN w.scopes : j # d => of \notin w.scopes[j]) => of \notin x.scopes[d]
    BY UntaintIs
  <2> HIDE DEF x
  <2>6. /\ Shrunk(v, x, {s.on})
        /\ \A d \in DOMAIN x.scopes : (\A j \in DOMAIN x.scopes : j # d => s.on \notin x.scopes[j]) => s.on \notin v.scopes[d]
    BY <2>5, UntaintIs DEF Shrunk
  <2> HIDE DEF v
  <2>7. Shrunk(v, w, {s.on, of})
    BY <2>5, <2>6 DEF Shrunk, Rest, Lineal
  <2>8. ASSUME Len(w.scopes) = 2, w.scopes[1] = {} PROVE s.on \notin v.scopes[2] /\ of \notin v.scopes[2]
    <3>1. DOMAIN w.scopes = 1..2 /\ DOMAIN x.scopes = 1..2 /\ 1 \in 1..2 /\ 2 \in 1..2 /\ \A j \in 1..2 : j # 2 => j = 1
      BY <2>5, <2>8, TopIs DEF Shrunk
    <3>2. x.scopes[1] = {} /\ v.scopes[2] \subseteq x.scopes[2]
      BY <2>5, <2>6, <2>8, <3>1 DEF Shrunk
    <3>3. of \notin x.scopes[2]
      BY <2>5, <2>8, <3>1
    <3>4. s.on \notin v.scopes[2]
      BY <2>6, <3>1, <3>2
    <3> QED BY <3>2, <3>3, <3>4
  <2> QED BY <1>3, <2>3, <2>4, <2>7, <2>8
<1> QED BY <1>2, <1>3

LEMMA VarDeclIs ==
  ASSUME rule \in RuleNames, NEW w \in Visitor, w.scopes # <<>>, NEW n \in Names, NEW e \in Expressions
  PROVE  LET v == VarDecl(R, w, TRUE, n, e)
             top == w.scopes[Len(w.scopes)]
         IN  /\ Topped(v, w, IF ExprTaint(R, w, TRUE, e) /\ e.form \notin R.waives THEN top \cup {n} ELSE top) /\ Rest(v, w)
             /\ v.urlInits = IF rule \in {"redirect", "ssrf"} /\ e.form = "newUrl" THEN With(w.urlInits, n, e.of) ELSE w.urlInits
             /\ v.safeHosts = IF rule = "ssrf" /\ IsSafeHost(w, e) THEN w.safeHosts \cup {n} ELSE w.safeHosts
<1>1. e.of \in Names /\ w.urlInits \in Inits
  BY DEF Expressions, Visitor
<1>2. (R.guards <=> rule \in {"redirect", "ssrf"}) /\ (R.tiers <=> rule = "ssrf")
  BY RuleIs
<1>3. With(w.urlInits, n, e.of) \in Inits
  BY <1>1, WithTyped DEF Inits
<1> DEFINE linked == IF R.guards /\ e.form = "newUrl" THEN [w EXCEPT !.urlInits = With(@, n, e.of)] ELSE w
<1> DEFINE hosted == IF R.tiers /\ IsSafeHost(w, e) THEN [linked EXCEPT !.safeHosts = @ \cup {n}] ELSE linked
<1>4. /\ linked \in Visitor /\ linked.scopes = w.scopes /\ Rest(linked, w) /\ linked.safeHosts = w.safeHosts
      /\ linked.urlInits = IF rule \in {"redirect", "ssrf"} /\ e.form = "newUrl" THEN With(w.urlInits, n, e.of) ELSE w.urlInits
  BY <1>2, <1>3 DEF Visitor, Rest
<1>5. VarDecl(R, w, TRUE, n, e) = IF ExprTaint(R, w, TRUE, e) /\ e.form \notin R.waives THEN Taint(hosted, n) ELSE hosted
  BY DEF VarDecl
<1> HIDE DEF linked
<1>6. /\ hosted \in Visitor /\ hosted.scopes = w.scopes /\ Rest(hosted, w) /\ hosted.urlInits = linked.urlInits
      /\ hosted.safeHosts = IF rule = "ssrf" /\ IsSafeHost(w, e) THEN w.safeHosts \cup {n} ELSE w.safeHosts
  <2>1. CASE R.tiers /\ IsSafeHost(w, e)
    <3>1. hosted = [linked EXCEPT !.safeHosts = linked.safeHosts \cup {n}]
      BY <2>1
    <3> QED BY <1>2, <1>4, <2>1, <3>1 DEF Visitor, Rest
  <2>2. CASE ~(R.tiers /\ IsSafeHost(w, e))
    BY <1>2, <1>4, <2>2
  <2> QED BY <2>1, <2>2
<1> HIDE DEF hosted
<1>7. CASE ExprTaint(R, w, TRUE, e) /\ e.form \notin R.waives
  <2>1. /\ Topped(Taint(hosted, n), hosted, hosted.scopes[Len(hosted.scopes)] \cup {n})
        /\ Rest(Taint(hosted, n), hosted) /\ Lineal(Taint(hosted, n), hosted)
    BY <1>6, TaintIs
  <2> QED BY <1>4, <1>5, <1>6, <1>7, <2>1 DEF Topped, Rest, Lineal
<1>8. CASE ~(ExprTaint(R, w, TRUE, e) /\ e.form \notin R.waives)
  <2>1. VarDecl(R, w, TRUE, n, e) = hosted
    BY <1>5, <1>8
  <2> QED BY <1>4, <1>6, <1>8, <2>1 DEF Topped, Rest
<1> QED BY <1>7, <1>8

LEMMA DestructureIs ==
  ASSUME rule \in RuleNames, NEW w \in Visitor, w.scopes # <<>>, NEW n \in Names, NEW e \in Expressions
  PROVE  LET v == Destructure(R, w, TRUE, n, e)
             top == w.scopes[Len(w.scopes)]
             taints == IF rule = "secret" THEN n \in SecretNames /\ e.form # "sanitise"
                       ELSE ExprTaint(R, w, TRUE, e) /\ e.form \notin R.waives
         IN  Topped(v, w, IF taints THEN top \cup {n} ELSE top) /\ Rest(v, w) /\ Lineal(v, w)
<1>1. R.request <=> rule # "secret"
  BY RuleIs
<1>2. /\ Topped(Taint(w, n), w, w.scopes[Len(w.scopes)] \cup {n})
      /\ Rest(Taint(w, n), w) /\ Lineal(Taint(w, n), w)
  BY TaintIs
<1>3. Topped(w, w, w.scopes[Len(w.scopes)]) /\ Rest(w, w) /\ Lineal(w, w)
  BY DEF Topped, Rest, Lineal
<1>4. CASE rule = "secret"
  <2>1. Destructure(R, w, TRUE, n, e) = IF n \in SecretNames /\ e.form # "sanitise" THEN Taint(w, n) ELSE w
    BY <1>1, <1>4 DEF Destructure
  <2> QED BY <1>2, <1>3, <1>4, <2>1
<1>5. CASE rule # "secret"
  <2>1. Destructure(R, w, TRUE, n, e) = IF ExprTaint(R, w, TRUE, e) /\ e.form \notin R.waives THEN Taint(w, n) ELSE w
    BY <1>1, <1>5 DEF Destructure
  <2> QED BY <1>2, <1>3, <1>5, <2>1
<1> QED BY <1>4, <1>5

LEMMA AssignIs ==
  ASSUME rule \in RuleNames, NEW w \in Visitor, w.scopes # <<>>, NEW n \in Names, NEW e \in Expressions
  PROVE  LET v == Assign(R, w, TRUE, n, e)
             top == w.scopes[Len(w.scopes)]
         IN  /\ Topped(v, w, IF rule = "secret" THEN top ELSE IF ExprTaint(R, w, TRUE, e) THEN top \cup {n} ELSE top \ {n})
             /\ Rest(v, w) /\ Lineal(v, w)
<1>1. R.assigns <=> rule # "secret"
  BY RuleIs
<1>2. /\ Topped(Taint(w, n), w, w.scopes[Len(w.scopes)] \cup {n})
      /\ Rest(Taint(w, n), w) /\ Lineal(Taint(w, n), w)
  BY TaintIs
<1>3. /\ Topped(Forget(w, n), w, w.scopes[Len(w.scopes)] \ {n})
      /\ Rest(Forget(w, n), w) /\ Lineal(Forget(w, n), w)
  BY ForgetIs
<1>4. Topped(w, w, w.scopes[Len(w.scopes)]) /\ Rest(w, w) /\ Lineal(w, w)
  BY DEF Topped, Rest, Lineal
<1>5. CASE rule = "secret"
  <2>1. Assign(R, w, TRUE, n, e) = w
    BY <1>1, <1>5 DEF Assign
  <2> QED BY <1>4, <1>5, <2>1
<1>6. CASE rule # "secret"
  <2>1. Assign(R, w, TRUE, n, e) = IF ExprTaint(R, w, TRUE, e) THEN Taint(w, n) ELSE Forget(w, n)
    BY <1>1, <1>6 DEF Assign
  <2> QED BY <1>2, <1>3, <1>6, <2>1
<1> QED BY <1>5, <1>6

\* v is w with more reported.
Reported(v, w, more) ==
  /\ v \in Visitor /\ v.scopes = w.scopes /\ v.asleep = w.asleep /\ Lineal(v, w) /\ v.found = w.found \cup more

LEMMA SeverityTyped ==
  ASSUME rule \in RuleNames, NEW w, NEW e
  PROVE  SinkSeverity(R, w, e) = IF rule = "ssrf" /\ IsHostPinned(w, e) THEN "medium" ELSE R.severity
<1>1. R.tiers <=> rule = "ssrf"
  BY RuleIs
<1> QED BY <1>1 DEF SinkSeverity

Sinks(w, place, e) == place \in R.looksAt /\ e.form \notin R.waives /\ ExprTaint(R, w, TRUE, e)
LEMMA CheckSinkIs ==
  ASSUME rule \in RuleNames, NEW w \in Visitor, NEW place, NEW e \in Expressions
  PROVE  /\ Sinks(w, place, e) => Reported(CheckSink(R, w, TRUE, place, e), w, {SinkSeverity(R, w, e)})
         /\ ~Sinks(w, place, e) => CheckSink(R, w, TRUE, place, e) = w
<1>1. SinkSeverity(R, w, e) \in Severities
  BY RuleIs, SeverityTyped DEF Severities
<1>2. /\ Sinks(w, place, e) => CheckSink(R, w, TRUE, place, e) = [w EXCEPT !.found = w.found \cup {SinkSeverity(R, w, e)}]
      /\ ~Sinks(w, place, e) => CheckSink(R, w, TRUE, place, e) = w
  BY DEF CheckSink, Report, Sinks
<1>3. Reported([w EXCEPT !.found = w.found \cup {SinkSeverity(R, w, e)}], w, {SinkSeverity(R, w, e)})
  BY <1>1 DEF Reported, Lineal, Visitor
<1> QED BY <1>2, <1>3

LEMMA CheckCallIs ==
  ASSUME rule \in RuleNames, NEW w \in Visitor, NEW s
  PROVE  Reported(CheckCrossFileCall(R, w, TRUE, index, s), w, CalleeSeverities(R, w, TRUE, index, s))
<1>1. CalleeSeverities(R, w, TRUE, index, s) \subseteq Severities
  BY RuleIs DEF CalleeSeverities, Severities
<1>2. CheckCrossFileCall(R, w, TRUE, index, s) = [w EXCEPT !.found = w.found \cup CalleeSeverities(R, w, TRUE, index, s)]
  BY DEF CheckCrossFileCall
<1> QED BY <1>1, <1>2 DEF Reported, Lineal, Visitor

LEMMA EnterIs ==
  ASSUME NEW w \in Visitor
  PROVE  LET v == EnterFn(w)
         IN  /\ v \in Visitor /\ Rest(v, w) /\ DOMAIN v.urlInits = {} /\ v.safeHosts = {}
             /\ v.scopes = Append(w.scopes, {}) /\ Len(v.scopes) = Len(w.scopes) + 1
<1>1. w.scopes \in Seq(SUBSET Names)
  BY DEF Visitor
<1>2. Append(w.scopes, {}) \in Seq(SUBSET Names) /\ Len(Append(w.scopes, {})) = Len(w.scopes) + 1
  BY <1>1
<1> QED BY <1>2, NoneTyped DEF EnterFn, Visitor, Rest

LEMMA ExitIs ==
  ASSUME NEW w \in Visitor, w.scopes # <<>>
  PROVE  LET v == ExitFn(w)
         IN  /\ v \in Visitor /\ Rest(v, w) /\ Lineal(v, w)
             /\ v.scopes = Front(w.scopes) /\ Len(v.scopes) = Len(w.scopes) - 1
<1>1. w.scopes \in Seq(SUBSET Names)
  BY DEF Visitor
<1>2. Front(w.scopes) \in Seq(SUBSET Names) /\ Len(Front(w.scopes)) = Len(w.scopes) - 1
  BY <1>1, FrontOf
<1> QED BY <1>2 DEF ExitFn, Visitor, Rest, Lineal

LEMMA EnterFunctionIs ==
  ASSUME rule \in RuleNames, NEW w \in Visitor, NEW s, s.decorated \subseteq Names
  PROVE  LET v == EnterFunction(R, w, TRUE, s)
         IN  /\ v \in Visitor /\ Rest(v, w) /\ DOMAIN v.urlInits = {} /\ v.safeHosts = {}
             /\ Len(v.scopes) = Len(w.scopes) + 1 /\ DOMAIN v.scopes = 1..Len(w.scopes) + 1
             /\ \A d \in 1..Len(w.scopes) : v.scopes[d] = w.scopes[d]
             /\ v.scopes[Len(w.scopes) + 1] = IF rule = "secret" THEN {} ELSE s.decorated
<1>1. R.request <=> rule # "secret"
  BY RuleIs
<1> DEFINE x == EnterFn(w)
<1>2. /\ x \in Visitor /\ Rest(x, w) /\ DOMAIN x.urlInits = {} /\ x.safeHosts = {}
      /\ x.scopes = Append(w.scopes, {}) /\ Len(x.scopes) = Len(w.scopes) + 1
  BY EnterIs
<1>3. EnterFunction(R, w, TRUE, s) = IF rule # "secret" THEN [x EXCEPT !.scopes[Len(x.scopes)] = s.decorated] ELSE x
  BY <1>1 DEF EnterFunction
<1> HIDE DEF x
<1>4. w.scopes \in Seq(SUBSET Names) /\ Len(w.scopes) \in Nat
  BY TopIs
<1> DEFINE k == Len(w.scopes) + 1
<1>5. k \in Nat /\ Len(x.scopes) = k /\ DOMAIN x.scopes = 1..k /\ x.scopes \in Seq(SUBSET Names) /\ k \in 1..k
  BY <1>2, <1>4, TopIs
<1>6. x.scopes[k] = {} /\ \A d \in 1..Len(w.scopes) : x.scopes[d] = w.scopes[d] /\ d \in 1..k /\ d # k
  BY <1>2, <1>4
<1> HIDE DEF k
<1>7. CASE rule = "secret"
  BY <1>2, <1>3, <1>5, <1>6, <1>7 DEF k
<1>8. CASE rule # "secret"
  <2> DEFINE z == [x.scopes EXCEPT ![k] = s.decorated]
  <2>1. z \in Seq(SUBSET Names) /\ Len(z) = k /\ DOMAIN z = 1..k
    BY <1>5
  <2>2. \A d \in 1..k : z[d] = IF d = k THEN s.decorated ELSE x.scopes[d]
    BY <1>5
  <2>3. EnterFunction(R, w, TRUE, s) = [x EXCEPT !.scopes = z]
    BY <1>3, <1>5, <1>8
  <2> HIDE DEF z
  <2> QED BY <1>2, <1>5, <1>6, <1>8, <2>1, <2>2, <2>3 DEF k, Visitor, Rest
<1> QED BY <1>7, <1>8

-----------------------------------------------------------------------------
(***************************************************************************)
(* The run's variables; away from the shortcuts what reads tainted is what *)
(* holds the data.                                                         *)
(***************************************************************************)
LEMMA DepthIs ==
  ASSUME RunType
  PROVE  /\ Depth \in Nat \ {0} /\ DOMAIN env = 1..Depth /\ Len(env) = Depth
         /\ \A d \in 1..Depth : env[d] \in Frames /\ DOMAIN env[d] \subseteq Names /\ \A n \in DOMAIN env[d] : env[d][n] \in Values
<1>1. env \in Seq(Frames) /\ env # <<>>
  BY DEF RunType
<1>2. Depth \in Nat \ {0} /\ DOMAIN env = 1..Depth /\ Len(env) = Depth /\ \A d \in 1..Depth : env[d] \in Frames
  BY <1>1, EmptySeq, ElementOfSeq DEF Depth
<1>3. \A d \in 1..Depth : DOMAIN env[d] \subseteq Names /\ \A n \in DOMAIN env[d] : env[d][n] \in Values
  BY <1>2, MapsAre DEF Frames
<1> QED BY <1>2, <1>3

LEMMA OwnerIs ==
  ASSUME RunType, NEW n, Bound(n)
  PROVE  Owner(n) \in 1..Depth /\ Owns(env, Owner(n), n) /\ Holds(n) = env[Owner(n)][n]
<1> DEFINE T == {d \in DOMAIN env : n \in DOMAIN env[d]}
<1>1. T \subseteq 0..Depth /\ T # {} /\ Depth \in Nat
  BY DepthIs DEF Bound
<1>2. Owner(n) = Max(T) /\ Holds(n) = env[Max(T)][n]
  BY DEF Owner, Holds
<1>3. Max(T) \in T /\ \A y \in T : y <= Max(T)
  <2> HIDE DEF T
  <2> QED BY <1>1, Largest
<1> QED BY <1>2, <1>3, DepthIs DEF Owns

LEMMA OwnedOnce ==
  ASSUME RunType, NEW n, NEW o, Owns(env, o, n)
  PROVE  o = Owner(n) /\ o \in 1..Depth /\ Bound(n)
<1>1. Bound(n) /\ o \in 1..Depth
  BY DepthIs DEF Owns, Bound
<1>2. Owner(n) \in 1..Depth /\ Owns(env, Owner(n), n)
  BY <1>1, OwnerIs
<1>3. o <= Owner(n) /\ Owner(n) <= o
  BY <1>2 DEF Owns
<1> QED BY <1>1, <1>2, <1>3, DepthIs

LEMMA HoldsIs ==
  ASSUME RunType, NEW n
  PROVE  /\ Holds(n) \in Values
         /\ \A v : v # "nothing" => (Holds(n) = v <=> \E o \in 1..Depth : Has(env, o, n, v))
<1>1. CASE Bound(n)
  <2>1. Owner(n) \in 1..Depth /\ Owns(env, Owner(n), n) /\ Holds(n) = env[Owner(n)][n]
    BY <1>1, OwnerIs
  <2>2. env[Owner(n)][n] \in Values
    BY <2>1, DepthIs DEF Owns
  <2> QED BY <2>1, <2>2, OwnedOnce DEF Has
<1>2. CASE ~Bound(n)
  BY <1>2, OwnedOnce DEF Holds, Has, Values
<1> QED BY <1>1, <1>2

LEMMA ValueIs ==
  ASSUME RunType, rule \in RuleNames, NEW e \in Expressions
  PROVE  /\ Value(e) \in Values
         /\ Value(e) = "data" <=>
              \/ e.form \in Dangerous /\ e.form \notin Unfollowed
              \/ Plainly(e.form) /\ (Holds(e.of) = "data" \/ (e.form = "hosted" /\ Holds(e.host) = "data"))
         /\ rule # "secret" =>
              (Value(e) = "operator" <=> e.form = "environment" \/ (e.form \in {"alias", "logical"} /\ Holds(e.of) = "operator"))
<1>1. Holds(e.of) \in Values /\ Holds(e.host) \in Values
  BY HoldsIs
<1>2. /\ Dangerous \subseteq Sources /\ (rule # "secret" => "environment" \notin Dangerous)
      /\ Defused \cap (Sources \cup {"literal"}) = {} /\ "literal" \notin Sources
      /\ "environment" \in Sources
      /\ {"alias", "logical"} \cap (Sources \cup Defused \cup {"literal"}) = {}
      /\ {"alias", "logical"} \cap Unfollowed = {}
  BY DEF Dangerous, Sources, Defused, Unfollowed
<1> DEFINE given == e.form \in Sources \cup Defused \cup {"literal"}
<1> DEFINE data == Holds(e.of) = "data" \/ (e.form = "hosted" /\ Holds(e.host) = "data")
<1>3. "data" \in Parts(e) <=> data
  BY DEF Parts
<1>4. CASE e.form \in Dangerous
  <2>1. Value(e) = IF e.form \in Unfollowed THEN "lost" ELSE "data"
    BY <1>2, <1>4 DEF Value
  <2>2. ~Plainly(e.form) /\ (rule # "secret" => e.form # "environment") /\ e.form \notin {"alias", "logical"}
    BY <1>2, <1>4 DEF Plainly
  <2> QED BY <1>4, <2>1, <2>2 DEF Values
<1>5. CASE e.form \notin Dangerous /\ e.form = "environment"
  <2>1. Value(e) = "operator" /\ ~Plainly(e.form)
    BY <1>2, <1>5 DEF Value, Plainly
  <2> QED BY <1>5, <2>1 DEF Values
<1>6. CASE e.form \notin Dangerous /\ e.form # "environment" /\ given
  <2>1. Value(e) = "nothing"
    <3>1. CASE e.form \in Sources \cup {"literal"}
      BY <1>2, <1>6, <3>1 DEF Value
    <3>2. CASE e.form \notin Sources \cup {"literal"}
      BY <1>2, <1>6, <3>2 DEF Value
    <3> QED BY <3>1, <3>2
  <2>2. ~Plainly(e.form) /\ e.form \notin {"alias", "logical"}
    BY <1>2, <1>6 DEF Plainly
  <2> QED BY <1>6, <2>1, <2>2 DEF Values
<1>7. CASE ~given
  <2>1. e.form \notin Dangerous /\ e.form # "environment" /\ e.form \notin Sources /\ e.form \notin Defused /\ e.form # "literal"
    BY <1>2, <1>7
  <2>2. Value(e) = IF "data" \in Parts(e) THEN IF e.form \in Unfollowed THEN "lost" ELSE "data"
                   ELSE IF "lost" \in Parts(e) THEN "lost"
                   ELSE IF e.form \in {"alias", "logical"} THEN Holds(e.of) ELSE "nothing"
    BY <2>1 DEF Value
  <2>3. Plainly(e.form) <=> e.form \notin Unfollowed
    BY <1>7 DEF Plainly
  <2>4. e.form \in {"alias", "logical"} => Parts(e) = {Holds(e.of)} /\ e.form \notin Unfollowed /\ e.form # "hosted"
    BY <1>2 DEF Parts
  <2>5. e.form # "hosted" => Parts(e) = {Holds(e.of)}
    BY DEF Parts
  <2>6. CASE data
    <3>1. Value(e) = IF e.form \in Unfollowed THEN "lost" ELSE "data"
      BY <1>3, <2>2, <2>6
    <3>2. e.form \in {"alias", "logical"} => Holds(e.of) = "data"
      BY <2>4, <2>6
    <3> QED BY <2>1, <2>3, <2>6, <3>1, <3>2 DEF Values
  <2>7. CASE ~data
    <3>1. Value(e) = IF "lost" \in Parts(e) THEN "lost"
                     ELSE IF e.form \in {"alias", "logical"} THEN Holds(e.of) ELSE "nothing"
      BY <1>3, <2>2, <2>7
    <3>2. Value(e) # "data" /\ Value(e) \in Values
      BY <1>1, <2>7, <3>1 DEF Values
    <3>3. Value(e) = "operator" <=> e.form \in {"alias", "logical"} /\ Holds(e.of) = "operator"
      BY <2>4, <3>1
    <3> QED BY <2>1, <2>7, <3>2, <3>3
  <2> QED BY <2>6, <2>7
<1> QED BY <1>4, <1>5, <1>6, <1>7

\* A name whose variable does not hold the data is not tainted, and conversely.
LEMMA TaintedHolds ==
  ASSUME TypeInv, NEW w, w.scopes = walk.scopes, NEW n
  PROVE  /\ walk.asleep = 0 /\ Caught(walk, env) => (Holds(n) = "data" => IsTainted(w, n))
         /\ Founded(walk, env) => (IsTainted(w, n) => Holds(n) = "data")
<1>1. RunType /\ walk \in Visitor /\ Len(walk.scopes) + walk.asleep = Depth
  BY DEF TypeInv, WalkType, Depth
<1>2. DOMAIN walk.scopes = 1..Len(walk.scopes) /\ Len(walk.scopes) \in Nat /\ DOMAIN env = 1..Depth /\ Depth \in Nat /\ walk.asleep \in Nat
  BY <1>1, TopIs, DepthIs DEF Visitor
<1>3. ASSUME walk.asleep = 0, Caught(walk, env), Holds(n) = "data" PROVE IsTainted(w, n)
  <2>1. PICK o \in 1..Depth : Has(env, o, n, "data")
    BY <1>1, <1>3, HoldsIs
  <2>2. o \in DOMAIN walk.scopes
    BY <1>1, <1>2, <1>3
  <2> QED BY <1>3, <2>1, <2>2 DEF Caught, Has, Owns, IsTainted
<1>4. ASSUME Founded(walk, env), IsTainted(w, n) PROVE Holds(n) = "data"
  <2>1. PICK d \in DOMAIN walk.scopes : n \in walk.scopes[d]
    BY <1>4 DEF IsTainted
  <2>2. PICK o \in 1..d : Has(env, o, n, "data")
    BY <1>4, <2>1 DEF Founded
  <2>3. o \in 1..Depth
    BY <1>2, <2>2 DEF Has, Owns
  <2> QED BY <1>1, <2>2, <2>3, HoldsIs
<1> QED BY <1>3, <1>4

LEMMA ReadsAreData ==
  ASSUME TypeInv, NEW w, w.scopes = walk.scopes, NEW e \in Expressions
  PROVE  /\ walk.asleep = 0 /\ Caught(walk, env) /\ Value(e) = "data" => ExprTaint(R, w, TRUE, e) /\ e.form \notin R.waives
         /\ Founded(walk, env) /\ ExprTaint(R, w, TRUE, e) /\ e.form \notin R.waives /\ ~Cries(e.form) => Value(e) = "data"
<1>1. RunType /\ rule \in RuleNames /\ e.form \in AllForms
  BY DEF TypeInv, LoopType, Expressions
<1>2. Value(e) = "data" <=>
        \/ e.form \in Dangerous /\ e.form \notin Unfollowed
        \/ Plainly(e.form) /\ (Holds(e.of) = "data" \/ (e.form = "hosted" /\ Holds(e.host) = "data"))
  BY <1>1, ValueIs
<1>3. /\ e.form \in R.sources <=> e.form \in Dangerous /\ e.form \notin Unfollowed
      /\ e.form \in R.sources => e.form \notin R.waives
      /\ Plainly(e.form) => e.form \in R.carries /\ e.form \notin R.waives
      /\ e.form \in R.carries /\ e.form \notin R.waives /\ ~Cries(e.form) => Plainly(e.form)
  BY <1>1, FormsAre
<1>4. ExprTaint(R, w, TRUE, e) <=>
        \/ e.form \in R.sources
        \/ e.form \in R.carries /\ (IsTainted(w, e.of) \/ (e.form = "hosted" /\ IsTainted(w, e.host)))
  BY DEF ExprTaint
<1>5. /\ walk.asleep = 0 /\ Caught(walk, env) => (Holds(e.of) = "data" => IsTainted(w, e.of))
      /\ Founded(walk, env) => (IsTainted(w, e.of) => Holds(e.of) = "data")
  BY TaintedHolds
<1>6. /\ walk.asleep = 0 /\ Caught(walk, env) => (Holds(e.host) = "data" => IsTainted(w, e.host))
      /\ Founded(walk, env) => (IsTainted(w, e.host) => Holds(e.host) = "data")
  BY TaintedHolds
<1> QED BY <1>2, <1>3, <1>4, <1>5, <1>6

-----------------------------------------------------------------------------
(***************************************************************************)
(* The shortcuts of a statement, and what the visitor starts it with.      *)
(***************************************************************************)
Fresh == [walk EXCEPT !.found = {}]

LEMMA FreshIs ==
  ASSUME TypeInv
  PROVE  /\ Fresh \in Visitor /\ Fresh.scopes = walk.scopes /\ Fresh.asleep = walk.asleep /\ Fresh.found = {}
         /\ Lineal(Fresh, walk) /\ Fresh.scopes # <<>> /\ rule \in RuleNames /\ RunType /\ walk \in Visitor
         /\ walk.asleep \in Nat /\ Len(walk.scopes) \in Nat \ {0} /\ Len(walk.scopes) + walk.asleep = Depth
         /\ DOMAIN walk.scopes = 1..Len(walk.scopes) /\ walk.scopes[1] = {} /\ DOMAIN env[1] = {}
<1>1. walk \in Visitor /\ walk.scopes # <<>> /\ Len(walk.scopes) + walk.asleep = Depth /\ walk.scopes[1] = {}
  BY DEF TypeInv, WalkType, Depth
<1>2. /\ Fresh \in Visitor /\ Fresh.scopes = walk.scopes /\ Fresh.asleep = walk.asleep /\ Fresh.found = {}
      /\ Lineal(Fresh, walk) /\ walk.asleep \in Nat
  BY <1>1 DEF Visitor, Fresh, Lineal
<1>3. Len(walk.scopes) \in Nat \ {0} /\ DOMAIN walk.scopes = 1..Len(walk.scopes)
  BY <1>1, TopIs
<1> QED BY <1>1, <1>2, <1>3 DEF TypeInv, LoopType, RunType

LEMMA ShortcutsTyped == \A s : Shortcuts(s) \subseteq {"miss", "cry", "tier", "relinked"}
<1>1. \A s : Turns(s) \subseteq {"miss", "cry", "tier", "relinked"}
  BY DEF Turns
<1> QED BY <1>1 DEF Shortcuts

\* Where the visitor goes on from one way what holds on another.
TurnsAt(s) == s.kind \in {"else", "close"} \/ (s.kind = "if" /\ s.test = "accepting")
LEMMA TurnsAre ==
  ASSUME NEW s, TurnsAt(s)
  PROVE  /\ Turns(s) \subseteq Shortcuts(s)
         /\ "miss" \notin Turns(s) => Holding(After(s), "data") \subseteq Holding(env, "data")
         /\ "cry" \notin Turns(s) => Holding(env, "data") \subseteq Holding(After(s), "data")
         /\ "tier" \notin Turns(s) => Holding(env, "operator") = Holding(After(s), "operator")
         /\ "relinked" \notin Turns(s) => LinksAfter(s) = links
<1>1. Turns(s) \subseteq Shortcuts(s)
  BY DEF Shortcuts, TurnsAt
<1>2. /\ "miss" \notin Turns(s) => Holding(After(s), "data") \subseteq Holding(env, "data")
      /\ "cry" \notin Turns(s) => Holding(env, "data") \subseteq Holding(After(s), "data")
      /\ "tier" \notin Turns(s) => Holding(env, "operator") = Holding(After(s), "operator")
      /\ "relinked" \notin Turns(s) => LinksAfter(s) = links
  BY DEF Turns
<1> QED BY <1>1, <1>2

LEMMA ShortcutsMiss ==
  ASSUME NEW s, "miss" \notin Shortcuts(s)
  PROVE  /\ Assigns(s) /\ Owner(s.name) # Depth => Stored(s) # "data"
         /\ Combines(s) /\ Stored(s) = "data" => Value(s.expr) = "data"
         /\ s.kind = "field" /\ Stored(s) = "data" => Holds(s.name) = "data"
         /\ s.kind = "each" => Stored(s) # "data"
         /\ TurnsAt(s) => Holding(After(s), "data") \subseteq Holding(env, "data")
         /\ s.kind = "declare" /\ Depth > 2 => s.expr.form # "newUrl"
         /\ rule = "secret" /\ Assigns(s) => Stored(s) # "data"
         /\ ~(rule = "secret" /\ s.kind = "arrow" /\ Depth > 1)
         /\ rule = "secret" /\ s.kind = "destructure" /\ s.name \notin SecretNames => Stored(s) # "data"
<1>1. Assigns(s) /\ Owner(s.name) # Depth => Stored(s) # "data"
  BY DEF Shortcuts
<1>2. Combines(s) /\ Stored(s) = "data" => Value(s.expr) = "data"
  BY DEF Shortcuts
<1>3. s.kind = "field" /\ Stored(s) = "data" => Holds(s.name) = "data"
  BY DEF Shortcuts
<1>4. s.kind = "each" => Stored(s) # "data"
  BY DEF Shortcuts
<1>5. TurnsAt(s) => Holding(After(s), "data") \subseteq Holding(env, "data")
  BY TurnsAre
<1>6. s.kind = "declare" /\ Depth > 2 => s.expr.form # "newUrl"
  BY DEF Shortcuts
<1>7. rule = "secret" /\ Assigns(s) => Stored(s) # "data"
  BY DEF Shortcuts
<1>8. ~(rule = "secret" /\ s.kind = "arrow" /\ Depth > 1)
  BY DEF Shortcuts
<1>9. rule = "secret" /\ s.kind = "destructure" /\ s.name \notin SecretNames => Stored(s) # "data"
  BY DEF Shortcuts
<1> QED BY <1>1, <1>2, <1>3, <1>4, <1>5, <1>6, <1>7, <1>8, <1>9

LEMMA ShortcutsCry ==
  ASSUME NEW s, "cry" \notin Shortcuts(s)
  PROVE  /\ \A e \in Exprs(s) : ~Cries(e.form)
         /\ ~(rule = "xss" /\ Assigns(s) /\ s.expr.form = "sanitise")
         /\ Assigns(s) /\ Owner(s.name) # Depth => Stored(s) = "data"
         /\ Combines(s) /\ Value(s.expr) = "data" => Stored(s) = "data"
         /\ TurnsAt(s) => Holding(env, "data") \subseteq Holding(After(s), "data")
         /\ Declares(s) => Holds(s.name) # "data"
         /\ s.kind = "arrow" => DOMAIN links = {}
         /\ s.kind = "declare" /\ Depth > 2 => s.expr.form # "newUrl"
         /\ rule = "secret" /\ Assigns(s) => Stored(s) = "data"
<1>1. (\A e \in Exprs(s) : ~Cries(e.form)) /\ ~(rule = "xss" /\ Assigns(s) /\ s.expr.form = "sanitise")
  BY DEF Shortcuts, Cries
<1>2. Assigns(s) /\ Owner(s.name) # Depth => Stored(s) = "data"
  BY DEF Shortcuts
<1>3. Combines(s) /\ Value(s.expr) = "data" => Stored(s) = "data"
  BY DEF Shortcuts
<1>4. TurnsAt(s) => Holding(env, "data") \subseteq Holding(After(s), "data")
  BY TurnsAre
<1>5. Declares(s) => Holds(s.name) # "data"
  BY DEF Shortcuts
<1>6. s.kind = "arrow" => DOMAIN links = {}
  BY DEF Shortcuts
<1>7. s.kind = "declare" /\ Depth > 2 => s.expr.form # "newUrl"
  BY DEF Shortcuts
<1>8. rule = "secret" /\ Assigns(s) => Stored(s) = "data"
  BY DEF Shortcuts
<1> QED BY <1>1, <1>2, <1>3, <1>4, <1>5, <1>6, <1>7, <1>8

LEMMA ShortcutsTier ==
  ASSUME NEW s, "tier" \notin Shortcuts(s)
  PROVE  /\ Assigns(s) \/ s.kind = "field" => Holds(s.name) # "operator" /\ Stored(s) # "operator"
         /\ TurnsAt(s) => Holding(env, "operator") = Holding(After(s), "operator")
         /\ s.kind = "arrow" => \A d \in DOMAIN env : \A n \in Names : n \in DOMAIN env[d] => env[d][n] # "operator"
         /\ Writes(s) /\ Depth > 2 => Stored(s) # "operator"
<1>1. Assigns(s) \/ s.kind = "field" => Holds(s.name) # "operator" /\ Stored(s) # "operator"
  BY DEF Shortcuts
<1>2. TurnsAt(s) => Holding(env, "operator") = Holding(After(s), "operator")
  BY TurnsAre
<1>3. s.kind = "arrow" => \A d \in DOMAIN env : \A n \in Names : n \in DOMAIN env[d] => env[d][n] # "operator"
  BY DEF Shortcuts
<1>4. Writes(s) /\ Depth > 2 => Stored(s) # "operator"
  BY DEF Shortcuts
<1> QED BY <1>1, <1>2, <1>3, <1>4

LEMMA ShortcutsRelinked ==
  ASSUME NEW s, "relinked" \notin Shortcuts(s)
  PROVE  /\ Writes(s) => Broken(s.name) = {}
         /\ TurnsAt(s) => LinksAfter(s) = links
<1>1. Writes(s) => Broken(s.name) = {}
  BY DEF Shortcuts
<1> QED BY <1>1, TurnsAre

\* What is not excused after a statement was not before, nor does the
\* statement take that shortcut.
LEMMA Excuses ==
  ASSUME TypeInv, NEW s, Walk(s)
  PROVE  /\ excused' \subseteq {"miss", "cry", "tier", "relinked"}
         /\ \A c : c \notin excused' => c \notin Shortcuts(s) /\ (Depth > 1 => c \notin excused)
         /\ Depth > 1 => excused \subseteq excused'
         /\ walk' = Visit(R, Fresh, TRUE, index, s) /\ env' = After(s) /\ links' = LinksAfter(s) /\ due' = Owed(s)
         /\ phase = "walk" /\ UNCHANGED loop /\ rule' = rule /\ R' = R
<1>1. excused \subseteq {"miss", "cry", "tier", "relinked"} /\ Depth \in Nat \ {0}
  BY DepthIs DEF TypeInv, RunType
<1>2. excused' = (IF Depth = 1 THEN {} ELSE excused) \cup Shortcuts(s)
  BY DEF Walk
<1>3. walk' = Visit(R, Fresh, TRUE, index, s) /\ env' = After(s) /\ links' = LinksAfter(s) /\ due' = Owed(s) /\ phase = "walk" /\ UNCHANGED loop
  BY DEF Walk, Fresh
<1>4. rule' = rule /\ R' = R
  BY <1>3 DEF loop, R
<1>5. excused' \subseteq {"miss", "cry", "tier", "relinked"} /\ (Depth > 1 => excused \subseteq excused')
  <2>1. Shortcuts(s) \subseteq {"miss", "cry", "tier", "relinked"}
    BY ShortcutsTyped
  <2>2. CASE Depth = 1
    BY <1>1, <1>2, <2>1, <2>2
  <2>3. CASE Depth # 1
    BY <1>1, <1>2, <2>1, <2>3
  <2> QED BY <2>2, <2>3
<1>6. \A c : c \notin excused' => c \notin Shortcuts(s) /\ (Depth > 1 => c \notin excused)
  BY <1>1, <1>2
<1> QED BY <1>3, <1>4, <1>5, <1>6

LEMMA LoopKeeps ==
  ASSUME LoopType, UNCHANGED loop
  PROVE  LoopType'
BY DEF LoopType, loop

-----------------------------------------------------------------------------
(***************************************************************************)
(* Statements that write a variable.                                       *)
(***************************************************************************)
\* In the function o the variable n gets the value v.
Gets(o, n, v) ==
  /\ Len(env') = Depth /\ env' \in Seq(Frames) /\ DOMAIN env' = 1..Depth
  /\ \A d \in 1..Depth : d # o => env'[d] = env[d]
  /\ DOMAIN env'[o] = DOMAIN env[o] \cup {n}
  /\ \A x \in DOMAIN env[o] \cup {n} : env'[o][x] = IF x = n THEN v ELSE env[o][x]

LEMMA PutIs ==
  ASSUME RunType, NEW o \in 1..Depth, NEW n \in Names, NEW v \in Values, env' = Put(o, n, v)
  PROVE  Gets(o, n, v)
<1>1. Depth \in Nat \ {0} /\ DOMAIN env = 1..Depth /\ Len(env) = Depth /\ env[o] \in Frames /\ env \in Seq(Frames)
  BY DepthIs DEF RunType
<1>2. With(env[o], n, v) \in Frames
  BY <1>1, WithTyped DEF Frames
<1> DEFINE f == With(env[o], n, v)
<1>3. env' = [env EXCEPT ![o] = f]
  BY DEF Put
<1>4. DOMAIN f = DOMAIN env[o] \cup {n} /\ \A x \in DOMAIN env[o] \cup {n} : f[x] = IF x = n THEN v ELSE env[o][x]
  BY DEF With
<1>5. f \in Frames
  BY <1>2
<1> HIDE DEF f
<1>6. env' \in Seq(Frames) /\ Len(env') = Depth /\ DOMAIN env' = 1..Depth
  BY <1>1, <1>3, <1>5
<1>7. env'[o] = f /\ \A d \in 1..Depth : d # o => env'[d] = env[d]
  BY <1>1, <1>3
<1> QED BY <1>4, <1>6, <1>7 DEF Gets

\* Who owns the other variables, and what they hold, stays.
LEMMA OthersKeep ==
  ASSUME RunType, NEW o \in 1..Depth, NEW n, NEW v, Gets(o, n, v), NEW x, x # n, NEW i, NEW u
  PROVE  Has(env', i, x, u) <=> Has(env, i, x, u)
<1>1. DOMAIN env = 1..Depth
  BY DepthIs
<1>2. \A d \in 1..Depth : x \in DOMAIN env'[d] <=> x \in DOMAIN env[d]
  BY DEF Gets
<1>3. \A d \in 1..Depth : x \in DOMAIN env[d] => env'[d][x] = env[d][x]
  BY DEF Gets
<1>4. DOMAIN env' = 1..Depth
  BY DEF Gets
<1> QED BY <1>1, <1>2, <1>3, <1>4 DEF Has, Owns

LEMMA LinksAre ==
  ASSUME RunType, NEW s, Writes(s), s.name \in Names, s.kind = "declare" => s.expr.of \in Names,
         links' = LinksAfter(s)
  PROVE  LET new == s.kind = "declare" /\ s.expr.form = "newUrl" /\ s.expr.of # s.name
         IN  /\ links' \in Lineage
             /\ \A u : u # s.name => (u \in DOMAIN links' <=> u \in DOMAIN links /\ u \notin Broken(s.name))
             /\ \A u \in DOMAIN links' : u # s.name => links'[u] = links[u]
             /\ s.name \in DOMAIN links' <=> new
             /\ new => links'[s.name] = [of |-> s.expr.of, depth |-> Depth]
<1> DEFINE new == s.kind = "declare" /\ s.expr.form = "newUrl" /\ s.expr.of # s.name
<1> DEFINE D == DOMAIN links \ Broken(s.name)
<1> DEFINE kept == [u \in D |-> links[u]]
<1> DEFINE link == [of |-> s.expr.of, depth |-> Depth]
<1>1. links \in Lineage /\ DOMAIN links \subseteq Names /\ \A u \in DOMAIN links : links[u] \in [of : Names, depth : Nat]
  BY MapsAre DEF RunType, Lineage
<1>2. kept \in [D -> [of : Names, depth : Nat]] /\ D \subseteq Names /\ DOMAIN kept = D /\ \A u \in D : kept[u] = links[u]
  BY <1>1
<1>3. kept \in Lineage
  BY <1>2 DEF Lineage
<1>4. s.name \notin D
  BY DEF Broken
<1>5. links' = IF new THEN With(kept, s.name, link) ELSE kept
  BY DEF LinksAfter, Writes, Assigns, Declares, Combines
<1>6. \A u : u # s.name => (u \in D <=> u \in DOMAIN links /\ u \notin Broken(s.name))
  OBVIOUS
<1>7. Depth \in Nat /\ (new => link \in [of : Names, depth : Nat])
  BY DepthIs
<1> HIDE DEF D, kept
<1>8. CASE new
  <2>1. links' = With(kept, s.name, link)
    BY <1>5, <1>8
  <2>2. link \in [of : Names, depth : Nat]
    BY <1>7, <1>8
  <2> HIDE DEF link
  <2>3. With(kept, s.name, link) \in Lineage
    BY <1>3, <2>2, WithTyped DEF Lineage
  <2>4. DOMAIN links' = D \cup {s.name} /\ \A x \in D \cup {s.name} : links'[x] = IF x = s.name THEN link ELSE kept[x]
    <3>1. /\ DOMAIN With(kept, s.name, link) = D \cup {s.name}
          /\ \A x \in D \cup {s.name} : With(kept, s.name, link)[x] = IF x = s.name THEN link ELSE kept[x]
      BY <1>2 DEF With
    <3> QED BY <2>1, <3>1
  <2>5. links'[s.name] = link
    BY <2>4
  <2>6. \A u \in DOMAIN links' : u # s.name => links'[u] = links[u]
    BY <1>2, <2>4
  <2>7. \A u : u # s.name => (u \in DOMAIN links' <=> u \in DOMAIN links /\ u \notin Broken(s.name))
    BY <1>6, <2>4
  <2>8. s.name \in DOMAIN links' /\ links' \in Lineage
    BY <2>1, <2>3, <2>4
  <2> QED BY <1>8, <2>5, <2>6, <2>7, <2>8 DEF link
<1>9. CASE ~new
  <2>1. links' = kept
    BY <1>5, <1>9
  <2> QED BY <1>2, <1>3, <1>4, <1>6, <1>9, <2>1
<1> QED BY <1>8, <1>9

\* What a write to n, owned by o, must do to the invariant's parts: the scopes
\* change in n only, and by what it is given.
WriteStep(s, o) ==
  /\ Writes(s) /\ s.name \in Names /\ s.expr \in Expressions /\ Walk(s) /\ Depth > 1 /\ o \in 2..Depth
  /\ Gets(o, s.name, Stored(s)) /\ Owns(env', o, s.name)
  /\ s.kind = "declare" /\ s.expr.form = "newUrl" => Bound(s.expr.of) /\ s.name \notin DOMAIN env[Depth]
WriteVisits(s, o) ==
  /\ walk' \in Visitor /\ walk'.asleep = walk.asleep
  /\ Len(walk'.scopes) = Len(walk.scopes) /\ DOMAIN walk'.scopes = DOMAIN walk.scopes /\ walk'.scopes[1] = {}
  /\ \A d \in DOMAIN walk.scopes : \A x : x # s.name \/ d # Depth => (x \in walk'.scopes[d] <=> x \in walk.scopes[d])
  /\ \A x : x # s.name => (x \in walk'.safeHosts <=> x \in walk.safeHosts)
  /\ walk.asleep = 0 =>
       walk'.urlInits = IF rule \in {"redirect", "ssrf"} /\ s.kind = "declare" /\ s.expr.form = "newUrl"
                          THEN With(walk.urlInits, s.name, s.expr.of) ELSE walk.urlInits
WriteCatches(s, o) ==
  /\ "miss" \notin excused' /\ Caught(walk, env) => (Stored(s) = "data" => s.name \in walk'.scopes[o])
  /\ "cry" \notin excused' /\ Founded(walk, env) =>
       \A d \in DOMAIN walk.scopes : s.name \in walk'.scopes[d] => Stored(s) = "data" /\ o <= d
  /\ "tier" \notin excused' /\ rule = "ssrf" /\ Hosted(walk, env) =>
       (s.name \in walk'.safeHosts <=> Stored(s) = "operator")

LEMMA WriteKeeps ==
  ASSUME ReachInv, NEW s, NEW o, WriteStep(s, o), WriteVisits(s, o), WriteCatches(s, o)
  PROVE  ReachInv'
<1> DEFINE n == s.name
<1>1. TypeInv /\ MissInv /\ CryInv /\ TierInv /\ RunType /\ LoopType /\ WalkType
  BY DEF ReachInv, TypeInv
<1>2. /\ Writes(s) /\ n \in Names /\ s.expr \in Expressions /\ Walk(s) /\ Depth > 1 /\ o \in 2..Depth /\ o \in 1..Depth
      /\ Gets(o, n, Stored(s)) /\ Owns(env', o, n)
      /\ s.kind = "declare" /\ s.expr.form = "newUrl" => Bound(s.expr.of) /\ n \notin DOMAIN env[Depth]
      /\ s.expr.of \in Names
  <2>1. Depth \in Nat
    BY <1>1, DepthIs
  <2> QED BY <2>1 DEF WriteStep, Expressions
<1>3. /\ walk' \in Visitor /\ walk'.asleep = walk.asleep
      /\ Len(walk'.scopes) = Len(walk.scopes) /\ DOMAIN walk'.scopes = DOMAIN walk.scopes /\ walk'.scopes[1] = {}
      /\ \A d \in DOMAIN walk.scopes : \A x : x # n \/ d # Depth => (x \in walk'.scopes[d] <=> x \in walk.scopes[d])
      /\ \A x : x # n => (x \in walk'.safeHosts <=> x \in walk.safeHosts)
  BY DEF WriteVisits
<1>4. walk.asleep = 0 =>
       walk'.urlInits = IF rule \in {"redirect", "ssrf"} /\ s.kind = "declare" /\ s.expr.form = "newUrl"
                          THEN With(walk.urlInits, n, s.expr.of) ELSE walk.urlInits
  BY DEF WriteVisits
<1>5. /\ Depth \in Nat \ {0} /\ DOMAIN env = 1..Depth /\ DOMAIN env' = 1..Depth /\ Len(env') = Depth /\ Len(env) = Depth
      /\ env' \in Seq(Frames)
      /\ \A d \in 1..Depth : d # o => env'[d] = env[d]
      /\ DOMAIN env'[o] = DOMAIN env[o] \cup {n}
      /\ \A x \in DOMAIN env[o] \cup {n} : env'[o][x] = IF x = n THEN Stored(s) ELSE env[o][x]
  BY <1>1, <1>2, DepthIs DEF Gets
<1>6. /\ walk \in Visitor /\ walk.asleep \in Nat /\ Len(walk.scopes) \in Nat \ {0} /\ Len(walk.scopes) + walk.asleep = Depth
      /\ DOMAIN walk.scopes = 1..Len(walk.scopes) /\ walk.scopes # <<>>
  BY <1>1, FreshIs DEF WalkType
<1>7. /\ excused' \subseteq {"miss", "cry", "tier", "relinked"}
      /\ \A c : c \notin excused' => c \notin Shortcuts(s) /\ c \notin excused
      /\ excused \subseteq excused' /\ links' = LinksAfter(s) /\ UNCHANGED loop /\ rule' = rule /\ R' = R
  BY <1>1, <1>2, Excuses
<1>8. rule \in RuleNames /\ (R.guards <=> rule \in {"redirect", "ssrf"}) /\ (walk.asleep > 0 => rule = "secret" /\ "miss" \in excused')
  BY <1>1, <1>7, RuleIs DEF LoopType, WalkType
<1> DEFINE new == s.kind = "declare" /\ s.expr.form = "newUrl" /\ s.expr.of # n
<1>9. /\ links' \in Lineage
      /\ \A u : u # n => (u \in DOMAIN links' <=> u \in DOMAIN links /\ u \notin Broken(n))
      /\ \A u \in DOMAIN links' : u # n => links'[u] = links[u]
      /\ n \in DOMAIN links' <=> new
      /\ new => links'[n] = [of |-> s.expr.of, depth |-> Depth]
  BY <1>1, <1>2, <1>7, LinksAre
<1>10. \A x : x # n => \A i, u : Has(env', i, x, u) <=> Has(env, i, x, u)
  BY <1>1, <1>2, OthersKeep
<1>11. \A i, u : Has(env', i, n, u) <=> i = o /\ u = Stored(s)
  <2>1. env'[o][n] = Stored(s)
    BY <1>5
  <2>2. \A i : Owns(env', i, n) => i = o
    BY <1>2, <1>5 DEF Owns
  <2> QED BY <1>2, <2>1, <2>2 DEF Has
<1>12. DOMAIN env[1] = {} /\ DOMAIN env'[1] = {}
  BY <1>1, <1>2, <1>5 DEF RunType
<1> HIDE DEF n
\* The types.
<1>13. TypeInv'
  <2>1. LoopType'
    BY <1>1, <1>7, LoopKeeps
  <2>2. WalkType'
    <3>1. walk'.scopes # <<>>
      <4>1. Len(walk'.scopes) # 0
        BY <1>3, <1>6
      <4> QED BY <4>1
    <3>2. Len(walk'.scopes) + walk'.asleep = Len(env')
      BY <1>3, <1>5, <1>6
    <3> QED BY <1>3, <1>7, <1>8, <3>1, <3>2 DEF WalkType
  <2>3. \A u \in DOMAIN links' : links'[u].depth \in 2..Len(env')
    <3>1. ASSUME NEW u \in DOMAIN links', u # n PROVE links'[u].depth \in 2..Len(env')
      BY <1>1, <1>5, <1>9, <3>1 DEF RunType
    <3>2. ASSUME n \in DOMAIN links' PROVE links'[n].depth \in 2..Len(env')
      BY <1>2, <1>5, <1>9, <3>2
    <3> QED BY <3>1, <3>2
  <2>4. env' # <<>>
    BY <1>5
  <2> QED BY <1>5, <1>7, <1>9, <1>12, <2>1, <2>2, <2>3, <2>4 DEF TypeInv, RunType
\* Taint.
<1>14. ASSUME "miss" \notin excused', "relinked" \notin excused' PROVE Caught(walk', env') /\ Linked(walk', env', links')
  <2>1. Caught(walk, env) /\ Linked(walk, env, links) /\ walk.asleep = 0
    BY <1>1, <1>6, <1>7, <1>8, <1>14 DEF MissInv
  <2>2. Stored(s) = "data" => n \in walk'.scopes[o]
    BY <1>14, <2>1 DEF WriteCatches, n
  <2>3. ASSUME NEW d \in 1..Depth, NEW x \in DOMAIN env'[d], env'[d][x] = "data" PROVE x \in walk'.scopes[d]
    <3>1. CASE x # n
      <4>1. x \in DOMAIN env[d] /\ env[d][x] = "data"
        BY <1>5, <2>3, <3>1
      <4> QED BY <1>3, <1>6, <2>1, <3>1, <4>1 DEF Caught
    <3>2. CASE x = n /\ d = o
      BY <1>5, <2>2, <2>3, <3>2
    <3>3. CASE x = n /\ d # o
      <4>1. d <= o /\ x \in DOMAIN env[d] /\ env[d][x] = "data"
        BY <1>2, <1>5, <2>3, <3>3 DEF Owns
      <4>2. d # Depth
        BY <1>2, <1>5, <3>3, <4>1
      <4> QED BY <1>3, <1>6, <2>1, <4>1, <4>2 DEF Caught
    <3> QED BY <3>1, <3>2, <3>3
  <2>4. Caught(walk', env')
    BY <1>3, <1>6, <2>1, <2>3 DEF Caught
  <2>5. Broken(n) = {}
    BY <1>2, <1>7, <1>14, ShortcutsRelinked DEF n
  <2>6. s.kind = "declare" /\ Depth > 2 => s.expr.form # "newUrl"
    BY <1>7, <1>14, ShortcutsMiss
  <2>7. ASSUME NEW u \in DOMAIN walk'.urlInits
        PROVE  Len(env') = 2 /\ u \in DOMAIN links' /\ links'[u] = [of |-> walk'.urlInits[u], depth |-> 2] /\ walk'.urlInits[u] \in DOMAIN env'[2]
    <3>1. \A x \in DOMAIN env[2] : Depth = 2 => x \in DOMAIN env'[2]
      BY <1>2, <1>5
    <3>2. CASE u \in DOMAIN walk.urlInits /\ walk'.urlInits[u] = walk.urlInits[u] /\ u # n
      <4>1. Depth = 2 /\ u \in DOMAIN links /\ links[u] = [of |-> walk.urlInits[u], depth |-> 2] /\ walk.urlInits[u] \in DOMAIN env[2]
        BY <1>2, <1>5, <2>1, <3>2 DEF Linked
      <4> QED BY <1>5, <1>9, <2>5, <3>1, <3>2, <4>1
    <3>3. CASE u = n /\ s.kind = "declare" /\ s.expr.form = "newUrl" /\ walk'.urlInits[n] = s.expr.of
      <4>1. Depth = 2
        BY <1>2, <1>5, <2>6, <3>3
      <4>2. Bound(s.expr.of) /\ n \notin DOMAIN env[2]
        BY <1>2, <3>3, <4>1
      <4>3. s.expr.of \in DOMAIN env[2]
        <5>1. PICK d \in 1..2 : s.expr.of \in DOMAIN env[d]
          BY <1>5, <4>1, <4>2 DEF Bound
        <5> QED BY <1>12, <5>1
      <4> QED BY <1>5, <1>9, <3>1, <3>3, <4>1, <4>2, <4>3
    <3>4. CASE u = n /\ u \in DOMAIN walk.urlInits
      <4>1. u \in DOMAIN links
        BY <1>2, <1>5, <2>1, <3>4 DEF Linked
      <4> QED BY <2>5, <3>4, <4>1 DEF Broken
    <3>5. \/ walk'.urlInits = walk.urlInits
          \/ walk'.urlInits = With(walk.urlInits, n, s.expr.of) /\ s.kind = "declare" /\ s.expr.form = "newUrl"
      BY <1>4, <2>1
    <3>6. CASE walk'.urlInits = walk.urlInits
      BY <2>7, <3>2, <3>4, <3>6
    <3>7. CASE walk'.urlInits = With(walk.urlInits, n, s.expr.of) /\ s.kind = "declare" /\ s.expr.form = "newUrl"
      <4>1. /\ DOMAIN walk'.urlInits = DOMAIN walk.urlInits \cup {n}
            /\ \A x \in DOMAIN walk.urlInits \cup {n} : walk'.urlInits[x] = IF x = n THEN s.expr.of ELSE walk.urlInits[x]
        <5>1. /\ DOMAIN With(walk.urlInits, n, s.expr.of) = DOMAIN walk.urlInits \cup {n}
              /\ \A x \in DOMAIN walk.urlInits \cup {n} : With(walk.urlInits, n, s.expr.of)[x] = IF x = n THEN s.expr.of ELSE walk.urlInits[x]
          BY DEF With
        <5> QED BY <3>7, <5>1
      <4> QED BY <2>7, <3>2, <3>3, <3>7, <4>1
    <3> QED BY <3>5, <3>6, <3>7
  <2> QED BY <2>4, <2>7 DEF Linked
<1>15. ASSUME "cry" \notin excused' PROVE Founded(walk', env') /\ (R'.guards => Noted(walk', env', links'))
  <2>1. Founded(walk, env) /\ (R.guards => Noted(walk, env, links))
    BY <1>1, <1>7, <1>15 DEF CryInv
  <2>2. \A d \in DOMAIN walk.scopes : n \in walk'.scopes[d] => Stored(s) = "data" /\ o <= d
    BY <1>15, <2>1 DEF WriteCatches, n
  <2>3. ASSUME NEW d \in DOMAIN walk.scopes, NEW x \in walk'.scopes[d] PROVE \E i \in 1..d : Has(env', i, x, "data")
    <3>1. CASE x # n
      <4>1. PICK i \in 1..d : Has(env, i, x, "data")
        BY <1>3, <2>1, <2>3, <3>1 DEF Founded
      <4> QED BY <1>10, <3>1, <4>1
    <3>2. CASE x = n
      <4>1. Has(env', o, n, "data") /\ o \in 1..d
        BY <1>2, <1>6, <1>11, <2>2, <2>3, <3>2
      <4> QED BY <3>2, <4>1
    <3> QED BY <3>1, <3>2
  <2>4. Founded(walk', env')
    BY <1>3, <2>3 DEF Founded
  <2>5. s.kind = "declare" /\ Depth > 2 => s.expr.form # "newUrl"
    BY <1>7, <1>15, ShortcutsCry
  <2>6. ASSUME R.guards, NEW u \in DOMAIN links' PROVE Len(env') = 2 /\ u \in DOMAIN walk'.urlInits /\ links'[u].of = walk'.urlInits[u]
    <3>1. rule \in {"redirect", "ssrf"} /\ walk.asleep = 0
      BY <1>6, <1>8, <2>6
    <3>2. CASE u # n
      <4>1. Depth = 2 /\ u \in DOMAIN walk.urlInits /\ links'[u].of = walk.urlInits[u]
        BY <1>5, <1>9, <2>1, <2>6, <3>2 DEF Noted
      <4>2. u \in DOMAIN walk'.urlInits /\ walk'.urlInits[u] = walk.urlInits[u]
        BY <1>4, <3>1, <3>2, <4>1 DEF With
      <4> QED BY <1>5, <4>1, <4>2
    <3>3. CASE u = n
      <4>1. s.kind = "declare" /\ s.expr.form = "newUrl" /\ links'[n].of = s.expr.of
        BY <1>9, <2>6, <3>3
      <4>2. n \in DOMAIN walk'.urlInits /\ walk'.urlInits[n] = s.expr.of
        BY <1>4, <3>1, <4>1 DEF With
      <4> QED BY <1>2, <1>5, <2>5, <3>3, <4>1, <4>2
    <3> QED BY <3>2, <3>3
  <2> QED BY <1>7, <2>4, <2>6 DEF Noted
<1>16. ASSUME "tier" \notin excused', rule = "ssrf" PROVE Hosted(walk', env')
  <2>1. Hosted(walk, env)
    BY <1>1, <1>7, <1>16 DEF TierInv
  <2>2. n \in walk'.safeHosts <=> Stored(s) = "operator"
    BY <1>16, <2>1 DEF WriteCatches, n
  <2>3. Depth > 2 => Stored(s) # "operator"
    BY <1>2, <1>7, <1>16, ShortcutsTier
  <2>4. \A x \in Names : x \in walk'.safeHosts <=> \E i \in DOMAIN env' : Has(env', i, x, "operator")
    <3>1. ASSUME NEW x \in Names, x # n PROVE x \in walk'.safeHosts <=> \E i \in DOMAIN env' : Has(env', i, x, "operator")
      BY <1>2, <1>3, <1>5, <1>10, <2>1, <3>1 DEF Hosted
    <3>2. n \in walk'.safeHosts <=> \E i \in DOMAIN env' : Has(env', i, n, "operator")
      BY <1>2, <1>5, <1>11, <2>2
    <3> QED BY <3>1, <3>2
  <2>5. ASSUME Depth > 2, NEW d \in 1..Depth, NEW x \in DOMAIN env'[d] PROVE env'[d][x] # "operator"
    <3>1. CASE d = o /\ x = n
      BY <1>5, <2>3, <2>5, <3>1
    <3>2. CASE ~(d = o /\ x = n)
      <4>1. x \in DOMAIN env[d] /\ env'[d][x] = env[d][x]
        BY <1>5, <2>5, <3>2
      <4> QED BY <1>5, <2>1, <2>5, <4>1 DEF Hosted
    <3> QED BY <3>1, <3>2
  <2> QED BY <1>5, <2>4, <2>5 DEF Hosted
<1>17. MissInv' /\ CryInv' /\ TierInv'
  BY <1>7, <1>14, <1>15, <1>16 DEF MissInv, CryInv, TierInv
<1> QED BY <1>13, <1>17 DEF ReachInv

\* The visit of a statement, asleep and awake.
LEMMA AsleepVisit ==
  ASSUME TypeInv, walk.asleep > 0, NEW s, Walk(s)
  PROVE  /\ walk' \in Visitor /\ walk'.scopes = walk.scopes /\ walk'.found = {} /\ Lineal(walk', walk)
         /\ s.kind \notin {"arrow", "exit"} => walk'.asleep = walk.asleep
         /\ s.kind = "arrow" => walk'.asleep = walk.asleep + 1
         /\ s.kind = "exit" => walk'.asleep = walk.asleep - 1
         /\ Depth > 1 /\ rule = "secret" /\ "miss" \in excused'
<1>1. /\ Fresh \in Visitor /\ Fresh.scopes = walk.scopes /\ Fresh.asleep = walk.asleep /\ Fresh.found = {}
      /\ Lineal(Fresh, walk) /\ walk.asleep \in Nat /\ Len(walk.scopes) \in Nat \ {0} /\ Len(walk.scopes) + walk.asleep = Depth
  BY FreshIs
<1>2. walk' = Visit(R, Fresh, TRUE, index, s) /\ (Depth > 1 => excused \subseteq excused')
  BY Excuses
<1> DEFINE k == CASE s.kind = "arrow" -> walk.asleep + 1 [] s.kind = "exit" -> walk.asleep - 1 [] OTHER -> walk.asleep
<1>3. walk' = [Fresh EXCEPT !.asleep = k]
  BY <1>1, <1>2 DEF Visit
<1>4. /\ k \in Nat /\ (s.kind \notin {"arrow", "exit"} => k = walk.asleep)
      /\ (s.kind = "arrow" => k = walk.asleep + 1) /\ (s.kind = "exit" => k = walk.asleep - 1)
  <2>1. CASE s.kind = "arrow"
    BY <1>1, <2>1
  <2>2. CASE s.kind = "exit"
    BY <1>1, <2>2
  <2>3. CASE s.kind # "arrow" /\ s.kind # "exit"
    BY <1>1, <2>3
  <2> QED BY <2>1, <2>2, <2>3
<1>5. rule = "secret" /\ "miss" \in excused /\ Depth > 1
  BY <1>1 DEF TypeInv, WalkType
<1> HIDE DEF k
<1>6. walk' \in Visitor /\ walk'.scopes = walk.scopes /\ walk'.found = {} /\ Lineal(walk', walk) /\ walk'.asleep = k
  BY <1>1, <1>3, <1>4 DEF Visitor, Lineal
<1> QED BY <1>2, <1>4, <1>5, <1>6

LEMMA AwakeVisit ==
  ASSUME TypeInv, walk.asleep = 0, NEW s, Walk(s)
  PROVE  /\ s.kind = "declare" => walk' = VarDecl(R, Fresh, TRUE, s.name, s.expr)
         /\ s.kind = "destructure" => walk' = Destructure(R, Fresh, TRUE, s.name, s.expr)
         /\ Assigns(s) => walk' = Assign(R, Fresh, TRUE, s.name, s.expr)
         /\ s.kind = "sink" => walk' = CheckSink(R, Fresh, TRUE, s.at, s.expr)
         /\ s.kind = "call" => walk' = CheckCrossFileCall(R, Fresh, TRUE, index, s)
         /\ s.kind = "if" => walk' = Narrow(R, Fresh, s)
         /\ s.kind \in WalkedThrough => walk' = Fresh
         /\ s.kind = "function" => walk' = EnterFunction(R, Fresh, TRUE, s)
         /\ s.kind = "arrow" => walk' = IF rule # "secret" \/ Depth = 1 THEN EnterFn(Fresh) ELSE [Fresh EXCEPT !.asleep = 1]
         /\ s.kind = "exit" => walk' = ExitFn(Fresh)
<1>1. Fresh.asleep = 0 /\ Len(Fresh.scopes) = Depth /\ Depth \in Nat
  BY FreshIs
<1>2. walk' = Visit(R, Fresh, TRUE, index, s)
  BY Excuses
<1>3. R.callbacks <=> rule # "secret"
  BY FreshIs, RuleIs
<1>4. s.kind = "declare" => walk' = VarDecl(R, Fresh, TRUE, s.name, s.expr)
  BY <1>1, <1>2 DEF Visit, WalkedThrough
<1>5. s.kind = "destructure" => walk' = Destructure(R, Fresh, TRUE, s.name, s.expr)
  BY <1>1, <1>2 DEF Visit, WalkedThrough
<1>6. Assigns(s) => walk' = Assign(R, Fresh, TRUE, s.name, s.expr)
  <2>1. CASE s.kind = "assign"
    BY <1>1, <1>2, <2>1 DEF Visit, WalkedThrough
  <2>2. CASE s.kind = "append"
    BY <1>1, <1>2, <2>2 DEF Visit, WalkedThrough
  <2>3. CASE s.kind = "default"
    BY <1>1, <1>2, <2>3 DEF Visit, WalkedThrough
  <2> QED BY <2>1, <2>2, <2>3 DEF Assigns, Combines
<1>7. s.kind = "sink" => walk' = CheckSink(R, Fresh, TRUE, s.at, s.expr)
  BY <1>1, <1>2 DEF Visit, WalkedThrough
<1>8. s.kind = "call" => walk' = CheckCrossFileCall(R, Fresh, TRUE, index, s)
  BY <1>1, <1>2 DEF Visit, WalkedThrough
<1>9. s.kind = "if" => walk' = Narrow(R, Fresh, s)
  BY <1>1, <1>2 DEF Visit, WalkedThrough
<1>13. s.kind \in WalkedThrough => walk' = Fresh
  <2>1. s.kind = "loop" => walk' = Fresh
    BY <1>1, <1>2 DEF Visit, WalkedThrough
  <2>2. s.kind = "try" => walk' = Fresh
    BY <1>1, <1>2 DEF Visit, WalkedThrough
  <2>3. s.kind = "else" => walk' = Fresh
    BY <1>1, <1>2 DEF Visit, WalkedThrough
  <2>4. s.kind = "close" => walk' = Fresh
    BY <1>1, <1>2 DEF Visit, WalkedThrough
  <2>5. s.kind = "jump" => walk' = Fresh
    BY <1>1, <1>2 DEF Visit, WalkedThrough
  <2>6. s.kind = "each" => walk' = Fresh
    BY <1>1, <1>2 DEF Visit, WalkedThrough
  <2>7. s.kind = "field" => walk' = Fresh
    BY <1>1, <1>2 DEF Visit, WalkedThrough
  <2> QED BY <2>1, <2>2, <2>3, <2>4, <2>5, <2>6, <2>7 DEF WalkedThrough
<1>10. s.kind = "function" => walk' = EnterFunction(R, Fresh, TRUE, s)
  BY <1>1, <1>2 DEF Visit, WalkedThrough
<1>11. s.kind = "arrow" => walk' = IF rule # "secret" \/ Depth = 1 THEN EnterFn(Fresh) ELSE [Fresh EXCEPT !.asleep = 1]
  <2>1. CASE rule # "secret" \/ Depth = 1
    BY <1>1, <1>2, <1>3, <2>1 DEF Visit, WalkedThrough
  <2>2. CASE ~(rule # "secret" \/ Depth = 1)
    BY <1>1, <1>2, <1>3, <2>2 DEF Visit, WalkedThrough
  <2> QED BY <2>1, <2>2
<1>12. s.kind = "exit" => walk' = ExitFn(Fresh)
  BY <1>1, <1>2 DEF Visit, WalkedThrough
<1> QED BY <1>4, <1>5, <1>6, <1>7, <1>8, <1>9, <1>10, <1>11, <1>12, <1>13

LEMMA ReadableIs ==
  ASSUME rule \in RuleNames, NEW e \in Readable
  PROVE  e \in Expressions /\ (e.form \in Sources \cup {"literal"} \/ Bound(e.of))
BY ReachAssumption DEF Readable, Plain, Given, Expressions

LEMMA StoredTyped ==
  ASSUME TypeInv, NEW s, s.name \in Names, s.expr \in Expressions
  PROVE  /\ Stored(s) \in Values
         /\ rule # "secret" /\ s.kind = "destructure" =>
              Stored(s) = IF Value(s.expr) = "operator" THEN "nothing" ELSE Value(s.expr)
<1>1. Value(s.expr) \in Values /\ Worst({Holds(s.name), Value(s.expr)}) \in Values
  BY ValueIs DEF TypeInv, LoopType, Worst, Values
<1>2. Appended(s.name, s.expr) \in Values
  BY DEF Appended, Values
<1> QED BY <1>1, <1>2 DEF Stored, Destructured, Values

LEMMA VisitsWrite ==
  ASSUME TypeInv, NEW s, NEW o, Writes(s), s.name \in Names, Walk(s), Depth > 1,
         walk.asleep = 0 =>
           /\ \E top : /\ Topped(walk', Fresh, top)
                       /\ \A x : x # s.name => (x \in top <=> x \in walk.scopes[Depth])
           /\ \A x : x # s.name => (x \in walk'.safeHosts <=> x \in Fresh.safeHosts)
           /\ walk'.urlInits = IF rule \in {"redirect", "ssrf"} /\ s.kind = "declare" /\ s.expr.form = "newUrl"
                                 THEN With(Fresh.urlInits, s.name, s.expr.of) ELSE Fresh.urlInits
  PROVE  WriteVisits(s, o)
<1>1. /\ Fresh \in Visitor /\ Fresh.scopes = walk.scopes /\ Fresh.asleep = walk.asleep /\ Lineal(Fresh, walk)
      /\ walk.asleep \in Nat /\ Len(walk.scopes) + walk.asleep = Depth /\ Len(walk.scopes) \in Nat \ {0}
      /\ DOMAIN walk.scopes = 1..Len(walk.scopes) /\ walk.scopes[1] = {}
  BY FreshIs
<1>2. CASE walk.asleep > 0
  <2>1. s.kind \notin {"arrow", "exit"}
    BY DEF Writes, Assigns, Declares, Combines
  <2>2. walk' \in Visitor /\ walk'.scopes = walk.scopes /\ Lineal(walk', walk) /\ walk'.asleep = walk.asleep
    BY <1>2, <2>1, AsleepVisit
  <2> QED BY <1>1, <1>2, <2>2 DEF WriteVisits, Lineal
<1>3. CASE walk.asleep = 0
  <2>1. PICK top : Topped(walk', Fresh, top) /\ \A x : x # s.name => (x \in top <=> x \in walk.scopes[Depth])
    BY <1>3
  <2>2. /\ walk' \in Visitor /\ walk'.asleep = walk.asleep
        /\ Len(walk'.scopes) = Len(walk.scopes) /\ DOMAIN walk'.scopes = DOMAIN walk.scopes
        /\ \A d \in 1..Depth : walk'.scopes[d] = IF d = Depth THEN top ELSE walk.scopes[d]
    BY <1>1, <1>3, <2>1 DEF Topped
  <2>3. walk'.scopes[1] = {}
    BY <1>1, <1>3, <2>2
  <2> QED BY <1>1, <1>3, <2>1, <2>2, <2>3 DEF WriteVisits, Lineal
<1> QED BY <1>1, <1>2, <1>3

\* A name that is new to the innermost function is neither tainted nor a safe
\* host, unless it hides one.
LEMMA NewName ==
  ASSUME TypeInv, Depth > 1, NEW n, n \notin DOMAIN env[Depth]
  PROVE  /\ Founded(walk, env) /\ Holds(n) # "data" => \A d \in DOMAIN walk.scopes : n \notin walk.scopes[d]
         /\ Hosted(walk, env) /\ n \in Names => n \notin walk.safeHosts
<1>1. RunType /\ DOMAIN env[1] = {} /\ Depth \in Nat \ {0} /\ DOMAIN env = 1..Depth /\ Len(env) = Depth
  BY FreshIs, DepthIs
<1>2. Founded(walk, env) /\ Holds(n) # "data" => ~IsTainted(walk, n)
  BY TaintedHolds
<1>3. ASSUME Hosted(walk, env), n \in Names, n \in walk.safeHosts PROVE FALSE
  <2>1. PICK o \in 1..Depth : Has(env, o, n, "operator")
    BY <1>1, <1>3 DEF Hosted
  <2>2. n \in DOMAIN env[o] /\ env[o][n] = "operator" /\ o # Depth /\ o # 1
    BY <1>1, <2>1 DEF Has, Owns
  <2>3. Depth > 2
    BY <1>1, <2>2
  <2> QED BY <1>1, <1>3, <2>2, <2>3 DEF Hosted
<1> QED BY <1>2, <1>3 DEF IsTainted

LEMMA SafeHosts ==
  ASSUME TypeInv, rule = "ssrf", Hosted(walk, env), Depth > 1, NEW e \in Expressions
  PROVE  IsSafeHost(Fresh, e) <=> Value(e) = "operator"
<1>1. RunType /\ Depth \in Nat \ {0} /\ DOMAIN env = 1..Depth /\ Len(env) = Depth /\ Lineal(Fresh, walk) /\ e.of \in Names
  BY FreshIs, DepthIs DEF Expressions
<1>2. e.of \in walk.safeHosts <=> Holds(e.of) = "operator"
  BY <1>1, HoldsIs DEF Hosted
<1>3. Value(e) = "operator" <=> e.form = "environment" \/ (e.form \in {"alias", "logical"} /\ Holds(e.of) = "operator")
  BY <1>1, FreshIs, ValueIs
<1> QED BY <1>1, <1>2, <1>3 DEF IsSafeHost, Lineal

LEMMA DeclareKeeps ==
  ASSUME ReachInv, Depth > 1, NEW n \in Names \ DOMAIN Here, NEW e \in Readable,
         Walk([kind |-> "declare", name |-> n, expr |-> e])
  PROVE  ReachInv'
<1> DEFINE s == [kind |-> "declare", name |-> n, expr |-> e]
<1>1. s.kind = "declare" /\ s.name = n /\ s.expr = e /\ Writes(s) /\ Declares(s) /\ Walk(s) /\ Stored(s) = Value(e) /\ Exprs(s) = {e}
  BY DEF Writes, Declares, Stored, Exprs
<1> HIDE DEF s
<1>2. /\ TypeInv /\ Fresh \in Visitor /\ Fresh.scopes = walk.scopes /\ Fresh.scopes # <<>> /\ rule \in RuleNames /\ RunType
      /\ Lineal(Fresh, walk) /\ walk.asleep \in Nat /\ Len(walk.scopes) + walk.asleep = Depth /\ Len(walk.scopes) \in Nat
      /\ DOMAIN walk.scopes = 1..Len(walk.scopes)
  BY FreshIs DEF ReachInv
<1>3. n \in Names /\ n \notin DOMAIN env[Depth] /\ e \in Expressions /\ (e.form \in Sources \cup {"literal"} \/ Bound(e.of))
  BY <1>2, ReadableIs DEF Here
<1>4. Value(e) \in Values /\ Depth \in Nat \ {0} /\ DOMAIN env = 1..Depth
  BY <1>2, <1>3, ValueIs, DepthIs
<1>5. env' = Put(Depth, n, Stored(s))
  BY <1>1, <1>2, Excuses DEF After
<1>6. Gets(Depth, n, Stored(s))
  BY <1>1, <1>2, <1>3, <1>4, <1>5, PutIs
<1>7. WriteStep(s, Depth)
  <2>1. Owns(env', Depth, n)
    BY <1>4, <1>6 DEF Gets, Owns
  <2>2. e.form = "newUrl" => Bound(e.of)
    BY <1>3 DEF Sources
  <2> QED BY <1>1, <1>3, <1>4, <1>6, <2>1, <2>2 DEF WriteStep
<1> DEFINE taints == ExprTaint(R, Fresh, TRUE, e) /\ e.form \notin R.waives
<1>8. walk.asleep = 0 =>
        /\ Topped(walk', Fresh, IF taints THEN walk.scopes[Depth] \cup {n} ELSE walk.scopes[Depth])
        /\ walk'.urlInits = IF rule \in {"redirect", "ssrf"} /\ e.form = "newUrl" THEN With(Fresh.urlInits, n, e.of) ELSE Fresh.urlInits
        /\ walk'.safeHosts = IF rule = "ssrf" /\ IsSafeHost(Fresh, e) THEN Fresh.safeHosts \cup {n} ELSE Fresh.safeHosts
  <2>1. walk.asleep = 0 => walk' = VarDecl(R, Fresh, TRUE, s.name, s.expr)
    BY <1>1, <1>2, AwakeVisit
  <2>2. walk.asleep = 0 => Len(Fresh.scopes) = Depth /\ walk' = VarDecl(R, Fresh, TRUE, n, e)
    BY <1>1, <1>2, <2>1
  <2> DEFINE v == VarDecl(R, Fresh, TRUE, n, e)
  <2>3. /\ Topped(v, Fresh, IF taints THEN Fresh.scopes[Len(Fresh.scopes)] \cup {n} ELSE Fresh.scopes[Len(Fresh.scopes)])
        /\ v.urlInits = IF rule \in {"redirect", "ssrf"} /\ e.form = "newUrl" THEN With(Fresh.urlInits, n, e.of) ELSE Fresh.urlInits
        /\ v.safeHosts = IF rule = "ssrf" /\ IsSafeHost(Fresh, e) THEN Fresh.safeHosts \cup {n} ELSE Fresh.safeHosts
    BY <1>2, <1>3, VarDeclIs
  <2> HIDE DEF v, taints
  <2>4. walk.asleep = 0 => walk' = v /\ Fresh.scopes[Len(Fresh.scopes)] = walk.scopes[Depth]
    BY <1>2, <2>2 DEF v
  <2> QED BY <2>3, <2>4
<1>9. WriteVisits(s, Depth)
  <2>1. walk.asleep = 0 =>
           /\ \E top : /\ Topped(walk', Fresh, top)
                       /\ \A x : x # s.name => (x \in top <=> x \in walk.scopes[Depth])
           /\ \A x : x # s.name => (x \in walk'.safeHosts <=> x \in Fresh.safeHosts)
           /\ walk'.urlInits = IF rule \in {"redirect", "ssrf"} /\ s.kind = "declare" /\ s.expr.form = "newUrl"
                                 THEN With(Fresh.urlInits, s.name, s.expr.of) ELSE Fresh.urlInits
    BY <1>1, <1>8
  <2> QED BY <1>1, <1>2, <1>3, <2>1, VisitsWrite
<1>10. /\ walk.asleep = 0 /\ Caught(walk, env) => (Value(e) = "data" => taints)
       /\ Founded(walk, env) /\ taints /\ ~Cries(e.form) => Value(e) = "data"
  BY <1>2, <1>3, ReadsAreData
<1> HIDE DEF taints
<1>11. /\ walk.asleep = 0 => walk'.scopes[Depth] = IF taints THEN walk.scopes[Depth] \cup {n} ELSE walk.scopes[Depth]
       /\ walk.asleep = 0 => \A d \in 1..Depth : d # Depth => walk'.scopes[d] = walk.scopes[d]
  <2>1. ASSUME walk.asleep = 0 PROVE Len(walk.scopes) = Depth /\ Depth \in 1..Depth
    BY <1>2, <1>4, <2>1
  <2> QED BY <1>2, <1>8, <2>1 DEF Topped
<1>12. ASSUME "miss" \notin excused', Caught(walk, env), Stored(s) = "data" PROVE n \in walk'.scopes[Depth]
  <2>1. walk.asleep = 0
    BY <1>1, <1>2, <1>12, AsleepVisit
  <2> QED BY <1>1, <1>10, <1>11, <1>12, <2>1
<1>13. ASSUME "cry" \notin excused', Founded(walk, env), NEW d \in DOMAIN walk.scopes, n \in walk'.scopes[d]
       PROVE  Stored(s) = "data" /\ Depth <= d
  <2>1. Holds(n) # "data" /\ ~Cries(e.form)
    BY <1>1, <1>2, <1>13, Excuses, ShortcutsCry
  <2>2. n \notin walk.scopes[d]
    BY <1>2, <1>3, <1>13, <2>1, NewName
  <2>3. walk.asleep = 0
    BY <1>1, <1>2, <1>13, <2>2, AsleepVisit
  <2>4. d = Depth /\ taints
    BY <1>2, <1>11, <1>13, <2>2, <2>3
  <2> QED BY <1>1, <1>4, <1>10, <1>13, <2>1, <2>4
<1>14. ASSUME "tier" \notin excused', rule = "ssrf", Hosted(walk, env) PROVE n \in walk'.safeHosts <=> Stored(s) = "operator"
  <2>1. n \notin walk.safeHosts
    BY <1>2, <1>3, <1>14, NewName
  <2>2. walk.asleep = 0
    BY <1>2, <1>14 DEF TypeInv, WalkType
  <2>3. IsSafeHost(Fresh, e) <=> Value(e) = "operator"
    BY <1>2, <1>3, <1>14, SafeHosts
  <2> QED BY <1>1, <1>2, <1>8, <1>14, <2>1, <2>2, <2>3 DEF Lineal
<1>15. WriteCatches(s, Depth)
  BY <1>1, <1>12, <1>13, <1>14 DEF WriteCatches
<1> QED BY <1>7, <1>9, <1>15, WriteKeeps

LEMMA DestructureKeeps ==
  ASSUME ReachInv, Depth > 1, NEW n \in Names \ DOMAIN Here, NEW e \in Readable,
         Walk([kind |-> "destructure", name |-> n, expr |-> e])
  PROVE  ReachInv'
<1> DEFINE s == [kind |-> "destructure", name |-> n, expr |-> e]
<1>1. s.kind = "destructure" /\ s.name = n /\ s.expr = e /\ Writes(s) /\ Declares(s) /\ Walk(s) /\ Stored(s) = Destructured(n, e) /\ Exprs(s) = {e}
  BY DEF Writes, Declares, Stored, Exprs
<1> HIDE DEF s
<1>2. /\ TypeInv /\ Fresh \in Visitor /\ Fresh.scopes = walk.scopes /\ Fresh.scopes # <<>> /\ rule \in RuleNames /\ RunType
      /\ Lineal(Fresh, walk) /\ walk.asleep \in Nat /\ Len(walk.scopes) + walk.asleep = Depth /\ Len(walk.scopes) \in Nat
      /\ DOMAIN walk.scopes = 1..Len(walk.scopes)
  BY FreshIs DEF ReachInv
<1>3. n \in Names /\ n \notin DOMAIN env[Depth] /\ e \in Expressions
  BY <1>2, ReadableIs DEF Here
<1>4. Stored(s) \in Values /\ Depth \in Nat \ {0} /\ DOMAIN env = 1..Depth
  BY <1>1, <1>2, <1>3, StoredTyped, DepthIs
<1>5. env' = Put(Depth, n, Stored(s))
  BY <1>1, <1>2, Excuses DEF After
<1>6. Gets(Depth, n, Stored(s))
  BY <1>1, <1>2, <1>3, <1>4, <1>5, PutIs
<1>7. WriteStep(s, Depth)
  <2>1. Owns(env', Depth, n)
    BY <1>4, <1>6 DEF Gets, Owns
  <2> QED BY <1>1, <1>3, <1>4, <1>6, <2>1 DEF WriteStep
<1> DEFINE taints == IF rule = "secret" THEN n \in SecretNames /\ e.form # "sanitise"
                     ELSE ExprTaint(R, Fresh, TRUE, e) /\ e.form \notin R.waives
<1>8. walk.asleep = 0 =>
        /\ Topped(walk', Fresh, IF taints THEN walk.scopes[Depth] \cup {n} ELSE walk.scopes[Depth])
        /\ Lineal(walk', Fresh)
  <2>1. walk.asleep = 0 => walk' = Destructure(R, Fresh, TRUE, s.name, s.expr)
    BY <1>1, <1>2, AwakeVisit
  <2>2. walk.asleep = 0 => Len(Fresh.scopes) = Depth /\ walk' = Destructure(R, Fresh, TRUE, n, e)
    BY <1>1, <1>2, <2>1
  <2> DEFINE v == Destructure(R, Fresh, TRUE, n, e)
  <2>3. /\ Topped(v, Fresh, IF taints THEN Fresh.scopes[Len(Fresh.scopes)] \cup {n} ELSE Fresh.scopes[Len(Fresh.scopes)])
        /\ Lineal(v, Fresh)
    BY <1>2, <1>3, DestructureIs
  <2> HIDE DEF v, taints
  <2>4. walk.asleep = 0 => walk' = v /\ Fresh.scopes[Len(Fresh.scopes)] = walk.scopes[Depth]
    BY <1>2, <2>2 DEF v
  <2> QED BY <2>3, <2>4
<1>9. WriteVisits(s, Depth)
  <2>1. walk.asleep = 0 =>
           /\ \E top : /\ Topped(walk', Fresh, top)
                       /\ \A x : x # s.name => (x \in top <=> x \in walk.scopes[Depth])
           /\ \A x : x # s.name => (x \in walk'.safeHosts <=> x \in Fresh.safeHosts)
           /\ walk'.urlInits = IF rule \in {"redirect", "ssrf"} /\ s.kind = "declare" /\ s.expr.form = "newUrl"
                                 THEN With(Fresh.urlInits, s.name, s.expr.of) ELSE Fresh.urlInits
    <3> HIDE DEF taints
    <3> QED BY <1>1, <1>8 DEF Lineal
  <2> QED BY <1>1, <1>2, <1>3, <2>1, VisitsWrite
<1>10. ASSUME rule # "secret"
       PROVE  /\ walk.asleep = 0 /\ Caught(walk, env) => (Stored(s) = "data" => taints)
              /\ Founded(walk, env) /\ taints /\ ~Cries(e.form) => Stored(s) = "data"
              /\ Stored(s) # "operator"
  <2>1. /\ walk.asleep = 0 /\ Caught(walk, env) => (Value(e) = "data" => taints)
        /\ Founded(walk, env) /\ taints /\ ~Cries(e.form) => Value(e) = "data"
    BY <1>2, <1>3, <1>10, ReadsAreData
  <2>2. Stored(s) = IF Value(e) = "operator" THEN "nothing" ELSE Value(e)
    BY <1>1, <1>2, <1>3, <1>10, StoredTyped
  <2> QED BY <2>1, <2>2
<1>11. ASSUME rule = "secret" PROVE n \in SecretNames => (taints <=> Stored(s) = "data")
  BY <1>1, <1>11 DEF Destructured
<1>12. rule = "secret" /\ n \notin SecretNames => ~taints
  OBVIOUS
<1> HIDE DEF taints
<1>13. /\ walk.asleep = 0 => walk'.scopes[Depth] = IF taints THEN walk.scopes[Depth] \cup {n} ELSE walk.scopes[Depth]
       /\ walk.asleep = 0 => \A d \in 1..Depth : d # Depth => walk'.scopes[d] = walk.scopes[d]
  <2>1. ASSUME walk.asleep = 0 PROVE Len(walk.scopes) = Depth /\ Depth \in 1..Depth
    BY <1>2, <1>4, <2>1
  <2> QED BY <1>2, <1>8, <2>1 DEF Topped
<1>14. ASSUME "miss" \notin excused', Caught(walk, env), Stored(s) = "data" PROVE n \in walk'.scopes[Depth]
  <2>1. walk.asleep = 0
    BY <1>1, <1>2, <1>14, AsleepVisit
  <2>2. rule = "secret" => n \in SecretNames
    BY <1>1, <1>2, <1>14, Excuses, ShortcutsMiss
  <2>3. taints
    BY <1>10, <1>11, <1>14, <2>1, <2>2
  <2> QED BY <1>13, <2>1, <2>3
<1>15. ASSUME "cry" \notin excused', Founded(walk, env), NEW d \in DOMAIN walk.scopes, n \in walk'.scopes[d]
       PROVE  Stored(s) = "data" /\ Depth <= d
  <2>1. Holds(n) # "data" /\ ~Cries(e.form)
    BY <1>1, <1>2, <1>15, Excuses, ShortcutsCry
  <2>2. n \notin walk.scopes[d]
    BY <1>2, <1>3, <1>15, <2>1, NewName
  <2>3. walk.asleep = 0
    BY <1>1, <1>2, <1>15, <2>2, AsleepVisit
  <2>4. d = Depth /\ taints
    BY <1>2, <1>13, <1>15, <2>2, <2>3
  <2>5. rule = "secret" => n \in SecretNames
    BY <1>12, <2>4
  <2> QED BY <1>4, <1>10, <1>11, <1>15, <2>1, <2>4, <2>5
<1>16. ASSUME "tier" \notin excused', rule = "ssrf", Hosted(walk, env) PROVE n \in walk'.safeHosts <=> Stored(s) = "operator"
  <2>1. n \notin walk.safeHosts
    BY <1>2, <1>3, <1>16, NewName
  <2>2. walk.asleep = 0
    BY <1>2, <1>16 DEF TypeInv, WalkType
  <2> QED BY <1>2, <1>8, <1>10, <1>16, <2>1, <2>2 DEF Lineal
<1>17. WriteCatches(s, Depth)
  BY <1>1, <1>14, <1>15, <1>16 DEF WriteCatches
<1> QED BY <1>7, <1>9, <1>17, WriteKeeps

LEMMA AssignKeeps ==
  ASSUME ReachInv, NEW how \in {"assign", "append", "default"}, NEW n \in Names, Bound(n), NEW e \in Readable,
         Walk([kind |-> how, name |-> n, expr |-> e])
  PROVE  ReachInv' /\ Depth > 1
<1> DEFINE s == [kind |-> how, name |-> n, expr |-> e]
<1> DEFINE o == Owner(n)
<1>1. /\ s.kind = how /\ s.name = n /\ s.expr = e /\ Writes(s) /\ Assigns(s) /\ Walk(s) /\ Exprs(s) = {e}
      /\ how = "assign" => Stored(s) = Value(e)
      /\ how # "assign" => Combines(s)
  BY DEF Writes, Assigns, Stored, Exprs, Combines
<1> HIDE DEF s
<1>2. /\ TypeInv /\ Fresh \in Visitor /\ Fresh.scopes = walk.scopes /\ Fresh.scopes # <<>> /\ rule \in RuleNames /\ RunType
      /\ Lineal(Fresh, walk) /\ walk.asleep \in Nat /\ Len(walk.scopes) + walk.asleep = Depth /\ Len(walk.scopes) \in Nat
      /\ DOMAIN walk.scopes = 1..Len(walk.scopes) /\ DOMAIN env[1] = {}
  BY FreshIs DEF ReachInv
<1>3. e \in Expressions
  BY <1>2, ReadableIs
<1>4. Value(e) \in Values /\ Stored(s) \in Values /\ Depth \in Nat \ {0} /\ DOMAIN env = 1..Depth
  BY <1>1, <1>2, <1>3, ValueIs, StoredTyped, DepthIs
<1>5. o \in 1..Depth /\ Owns(env, o, n) /\ Holds(n) = env[o][n]
  BY <1>2, OwnerIs
<1>6. o \in 2..Depth /\ Depth > 1 /\ n \in DOMAIN env[o]
  BY <1>2, <1>4, <1>5 DEF Owns
<1>7. env' = Put(o, n, Stored(s))
  BY <1>1, <1>2, Excuses DEF After
<1> HIDE DEF o
<1>8. Gets(o, n, Stored(s))
  BY <1>1, <1>2, <1>3, <1>4, <1>5, <1>7, PutIs
<1>9. WriteStep(s, o)
  <2>1. \A d \in 1..Depth : n \in DOMAIN env'[d] => n \in DOMAIN env[d]
    BY <1>6, <1>8 DEF Gets
  <2>2. Owns(env', o, n)
    BY <1>4, <1>5, <1>8, <2>1 DEF Gets, Owns
  <2> QED BY <1>1, <1>3, <1>4, <1>6, <1>8, <2>2 DEF WriteStep
<1> DEFINE top == IF rule = "secret" THEN walk.scopes[Depth]
                  ELSE IF ExprTaint(R, Fresh, TRUE, e) THEN walk.scopes[Depth] \cup {n} ELSE walk.scopes[Depth] \ {n}
<1>10. walk.asleep = 0 => Topped(walk', Fresh, top) /\ Lineal(walk', Fresh)
  <2>1. walk.asleep = 0 => walk' = Assign(R, Fresh, TRUE, s.name, s.expr)
    BY <1>1, <1>2, AwakeVisit
  <2>2. walk.asleep = 0 => Len(Fresh.scopes) = Depth /\ walk' = Assign(R, Fresh, TRUE, n, e)
    BY <1>1, <1>2, <2>1
  <2> DEFINE v == Assign(R, Fresh, TRUE, n, e)
  <2> DEFINE old == Fresh.scopes[Len(Fresh.scopes)]
  <2>3. /\ Topped(v, Fresh, IF rule = "secret" THEN old ELSE IF ExprTaint(R, Fresh, TRUE, e) THEN old \cup {n} ELSE old \ {n})
        /\ Lineal(v, Fresh)
    BY <1>2, <1>3, AssignIs
  <2> HIDE DEF v
  <2>4. walk.asleep = 0 => walk' = v /\ old = walk.scopes[Depth]
    BY <1>2, <2>2 DEF v
  <2> HIDE DEF old
  <2> QED BY <2>3, <2>4
<1>11. \A x : x # n => (x \in top <=> x \in walk.scopes[Depth])
  OBVIOUS
<1>12. /\ rule = "secret" => top = walk.scopes[Depth]
       /\ rule # "secret" => (n \in top <=> ExprTaint(R, Fresh, TRUE, e))
  OBVIOUS
<1> HIDE DEF top
<1>13. WriteVisits(s, o)
  <2>1. walk.asleep = 0 =>
           /\ \E t : /\ Topped(walk', Fresh, t)
                     /\ \A x : x # s.name => (x \in t <=> x \in walk.scopes[Depth])
           /\ \A x : x # s.name => (x \in walk'.safeHosts <=> x \in Fresh.safeHosts)
           /\ walk'.urlInits = IF rule \in {"redirect", "ssrf"} /\ s.kind = "declare" /\ s.expr.form = "newUrl"
                                 THEN With(Fresh.urlInits, s.name, s.expr.of) ELSE Fresh.urlInits
    BY <1>1, <1>10, <1>11 DEF Lineal
  <2> QED BY <1>1, <1>2, <1>6, <2>1, VisitsWrite
<1>14. /\ walk.asleep = 0 /\ Caught(walk, env) => (Value(e) = "data" => ExprTaint(R, Fresh, TRUE, e))
       /\ Founded(walk, env) /\ ExprTaint(R, Fresh, TRUE, e) /\ e.form \notin R.waives /\ ~Cries(e.form) => Value(e) = "data"
  BY <1>2, <1>3, ReadsAreData
<1>15. /\ walk.asleep = 0 => walk'.scopes[Depth] = top
       /\ walk.asleep = 0 => \A d \in 1..Depth : d # Depth => walk'.scopes[d] = walk.scopes[d]
  <2>1. ASSUME walk.asleep = 0 PROVE Len(walk.scopes) = Depth /\ Depth \in 1..Depth
    BY <1>2, <1>4, <2>1
  <2> QED BY <1>2, <1>10, <2>1 DEF Topped
<1>16. ASSUME "miss" \notin excused', Caught(walk, env), Stored(s) = "data" PROVE n \in walk'.scopes[o]
  <2>1. walk.asleep = 0
    BY <1>1, <1>2, <1>16, AsleepVisit
  <2>2. o = Depth /\ rule # "secret" /\ Value(e) = "data"
    BY <1>1, <1>2, <1>16, Excuses, ShortcutsMiss DEF o
  <2> QED BY <1>1, <1>12, <1>14, <1>15, <1>16, <2>1, <2>2
<1>17. ASSUME "cry" \notin excused', Founded(walk, env), NEW d \in DOMAIN walk.scopes, n \in walk'.scopes[d]
       PROVE  Stored(s) = "data" /\ o <= d
  <2>1. /\ o # Depth => Stored(s) = "data"
        /\ rule = "secret" => Stored(s) = "data"
        /\ ~Cries(e.form) /\ ~(rule = "xss" /\ e.form = "sanitise")
        /\ Value(e) = "data" => Stored(s) = "data"
    BY <1>1, <1>2, <1>17, Excuses, ShortcutsCry DEF o
  <2>2. n \in walk.scopes[d] => o <= d
    <3>1. ASSUME n \in walk.scopes[d] PROVE o <= d
      <4>1. PICK i \in 1..d : Has(env, i, n, "data")
        BY <1>17, <3>1 DEF Founded
      <4>2. i = o
        BY <1>2, <4>1, OwnedOnce DEF Has, o
      <4> QED BY <1>2, <4>1, <4>2
    <3> QED BY <3>1
  <2>3. d \in 1..Depth
    BY <1>2, <1>4
  <2>4. CASE n \in walk.scopes[d] /\ (rule = "secret" \/ d # Depth)
    BY <1>4, <1>5, <2>1, <2>2, <2>3, <2>4
  <2>5. CASE ~(n \in walk.scopes[d] /\ (rule = "secret" \/ d # Depth))
    <3>1. walk.asleep = 0
      <4>1. walk.asleep > 0 => walk'.scopes = walk.scopes /\ rule = "secret"
        BY <1>1, <1>2, AsleepVisit
      <4> QED BY <1>2, <1>17, <2>5, <4>1
    <3>2. d = Depth
      BY <1>15, <1>17, <2>3, <2>5, <3>1
    <3>3. n \in top
      BY <1>15, <1>17, <3>1, <3>2
    <3>4. rule # "secret" /\ ExprTaint(R, Fresh, TRUE, e)
      BY <1>12, <2>5, <3>2, <3>3
    <3>5. e.form \notin R.waives
      BY <1>2, <2>1, RuleIs
    <3>6. Stored(s) = "data"
      BY <1>1, <1>14, <1>17, <2>1, <3>4, <3>5
    <3> QED BY <1>5, <3>2, <3>6
  <2> QED BY <2>4, <2>5
<1>18. ASSUME "tier" \notin excused', rule = "ssrf", Hosted(walk, env) PROVE n \in walk'.safeHosts <=> Stored(s) = "operator"
  <2>1. Holds(n) # "operator" /\ Stored(s) # "operator"
    BY <1>1, <1>2, <1>18, Excuses, ShortcutsTier
  <2>2. walk.asleep = 0
    BY <1>2, <1>18 DEF TypeInv, WalkType
  <2>3. n \notin walk.safeHosts
    <3>1. Depth = Len(env)
      BY DEF Depth
    <3> QED BY <1>2, <1>4, <1>6, <1>18, <2>1, <3>1, HoldsIs DEF Hosted
  <2> QED BY <1>2, <1>10, <2>1, <2>2, <2>3 DEF Lineal
<1>19. WriteCatches(s, o)
  BY <1>1, <1>16, <1>17, <1>18 DEF WriteCatches
<1> QED BY <1>6, <1>9, <1>13, <1>19, WriteKeeps

\* What is not looked at leaves the visitor as it is.
LEMMA Unseen ==
  ASSUME TypeInv, NEW s, NEW o, s.kind \in {"field", "each"}, s.name \in Names, Walk(s), Depth > 1
  PROVE  WriteVisits(s, o) /\ walk'.scopes = walk.scopes /\ Lineal(walk', walk)
<1>1. Writes(s) /\ s.kind \in WalkedThrough /\ s.kind # "declare" /\ s.kind \notin {"arrow", "exit"}
  BY DEF Writes, Declares, WalkedThrough
<1>2. /\ Fresh \in Visitor /\ Fresh.scopes = walk.scopes /\ Fresh.asleep = walk.asleep /\ Lineal(Fresh, walk)
      /\ walk.asleep \in Nat /\ Len(walk.scopes) + walk.asleep = Depth /\ Len(walk.scopes) \in Nat \ {0}
  BY FreshIs
<1>3. walk.asleep = 0 => walk' = Fresh /\ Len(walk.scopes) = Depth
  <2>1. ASSUME walk.asleep = 0 PROVE walk' = Fresh
    BY <1>1, <2>1, AwakeVisit
  <2>2. walk.asleep = 0 => Len(walk.scopes) = Depth
    BY <1>2, DepthIs DEF RunType
  <2> QED BY <2>1, <2>2
<1>4. walk'.scopes = walk.scopes /\ Lineal(walk', walk)
  <2>1. walk.asleep > 0 => walk'.scopes = walk.scopes /\ Lineal(walk', walk)
    BY AsleepVisit
  <2> QED BY <1>2, <1>3, <2>1
<1>5. Topped(Fresh, Fresh, Fresh.scopes[Len(Fresh.scopes)])
  BY <1>2 DEF Topped
<1>6. walk.asleep = 0 =>
        /\ \E top : /\ Topped(walk', Fresh, top)
                    /\ \A x : x # s.name => (x \in top <=> x \in walk.scopes[Depth])
        /\ \A x : x # s.name => (x \in walk'.safeHosts <=> x \in Fresh.safeHosts)
        /\ walk'.urlInits = IF rule \in {"redirect", "ssrf"} /\ s.kind = "declare" /\ s.expr.form = "newUrl"
                              THEN With(Fresh.urlInits, s.name, s.expr.of) ELSE Fresh.urlInits
  BY <1>1, <1>2, <1>3, <1>5
<1>7. WriteVisits(s, o)
  BY <1>1, <1>6, VisitsWrite
<1> QED BY <1>4, <1>7

LEMMA EachKeeps ==
  ASSUME ReachInv, Depth > 1, NEW n \in Names \ DOMAIN Here, NEW e \in Readable,
         Walk([kind |-> "each", name |-> n, expr |-> e])
  PROVE  ReachInv'
<1> DEFINE s == [kind |-> "each", name |-> n, expr |-> e]
<1>1. s.kind = "each" /\ s.name = n /\ s.expr = e /\ Writes(s) /\ Declares(s) /\ Walk(s)
  BY DEF Writes, Declares
<1>2. Stored(s) = IF Value(e) = "operator" THEN "nothing" ELSE Value(e)
  BY DEF Stored
<1> HIDE DEF s
<1>3. /\ TypeInv /\ rule \in RuleNames /\ RunType /\ DOMAIN walk.scopes = 1..Len(walk.scopes)
  BY FreshIs DEF ReachInv
<1>4. n \in Names /\ n \notin DOMAIN env[Depth] /\ e \in Expressions
  BY <1>3, ReadableIs DEF Here
<1>5. Stored(s) \in Values /\ Stored(s) # "operator" /\ Depth \in Nat \ {0} /\ DOMAIN env = 1..Depth
  BY <1>2, <1>3, <1>4, ValueIs, DepthIs DEF Values
<1>6. env' = Put(Depth, n, Stored(s))
  BY <1>1, <1>3, Excuses DEF After
<1>7. Gets(Depth, n, Stored(s))
  BY <1>3, <1>4, <1>5, <1>6, PutIs
<1>8. WriteStep(s, Depth)
  <2>1. Owns(env', Depth, n)
    BY <1>5, <1>7 DEF Gets, Owns
  <2> QED BY <1>1, <1>4, <1>5, <1>7, <2>1 DEF WriteStep
<1>9. WriteVisits(s, Depth) /\ walk'.scopes = walk.scopes /\ Lineal(walk', walk)
  BY <1>1, <1>3, <1>4, Unseen
<1>10. "miss" \notin excused' => Stored(s) # "data"
  BY <1>1, <1>3, Excuses, ShortcutsMiss
<1>11. ASSUME "cry" \notin excused', Founded(walk, env), NEW d \in DOMAIN walk.scopes, n \in walk'.scopes[d] PROVE FALSE
  <2>1. Holds(n) # "data"
    BY <1>1, <1>3, <1>11, Excuses, ShortcutsCry
  <2> QED BY <1>3, <1>4, <1>9, <1>11, <2>1, NewName
<1>12. Hosted(walk, env) => n \notin walk'.safeHosts
  BY <1>3, <1>4, <1>9, NewName DEF Lineal
<1>13. WriteCatches(s, Depth)
  BY <1>1, <1>5, <1>10, <1>11, <1>12 DEF WriteCatches
<1> QED BY <1>8, <1>9, <1>13, WriteKeeps

LEMMA FieldKeeps ==
  ASSUME ReachInv, NEW n \in Names, Bound(n), NEW e \in Readable,
         Walk([kind |-> "field", name |-> n, expr |-> e])
  PROVE  ReachInv' /\ Depth > 1
<1> DEFINE s == [kind |-> "field", name |-> n, expr |-> e]
<1> DEFINE o == Owner(n)
<1>1. s.kind = "field" /\ s.name = n /\ s.expr = e /\ Writes(s) /\ Walk(s)
  BY DEF Writes
<1>2. Holds(n) = "data" => Stored(s) = "data"
  BY DEF Stored, Worst
<1> HIDE DEF s
<1>3. /\ TypeInv /\ rule \in RuleNames /\ RunType /\ DOMAIN walk.scopes = 1..Len(walk.scopes) /\ DOMAIN env[1] = {}
      /\ walk.asleep \in Nat /\ Len(walk.scopes) + walk.asleep = Depth /\ Len(walk.scopes) \in Nat
  BY FreshIs DEF ReachInv
<1>4. e \in Expressions
  BY <1>3, ReadableIs
<1>5. Stored(s) \in Values /\ Depth \in Nat \ {0} /\ DOMAIN env = 1..Depth
  BY <1>1, <1>3, <1>4, StoredTyped, DepthIs
<1>6. o \in 1..Depth /\ Owns(env, o, n) /\ Holds(n) = env[o][n]
  BY <1>3, OwnerIs
<1>7. o \in 2..Depth /\ Depth > 1 /\ n \in DOMAIN env[o]
  BY <1>3, <1>5, <1>6 DEF Owns
<1>8. env' = Put(o, n, Stored(s))
  BY <1>1, <1>3, Excuses DEF After
<1> HIDE DEF o
<1>9. Gets(o, n, Stored(s))
  BY <1>3, <1>5, <1>6, <1>8, PutIs
<1>10. WriteStep(s, o)
  <2>1. \A d \in 1..Depth : n \in DOMAIN env'[d] => n \in DOMAIN env[d]
    BY <1>7, <1>9 DEF Gets
  <2>2. Owns(env', o, n)
    BY <1>5, <1>6, <1>9, <2>1 DEF Gets, Owns
  <2> QED BY <1>1, <1>4, <1>5, <1>7, <1>9, <2>2 DEF WriteStep
<1>11. WriteVisits(s, o) /\ walk'.scopes = walk.scopes /\ Lineal(walk', walk)
  BY <1>1, <1>3, <1>7, Unseen
<1>12. ASSUME "miss" \notin excused', Caught(walk, env), Stored(s) = "data" PROVE n \in walk'.scopes[o]
  <2>1. walk.asleep = 0
    BY <1>1, <1>3, <1>12, AsleepVisit
  <2>2. env[o][n] = "data"
    BY <1>1, <1>3, <1>6, <1>12, Excuses, ShortcutsMiss
  <2> QED BY <1>3, <1>6, <1>7, <1>11, <1>12, <2>1, <2>2 DEF Caught
<1>13. ASSUME "cry" \notin excused', Founded(walk, env), NEW d \in DOMAIN walk.scopes, n \in walk'.scopes[d]
       PROVE  Stored(s) = "data" /\ o <= d
  <2>1. PICK i \in 1..d : Has(env, i, n, "data")
    BY <1>11, <1>13 DEF Founded
  <2>2. i = o
    BY <1>3, <2>1, OwnedOnce DEF Has, o
  <2> QED BY <1>2, <1>3, <1>6, <2>1, <2>2 DEF Has
<1>14. ASSUME "tier" \notin excused', rule = "ssrf", Hosted(walk, env) PROVE n \in walk'.safeHosts <=> Stored(s) = "operator"
  <2>1. Holds(n) # "operator" /\ Stored(s) # "operator"
    BY <1>1, <1>3, <1>14, Excuses, ShortcutsTier
  <2>2. n \notin walk.safeHosts
    <3>1. Depth = Len(env)
      BY DEF Depth
    <3> QED BY <1>3, <1>5, <1>7, <1>14, <2>1, <3>1, HoldsIs DEF Hosted
  <2> QED BY <1>11, <2>1, <2>2 DEF Lineal
<1>15. WriteCatches(s, o)
  BY <1>1, <1>12, <1>13, <1>14 DEF WriteCatches
<1> QED BY <1>7, <1>10, <1>11, <1>15, WriteKeeps

-----------------------------------------------------------------------------
(***************************************************************************)
(* Statements that only look, and branches.                                *)
(***************************************************************************)
\* A walk that only reports keeps everything.
LEMMA PassKeeps ==
  ASSUME ReachInv, Depth > 1, NEW s, Walk(s), s.kind \in {"sink", "call", "loop", "try", "jump"}, s.kind = "sink" => s.expr \in Expressions
  PROVE  ReachInv'
<1>1. /\ TypeInv /\ Fresh \in Visitor /\ Fresh.scopes = walk.scopes /\ Fresh.asleep = walk.asleep /\ Lineal(Fresh, walk)
      /\ rule \in RuleNames /\ RunType /\ LoopType /\ WalkType /\ walk.asleep \in Nat
  BY FreshIs DEF ReachInv, TypeInv
<1>2. /\ excused' \subseteq {"miss", "cry", "tier", "relinked"}
      /\ excused \subseteq excused'
      /\ env' = env /\ links' = links /\ UNCHANGED loop /\ rule' = rule /\ R' = R
  <2>1. After(s) = env /\ LinksAfter(s) = links
    BY DEF After, LinksAfter
  <2> QED BY <1>1, <2>1, Excuses
<1>3. walk' \in Visitor /\ walk'.scopes = walk.scopes /\ walk'.asleep = walk.asleep /\ Lineal(walk', walk)
  <2>1. CASE walk.asleep > 0
    BY <1>1, <2>1, AsleepVisit
  <2>2. CASE walk.asleep = 0 /\ s.kind = "sink"
    <3>1. walk' = CheckSink(R, Fresh, TRUE, s.at, s.expr)
      BY <1>1, <2>2, AwakeVisit
    <3>2. walk' = Fresh \/ Reported(walk', Fresh, {SinkSeverity(R, Fresh, s.expr)})
      BY <1>1, <2>2, <3>1, CheckSinkIs
    <3> QED BY <1>1, <3>2 DEF Reported, Lineal
  <2>3. CASE walk.asleep = 0 /\ s.kind = "call"
    <3>1. walk' = CheckCrossFileCall(R, Fresh, TRUE, index, s)
      BY <1>1, <2>3, AwakeVisit
    <3>2. Reported(walk', Fresh, CalleeSeverities(R, Fresh, TRUE, index, s))
      BY <1>1, <3>1, CheckCallIs
    <3> QED BY <1>1, <3>2 DEF Reported, Lineal
  <2>4. CASE walk.asleep = 0 /\ s.kind \in {"loop", "try", "jump"}
    <3>1. s.kind \in WalkedThrough
      BY <2>4 DEF WalkedThrough
    <3>2. walk' = Fresh
      BY <1>1, <2>4, <3>1, AwakeVisit
    <3> QED BY <1>1, <3>2
  <2> QED BY <1>1, <2>1, <2>2, <2>3, <2>4
<1>4. TypeInv'
  <2>1. LoopType'
    BY <1>1, <1>2, LoopKeeps
  <2>2. WalkType'
    BY <1>1, <1>2, <1>3 DEF WalkType
  <2>3. RunType'
    BY <1>1, <1>2 DEF RunType
  <2> QED BY <2>1, <2>2, <2>3 DEF TypeInv
<1>5. MissInv'
  BY <1>2, <1>3 DEF ReachInv, MissInv, Caught, Linked, Lineal
<1>6. CryInv'
  <2>1. Founded(walk, env) => Founded(walk', env')
    BY <1>2, <1>3 DEF Founded
  <2>2. Noted(walk, env, links) => Noted(walk', env', links')
    BY <1>2, <1>3 DEF Noted, Lineal
  <2> QED BY <1>2, <2>1, <2>2 DEF ReachInv, CryInv
<1>7. TierInv'
  <2>1. Hosted(walk, env) => Hosted(walk', env')
    BY <1>2, <1>3 DEF Hosted, Lineal
  <2> QED BY <1>2, <2>1 DEF ReachInv, TierInv
<1> QED BY <1>4, <1>5, <1>6, <1>7 DEF ReachInv

\* In the branch of an if the names of the innermost function that its test is
\* about no longer hold the data, nor what was made of it.
Narrowed(s) == IF s.test = "accepting" \/ (s.test = "rejecting" /\ s.returns) THEN Tested(s) ELSE {}
LEMMA MarkedIs ==
  ASSUME RunType, NEW names, NEW value \in {"nothing", "lost"}
  PROVE  LET m == Marked(names, value)
         IN  /\ m \in Seq(Frames) /\ Len(m) = Depth /\ DOMAIN m = 1..Depth
             /\ \A d \in 1..Depth : DOMAIN m[d] = DOMAIN env[d]
             /\ \A d \in 1..Depth : \A x \in DOMAIN env[d] :
                  m[d][x] = IF d = Depth /\ x \in names /\ env[d][x] \in {"data", "lost"} THEN value ELSE env[d][x]
<1>1. Depth \in Nat \ {0} /\ DOMAIN env = 1..Depth /\ Len(env) = Depth /\ env \in Seq(Frames) /\ env[Depth] \in Frames
  BY DepthIs DEF RunType
<1> DEFINE m == Marked(names, value)
<1> DEFINE old == env[Depth]
<1> DEFINE f == [x \in DOMAIN old |-> IF x \in names /\ old[x] \in {"data", "lost"} THEN value ELSE old[x]]
<1>2. m = [env EXCEPT ![Depth] = f]
  BY DEF Marked
<1>3. DOMAIN old \subseteq Names /\ \A x \in DOMAIN old : old[x] \in Values
  BY <1>1, DepthIs
<1>4. f \in [DOMAIN old -> Values] /\ DOMAIN f = DOMAIN old
  BY <1>3 DEF Values
<1>5. f \in Frames
  BY <1>3, <1>4 DEF Frames
<1>6. \A x \in DOMAIN old : f[x] = IF x \in names /\ old[x] \in {"data", "lost"} THEN value ELSE old[x]
  OBVIOUS
<1> HIDE DEF f, m
<1>7. m \in Seq(Frames) /\ Len(m) = Depth /\ DOMAIN m = 1..Depth
  BY <1>1, <1>2, <1>5
<1>8. m[Depth] = f /\ \A d \in 1..Depth : d # Depth => m[d] = env[d]
  BY <1>1, <1>2
<1>9. /\ \A d \in 1..Depth : DOMAIN m[d] = DOMAIN env[d]
      /\ \A d \in 1..Depth : \A x \in DOMAIN env[d] :
           m[d][x] = IF d = Depth /\ x \in names /\ env[d][x] \in {"data", "lost"} THEN value ELSE env[d][x]
  BY <1>4, <1>6, <1>8
<1> QED BY <1>7, <1>9 DEF m

LEMMA NarrowedIs ==
  ASSUME RunType, NEW s, s.kind = "if", env' = After(s)
  PROVE  /\ env' \in Seq(Frames) /\ Len(env') = Depth /\ DOMAIN env' = 1..Depth
         /\ \A d \in 1..Depth : DOMAIN env'[d] = DOMAIN env[d]
         /\ \A d \in 1..Depth : \A x \in DOMAIN env[d] :
              IF d = Depth /\ x \in Narrowed(s) /\ env[d][x] \in {"data", "lost"}
                THEN env'[d][x] \in {"nothing", "lost"} ELSE env'[d][x] = env[d][x]
<1>1. Depth \in Nat \ {0} /\ DOMAIN env = 1..Depth /\ Len(env) = Depth /\ env \in Seq(Frames)
  BY DepthIs DEF RunType
<1>2. env' = Consequent(s)
  BY DEF After
<1>3. CASE s.test = "accepting"
  <2>1. env' = Marked(Narrowed(s), "nothing")
    BY <1>2, <1>3 DEF Consequent, Narrowed
  <2> QED BY <2>1, MarkedIs
<1>4. CASE s.test = "rejecting" /\ s.returns
  <2>1. env' = Marked(Narrowed(s), "lost")
    BY <1>2, <1>4 DEF Consequent, Narrowed
  <2> QED BY <2>1, MarkedIs
<1>5. CASE s.test # "accepting" /\ ~(s.test = "rejecting" /\ s.returns)
  BY <1>1, <1>2, <1>5 DEF Consequent, Narrowed
<1> QED BY <1>3, <1>4, <1>5

LEMMA IfKeeps ==
  ASSUME ReachInv, NEW s, Walk(s), s.kind = "if", s.on \in Names, Bound(s.on)
  PROVE  ReachInv' /\ Depth > 1
<1>1. /\ TypeInv /\ Fresh \in Visitor /\ Fresh.scopes = walk.scopes /\ Fresh.asleep = walk.asleep /\ Lineal(Fresh, walk)
      /\ rule \in RuleNames /\ RunType /\ LoopType /\ WalkType /\ walk.asleep \in Nat
      /\ Len(walk.scopes) \in Nat \ {0} /\ Len(walk.scopes) + walk.asleep = Depth
      /\ DOMAIN walk.scopes = 1..Len(walk.scopes) /\ walk.scopes[1] = {} /\ DOMAIN env[1] = {}
      /\ walk \in Visitor
  BY FreshIs DEF ReachInv, TypeInv
<1>2. Depth \in Nat \ {0} /\ DOMAIN env = 1..Depth /\ Depth > 1 /\ Len(env) = Depth
  <2>1. Depth \in Nat \ {0} /\ DOMAIN env = 1..Depth /\ Len(env) = Depth
    BY <1>1, DepthIs
  <2>2. PICK d \in 1..Depth : s.on \in DOMAIN env[d]
    BY <2>1 DEF Bound
  <2> QED BY <1>1, <2>1, <2>2
<1>3. /\ excused' \subseteq {"miss", "cry", "tier", "relinked"}
      /\ excused \subseteq excused'
      /\ env' = After(s) /\ links' = links /\ UNCHANGED loop /\ rule' = rule /\ R' = R
  <2>1. LinksAfter(s) = links
    BY DEF LinksAfter
  <2> QED BY <1>1, <1>2, <2>1, Excuses
<1>4. /\ env' \in Seq(Frames) /\ Len(env') = Depth /\ DOMAIN env' = 1..Depth
      /\ \A d \in 1..Depth : DOMAIN env'[d] = DOMAIN env[d]
      /\ \A d \in 1..Depth : \A x \in DOMAIN env[d] :
           IF d = Depth /\ x \in Narrowed(s) /\ env[d][x] \in {"data", "lost"}
             THEN env'[d][x] \in {"nothing", "lost"} ELSE env'[d][x] = env[d][x]
  BY <1>1, <1>3, NarrowedIs
<1>5. \A i, x : Owns(env', i, x) <=> Owns(env, i, x)
  BY <1>2, <1>4 DEF Owns
<1> DEFINE cleared == walk.asleep = 0 /\ Clears(Fresh, s)
<1> DEFINE of == walk.urlInits[s.on]
<1>6. /\ walk' \in Visitor /\ walk'.asleep = walk.asleep /\ Lineal(walk', walk)
      /\ Len(walk'.scopes) = Len(walk.scopes) /\ DOMAIN walk'.scopes = DOMAIN walk.scopes
      /\ ~cleared => walk'.scopes = walk.scopes
      /\ \A d \in DOMAIN walk.scopes : walk'.scopes[d] \subseteq walk.scopes[d] /\ walk.scopes[d] \ {s.on, of} \subseteq walk'.scopes[d]
      /\ cleared /\ Len(walk.scopes) = 2 => s.on \notin walk'.scopes[2] /\ of \notin walk'.scopes[2]
  <2>1. CASE walk.asleep > 0
    <3>1. walk' \in Visitor /\ walk'.scopes = walk.scopes /\ Lineal(walk', walk) /\ walk'.asleep = walk.asleep
      BY <1>1, <2>1, AsleepVisit
    <3> QED BY <2>1, <3>1
  <2>2. CASE walk.asleep = 0
    <3> DEFINE v == Narrow(R, Fresh, s)
    <3>1. walk' = v
      BY <1>1, <2>2, AwakeVisit
    <3>2. /\ ~Clears(Fresh, s) => v = Fresh
          /\ Clears(Fresh, s) =>
               /\ Shrunk(v, Fresh, {s.on, Fresh.urlInits[s.on]})
               /\ Len(Fresh.scopes) = 2 /\ Fresh.scopes[1] = {} => s.on \notin v.scopes[2] /\ Fresh.urlInits[s.on] \notin v.scopes[2]
      BY <1>1, NarrowIs
    <3> HIDE DEF v
    <3>3. v \in Visitor /\ v.asleep = Fresh.asleep /\ Lineal(v, Fresh)
      BY <1>1, <3>2 DEF Shrunk, Rest, Lineal
    <3>4. Fresh.urlInits[s.on] = of
      BY <1>1 DEF Lineal
    <3> HIDE DEF of
    <3>5. CASE Clears(Fresh, s)
      BY <1>1, <2>2, <3>1, <3>2, <3>3, <3>4, <3>5 DEF Shrunk, Lineal
    <3>6. CASE ~Clears(Fresh, s)
      BY <1>1, <2>2, <3>1, <3>2, <3>3, <3>4, <3>6 DEF Lineal
    <3> QED BY <3>5, <3>6
  <2> QED BY <1>1, <2>1, <2>2
<1>7. cleared <=> walk.asleep = 0 /\ rule \in {"redirect", "ssrf"} /\ s.test = "rejecting" /\ s.returns /\ s.on \in DOMAIN walk.urlInits
  BY <1>1 DEF Clears, Lineal
<1> HIDE DEF cleared
<1>8. walk'.scopes[1] = {}
  BY <1>1, <1>6
<1>9. TypeInv'
  <2>1. LoopType'
    BY <1>1, <1>3, LoopKeeps
  <2>2. walk'.scopes # <<>>
    <3>1. Len(walk'.scopes) # 0
      BY <1>1, <1>6
    <3> QED BY <3>1
  <2>3. WalkType'
    BY <1>1, <1>2, <1>3, <1>4, <1>6, <1>8, <2>2 DEF WalkType
  <2>4. env' # <<>> /\ DOMAIN env'[1] = {}
    BY <1>1, <1>2, <1>4
  <2>5. RunType'
    BY <1>1, <1>2, <1>3, <1>4, <2>4 DEF RunType
  <2> QED BY <2>1, <2>3, <2>5 DEF TypeInv
<1>10. MissInv'
  <2> SUFFICES ASSUME excused' \cap {"miss", "relinked"} = {} PROVE Caught(walk', env') /\ Linked(walk', env', links')
    BY DEF MissInv
  <2>1. Caught(walk, env) /\ Linked(walk, env, links)
    BY <1>3 DEF ReachInv, MissInv
  <2>2. ASSUME cleared PROVE Depth = 2 /\ Narrowed(s) = {s.on, of}
    <3>1. Len(env) = 2 /\ s.on \in DOMAIN links /\ links[s.on] = [of |-> of, depth |-> 2] /\ of \in DOMAIN env[2]
      BY <1>2, <1>7, <2>1, <2>2 DEF Linked
    <3> QED BY <1>2, <1>7, <2>2, <3>1 DEF Narrowed, Tested, Here
  <2>3. ASSUME NEW d \in DOMAIN walk.scopes, NEW x \in DOMAIN env'[d], env'[d][x] = "data" PROVE x \in walk'.scopes[d]
    <3>1. d \in 1..Depth /\ x \in DOMAIN env[d] /\ env[d][x] = "data"
      BY <1>1, <1>2, <1>4, <2>3
    <3>2. x \in walk.scopes[d]
      BY <2>1, <2>3, <3>1 DEF Caught
    <3>3. CASE cleared
      <4>1. d = 2
        BY <1>1, <1>2, <2>2, <3>1, <3>3
      <4>2. x \notin {s.on, of}
        BY <1>4, <2>2, <2>3, <3>1, <3>3, <4>1
      <4> QED BY <1>6, <3>2, <4>2
    <3> QED BY <1>6, <3>2, <3>3
  <2>4. Caught(walk', env')
    BY <1>6, <2>3 DEF Caught
  <2>5. ASSUME NEW u \in DOMAIN walk.urlInits
        PROVE  Len(env') = 2 /\ u \in DOMAIN links /\ links[u] = [of |-> walk.urlInits[u], depth |-> 2] /\ walk.urlInits[u] \in DOMAIN env'[2]
    <3>1. Len(env) = 2 /\ u \in DOMAIN links /\ links[u] = [of |-> walk.urlInits[u], depth |-> 2] /\ walk.urlInits[u] \in DOMAIN env[2]
      BY <1>2, <2>1 DEF Linked
    <3>2. 2 \in 1..Depth
      BY <1>2
    <3> QED BY <1>2, <1>4, <3>1, <3>2
  <2>6. Linked(walk', env', links')
    BY <1>3, <1>6, <2>5 DEF Linked, Lineal
  <2> QED BY <2>4, <2>6
<1>11. CryInv'
  <2> SUFFICES ASSUME "cry" \notin excused' PROVE Founded(walk', env') /\ (R'.guards => Noted(walk', env', links'))
    BY DEF CryInv
  <2>1. Founded(walk, env) /\ (R.guards => Noted(walk, env, links))
    BY <1>3 DEF ReachInv, CryInv
  <2>2. ASSUME s.test # "accepting", Narrowed(s) # {} PROVE cleared /\ Len(walk.scopes) = 2 /\ Narrowed(s) = {s.on, of}
    <3>1. /\ rule \in {"redirect", "ssrf"} /\ s.test = "rejecting" /\ s.returns
          /\ s.on \in DOMAIN links /\ Narrowed(s) = {s.on, links[s.on].of}
      BY <2>2 DEF Narrowed, Tested
    <3>2. R.guards
      BY <1>1, <3>1, RuleIs
    <3>3. Len(env) = 2 /\ s.on \in DOMAIN walk.urlInits /\ links[s.on].of = of
      BY <2>1, <3>1, <3>2 DEF Noted
    <3>4. walk.asleep = 0
      BY <1>1, <3>1 DEF WalkType
    <3> QED BY <1>1, <1>2, <1>7, <3>1, <3>3, <3>4
  <2>3. ASSUME NEW d \in DOMAIN walk.scopes, NEW x \in walk'.scopes[d] PROVE \E i \in 1..d : Has(env', i, x, "data")
    <3>1. PICK i \in 1..d : Has(env, i, x, "data")
      BY <1>6, <2>1, <2>3 DEF Founded
    <3>2. i \in 1..Depth /\ x \in DOMAIN env[i] /\ env[i][x] = "data" /\ Owns(env', i, x)
      BY <1>2, <1>5, <3>1 DEF Has, Owns
    <3>3. CASE s.test = "accepting"
      <4>1. Holding(env, "data") \subseteq Holding(env', "data")
        BY <1>1, <1>3, <3>3, Excuses, ShortcutsCry DEF TurnsAt
      <4>2. <<i, x>> \in Holding(env, "data")
        BY <1>1, <1>2, <3>2, DepthIs DEF Holding
      <4> QED BY <3>2, <4>1, <4>2 DEF Has, Holding
    <3>4. CASE s.test # "accepting"
      <4>1. x \notin Narrowed(s)
        <5>1. ASSUME x \in Narrowed(s) PROVE FALSE
          <6>1. cleared /\ Len(walk.scopes) = 2 /\ x \in {s.on, of}
            BY <2>2, <3>4, <5>1
          <6>2. d = 2
            BY <1>1, <1>8, <2>3, <6>1
          <6> QED BY <1>6, <2>3, <6>1, <6>2
        <5> QED BY <5>1
      <4>2. env'[i][x] = "data"
        BY <1>4, <3>2, <4>1
      <4> QED BY <3>2, <4>2 DEF Has
    <3> QED BY <3>3, <3>4
  <2>4. Founded(walk', env')
    BY <1>6, <2>3 DEF Founded
  <2>5. R.guards => Noted(walk', env', links')
    BY <1>2, <1>3, <1>4, <1>6, <2>1 DEF Noted, Lineal
  <2> QED BY <1>3, <2>4, <2>5
<1>12. TierInv'
  <2> SUFFICES ASSUME "tier" \notin excused', rule = "ssrf" PROVE Hosted(walk', env')
    BY <1>3 DEF TierInv
  <2>1. Hosted(walk, env)
    BY <1>3 DEF ReachInv, TierInv
  <2>2. \A d \in 1..Depth : \A x \in DOMAIN env[d] : env'[d][x] = "operator" <=> env[d][x] = "operator"
    BY <1>4
  <2>3. \A i, x : Has(env', i, x, "operator") <=> Has(env, i, x, "operator")
    BY <1>2, <1>5, <2>2 DEF Has, Owns
  <2> QED BY <1>2, <1>4, <1>6, <2>1, <2>2, <2>3 DEF Hosted, Lineal
<1> QED BY <1>2, <1>9, <1>10, <1>11, <1>12 DEF ReachInv

\* Where ways meet no variable is new, and no link.
LEMMA MetIs ==
  ASSUME RunType, NEW ways, NEW b
  PROVE  LET m == Met(ways, b)
         IN  /\ m \in Seq(Frames) /\ Len(m) = Depth /\ DOMAIN m = 1..Depth
             /\ \A d \in 1..Depth : DOMAIN m[d] = DOMAIN env[d] \cap DOMAIN b.env[d]
<1>1. Depth \in Nat \ {0} /\ DOMAIN env = 1..Depth /\ \A d \in 1..Depth : DOMAIN env[d] \subseteq Names
  BY DepthIs
<1> DEFINE F(d) == [n \in DOMAIN env[d] \cap DOMAIN b.env[d] |-> Worst({e[d][n] : e \in ways})]
<1>2. \A values : Worst(values) \in Values
  BY DEF Worst, Values
<1>3. ASSUME NEW d \in 1..Depth PROVE F(d) \in Frames /\ DOMAIN F(d) = DOMAIN env[d] \cap DOMAIN b.env[d]
  <2> DEFINE D == DOMAIN env[d] \cap DOMAIN b.env[d]
  <2>1. F(d) \in [D -> Values] /\ D \subseteq Names
    BY <1>1, <1>2
  <2> QED BY <2>1 DEF Frames
<1>4. Met(ways, b) = [d \in 1..Depth |-> F(d)]
  BY <1>1 DEF Met
<1> HIDE DEF F
<1> DEFINE m == Met(ways, b)
<1>5. m \in [1..Depth -> Frames] /\ \A d \in 1..Depth : m[d] = F(d)
  BY <1>3, <1>4
<1> HIDE DEF m
<1>6. m \in Seq(Frames) /\ Len(m) = Depth /\ DOMAIN m = 1..Depth
  BY <1>1, <1>5
<1>7. \A d \in 1..Depth : DOMAIN m[d] = DOMAIN env[d] \cap DOMAIN b.env[d]
  BY <1>3, <1>5
<1> QED BY <1>6, <1>7 DEF m

LEMMA AgreedIs ==
  ASSUME RunType, NEW b
  PROVE  /\ Agreed(b) \in Lineage
         /\ \A u \in DOMAIN Agreed(b) :
              u \in DOMAIN links /\ Agreed(b)[u] = links[u] /\ links[u].of \in DOMAIN b.env[links[u].depth]
<1> DEFINE D == {v \in DOMAIN links :
                   /\ {v, links[v].of} \subseteq DOMAIN b.env[links[v].depth]
                   /\ b.open => v \in DOMAIN b.links /\ b.links[v] = links[v]}
<1>1. Agreed(b) = [u \in D |-> links[u]]
  BY DEF Agreed
<1>2. DOMAIN links \subseteq Names /\ \A u \in DOMAIN links : links[u] \in [of : Names, depth : Nat]
  BY MapsAre DEF RunType, Lineage
<1>3. D \subseteq DOMAIN links /\ \A u \in D : links[u].of \in DOMAIN b.env[links[u].depth]
  OBVIOUS
<1> HIDE DEF D
<1>4. Agreed(b) \in [D -> [of : Names, depth : Nat]] /\ D \subseteq Names
  BY <1>1, <1>2, <1>3
<1> QED BY <1>1, <1>3, <1>4 DEF Lineage

LEMMA MergedIs ==
  ASSUME RunType, NEW s, s.kind \in {"else", "close"}, env' = After(s), links' = LinksAfter(s)
  PROVE  /\ env' \in Seq(Frames) /\ Len(env') = Depth /\ DOMAIN env' = 1..Depth
         /\ \A d \in 1..Depth : DOMAIN env'[d] \subseteq DOMAIN env[d]
         /\ links' \in Lineage
         /\ \A u \in DOMAIN links' :
              /\ u \in DOMAIN links /\ links'[u] = links[u]
              /\ links[u].depth \in 1..Depth /\ links[u].of \in DOMAIN env[links[u].depth] =>
                   links[u].of \in DOMAIN env'[links[u].depth]
<1>1. Depth \in Nat \ {0} /\ DOMAIN env = 1..Depth /\ Len(env) = Depth /\ env \in Seq(Frames)
  BY DepthIs DEF RunType
<1>2. links' = Agreed(Inner)
  BY DEF LinksAfter
<1>3. /\ links' \in Lineage
      /\ \A u \in DOMAIN links' : u \in DOMAIN links /\ links'[u] = links[u] /\ links[u].of \in DOMAIN Inner.env[links[u].depth]
  BY <1>2, AgreedIs
<1>4. env' = env \/ \E ways : env' = Met(ways, Inner)
  BY DEF After
<1>5. CASE env' = env
  BY <1>1, <1>3, <1>5
<1>6. ASSUME NEW ways, env' = Met(ways, Inner)
      PROVE  /\ env' \in Seq(Frames) /\ Len(env') = Depth /\ DOMAIN env' = 1..Depth
             /\ \A d \in 1..Depth : DOMAIN env'[d] = DOMAIN env[d] \cap DOMAIN Inner.env[d]
  BY <1>6, MetIs
<1>7. CASE \E ways : env' = Met(ways, Inner)
  BY <1>3, <1>6, <1>7
<1> QED BY <1>4, <1>5, <1>7

LEMMA MergeKeeps ==
  ASSUME ReachInv, Depth > 1, NEW s, Walk(s), s.kind \in {"else", "close"}
  PROVE  ReachInv'
<1>1. /\ TypeInv /\ Fresh \in Visitor /\ Fresh.scopes = walk.scopes /\ Fresh.asleep = walk.asleep /\ Lineal(Fresh, walk)
      /\ rule \in RuleNames /\ RunType /\ LoopType /\ WalkType /\ walk.asleep \in Nat
      /\ Len(walk.scopes) + walk.asleep = Depth /\ Len(walk.scopes) \in Nat /\ DOMAIN walk.scopes = 1..Len(walk.scopes)
      /\ DOMAIN env[1] = {}
  BY FreshIs DEF ReachInv, TypeInv
<1>2. Depth \in Nat \ {0} /\ DOMAIN env = 1..Depth /\ Len(env) = Depth /\ \A d \in 1..Depth : DOMAIN env[d] \subseteq Names
  BY <1>1, DepthIs
<1>3. /\ excused' \subseteq {"miss", "cry", "tier", "relinked"}
      /\ excused \subseteq excused' /\ \A c : c \notin excused' => c \notin Shortcuts(s)
      /\ env' = After(s) /\ links' = LinksAfter(s) /\ UNCHANGED loop /\ rule' = rule /\ R' = R
  BY <1>1, Excuses
<1>4. walk' \in Visitor /\ walk'.scopes = walk.scopes /\ walk'.asleep = walk.asleep /\ Lineal(walk', walk)
  <2>1. s.kind \in WalkedThrough /\ s.kind \notin {"arrow", "exit"}
    BY DEF WalkedThrough
  <2>2. CASE walk.asleep > 0
    BY <1>1, <2>1, <2>2, AsleepVisit
  <2>3. CASE walk.asleep = 0
    <3>1. walk' = Fresh
      BY <1>1, <2>1, <2>3, AwakeVisit
    <3> QED BY <1>1, <3>1
  <2> QED BY <1>1, <2>2, <2>3
<1>5. /\ env' \in Seq(Frames) /\ Len(env') = Depth /\ DOMAIN env' = 1..Depth
      /\ \A d \in 1..Depth : DOMAIN env'[d] \subseteq DOMAIN env[d]
      /\ links' \in Lineage
      /\ \A u \in DOMAIN links' :
           /\ u \in DOMAIN links /\ links'[u] = links[u]
           /\ links[u].depth \in 1..Depth /\ links[u].of \in DOMAIN env[links[u].depth] =>
                links[u].of \in DOMAIN env'[links[u].depth]
  BY <1>1, <1>3, MergedIs
<1>6. /\ "miss" \notin excused' => Holding(env', "data") \subseteq Holding(env, "data")
      /\ "cry" \notin excused' => Holding(env, "data") \subseteq Holding(env', "data")
      /\ "tier" \notin excused' => Holding(env, "operator") = Holding(env', "operator")
      /\ "relinked" \notin excused' => links' = links
  BY <1>3, ShortcutsMiss, ShortcutsCry, ShortcutsTier, ShortcutsRelinked DEF TurnsAt
<1>7. \A d \in 1..Depth : \A n, v : n \in DOMAIN env[d] /\ env[d][n] = v <=> <<d, n>> \in Holding(env, v)
  BY <1>2 DEF Holding
<1>8. \A d \in 1..Depth : \A n, v : n \in DOMAIN env'[d] /\ env'[d][n] = v <=> <<d, n>> \in Holding(env', v)
  BY <1>2, <1>5 DEF Holding
<1>9. TypeInv'
  <2>1. LoopType'
    BY <1>1, <1>3, LoopKeeps
  <2>2. WalkType'
    BY <1>1, <1>2, <1>3, <1>4, <1>5 DEF WalkType
  <2>3. env' # <<>> /\ DOMAIN env'[1] = {}
    BY <1>1, <1>2, <1>5
  <2>4. RunType'
    BY <1>1, <1>2, <1>3, <1>5, <2>3 DEF RunType
  <2> QED BY <2>1, <2>2, <2>4 DEF TypeInv
<1>10. MissInv'
  <2> SUFFICES ASSUME excused' \cap {"miss", "relinked"} = {} PROVE Caught(walk', env') /\ Linked(walk', env', links')
    BY DEF MissInv
  <2>1. Caught(walk, env) /\ Linked(walk, env, links)
    BY <1>3 DEF ReachInv, MissInv
  <2>2. ASSUME NEW d \in DOMAIN walk.scopes, NEW n \in DOMAIN env'[d], env'[d][n] = "data" PROVE n \in walk'.scopes[d]
    <3>1. d \in 1..Depth
      BY <1>1, <1>2
    <3>2. n \in DOMAIN env[d] /\ env[d][n] = "data"
      BY <1>6, <1>7, <1>8, <2>2, <3>1
    <3> QED BY <1>4, <2>1, <3>2 DEF Caught
  <2>3. Caught(walk', env')
    BY <1>4, <2>2 DEF Caught
  <2>4. ASSUME NEW u \in DOMAIN walk.urlInits
        PROVE  Len(env') = 2 /\ u \in DOMAIN links' /\ links'[u] = [of |-> walk.urlInits[u], depth |-> 2] /\ walk.urlInits[u] \in DOMAIN env'[2]
    <3>1. Depth = 2 /\ u \in DOMAIN links /\ links[u] = [of |-> walk.urlInits[u], depth |-> 2] /\ walk.urlInits[u] \in DOMAIN env[2]
      BY <1>2, <2>1 DEF Linked
    <3>2. u \in DOMAIN links' /\ links'[u] = links[u]
      BY <1>6, <3>1
    <3> QED BY <1>5, <3>1, <3>2
  <2>5. Linked(walk', env', links')
    BY <1>4, <2>4 DEF Linked, Lineal
  <2> QED BY <2>3, <2>5
<1>11. ASSUME NEW i, NEW n, NEW v, Has(env, i, n, v), Holding(env, v) \subseteq Holding(env', v) PROVE Has(env', i, n, v)
  <2>1. i \in 1..Depth /\ n \in DOMAIN env[i] /\ env[i][n] = v /\ \A d \in 1..Depth : n \in DOMAIN env[d] => d <= i
    BY <1>2, <1>11 DEF Has, Owns
  <2>2. <<i, n>> \in Holding(env', v)
    BY <1>7, <1>11, <2>1
  <2>3. n \in DOMAIN env'[i] /\ env'[i][n] = v
    BY <1>8, <2>1, <2>2
  <2> QED BY <1>5, <2>1, <2>3 DEF Has, Owns
<1>12. CryInv'
  <2> SUFFICES ASSUME "cry" \notin excused' PROVE Founded(walk', env') /\ (R'.guards => Noted(walk', env', links'))
    BY DEF CryInv
  <2>1. Founded(walk, env) /\ (R.guards => Noted(walk, env, links)) /\ Holding(env, "data") \subseteq Holding(env', "data")
    BY <1>3, <1>6 DEF ReachInv, CryInv
  <2>2. Founded(walk', env')
    BY <1>4, <1>11, <2>1 DEF Founded
  <2>3. R.guards => Noted(walk', env', links')
    BY <1>2, <1>4, <1>5, <2>1 DEF Noted, Lineal
  <2> QED BY <1>3, <2>2, <2>3
<1>13. TierInv'
  <2> SUFFICES ASSUME "tier" \notin excused', rule = "ssrf" PROVE Hosted(walk', env')
    BY <1>3 DEF TierInv
  <2>1. Hosted(walk, env) /\ Holding(env, "operator") = Holding(env', "operator")
    BY <1>3, <1>6 DEF ReachInv, TierInv
  <2>2. ASSUME Depth > 2, NEW d \in 1..Depth, NEW n \in DOMAIN env'[d] PROVE env'[d][n] # "operator"
    <3>1. n \in DOMAIN env[d]
      BY <1>5
    <3>2. env[d][n] # "operator"
      BY <1>2, <2>1, <2>2, <3>1 DEF Hosted
    <3> QED BY <1>7, <1>8, <2>1, <3>1, <3>2
  <2>3. ASSUME NEW i, NEW n, Has(env', i, n, "operator") PROVE Has(env, i, n, "operator")
    <3>1. i \in 1..Depth /\ n \in DOMAIN env'[i] /\ env'[i][n] = "operator"
      BY <1>5, <2>3 DEF Has, Owns
    <3>2. Depth = 2
      BY <1>2, <2>2, <3>1
    <3>3. n \in DOMAIN env[i] /\ env[i][n] = "operator"
      BY <1>7, <1>8, <2>1, <3>1
    <3>4. i = 2
      BY <1>1, <3>1, <3>2, <3>3
    <3> QED BY <1>2, <3>2, <3>3, <3>4 DEF Has, Owns
  <2>4. \A n \in Names : n \in walk'.safeHosts <=> \E o \in DOMAIN env' : Has(env', o, n, "operator")
    BY <1>2, <1>4, <1>5, <1>11, <2>1, <2>3 DEF Hosted, Lineal
  <2> QED BY <1>5, <2>2, <2>4 DEF Hosted
<1> QED BY <1>9, <1>10, <1>12, <1>13 DEF ReachInv

-----------------------------------------------------------------------------
(***************************************************************************)
(* Functions entered and left.                                             *)
(***************************************************************************)
\* At the level of the file there is nothing yet.
LEMMA AtTheTop ==
  ASSUME TypeInv, Depth = 1
  PROVE  walk.asleep = 0 /\ Len(walk.scopes) = 1 /\ DOMAIN links = {}
<1>1. walk.asleep \in Nat /\ Len(walk.scopes) \in Nat \ {0} /\ Len(walk.scopes) + walk.asleep = 1
  BY FreshIs
<1>2. \A u \in DOMAIN links : links[u].depth \in 2..1
  BY DEF TypeInv, RunType, Depth
<1>3. \A a \in Nat : \A b \in Nat \ {0} : b + a = 1 => a = 0 /\ b = 1
  OBVIOUS
<1>4. walk.asleep = 0 /\ Len(walk.scopes) = 1
  <2> DEFINE a == walk.asleep
  <2> DEFINE b == Len(walk.scopes)
  <2>1. a \in Nat /\ b \in Nat \ {0} /\ b + a = 1
    BY <1>1
  <2> HIDE DEF a, b
  <2>2. a = 0 /\ b = 1
    BY <1>3, <2>1
  <2> QED BY <2>2 DEF a, b
<1>5. \A k \in 2..1 : FALSE
  OBVIOUS
<1>6. DOMAIN links = {}
  BY <1>2, <1>5
<1> QED BY <1>4, <1>6

LEMMA AppendedIs ==
  ASSUME NEW S, NEW s \in Seq(S), NEW x \in S
  PROVE  /\ Append(s, x) \in Seq(S) /\ Len(Append(s, x)) = Len(s) + 1 /\ DOMAIN Append(s, x) = 1..Len(s) + 1
         /\ Append(s, x)[Len(s) + 1] = x /\ \A d \in 1..Len(s) : Append(s, x)[d] = s[d]
OBVIOUS

LEMMA FunctionKeeps ==
  ASSUME ReachInv, Depth = 1, NEW params \in SUBSET Names, Walk([kind |-> "function", decorated |-> params])
  PROVE  ReachInv'
<1> DEFINE s == [kind |-> "function", decorated |-> params]
<1>1. s.kind = "function" /\ s.decorated = params /\ Walk(s)
  OBVIOUS
<1> HIDE DEF s
<1>2. /\ TypeInv /\ Fresh \in Visitor /\ Fresh.scopes = walk.scopes /\ Fresh.asleep = walk.asleep
      /\ rule \in RuleNames /\ RunType /\ LoopType /\ WalkType
      /\ walk.scopes[1] = {} /\ DOMAIN env[1] = {}
      /\ walk.asleep = 0 /\ Len(walk.scopes) = 1 /\ DOMAIN links = {}
  BY FreshIs, AtTheTop DEF ReachInv, TypeInv
<1> DEFINE frame == [n \in params |-> IF rule = "secret" THEN "nothing" ELSE "data"]
<1>3. /\ excused' \subseteq {"miss", "cry", "tier", "relinked"}
      /\ env' = Append(env, frame) /\ links' = links /\ UNCHANGED loop /\ rule' = rule /\ R' = R
      /\ walk' = EnterFunction(R, Fresh, TRUE, s)
  <2>1. LinksAfter(s) = links /\ After(s) = Append(env, frame)
    BY <1>1 DEF LinksAfter, After
  <2>2. walk' = EnterFunction(R, Fresh, TRUE, s)
    BY <1>1, <1>2, AwakeVisit
  <2> HIDE DEF frame
  <2> QED BY <1>1, <1>2, <2>1, <2>2, Excuses
<1>4. /\ frame \in Frames /\ DOMAIN frame = params
      /\ \A n \in params : frame[n] = IF rule = "secret" THEN "nothing" ELSE "data"
  <2>1. frame \in [params -> Values]
    BY DEF Values
  <2> QED BY <2>1 DEF Frames
<1> HIDE DEF frame
<1>5. env \in Seq(Frames) /\ Len(env) = 1
  BY <1>2 DEF RunType, Depth
<1>6. env' \in Seq(Frames) /\ Len(env') = 2 /\ DOMAIN env' = 1..2 /\ DOMAIN env'[1] = {} /\ env'[2] = frame /\ env' # <<>>
  <2> DEFINE e == Append(env, frame)
  <2>1. /\ e \in Seq(Frames) /\ Len(e) = Len(env) + 1 /\ DOMAIN e = 1..Len(env) + 1
        /\ e[Len(env) + 1] = frame /\ \A d \in 1..Len(env) : e[d] = env[d]
    <3>1. frame \in Frames /\ env \in Seq(Frames)
      BY <1>4, <1>5
    <3> HIDE DEF e
    <3> QED BY <3>1, AppendedIs DEF e
  <2>2. env' = e
    BY <1>3
  <2> HIDE DEF e
  <2>3. 1 + 1 = 2 /\ 1 \in 1..1
    OBVIOUS
  <2>4. e # <<>>
    BY <1>5, <2>1
  <2> QED BY <1>2, <1>5, <2>1, <2>2, <2>3, <2>4
<1> DEFINE top == IF rule = "secret" THEN {} ELSE params
<1>7. /\ walk' \in Visitor /\ walk'.asleep = 0 /\ DOMAIN walk'.urlInits = {} /\ walk'.safeHosts = {}
      /\ Len(walk'.scopes) = 2 /\ DOMAIN walk'.scopes = 1..2 /\ walk'.scopes[1] = {} /\ walk'.scopes[2] = top
  <2> DEFINE v == EnterFunction(R, Fresh, TRUE, s)
  <2>1. /\ v \in Visitor /\ Rest(v, Fresh) /\ DOMAIN v.urlInits = {} /\ v.safeHosts = {}
        /\ Len(v.scopes) = Len(Fresh.scopes) + 1 /\ DOMAIN v.scopes = 1..Len(Fresh.scopes) + 1
        /\ \A d \in 1..Len(Fresh.scopes) : v.scopes[d] = Fresh.scopes[d]
        /\ v.scopes[Len(Fresh.scopes) + 1] = IF rule = "secret" THEN {} ELSE s.decorated
    BY <1>1, <1>2, EnterFunctionIs
  <2> HIDE DEF v
  <2>2. walk' = v /\ 1 + 1 = 2 /\ 1 \in 1..1
    BY <1>3 DEF v
  <2> QED BY <1>1, <1>2, <2>1, <2>2 DEF Rest
<1> HIDE DEF top
<1>8. TypeInv'
  <2>1. LoopType'
    BY <1>2, <1>3, LoopKeeps
  <2>2. walk'.scopes # <<>>
    BY <1>7
  <2>3. WalkType'
    BY <1>6, <1>7, <2>2 DEF WalkType
  <2>4. RunType'
    BY <1>2, <1>3, <1>6 DEF RunType
  <2> QED BY <2>1, <2>3, <2>4 DEF TypeInv
<1>9. \A d \in 1..2 : d = 1 \/ d = 2
  OBVIOUS
<1>10. Caught(walk', env') /\ Linked(walk', env', links')
  <2>1. ASSUME NEW n \in params, frame[n] = "data" PROVE n \in top
    BY <1>4, <2>1 DEF top
  <2>2. Caught(walk', env')
    BY <1>4, <1>6, <1>7, <1>9, <2>1 DEF Caught
  <2> QED BY <1>7, <2>2 DEF Linked
<1>11. Founded(walk', env') /\ Noted(walk', env', links')
  <2>1. ASSUME NEW n \in top PROVE Has(env', 2, n, "data")
    BY <1>4, <1>6, <1>9, <2>1 DEF Has, Owns, top
  <2>2. Founded(walk', env')
    BY <1>7, <1>9, <2>1 DEF Founded
  <2> QED BY <1>2, <1>3, <2>2 DEF Noted
<1>12. rule = "ssrf" => Hosted(walk', env')
  <2>1. \A o \in 1..2 : \A n : ~Has(env', o, n, "operator")
    BY <1>4, <1>6, <1>9 DEF Has, Owns
  <2> QED BY <1>6, <1>7, <2>1 DEF Hosted
<1> QED BY <1>3, <1>8, <1>10, <1>11, <1>12 DEF ReachInv, MissInv, CryInv, TierInv

\* A function whose variables are still to come changes what no name means.
LEMMA EmptyFrame ==
  ASSUME RunType, env' = Append(env, <<>>)
  PROVE  /\ env' \in Seq(Frames) /\ Len(env') = Depth + 1 /\ DOMAIN env' = 1..Depth + 1 /\ env' # <<>>
         /\ DOMAIN env'[Depth + 1] = {} /\ \A d \in 1..Depth : env'[d] = env[d]
         /\ \A i, x, v : Has(env', i, x, v) <=> Has(env, i, x, v)
<1>1. env \in Seq(Frames) /\ Depth \in Nat \ {0} /\ DOMAIN env = 1..Depth /\ Len(env) = Depth
  BY DepthIs DEF RunType
<1>2. env' \in Seq(Frames) /\ Len(env') = Depth + 1 /\ DOMAIN env' = 1..Depth + 1 /\ env' # <<>>
  BY <1>1, NoneTyped
<1>3. env'[Depth + 1] = <<>> /\ \A d \in 1..Depth : env'[d] = env[d]
  BY <1>1, NoneTyped
<1>4. DOMAIN env'[Depth + 1] = {}
  BY <1>3, NoneTyped
<1>5. \A d \in 1..Depth + 1 : d \in 1..Depth \/ d = Depth + 1
  BY <1>1
<1>6. \A d \in 1..Depth : d \in 1..Depth + 1
  BY <1>1
<1>7. \A i, x : Owns(env', i, x) <=> Owns(env, i, x)
  BY <1>1, <1>2, <1>3, <1>4, <1>5, <1>6 DEF Owns
<1>8. ASSUME NEW i, NEW x, Owns(env, i, x) PROVE env'[i][x] = env[i][x]
  BY <1>1, <1>3, <1>8 DEF Owns
<1> QED BY <1>2, <1>3, <1>4, <1>7, <1>8 DEF Has

LEMMA CallbackKeeps ==
  ASSUME ReachInv, Walk([kind |-> "arrow"])
  PROVE  ReachInv'
<1> DEFINE s == [kind |-> "arrow"]
<1>1. s.kind = "arrow" /\ Walk(s)
  OBVIOUS
<1> HIDE DEF s
<1>2. /\ TypeInv /\ Fresh \in Visitor /\ Fresh.scopes = walk.scopes /\ Fresh.asleep = walk.asleep /\ Lineal(Fresh, walk)
      /\ rule \in RuleNames /\ RunType /\ LoopType /\ WalkType /\ walk.asleep \in Nat
      /\ Len(walk.scopes) \in Nat \ {0} /\ Len(walk.scopes) + walk.asleep = Depth
      /\ DOMAIN walk.scopes = 1..Len(walk.scopes) /\ walk.scopes[1] = {} /\ DOMAIN env[1] = {}
  BY FreshIs DEF ReachInv, TypeInv
<1>3. Depth \in Nat \ {0} /\ DOMAIN env = 1..Depth /\ Len(env) = Depth
  BY <1>2, DepthIs
<1>4. /\ excused' \subseteq {"miss", "cry", "tier", "relinked"}
      /\ \A c : c \notin excused' => c \notin Shortcuts(s) /\ (Depth > 1 => c \notin excused)
      /\ Depth > 1 => excused \subseteq excused'
      /\ env' = Append(env, <<>>) /\ links' = links /\ UNCHANGED loop /\ rule' = rule /\ R' = R
  <2>1. LinksAfter(s) = links /\ After(s) = Append(env, <<>>)
    BY <1>1 DEF LinksAfter, After
  <2> QED BY <1>1, <1>2, <2>1, Excuses
<1>5. /\ env' \in Seq(Frames) /\ Len(env') = Depth + 1 /\ DOMAIN env' = 1..Depth + 1 /\ env' # <<>>
      /\ DOMAIN env'[Depth + 1] = {} /\ \A d \in 1..Depth : env'[d] = env[d]
      /\ \A i, x, v : Has(env', i, x, v) <=> Has(env, i, x, v)
  BY <1>2, <1>4, EmptyFrame
<1>6. links \in Lineage /\ \A u \in DOMAIN links : links[u].depth \in 2..Depth + 1
  BY <1>2, <1>3 DEF RunType
<1>7. RunType'
  BY <1>2, <1>3, <1>4, <1>5, <1>6 DEF RunType
<1>8. LoopType'
  BY <1>2, <1>4, LoopKeeps
<1>9. CASE walk.asleep > 0 \/ (rule = "secret" /\ Depth > 1)
  <2>1. rule = "secret" /\ Depth > 1 /\ "miss" \in excused'
    <3>1. rule = "secret" /\ Depth > 1
      BY <1>2, <1>9 DEF WalkType
    <3> QED BY <1>1, <1>4, <3>1, ShortcutsMiss
  <2>2. walk' \in Visitor /\ walk'.scopes = walk.scopes /\ walk'.asleep = walk.asleep + 1
    <3>1. CASE walk.asleep > 0
      BY <1>1, <1>2, <3>1, AsleepVisit
    <3>2. CASE walk.asleep = 0
      <4>1. walk' = IF rule # "secret" \/ Depth = 1 THEN EnterFn(Fresh) ELSE [Fresh EXCEPT !.asleep = 1]
        BY <1>1, <1>2, <3>2, AwakeVisit
      <4>2. walk' = [Fresh EXCEPT !.asleep = 1]
        BY <2>1, <4>1
      <4> QED BY <1>2, <3>2, <4>2 DEF Visitor
    <3> QED BY <1>2, <3>1, <3>2
  <2>3. WalkType'
    BY <1>2, <1>3, <1>4, <1>5, <2>1, <2>2 DEF WalkType
  <2>4. MissInv' /\ TierInv'
    BY <1>4, <2>1 DEF MissInv, TierInv
  <2>5. CryInv'
    <3>1. ~R.guards
      BY <1>2, <2>1, RuleIs
    <3>2. "cry" \notin excused' => Founded(walk, env)
      BY <1>4, <2>1 DEF ReachInv, CryInv
    <3>3. Founded(walk, env) => Founded(walk', env')
      BY <1>5, <2>2 DEF Founded
    <3> QED BY <1>4, <3>1, <3>2, <3>3 DEF CryInv
  <2> QED BY <1>7, <1>8, <2>3, <2>4, <2>5 DEF ReachInv, TypeInv
<1>10. CASE ~(walk.asleep > 0 \/ (rule = "secret" /\ Depth > 1))
  <2>1. walk.asleep = 0 /\ Len(walk.scopes) = Depth
    BY <1>2, <1>3, <1>10
  <2>2. walk' = EnterFn(Fresh)
    <3>1. walk' = IF rule # "secret" \/ Depth = 1 THEN EnterFn(Fresh) ELSE [Fresh EXCEPT !.asleep = 1]
      BY <1>1, <1>2, <2>1, AwakeVisit
    <3>2. rule # "secret" \/ Depth = 1
      BY <1>3, <1>10
    <3> QED BY <3>1, <3>2
  <2>3. /\ walk' \in Visitor /\ Rest(walk', Fresh) /\ DOMAIN walk'.urlInits = {} /\ walk'.safeHosts = {}
        /\ walk'.scopes = Append(walk.scopes, {}) /\ Len(walk'.scopes) = Depth + 1
    BY <1>2, <2>1, <2>2, EnterIs
  <2>4. /\ DOMAIN walk'.scopes = 1..Depth + 1 /\ walk'.scopes[Depth + 1] = {} /\ walk'.asleep = 0 /\ walk'.scopes # <<>>
        /\ \A d \in 1..Depth : walk'.scopes[d] = walk.scopes[d]
    <3>1. walk.scopes \in Seq(SUBSET Names)
      BY <1>2, TopIs DEF WalkType
    <3> QED BY <1>2, <1>3, <2>1, <2>3, <3>1 DEF Rest
  <2>5. \A d \in 1..Depth + 1 : d \in 1..Depth \/ d = Depth + 1
    BY <1>3
  <2>6. WalkType'
    <3>1. 1 \in 1..Depth
      BY <1>3
    <3> QED BY <1>2, <1>3, <1>5, <2>3, <2>4, <3>1 DEF WalkType
  <2>7. MissInv'
    <3> SUFFICES ASSUME excused' \cap {"miss", "relinked"} = {} PROVE Caught(walk', env') /\ Linked(walk', env', links')
      BY DEF MissInv
    <3>1. ASSUME NEW d \in 1..Depth, NEW n \in DOMAIN env[d], env[d][n] = "data" PROVE n \in walk.scopes[d]
      <4>1. CASE Depth = 1
        BY <1>2, <3>1, <4>1
      <4>2. CASE Depth > 1
        <5>1. Caught(walk, env)
          BY <1>4, <4>2 DEF ReachInv, MissInv
        <5> QED BY <1>2, <2>1, <3>1, <5>1 DEF Caught
      <4> QED BY <1>3, <4>1, <4>2
    <3>2. Caught(walk', env')
      BY <1>5, <2>4, <2>5, <3>1 DEF Caught
    <3> QED BY <2>3, <3>2 DEF Linked
  <2>8. CryInv'
    <3> SUFFICES ASSUME "cry" \notin excused' PROVE Founded(walk', env') /\ Noted(walk', env', links')
      BY DEF CryInv
    <3>1. ASSUME NEW d \in 1..Depth, NEW n \in walk.scopes[d] PROVE \E o \in 1..d : Has(env, o, n, "data")
      <4>1. CASE Depth = 1
        BY <1>2, <3>1, <4>1
      <4>2. CASE Depth > 1
        <5>1. Founded(walk, env)
          BY <1>4, <4>2 DEF ReachInv, CryInv
        <5> QED BY <1>2, <2>1, <3>1, <5>1 DEF Founded
      <4> QED BY <1>3, <4>1, <4>2
    <3>2. Founded(walk', env')
      BY <1>5, <2>4, <2>5, <3>1 DEF Founded
    <3>3. DOMAIN links' = {}
      BY <1>1, <1>4, ShortcutsCry
    <3> QED BY <3>2, <3>3 DEF Noted
  <2>9. TierInv'
    <3> SUFFICES ASSUME "tier" \notin excused' PROVE Hosted(walk', env')
      BY DEF TierInv
    <3>1. \A d \in 1..Depth : \A n \in DOMAIN env[d] : env[d][n] # "operator"
      <4>1. \A d \in DOMAIN env : \A n \in Names : n \in DOMAIN env[d] => env[d][n] # "operator"
        BY <1>1, <1>4, ShortcutsTier
      <4>2. \A d \in 1..Depth : DOMAIN env[d] \subseteq Names
        BY <1>2, DepthIs
      <4> QED BY <1>3, <4>1, <4>2
    <3>2. \A d \in DOMAIN env' : \A n \in DOMAIN env'[d] : env'[d][n] # "operator"
      BY <1>5, <2>5, <3>1
    <3> QED BY <2>3, <3>2 DEF Hosted, Has, Owns
  <2> QED BY <1>7, <1>8, <2>6, <2>7, <2>8, <2>9 DEF ReachInv, TypeInv
<1> QED BY <1>9, <1>10

LEMMA LeaveKeeps ==
  ASSUME ReachInv, Depth > 1, Walk([kind |-> "exit"])
  PROVE  ReachInv'
<1> DEFINE s == [kind |-> "exit"]
<1>1. s.kind = "exit" /\ Walk(s)
  OBVIOUS
<1> HIDE DEF s
<1>2. /\ TypeInv /\ Fresh \in Visitor /\ Fresh.scopes = walk.scopes /\ Fresh.asleep = walk.asleep /\ Lineal(Fresh, walk)
      /\ Fresh.scopes # <<>> /\ rule \in RuleNames /\ RunType /\ LoopType /\ WalkType /\ walk.asleep \in Nat
      /\ Len(walk.scopes) \in Nat \ {0} /\ Len(walk.scopes) + walk.asleep = Depth
      /\ DOMAIN walk.scopes = 1..Len(walk.scopes) /\ walk.scopes[1] = {} /\ DOMAIN env[1] = {}
  BY FreshIs DEF ReachInv, TypeInv
<1>3. Depth \in Nat \ {0} /\ DOMAIN env = 1..Depth /\ Len(env) = Depth
  BY <1>2, DepthIs
<1> DEFINE kept == {v \in DOMAIN links : links[v].depth < Depth}
<1>4. /\ excused' \subseteq {"miss", "cry", "tier", "relinked"}
      /\ excused \subseteq excused'
      /\ env' = Front(env) /\ links' = [u \in kept |-> links[u]] /\ UNCHANGED loop /\ rule' = rule /\ R' = R
  <2>1. LinksAfter(s) = [u \in kept |-> links[u]] /\ After(s) = Front(env)
    BY <1>1 DEF LinksAfter, After
  <2> HIDE DEF kept
  <2> QED BY <1>1, <1>2, <2>1, Excuses
<1>5. /\ env' \in Seq(Frames) /\ Len(env') = Depth - 1 /\ DOMAIN env' = 1..Depth - 1
      /\ \A d \in 1..Depth - 1 : env'[d] = env[d]
  <2>1. env \in Seq(Frames) /\ env # <<>>
    BY <1>2 DEF RunType
  <2> QED BY <1>3, <1>4, <2>1, FrontOf
<1>6. ASSUME NEW o \in 1..Depth - 1, NEW n, NEW v, Has(env, o, n, v) PROVE Has(env', o, n, v)
  <2>1. \A d \in 1..Depth - 1 : d \in 1..Depth
    BY <1>3
  <2> QED BY <1>3, <1>5, <1>6, <2>1 DEF Has, Owns
<1>7. /\ links' \in Lineage /\ DOMAIN links' = kept /\ \A u \in kept : links'[u] = links[u]
      /\ \A u \in kept : u \in DOMAIN links /\ links[u].depth \in 2..Depth - 1
  <2>1. links \in Lineage /\ \A u \in DOMAIN links : links[u].depth \in 2..Depth
    BY <1>2, <1>3 DEF RunType
  <2>2. DOMAIN links \subseteq Names /\ \A u \in DOMAIN links : links[u] \in [of : Names, depth : Nat]
    BY <2>1, MapsAre DEF Lineage
  <2>3. links' \in [kept -> [of : Names, depth : Nat]] /\ kept \subseteq Names
    BY <1>4, <2>2
  <2>4. \A u \in kept : links[u].depth \in 2..Depth - 1
    BY <1>3, <2>1
  <2> QED BY <1>4, <2>3, <2>4 DEF Lineage
<1> HIDE DEF kept
<1>8. /\ walk' \in Visitor /\ Lineal(walk', walk) /\ walk'.scopes # <<>>
      /\ Len(walk'.scopes) + walk'.asleep = Depth - 1 /\ DOMAIN walk'.scopes = 1..Len(walk'.scopes) /\ Len(walk'.scopes) \in Nat
      /\ \A d \in DOMAIN walk'.scopes : d \in DOMAIN walk.scopes /\ walk'.scopes[d] = walk.scopes[d]
      /\ walk'.asleep > 0 => walk.asleep > 0
  <2>1. CASE walk.asleep > 0
    <3>1. walk' \in Visitor /\ walk'.scopes = walk.scopes /\ Lineal(walk', walk) /\ walk'.asleep = walk.asleep - 1
      BY <1>1, <1>2, <2>1, AsleepVisit
    <3> QED BY <1>2, <1>3, <2>1, <3>1
  <2>2. CASE walk.asleep = 0
    <3>1. walk' = ExitFn(Fresh)
      BY <1>1, <1>2, <2>2, AwakeVisit
    <3>2. /\ walk' \in Visitor /\ Rest(walk', Fresh) /\ Lineal(walk', Fresh)
          /\ walk'.scopes = Front(walk.scopes) /\ Len(walk'.scopes) = Len(walk.scopes) - 1
      BY <1>2, <3>1, ExitIs
    <3>3. walk.scopes \in Seq(SUBSET Names) /\ walk.scopes # <<>>
      BY <1>2, TopIs DEF WalkType
    <3>4. DOMAIN walk'.scopes = 1..Len(walk.scopes) - 1 /\ \A d \in 1..Len(walk.scopes) - 1 : walk'.scopes[d] = walk.scopes[d]
      BY <3>2, <3>3, FrontOf
    <3>5. Len(walk'.scopes) # 0
      <4>1. Len(walk.scopes) = Depth /\ Len(walk'.scopes) = Depth - 1
        BY <1>2, <1>3, <2>2, <3>2
      <4> QED BY <1>3, <4>1
    <3>6. walk'.scopes # <<>>
      BY <3>5
    <3> QED BY <1>2, <1>3, <2>2, <3>2, <3>4, <3>6 DEF Rest, Lineal
  <2> QED BY <1>2, <2>1, <2>2
<1>9. TypeInv'
  <2>1. LoopType'
    BY <1>2, <1>4, LoopKeeps
  <2>2. WalkType'
    <3>1. walk'.scopes[1] = {}
      <4>1. Len(walk'.scopes) # 0
        BY <1>8, EmptySeq DEF Visitor
      <4>2. 1 \in DOMAIN walk'.scopes
        BY <1>8, <4>1
      <4> QED BY <1>2, <1>8, <4>2
    <3> QED BY <1>2, <1>4, <1>5, <1>8, <3>1 DEF WalkType
  <2>3. env' # <<>> /\ DOMAIN env'[1] = {}
    <3>1. 1 \in 1..Depth - 1 /\ Len(env') # 0
      BY <1>3, <1>5
    <3> QED BY <1>2, <1>5, <3>1
  <2>4. RunType'
    BY <1>4, <1>5, <1>7, <2>3 DEF RunType
  <2> QED BY <2>1, <2>2, <2>4 DEF TypeInv
<1>10. MissInv'
  <2> SUFFICES ASSUME excused' \cap {"miss", "relinked"} = {} PROVE Caught(walk', env') /\ Linked(walk', env', links')
    BY DEF MissInv
  <2>1. Caught(walk, env) /\ Linked(walk, env, links)
    BY <1>4 DEF ReachInv, MissInv
  <2>2. \A d \in DOMAIN walk'.scopes : env'[d] = env[d]
    <3>1. walk'.asleep \in Nat
      BY <1>8 DEF Visitor
    <3>2. \A d \in DOMAIN walk'.scopes : d \in 1..Depth - 1
      BY <1>3, <1>8, <3>1
    <3> QED BY <1>5, <3>2
  <2>3. Caught(walk', env')
    BY <1>8, <2>1, <2>2 DEF Caught
  <2>4. Linked(walk', env', links')
    <3>1. ASSUME Len(env') > 1 PROVE DOMAIN walk'.urlInits = {}
      <4>1. Depth > 2 /\ Len(env) # 2 /\ Len(env) > 1
        BY <1>3, <1>5, <3>1
      <4>2. DOMAIN walk.urlInits = {}
        BY <2>1, <4>1 DEF Linked
      <4> QED BY <1>8, <4>2 DEF Lineal
    <3> QED BY <3>1 DEF Linked
  <2> QED BY <2>3, <2>4
<1>11. CryInv'
  <2> SUFFICES ASSUME "cry" \notin excused' PROVE Founded(walk', env') /\ (R'.guards => Noted(walk', env', links'))
    BY DEF CryInv
  <2>1. Founded(walk, env) /\ (R.guards => Noted(walk, env, links))
    BY <1>4 DEF ReachInv, CryInv
  <2>2. ASSUME NEW d \in DOMAIN walk'.scopes, NEW n \in walk'.scopes[d] PROVE \E o \in 1..d : Has(env', o, n, "data")
    <3>1. PICK o \in 1..d : Has(env, o, n, "data")
      BY <1>8, <2>1, <2>2 DEF Founded
    <3>2. walk'.asleep \in Nat
      BY <1>8 DEF Visitor
    <3>3. o \in 1..Depth - 1
      BY <1>3, <1>8, <3>1, <3>2
    <3> QED BY <1>6, <3>1, <3>3
  <2>3. R.guards => DOMAIN links' = {}
    <3>1. ASSUME R.guards, NEW u \in kept PROVE FALSE
      <4>1. Depth = 2
        BY <1>3, <1>7, <2>1, <3>1 DEF Noted
      <4> QED BY <1>7, <3>1, <4>1
    <3> QED BY <1>7, <3>1
  <2> QED BY <1>4, <2>2, <2>3 DEF Founded, Noted
<1>12. TierInv'
  <2> SUFFICES ASSUME "tier" \notin excused', rule = "ssrf", Len(env') > 1 PROVE Hosted(walk', env')
    BY <1>4 DEF TierInv, Hosted
  <2>1. Hosted(walk, env) /\ Depth > 2
    BY <1>3, <1>4, <1>5 DEF ReachInv, TierInv
  <2>2. \A d \in 1..Depth : \A n \in DOMAIN env[d] : env[d][n] # "operator"
    BY <1>3, <2>1 DEF Hosted
  <2>3. \A o, n : ~Has(env, o, n, "operator")
    BY <1>3, <2>2 DEF Has, Owns
  <2>4. \A n \in Names : n \notin walk'.safeHosts
    BY <1>3, <1>8, <2>1, <2>3 DEF Hosted, Lineal
  <2>5. \A d \in DOMAIN env' : \A n \in DOMAIN env'[d] : env'[d][n] # "operator"
    <3>1. \A d \in 1..Depth - 1 : d \in 1..Depth
      BY <1>3
    <3> QED BY <1>5, <2>2, <3>1
  <2> QED BY <2>4, <2>5 DEF Hosted, Has, Owns
<1> QED BY <1>9, <1>10, <1>11, <1>12 DEF ReachInv

-----------------------------------------------------------------------------
(***************************************************************************)
(* The rounds.                                                             *)
(***************************************************************************)
LEMMA ReachingFinite ==
  ASSUME NEW ix, IsFiniteSet(DOMAIN ix), \A n \in DOMAIN ix : IsFiniteSet(DOMAIN ix[n])
  PROVE  IsFiniteSet(Reaching(ix)) /\ Cardinality(Reaching(ix)) \in Nat
<1> DEFINE pairs == [n \in DOMAIN ix |-> {n} \X DOMAIN ix[n]]
<1> DEFINE T == {{n} \X DOMAIN ix[n] : n \in DOMAIN ix}
<1>1. pairs \in Surjection(DOMAIN ix, T)
  BY DEF Surjection
<1>2. IsFiniteSet(T)
  <2> HIDE DEF pairs, T
  <2> QED BY <1>1, FS_Surjection
<1>3. ASSUME NEW n \in DOMAIN ix PROVE IsFiniteSet({n} \X DOMAIN ix[n])
  <2>1. IsFiniteSet({n})
    BY FS_Singleton
  <2> QED BY <2>1, FS_Product
<1>4. \A t \in T : IsFiniteSet(t)
  BY <1>3
<1>5. Parameters(ix) = UNION T
  BY DEF Parameters
<1>6. IsFiniteSet(Parameters(ix))
  <2> HIDE DEF T
  <2> QED BY <1>2, <1>4, <1>5, FS_UNION
<1>7. Reaching(ix) \subseteq Parameters(ix)
  BY DEF Reaching
<1>8. IsFiniteSet(Reaching(ix))
  BY <1>6, <1>7, FS_Subset
<1> QED BY <1>8, FS_CardinalityType

\* What a round finds: for the rules that look into other files a summary for
\* each function of the project, for the others nothing.
LEMMA ExtractIs ==
  ASSUME rule \in RuleNames, project \in Projects, NEW ix
  PROVE  /\ rule \notin {"sql", "exec", "redirect", "ssrf"} => DOMAIN Extract(rule, project, ix) = {}
         /\ rule \in {"sql", "exec", "redirect", "ssrf"} =>
              /\ DOMAIN Extract(rule, project, ix) = DOMAIN project
              /\ \A n \in DOMAIN project : DOMAIN Extract(rule, project, ix)[n] = DOMAIN project[n].params
<1>1. ASSUME NEW r
      PROVE  /\ DOMAIN Summaries(r, project, ix) = DOMAIN project
             /\ \A n \in DOMAIN project : DOMAIN Summaries(r, project, ix)[n] = DOMAIN project[n].params
  BY DEF Summaries, Summary
<1>2. rule \notin {"sql", "exec", "redirect", "ssrf"} => DOMAIN Extract(rule, project, ix) = {}
  BY NoneTyped DEF Extract
<1>3. CASE rule = "sql"
  BY <1>1, <1>3 DEF Extract, ExtractSql
<1>4. CASE rule = "exec"
  BY <1>1, <1>4 DEF Extract, ExtractExec
<1>5. CASE rule = "redirect"
  BY <1>1, <1>5 DEF Extract, ExtractRedirect
<1>6. CASE rule = "ssrf"
  BY <1>1, <1>6 DEF Extract, ExtractSsrf
<1> QED BY <1>2, <1>3, <1>4, <1>5, <1>6

LEMMA ExtractKeeps ==
  ASSUME ReachInv, ExtractRound
  PROVE  ReachInv'
<1>1. LoopType /\ WalkType /\ RunType /\ rule \in RuleNames /\ project \in Projects /\ round \in 0..MaxRounds
  BY DEF ReachInv, TypeInv, LoopType
<1> DEFINE next == Extract(rule, project, index)
<1>2. ConvergenceSignal(rule, next) \in Nat
  <2>1. CASE rule \notin {"ssrf", "redirect"}
    BY <2>1 DEF ConvergenceSignal
  <2>2. CASE rule \in {"ssrf", "redirect"}
    <3>1. DOMAIN next = DOMAIN project /\ \A n \in DOMAIN project : DOMAIN next[n] = DOMAIN project[n].params
      BY <1>1, <2>2, ExtractIs
    <3>2. IsFiniteSet(DOMAIN project) /\ \A n \in DOMAIN project : project[n].params \in Seq(Names)
      BY <1>1, ReachAssumption
    <3>3. ASSUME NEW n \in DOMAIN project PROVE IsFiniteSet(DOMAIN project[n].params)
      <4>1. DOMAIN project[n].params = 1..Len(project[n].params) /\ Len(project[n].params) \in Int /\ 1 \in Int
        BY <3>2
      <4> QED BY <4>1, FS_Interval
    <3> HIDE DEF next
    <3>4. Cardinality(Reaching(next)) \in Nat
      BY <3>1, <3>2, <3>3, ReachingFinite
    <3> QED BY <2>2, <3>4 DEF ConvergenceSignal
  <2> QED BY <2>1, <2>2
<1>3. rule \notin {"sql", "exec", "redirect", "ssrf"} => DOMAIN next = {}
  BY <1>1, ExtractIs
<1>4. /\ phase = "extract" /\ index' = next /\ signal' = ConvergenceSignal(rule, next) /\ round' = round + 1
      /\ phase' \in {"extract", "walk"} /\ (phase' = "extract" => round + 1 # MaxRounds)
      /\ UNCHANGED <<rule, project, walk, env, links, due, excused>> /\ R' = R
  <2> HIDE DEF next
  <2> QED BY DEF ExtractRound, next, R, course
<1> HIDE DEF next
<1>5. round + 1 \in 0..MaxRounds /\ (round + 1 # MaxRounds => round + 1 < MaxRounds)
  BY <1>1, <1>4, ReachAssumption DEF LoopType
<1>6. LoopType'
  BY <1>1, <1>2, <1>3, <1>4, <1>5 DEF LoopType
<1>7. WalkType' /\ RunType'
  BY <1>1, <1>4 DEF WalkType, RunType
<1>8. MissInv'
  BY <1>4 DEF ReachInv, MissInv, Caught, Linked
<1>9. CryInv'
  BY <1>4 DEF ReachInv, CryInv, Founded, Noted, Has, Owns
<1>10. TierInv'
  BY <1>4 DEF ReachInv, TierInv, Hosted, Has, Owns
<1> QED BY <1>6, <1>7, <1>8, <1>9, <1>10 DEF ReachInv, TypeInv

LEMMA InitHolds == ReachInit => ReachInv
<1> SUFFICES ASSUME ReachInit PROVE ReachInv
  OBVIOUS
<1>1. LoopType
  BY ReachAssumption DEF ReachInit, LoopType
<1>2. walk = NewVisitor /\ env = <<<<>>>> /\ links = <<>> /\ excused = {}
  BY DEF ReachInit
<1>3. /\ walk.scopes = <<{}>> /\ walk.asleep = 0 /\ DOMAIN walk.urlInits = {} /\ walk.safeHosts = {} /\ walk \in Visitor
  <2>1. <<{}>> \in Seq(SUBSET Names)
    OBVIOUS
  <2> QED BY <1>2, <2>1, NoneTyped DEF NewVisitor, Visitor
<1>4. DOMAIN walk.scopes = {1} /\ walk.scopes[1] = {} /\ Len(walk.scopes) = 1 /\ walk.scopes # <<>>
  BY <1>3
<1>5. env \in Seq(Frames) /\ env # <<>> /\ Len(env) = 1 /\ DOMAIN env = {1} /\ env[1] = <<>> /\ DOMAIN env[1] = {}
  <2> DEFINE f == <<>>
  <2>1. f \in Frames /\ DOMAIN f = {}
    BY NoneTyped
  <2>2. env = <<f>>
    BY <1>2
  <2> HIDE DEF f
  <2>3. env \in Seq(Frames) /\ env # <<>> /\ Len(env) = 1 /\ DOMAIN env = {1} /\ env[1] = f
    BY <2>1, <2>2
  <2> QED BY <2>1, <2>3 DEF f
<1>6. links \in Lineage /\ DOMAIN links = {}
  BY <1>2, NoneTyped
<1>7. TypeInv
  BY <1>1, <1>2, <1>3, <1>4, <1>5, <1>6 DEF TypeInv, WalkType, RunType
<1>8. Caught(walk, env) /\ Linked(walk, env, links) /\ Founded(walk, env) /\ Noted(walk, env, links) /\ Hosted(walk, env)
  BY <1>3, <1>4, <1>5, <1>6 DEF Caught, Linked, Founded, Noted, Hosted
<1> QED BY <1>7, <1>8 DEF ReachInv, MissInv, CryInv, TierInv

-----------------------------------------------------------------------------
(***************************************************************************)
(* What a statement deserves and what is reported.                         *)
(***************************************************************************)
Judged == NoMissedFlow /\ NoFalseAlarm /\ TierExact

\* A statement that calls nothing deserves no finding and gets none.
LEMMA QuietIsJudged ==
  ASSUME TypeInv, NEW s, Walk(s), s.kind \in Kinds \ {"sink", "call"},
         Writes(s) => s.name \in Names /\ s.expr \in Expressions, s.kind = "if" => s.on \in Names,
         s.kind = "function" => s.decorated \subseteq Names
  PROVE  Judged'
<1>1. /\ Fresh \in Visitor /\ Fresh.scopes # <<>> /\ Fresh.found = {} /\ rule \in RuleNames /\ walk.asleep \in Nat
  BY FreshIs
<1>2. due' = {}
  <2>1. Owed(s) = {}
    BY DEF Owed, Kinds, WalkedThrough
  <2> QED BY <2>1, Excuses
<1>3. walk'.found = {}
  <2>1. CASE walk.asleep > 0
    BY <2>1, AsleepVisit
  <2>2. CASE walk.asleep = 0 /\ s.kind = "declare"
    <3>1. walk' = VarDecl(R, Fresh, TRUE, s.name, s.expr) /\ s.name \in Names /\ s.expr \in Expressions
      BY <2>2, AwakeVisit DEF Writes, Declares, Assigns, Combines
    <3> DEFINE v == VarDecl(R, Fresh, TRUE, s.name, s.expr)
    <3>2. Rest(v, Fresh)
      BY <1>1, <3>1, VarDeclIs
    <3> QED BY <1>1, <3>1, <3>2 DEF Rest
  <2>3. CASE walk.asleep = 0 /\ s.kind = "destructure"
    <3>1. walk' = Destructure(R, Fresh, TRUE, s.name, s.expr) /\ s.name \in Names /\ s.expr \in Expressions
      BY <2>3, AwakeVisit DEF Writes, Declares, Assigns, Combines
    <3> DEFINE v == Destructure(R, Fresh, TRUE, s.name, s.expr)
    <3>2. Rest(v, Fresh)
      BY <1>1, <3>1, DestructureIs
    <3> QED BY <1>1, <3>1, <3>2 DEF Rest
  <2>4. CASE walk.asleep = 0 /\ Assigns(s)
    <3>1. walk' = Assign(R, Fresh, TRUE, s.name, s.expr) /\ s.name \in Names /\ s.expr \in Expressions
      BY <2>4, AwakeVisit DEF Writes, Declares, Assigns, Combines
    <3> DEFINE v == Assign(R, Fresh, TRUE, s.name, s.expr)
    <3>2. Rest(v, Fresh)
      BY <1>1, <3>1, AssignIs
    <3> QED BY <1>1, <3>1, <3>2 DEF Rest
  <2>5. CASE walk.asleep = 0 /\ s.kind = "function"
    <3>1. walk' = EnterFunction(R, Fresh, TRUE, s) /\ s.decorated \subseteq Names
      BY <2>5, AwakeVisit
    <3> DEFINE v == EnterFunction(R, Fresh, TRUE, s)
    <3>2. Rest(v, Fresh)
      BY <1>1, <3>1, EnterFunctionIs
    <3> QED BY <1>1, <3>1, <3>2 DEF Rest
  <2>6. CASE walk.asleep = 0 /\ s.kind = "arrow"
    <3>1. walk' = IF rule # "secret" \/ Depth = 1 THEN EnterFn(Fresh) ELSE [Fresh EXCEPT !.asleep = 1]
      BY <2>6, AwakeVisit
    <3>2. Rest(EnterFn(Fresh), Fresh)
      BY <1>1, EnterIs
    <3>3. [Fresh EXCEPT !.asleep = 1].found = Fresh.found
      BY <1>1 DEF Visitor
    <3> QED BY <1>1, <3>1, <3>2, <3>3 DEF Rest
  <2>7. CASE walk.asleep = 0 /\ s.kind = "exit"
    <3>1. walk' = ExitFn(Fresh)
      BY <2>7, AwakeVisit
    <3>2. Rest(ExitFn(Fresh), Fresh)
      BY <1>1, ExitIs
    <3> QED BY <1>1, <3>1, <3>2 DEF Rest
  <2>8. CASE walk.asleep = 0 /\ s.kind = "if"
    <3>1. walk' = Narrow(R, Fresh, s) /\ s.on \in Names
      BY <2>8, AwakeVisit
    <3> DEFINE v == Narrow(R, Fresh, s)
    <3>2. v = Fresh \/ Rest(v, Fresh)
      BY <1>1, <3>1, NarrowIs DEF Shrunk
    <3> QED BY <1>1, <3>1, <3>2 DEF Rest
  <2>9. CASE walk.asleep = 0 /\ s.kind \in WalkedThrough
    BY <1>1, <2>9, AwakeVisit
  <2> QED BY <1>1, <2>1, <2>2, <2>3, <2>4, <2>5, <2>6, <2>7, <2>8, <2>9 DEF Kinds, Assigns, Combines
<1> QED BY <1>2, <1>3 DEF Judged, NoMissedFlow, NoFalseAlarm, TierExact

\* Asleep, nothing is reported, and that is a shortcut which misses.
LEMMA AsleepIsJudged ==
  ASSUME TypeInv, NEW s, Walk(s), walk.asleep > 0
  PROVE  Judged'
<1>1. walk'.found = {} /\ "miss" \in excused'
  BY AsleepVisit
<1> QED BY <1>1 DEF Judged, NoMissedFlow, NoFalseAlarm, TierExact

LEMMA SeverityIs ==
  ASSUME TypeInv, Depth > 1, rule = "ssrf" => Hosted(walk, env), NEW v, v.safeHosts = walk.safeHosts, NEW e \in Expressions
  PROVE  SinkSeverity(R, v, e) = Severity(e)
<1>1. RunType /\ rule \in RuleNames /\ e.host \in Names
  BY FreshIs DEF Expressions
<1>2. SinkSeverity(R, v, e) = IF rule = "ssrf" /\ IsHostPinned(v, e) THEN "medium" ELSE R.severity
  BY <1>1, SeverityTyped
<1>3. CASE rule = "ssrf"
  <2>1. e.host \in walk.safeHosts <=> \E o \in DOMAIN env : Has(env, o, e.host, "operator")
    BY <1>1, <1>3 DEF Hosted, Depth
  <2>2. Holds(e.host) = "operator" <=> \E o \in 1..Depth : Has(env, o, e.host, "operator")
    BY <1>1, HoldsIs
  <2>3. e.host \in v.safeHosts <=> Holds(e.host) = "operator"
    BY <1>1, <2>1, <2>2, DepthIs
  <2> QED BY <1>2, <1>3, <2>3 DEF Severity, IsHostPinned
<1>4. CASE rule # "ssrf"
  BY <1>2, <1>4 DEF Severity
<1> QED BY <1>3, <1>4

LEMMA SinkIsJudged ==
  ASSUME ReachInv, Depth > 1, NEW s, Walk(s), s.kind = "sink", s.expr \in Expressions, walk.asleep = 0
  PROVE  Judged'
<1> DEFINE e == s.expr
<1> DEFINE place == s.at
<1>1. /\ TypeInv /\ Fresh \in Visitor /\ Fresh.scopes = walk.scopes /\ Fresh.found = {} /\ Fresh.safeHosts = walk.safeHosts
      /\ rule \in RuleNames /\ rule' = rule /\ excused \subseteq excused'
      /\ "cry" \notin excused' => ~Cries(e.form)
  <2>1. TypeInv
    BY DEF ReachInv
  <2>2. e \in Exprs(s)
    BY DEF Exprs
  <2> QED BY <2>1, <2>2, FreshIs, Excuses, ShortcutsCry DEF Lineal
<1>2. due' = IF place \in R.looksAt /\ Value(e) = "data" THEN {Severity(e)} ELSE {}
  <2>1. due' = Owed(s)
    BY <1>1, Excuses
  <2> QED BY <2>1 DEF Owed
<1>3. /\ Caught(walk, env) /\ Value(e) = "data" => ExprTaint(R, Fresh, TRUE, e) /\ e.form \notin R.waives
      /\ Founded(walk, env) /\ ExprTaint(R, Fresh, TRUE, e) /\ e.form \notin R.waives /\ ~Cries(e.form) => Value(e) = "data"
  BY <1>1, ReadsAreData
<1>4. walk'.found = IF Sinks(Fresh, place, e) THEN {SinkSeverity(R, Fresh, e)} ELSE {}
  <2>1. walk' = CheckSink(R, Fresh, TRUE, place, e)
    BY <1>1, AwakeVisit
  <2>2. /\ Sinks(Fresh, place, e) => Reported(walk', Fresh, {SinkSeverity(R, Fresh, e)})
        /\ ~Sinks(Fresh, place, e) => walk' = Fresh
    BY <1>1, <2>1, CheckSinkIs
  <2> QED BY <1>1, <2>2 DEF Reported
<1> HIDE DEF e, place
<1>5. NoMissedFlow'
  <2> SUFFICES ASSUME due' # {}, excused' \cap {"miss", "relinked"} = {} PROVE walk'.found # {}
    BY DEF NoMissedFlow
  <2>1. place \in R.looksAt /\ Value(e) = "data"
    BY <1>2
  <2>2. Caught(walk, env)
    BY <1>1 DEF ReachInv, MissInv
  <2>3. Sinks(Fresh, place, e)
    BY <1>3, <2>1, <2>2 DEF Sinks
  <2> QED BY <1>4, <2>3
<1>6. NoFalseAlarm'
  <2> SUFFICES ASSUME walk'.found # {}, "cry" \notin excused' PROVE due' # {}
    BY DEF NoFalseAlarm
  <2>1. Sinks(Fresh, place, e)
    BY <1>4
  <2>2. Founded(walk, env)
    BY <1>1 DEF ReachInv, CryInv
  <2>3. place \in R.looksAt /\ Value(e) = "data"
    BY <1>1, <1>3, <2>1, <2>2 DEF Sinks
  <2> QED BY <1>2, <2>3
<1>7. TierExact'
  <2> SUFFICES ASSUME due' # {}, walk'.found # {}, excused' = {} PROVE due' = walk'.found
    BY DEF TierExact
  <2>1. rule = "ssrf" => Hosted(walk, env)
    BY <1>1 DEF ReachInv, TierInv
  <2>2. SinkSeverity(R, Fresh, e) = Severity(e)
    BY <1>1, <2>1, SeverityIs DEF e
  <2> QED BY <1>2, <1>4, <2>2
<1> QED BY <1>5, <1>6, <1>7 DEF Judged

LEMMA CallIsJudged ==
  ASSUME ReachInv, NEW s, Walk(s), Depth > 1, s.kind = "call", \A i \in DOMAIN s.args : s.args[i] \in Expressions
  PROVE  Judged'
<1>1. /\ TypeInv /\ Fresh \in Visitor /\ Fresh.scopes = walk.scopes /\ Fresh.found = {}
      /\ walk.asleep \in Nat /\ rule \in RuleNames /\ excused \subseteq excused' /\ rule' = rule
      /\ rule \notin {"sql", "exec", "redirect", "ssrf"} => DOMAIN index = {}
      /\ due' = Owed(s)
  BY FreshIs, Excuses DEF ReachInv, TypeInv, LoopType
<1>2. CASE s.callee \notin DOMAIN index \/ walk.asleep > 0
  <2>1. walk.asleep = 0 => walk' = CheckCrossFileCall(R, Fresh, TRUE, index, s)
    BY <1>1, AwakeVisit
  <2>2. Reported(CheckCrossFileCall(R, Fresh, TRUE, index, s), Fresh, CalleeSeverities(R, Fresh, TRUE, index, s))
    BY <1>1, CheckCallIs
  <2>3. s.callee \notin DOMAIN index => CalleeSeverities(R, Fresh, TRUE, index, s) = {} /\ Owed(s) = {}
    BY DEF CalleeSeverities, Owed
  <2>4. walk.asleep = 0 => walk'.found = {} /\ due' = {}
    <3> SUFFICES ASSUME walk.asleep = 0 PROVE walk'.found = {} /\ due' = {}
      OBVIOUS
    <3> DEFINE found == CalleeSeverities(R, Fresh, TRUE, index, s)
    <3>0. s.callee \notin DOMAIN index
      <4>1. ~(0 > 0)
        OBVIOUS
      <4> QED BY <1>2, <4>1
    <3>1. found = {} /\ due' = {}
      BY <1>1, <2>3, <3>0
    <3>2. Reported(walk', Fresh, found)
      BY <2>1, <2>2
    <3> HIDE DEF found
    <3>3. walk'.found = Fresh.found \cup found
      BY <3>2 DEF Reported
    <3> QED BY <1>1, <3>1, <3>3
  <2>5. walk.asleep = 0 => Judged'
    BY <2>4 DEF Judged, NoMissedFlow, NoFalseAlarm, TierExact
  <2> QED BY <1>1, <2>5, AsleepIsJudged
<1>3. CASE s.callee \in DOMAIN index /\ walk.asleep = 0
  <2> DEFINE at == {j \in DOMAIN s.args \cap DOMAIN index[s.callee] : index[s.callee][j].reaches}
  <2> DEFINE tier(i) == IF index[s.callee][i].pinned THEN "medium" ELSE R.severity
  <2>1. walk'.found = {tier(i) : i \in {j \in at : ExprTaint(R, Fresh, TRUE, s.args[j])}}
    <3>1. walk' = CheckCrossFileCall(R, Fresh, TRUE, index, s)
      BY <1>1, <1>3, AwakeVisit
    <3>2. Reported(walk', Fresh, CalleeSeverities(R, Fresh, TRUE, index, s))
      BY <1>1, <3>1, CheckCallIs
    <3>3. CalleeSeverities(R, Fresh, TRUE, index, s) = {tier(i) : i \in {j \in at : ExprTaint(R, Fresh, TRUE, s.args[j])}}
      BY <1>3 DEF CalleeSeverities
    <3>4. walk'.found = CalleeSeverities(R, Fresh, TRUE, index, s)
      BY <1>1, <3>2 DEF Reported
    <3> QED BY <3>3, <3>4
  <2>2. due' = {tier(i) : i \in {j \in at : Value(s.args[j]) = "data"}}
    BY <1>1, <1>3 DEF Owed
  <2>3. \A j \in at : s.args[j] \in Expressions
    OBVIOUS
  <2>4. \A f : f \notin R.waives /\ ~Cries(f)
    <3>1. rule \in {"sql", "exec", "redirect", "ssrf"}
      BY <1>1, <1>3
    <3> QED BY <1>1, <3>1, RuleIs DEF Cries
  <2> HIDE DEF at
  <2>5. ASSUME NEW j \in at
        PROVE  /\ Caught(walk, env) /\ Value(s.args[j]) = "data" => ExprTaint(R, Fresh, TRUE, s.args[j])
               /\ Founded(walk, env) /\ ExprTaint(R, Fresh, TRUE, s.args[j]) => Value(s.args[j]) = "data"
    BY <1>1, <1>3, <2>3, <2>4, ReadsAreData
  <2>6. excused' \cap {"miss", "relinked"} = {} => Caught(walk, env)
    BY <1>1 DEF ReachInv, MissInv
  <2>7. "cry" \notin excused' => Founded(walk, env)
    BY <1>1 DEF ReachInv, CryInv
  <2> HIDE DEF tier
  <2>8. NoMissedFlow'
    <3> SUFFICES ASSUME due' # {}, excused' \cap {"miss", "relinked"} = {} PROVE walk'.found # {}
      BY DEF NoMissedFlow
    <3>1. PICK j \in at : Value(s.args[j]) = "data"
      BY <2>2
    <3>2. ExprTaint(R, Fresh, TRUE, s.args[j])
      BY <2>5, <2>6, <3>1
    <3> QED BY <2>1, <3>2
  <2>9. NoFalseAlarm'
    <3> SUFFICES ASSUME walk'.found # {}, "cry" \notin excused' PROVE due' # {}
      BY DEF NoFalseAlarm
    <3>1. PICK j \in at : ExprTaint(R, Fresh, TRUE, s.args[j])
      BY <2>1
    <3>2. Value(s.args[j]) = "data"
      BY <2>5, <2>7, <3>1
    <3> QED BY <2>2, <3>2
  <2>10. TierExact'
    <3> SUFFICES ASSUME excused' = {} PROVE due' = walk'.found
      BY DEF TierExact
    <3>1. \A j \in at : Value(s.args[j]) = "data" <=> ExprTaint(R, Fresh, TRUE, s.args[j])
      BY <2>5, <2>6, <2>7
    <3> QED BY <2>1, <2>2, <3>1
  <2> QED BY <2>8, <2>9, <2>10 DEF Judged
<1> QED BY <1>1, <1>2, <1>3

-----------------------------------------------------------------------------
(***************************************************************************)
(* The theorems.                                                           *)
(***************************************************************************)
\* The branches the run is in are those of the functions it is in.
Branch ==
  [depth : Nat, kind : {"if", "else", "loop", "try"}, owes : {"any", "return", "none"}, open : BOOLEAN,
   env : Seq(Frames), links : Lineage]
BranchInv == branches \in Seq(Branch) /\ \A i \in DOMAIN branches : branches[i].depth \in DOMAIN env \ {1}

LEMMA Inside == RunType /\ BranchInv /\ InBranch => Depth > 1 /\ Len(branches) \in DOMAIN branches /\ Inner \in Branch
<1> SUFFICES ASSUME RunType, BranchInv, InBranch PROVE Depth > 1 /\ Len(branches) \in DOMAIN branches /\ Inner \in Branch
  OBVIOUS
<1>1. branches \in Seq(Branch) /\ branches # <<>> /\ Inner.depth = Depth
  BY DEF BranchInv, InBranch
<1>2. Len(branches) \in Nat \ {0} /\ DOMAIN branches = 1..Len(branches) /\ Len(branches) \in 1..Len(branches)
  BY <1>1, EmptySeq
<1>3. Inner \in Branch
  BY <1>1, <1>2, ElementOfSeq DEF Inner
<1>4. Inner.depth \in 1..Depth /\ Inner.depth # 1 /\ Depth \in Nat
  BY <1>2, DepthIs DEF BranchInv, Inner
<1> QED BY <1>1, <1>2, <1>3, <1>4

\* Every step keeps the invariant and is judged rightly.
LEMMA StepHolds == ReachInv /\ Judged /\ BranchInv /\ [ReachNext]_vars => ReachInv' /\ Judged'
<1> SUFFICES ASSUME ReachInv, Judged, BranchInv, [ReachNext]_vars PROVE ReachInv' /\ Judged'
  OBVIOUS
<1> TypeInv /\ rule \in RuleNames
  BY DEF ReachInv, TypeInv, LoopType
<1> USE DEF Kinds, WalkedThrough
<1>1. CASE ExtractRound
  <2>1. Judged'
    BY <1>1 DEF ExtractRound, Judged, NoMissedFlow, NoFalseAlarm, TierExact
  <2> QED BY <1>1, <2>1, ExtractKeeps
<1>2. CASE Declare
  <2>1. PICK n \in Names \ DOMAIN Here, e \in Readable : Depth > 1 /\ Walk([kind |-> "declare", name |-> n, expr |-> e])
    BY <1>2 DEF Declare
  <2> DEFINE s == [kind |-> "declare", name |-> n, expr |-> e]
  <2>2. s.name \in Names /\ s.expr \in Expressions /\ s.kind = "declare" /\ Walk(s)
    BY <2>1, ReadableIs
  <2> HIDE DEF s
  <2>3. Judged'
    BY <2>2, QuietIsJudged
  <2> QED BY <2>1, <2>3, DeclareKeeps
<1>3. CASE DestructureObject
  <2>1. PICK n \in Names \ DOMAIN Here, e \in Readable : Depth > 1 /\ Walk([kind |-> "destructure", name |-> n, expr |-> e])
    BY <1>3 DEF DestructureObject
  <2> DEFINE s == [kind |-> "destructure", name |-> n, expr |-> e]
  <2>2. s.name \in Names /\ s.expr \in Expressions /\ s.kind = "destructure" /\ Walk(s)
    BY <2>1, ReadableIs
  <2> HIDE DEF s
  <2>3. Judged'
    BY <2>2, QuietIsJudged
  <2> QED BY <2>1, <2>3, DestructureKeeps
<1>4. CASE AssignVariable
  <2>1. PICK how \in {"assign", "append", "default", "field"}, n \in Names, e \in Readable :
          Bound(n) /\ Walk([kind |-> how, name |-> n, expr |-> e])
    BY <1>4 DEF AssignVariable
  <2> DEFINE s == [kind |-> how, name |-> n, expr |-> e]
  <2>2. s.name \in Names /\ s.expr \in Expressions /\ s.kind \in {"assign", "append", "default", "field"} /\ Walk(s)
    BY <2>1, ReadableIs
  <2> HIDE DEF s
  <2>3. Judged'
    BY <2>2, QuietIsJudged
  <2>4. CASE how = "field"
    BY <2>1, <2>3, <2>4, FieldKeeps
  <2>5. CASE how # "field"
    BY <2>1, <2>3, <2>5, AssignKeeps
  <2> QED BY <2>4, <2>5
<1>5. CASE CallSink
  <2>1. PICK place \in Positions[rule], e \in Readable : Depth > 1 /\ Walk([kind |-> "sink", at |-> place, expr |-> e])
    BY <1>5 DEF CallSink
  <2> DEFINE s == [kind |-> "sink", at |-> place, expr |-> e]
  <2>2. s.kind = "sink" /\ s.expr \in Expressions /\ Walk(s) /\ Depth > 1
    BY <2>1, ReadableIs
  <2> HIDE DEF s
  <2>3. Judged'
    <3>1. walk.asleep \in Nat
      BY FreshIs
    <3> QED BY <2>2, <3>1, SinkIsJudged, AsleepIsJudged
  <2> QED BY <2>2, <2>3, PassKeeps
<1>6. CASE CallFunction
  <2>0. PICK f \in DOMAIN project : \E args \in [DOMAIN project[f].params -> Simple] :
          Depth > 1 /\ Walk([kind |-> "call", callee |-> f, args |-> args])
    BY <1>6 DEF CallFunction
  <2>1. PICK args \in [DOMAIN project[f].params -> Simple] :
          Depth > 1 /\ Walk([kind |-> "call", callee |-> f, args |-> args])
    BY <2>0
  <2> DEFINE s == [kind |-> "call", callee |-> f, args |-> args]
  <2>2. \A i \in DOMAIN args : args[i] \in Expressions
    BY ReadableIs DEF Simple
  <2>3. s.kind = "call" /\ Walk(s) /\ Depth > 1 /\ \A i \in DOMAIN s.args : s.args[i] \in Expressions
    BY <2>1, <2>2
  <2> HIDE DEF s
  <2>4. s.kind # "sink"
    BY <2>3
  <2> QED BY <2>3, <2>4, PassKeeps, CallIsJudged
<1>7. CASE If
  <2>1. PICK test \in {"plain", "accepting", "rejecting"}, n \in Names, returns \in BOOLEAN :
          Depth > 1 /\ Bound(n) /\ Walk([kind |-> "if", test |-> test, on |-> n, returns |-> returns])
    BY <1>7 DEF If
  <2> DEFINE s == [kind |-> "if", test |-> test, on |-> n, returns |-> returns]
  <2>2. s.kind = "if" /\ Walk(s) /\ s.on \in Names /\ Bound(s.on)
    BY <2>1
  <2> HIDE DEF s
  <2>3. Judged'
    BY <2>2, QuietIsJudged DEF Writes, Assigns, Declares, Combines
  <2> QED BY <2>2, <2>3, IfKeeps
<1>8. CASE LoopOrTry
  <2>1. PICK kind \in {"loop", "try"} : Depth > 1 /\ Walk([kind |-> kind])
    BY <1>8 DEF LoopOrTry
  <2> DEFINE s == [kind |-> kind]
  <2>2. s.kind \in {"loop", "try"} /\ Walk(s)
    BY <2>1
  <2> HIDE DEF s
  <2>3. Judged'
    BY <2>2, QuietIsJudged DEF Writes, Assigns, Declares, Combines
  <2> QED BY <2>1, <2>2, <2>3, PassKeeps
<1>9. CASE Each
  <2>1. PICK n \in Names \ DOMAIN Here, e \in Simple : Depth > 1 /\ Walk([kind |-> "each", name |-> n, expr |-> e])
    BY <1>9, Inside DEF Each, ReachInv, TypeInv
  <2> DEFINE s == [kind |-> "each", name |-> n, expr |-> e]
  <2>2. s.name \in Names /\ s.expr \in Expressions /\ s.kind = "each" /\ Walk(s) /\ e \in Readable
    BY <2>1, ReadableIs DEF Simple
  <2> HIDE DEF s
  <2>3. Judged'
    BY <2>2, QuietIsJudged
  <2> QED BY <2>1, <2>2, <2>3, EachKeeps
<1>10. CASE Jump
  <2>1. PICK how \in {"return", "throw", "break"} : Depth > 1 /\ Walk([kind |-> "jump", how |-> how])
    BY <1>10, Inside DEF Jump, ReachInv, TypeInv
  <2> DEFINE s == [kind |-> "jump", how |-> how]
  <2>2. s.kind = "jump" /\ Walk(s)
    BY <2>1
  <2> HIDE DEF s
  <2>3. Judged'
    BY <2>2, QuietIsJudged DEF Writes, Assigns, Declares, Combines
  <2> QED BY <2>1, <2>2, <2>3, PassKeeps
<1>11. CASE Else \/ Close
  <2>1. PICK kind \in {"else", "close"} : Depth > 1 /\ Walk([kind |-> kind])
    BY <1>11, Inside DEF Else, Close, Settled, ReachInv, TypeInv
  <2> DEFINE s == [kind |-> kind]
  <2>2. s.kind \in {"else", "close"} /\ Walk(s)
    BY <2>1
  <2> HIDE DEF s
  <2>3. Judged'
    BY <2>2, QuietIsJudged DEF Writes, Assigns, Declares, Combines
  <2> QED BY <2>1, <2>2, <2>3, MergeKeeps
<1>12. CASE Function
  <2>1. PICK params \in SUBSET Names : Depth = 1 /\ Walk([kind |-> "function", decorated |-> params])
    BY <1>12 DEF Function
  <2> DEFINE s == [kind |-> "function", decorated |-> params]
  <2>2. s.kind = "function" /\ Walk(s) /\ s.decorated \subseteq Names
    BY <2>1
  <2> HIDE DEF s
  <2>3. Judged'
    BY <2>2, QuietIsJudged DEF Writes, Assigns, Declares, Combines
  <2> QED BY <2>1, <2>3, FunctionKeeps
<1>13. CASE Callback
  <2>1. Walk([kind |-> "arrow"])
    BY <1>13 DEF Callback
  <2> DEFINE s == [kind |-> "arrow"]
  <2>2. s.kind = "arrow" /\ Walk(s)
    BY <2>1
  <2> HIDE DEF s
  <2>3. Judged'
    BY <2>2, QuietIsJudged DEF Writes, Assigns, Declares, Combines
  <2> QED BY <2>1, <2>3, CallbackKeeps
<1>14. CASE Leave
  <2>1. Depth > 1 /\ Walk([kind |-> "exit"])
    BY <1>14 DEF Leave
  <2> DEFINE s == [kind |-> "exit"]
  <2>2. s.kind = "exit" /\ Walk(s)
    BY <2>1
  <2> HIDE DEF s
  <2>3. Judged'
    BY <2>2, QuietIsJudged DEF Writes, Assigns, Declares, Combines
  <2> QED BY <2>1, <2>3, LeaveKeeps
<1>15. CASE UNCHANGED vars
  <2>1. UNCHANGED loop /\ walk' = walk /\ env' = env /\ links' = links /\ due' = due /\ excused' = excused /\ R' = R
    BY <1>15 DEF vars, loop, course, R
  <2>2. Judged'
    BY <2>1 DEF Judged, NoMissedFlow, NoFalseAlarm, TierExact
  <2>3. TypeInv'
    <3>1. LoopType /\ WalkType /\ RunType
      BY DEF ReachInv, TypeInv
    <3>2. LoopType'
      BY <2>1, <3>1, LoopKeeps
    <3>3. WalkType'
      BY <2>1, <3>1 DEF WalkType, loop
    <3>4. RunType'
      BY <2>1, <3>1 DEF RunType
    <3> QED BY <3>2, <3>3, <3>4 DEF TypeInv
  <2>4. MissInv' /\ CryInv'
    BY <2>1 DEF ReachInv, MissInv, CryInv, Caught, Linked, Founded, Noted, Has, Owns
  <2>5. TierInv'
    BY <2>1 DEF ReachInv, TierInv, Hosted, Has, Owns, loop
  <2> QED BY <2>2, <2>3, <2>4, <2>5 DEF ReachInv
<1> QED BY <1>1, <1>2, <1>3, <1>4, <1>5, <1>6, <1>7, <1>8, <1>9, <1>10, <1>11, <1>12, <1>13, <1>14, <1>15 DEF ReachNext

\* A branch changed by a jump or an else is a branch of the same function.
LEMMA BranchIs ==
  ASSUME RunType, NEW b \in Branch
  PROVE  /\ Reached(b) \in Branch /\ Reached(b).depth = b.depth
         /\ [b EXCEPT !.owes = "any"] \in Branch /\ [b EXCEPT !.owes = "any"].depth = b.depth
         /\ \A open \in BOOLEAN :
              LET turned == [b EXCEPT !.owes = "any", !.kind = "else", !.open = open, !.env = Met({env}, b), !.links = links]
              IN  turned \in Branch /\ turned.depth = b.depth
<1>1. Met({env, b.env}, b) \in Seq(Frames) /\ Met({env}, b) \in Seq(Frames) /\ Agreed(b) \in Lineage /\ links \in Lineage
  BY MetIs, AgreedIs DEF RunType
<1>2. Reached(b) \in Branch /\ Reached(b).depth = b.depth
  BY <1>1 DEF Reached, Branch
<1>3. [b EXCEPT !.owes = "any"] \in Branch /\ [b EXCEPT !.owes = "any"].depth = b.depth
  BY DEF Branch
<1>4. ASSUME NEW open \in BOOLEAN
      PROVE  LET turned == [b EXCEPT !.owes = "any", !.kind = "else", !.open = open, !.env = Met({env}, b), !.links = links]
             IN  turned \in Branch /\ turned.depth = b.depth
  BY <1>1 DEF Branch
<1> QED BY <1>2, <1>3, <1>4

LEMMA Replaced ==
  ASSUME BranchInv, NEW i \in DOMAIN branches, NEW b \in Branch, b.depth = branches[i].depth
  PROVE  LET after == [branches EXCEPT ![i] = b]
         IN  after \in Seq(Branch) /\ DOMAIN after = DOMAIN branches /\ \A j \in DOMAIN branches : after[j].depth = branches[j].depth
<1>1. branches \in Seq(Branch)
  BY DEF BranchInv
<1> QED BY <1>1

LEMMA Jumps ==
  ASSUME RunType, BranchInv, InBranch, NEW how
  PROVE  /\ Jumped(how) \in Seq(Branch) /\ DOMAIN Jumped(how) = DOMAIN branches
         /\ \A j \in DOMAIN branches : Jumped(how)[j].depth = branches[j].depth
<1> DEFINE left == [branches EXCEPT ![Len(branches)].owes = IF how = "break" THEN @ ELSE "any"]
<1> DEFINE last == IF how = "break" THEN Inner ELSE [Inner EXCEPT !.owes = "any"]
<1>1. Len(branches) \in DOMAIN branches /\ Inner \in Branch /\ Inner = branches[Len(branches)]
  BY Inside DEF Inner
<1>2. last \in Branch /\ last.depth = Inner.depth
  BY <1>1, BranchIs
<1>3. left = [branches EXCEPT ![Len(branches)] = last]
  <2>1. CASE how = "break"
    BY <1>1, <2>1 DEF Branch
  <2>2. CASE how # "break"
    BY <1>1, <2>2
  <2> QED BY <2>1, <2>2
<1> HIDE DEF last
<1>4. left \in Seq(Branch) /\ DOMAIN left = DOMAIN branches /\ \A j \in DOMAIN branches : left[j].depth = branches[j].depth
  <2> HIDE DEF left
  <2> QED BY <1>1, <1>2, <1>3, Replaced
<1>5. CASE Catching(how) = {}
  BY <1>4, <1>5 DEF Jumped
<1>6. CASE Catching(how) # {}
  <2> DEFINE k == Max(Catching(how))
  <2>1. Catching(how) \subseteq DOMAIN branches /\ DOMAIN branches = 1..Len(branches) /\ Len(branches) \in Nat
    BY DEF Catching, BranchInv
  <2>2. k \in DOMAIN branches
    <3>1. Catching(how) \subseteq 0..Len(branches)
      BY <2>1
    <3> QED BY <1>6, <2>1, <3>1, Largest
  <2>3. Jumped(how) = [left EXCEPT ![k] = Reached(left[k])]
    BY <1>4, <1>6, <2>2 DEF Jumped
  <2> HIDE DEF k, left
  <2>4. left[k] \in Branch
    BY <1>4, <2>1, <2>2, ElementOfSeq
  <2>5. Reached(left[k]) \in Branch /\ Reached(left[k]).depth = left[k].depth
    BY <2>4, BranchIs
  <2> DEFINE b == Reached(left[k])
  <2>6. b \in Branch /\ b.depth = left[k].depth /\ Jumped(how) = [left EXCEPT ![k] = b]
    BY <2>3, <2>5
  <2> HIDE DEF b
  <2> QED BY <1>4, <2>2, <2>6
<1> QED BY <1>5, <1>6

LEMMA BranchesKeep ==
  ASSUME RunType, BranchInv, NEW s, Walk(s),
         s.kind \in {"if", "loop", "try"} => Depth > 1,
         s.kind \in {"jump", "else", "close"} => InBranch,
         s.kind = "exit" => \A i \in DOMAIN branches : branches[i].depth < Depth
  PROVE  BranchInv'
<1>1. env' = After(s) /\ branches' = BranchesAfter(s)
  BY DEF Walk
<1>2. Depth \in Nat \ {0} /\ DOMAIN env = 1..Depth /\ env \in Seq(Frames) /\ env # <<>> /\ Len(env) = Depth
  BY DepthIs DEF RunType
<1>3. branches \in Seq(Branch) /\ \A i \in DOMAIN branches : branches[i].depth \in DOMAIN env \ {1}
  BY DEF BranchInv
<1>4. s.kind \notin {"function", "arrow", "exit"} => DOMAIN env' = DOMAIN env
  <2>1. \A names : DOMAIN Marked(names, "nothing") = DOMAIN env /\ DOMAIN Marked(names, "lost") = DOMAIN env
    BY DEF Marked
  <2>2. DOMAIN Consequent(s) = DOMAIN env
    BY <2>1 DEF Consequent
  <2>3. \A ways : DOMAIN Met(ways, Inner) = DOMAIN env
    BY DEF Met
  <2>4. \A d, n, v : DOMAIN Put(d, n, v) = DOMAIN env
    BY DEF Put
  <2> QED BY <1>1, <2>2, <2>3, <2>4 DEF After
<1>5. s.kind \in {"function", "arrow"} => DOMAIN env \subseteq DOMAIN env'
  <2>1. \A f : DOMAIN env \subseteq DOMAIN Append(env, f)
    BY <1>2
  <2> QED BY <1>1, <2>1 DEF After
<1>6. s.kind = "exit" => DOMAIN env' = 1..Depth - 1
  BY <1>1, <1>2, FrontOf DEF After
<1>7. CASE s.kind = "exit"
  <2>1. branches' = branches
    BY <1>1, <1>7 DEF BranchesAfter
  <2>2. \A i \in DOMAIN branches : branches[i].depth \in DOMAIN env' \ {1}
    BY <1>2, <1>3, <1>6, <1>7
  <2> QED BY <1>3, <2>1, <2>2 DEF BranchInv
<1>8. CASE s.kind \in {"if", "loop", "try"}
  <2>1. Alternate(s) \in Seq(Frames)
    BY <1>2, MarkedIs DEF Alternate
  <2>2. Owes(s) \in {"any", "return", "none"}
    BY DEF Owes
  <2>3. PICK owes \in {"any", "return", "none"}, elsewhere \in Seq(Frames) : branches' = Opened(s.kind, owes, elsewhere)
    BY <1>1, <1>2, <1>8, <2>1, <2>2 DEF BranchesAfter
  <2> DEFINE b == [depth |-> Depth, kind |-> s.kind, owes |-> owes, open |-> TRUE, env |-> elsewhere, links |-> links]
  <2>4. b \in Branch /\ b.depth = Depth
    BY <1>2, <1>8 DEF Branch, RunType
  <2>5. branches' = Append(branches, b)
    BY <2>3 DEF Opened
  <2> HIDE DEF b
  <2>6. branches' \in Seq(Branch) /\ \A i \in DOMAIN branches' : branches'[i] = b \/ (i \in DOMAIN branches /\ branches'[i] = branches[i])
    BY <1>3, <2>4, <2>5
  <2>7. Depth \in DOMAIN env \ {1}
    BY <1>2, <1>8
  <2> QED BY <1>3, <1>4, <1>8, <2>4, <2>6, <2>7 DEF BranchInv
<1>9. CASE s.kind = "else"
  <2>1. Len(branches) \in DOMAIN branches /\ Inner \in Branch /\ Inner = branches[Len(branches)]
    BY <1>9, Inside DEF Inner
  <2>2. Turned \in Branch /\ Turned.depth = Inner.depth
    BY <2>1, BranchIs DEF Turned
  <2>3. branches' = [branches EXCEPT ![Len(branches)] = Turned]
    BY <1>1, <1>9 DEF BranchesAfter
  <2>4. branches' \in Seq(Branch) /\ DOMAIN branches' = DOMAIN branches /\ \A j \in DOMAIN branches : branches'[j].depth = branches[j].depth
    BY <2>1, <2>2, <2>3, Replaced
  <2> QED BY <1>3, <1>4, <1>9, <2>4 DEF BranchInv
<1>10. CASE s.kind = "jump"
  <2>1. branches' = Jumped(s.how)
    BY <1>1, <1>10 DEF BranchesAfter
  <2>2. branches' \in Seq(Branch) /\ DOMAIN branches' = DOMAIN branches /\ \A j \in DOMAIN branches : branches'[j].depth = branches[j].depth
    BY <1>10, <2>1, Jumps
  <2> QED BY <1>3, <1>4, <1>10, <2>2 DEF BranchInv
<1>11. CASE s.kind = "close"
  <2>1. branches' = Front(branches) /\ branches # <<>>
    BY <1>1, <1>11 DEF BranchesAfter, InBranch
  <2> DEFINE k == Len(branches)
  <2>2. k \in Nat \ {0} /\ DOMAIN branches = 1..k
    BY <1>3, <2>1, EmptySeq
  <2>3. /\ Front(branches) \in Seq(Branch) /\ DOMAIN Front(branches) = 1..k - 1
        /\ \A i \in 1..k - 1 : Front(branches)[i] = branches[i]
    BY <1>3, <2>1, FrontOf
  <2>4. \A i \in 1..k - 1 : i \in 1..k
    BY <2>2
  <2>5. branches' \in Seq(Branch) /\ \A i \in DOMAIN branches' : i \in DOMAIN branches /\ branches'[i] = branches[i]
    BY <2>1, <2>2, <2>3, <2>4
  <2> QED BY <1>3, <1>4, <1>11, <2>5 DEF BranchInv
<1>12. CASE s.kind \notin {"exit", "if", "loop", "try", "else", "jump", "close"}
  <2>1. branches' = branches
    BY <1>1, <1>12 DEF BranchesAfter
  <2> QED BY <1>3, <1>4, <1>5, <1>12, <2>1 DEF BranchInv
<1> QED BY <1>7, <1>8, <1>9, <1>10, <1>11, <1>12

LEMMA BranchesStep == RunType /\ BranchInv /\ [ReachNext]_vars => BranchInv'
<1> SUFFICES ASSUME RunType, BranchInv, [ReachNext]_vars PROVE BranchInv'
  OBVIOUS
<1>1. CASE ExtractRound \/ UNCHANGED vars
  BY <1>1 DEF ExtractRound, vars, course, BranchInv
<1>2. CASE If
  BY <1>2, BranchesKeep DEF If
<1>3. CASE LoopOrTry
  BY <1>3, BranchesKeep DEF LoopOrTry
<1>4. CASE Jump
  BY <1>4, BranchesKeep DEF Jump
<1>5. CASE Else \/ Close
  BY <1>5, BranchesKeep DEF Else, Close, Settled
<1>6. CASE Leave
  BY <1>6, BranchesKeep DEF Leave
<1>7. CASE Declare \/ DestructureObject \/ AssignVariable \/ Each
  BY <1>7, BranchesKeep DEF Declare, DestructureObject, AssignVariable, Each
<1>8. CASE CallSink \/ CallFunction
  BY <1>8, BranchesKeep DEF CallSink, CallFunction
<1>9. CASE Function \/ Callback
  BY <1>9, BranchesKeep DEF Function, Callback
<1> QED BY <1>1, <1>2, <1>3, <1>4, <1>5, <1>6, <1>7, <1>8, <1>9 DEF ReachNext

LEMMA AlwaysJudged == ReachSpec => [](ReachInv /\ Judged /\ BranchInv)
<1>1. ReachInit => ReachInv /\ Judged /\ BranchInv
  <2>1. ReachInit => Judged
    BY DEF ReachInit, NewVisitor, Judged, NoMissedFlow, NoFalseAlarm, TierExact
  <2>2. ReachInit => BranchInv
    BY DEF ReachInit, BranchInv
  <2> QED BY <2>1, <2>2, InitHolds
<1>2. ReachInv /\ Judged /\ BranchInv /\ [ReachNext]_vars => (ReachInv /\ Judged /\ BranchInv)'
  BY StepHolds, BranchesStep DEF ReachInv, TypeInv
<1> QED BY <1>1, <1>2, PTL DEF ReachSpec

\* The visitor is always in as many functions as the run, or has said how many
\* it did not follow; names are names, the excuses the four there are, and no
\* function is left with a branch open.
THEOREM WalkKeepsStep == ReachSpec => []ReachTypeOK
<1>1. ReachInv /\ BranchInv => ReachTypeOK
  <2> SUFFICES ASSUME ReachInv, BranchInv PROVE ReachTypeOK
    OBVIOUS
  <2>1. LoopType /\ WalkType /\ RunType
    BY DEF ReachInv, TypeInv
  <2>2. DOMAIN walk.urlInits \subseteq Names /\ walk.safeHosts \subseteq Names
    BY <2>1, MapsAre DEF WalkType, Visitor, Inits
  <2>3. UNION Range(walk.scopes) \subseteq Names
    BY <2>1, TopIs DEF WalkType, Range
  <2>4. \A i \in DOMAIN branches : branches[i].depth \in 2..Len(env)
    BY <2>1, DepthIs DEF BranchInv
  <2> QED BY <2>1, <2>2, <2>3, <2>4 DEF ReachTypeOK, LoopType, WalkType, RunType
<1> QED BY <1>1, AlwaysJudged, PTL

\* Data that gets to a sink is reported, whatever the rule, the forms, the
\* names and the branches, loops and functions one in another, unless a
\* shortcut that loses it was taken.
THEOREM EveryFlowIsReported == ReachSpec => []NoMissedFlow
<1>1. Judged => NoMissedFlow
  BY DEF Judged
<1> QED BY <1>1, AlwaysJudged, PTL

\* What is reported got there on some way through the branches before it,
\* unless a shortcut that invents was taken.
THEOREM EveryReportIsAFlow == ReachSpec => []NoFalseAlarm
<1>1. Judged => NoFalseAlarm
  BY DEF Judged
<1> QED BY <1>1, AlwaysJudged, PTL

\* And at the severity it deserves, where no shortcut was taken at all.
THEOREM SeveritiesAreExact == ReachSpec => []TierExact
<1>1. Judged => TierExact
  BY DEF Judged
<1> QED BY <1>1, AlwaysJudged, PTL

-----------------------------------------------------------------------------
(***************************************************************************)
(* More rounds, more flags.                                                *)
(***************************************************************************)
\* Two visitors that differ only in what they reported, the second not less.
State(scopes, urlInits, safeHosts, asleep, found) ==
  [scopes |-> scopes, urlInits |-> urlInits, safeHosts |-> safeHosts, asleep |-> asleep, found |-> found]
Alike(w1, w2) ==
  /\ w1 = State(w1.scopes, w1.urlInits, w1.safeHosts, w1.asleep, w1.found)
  /\ w2 = State(w1.scopes, w1.urlInits, w1.safeHosts, w1.asleep, w2.found)
  /\ w1.found # {} => w2.found # {}

LEMMA AlikeBy ==
  ASSUME NEW w1, NEW w2, NEW a, NEW b, NEW c, NEW d, NEW F, NEW G,
         w1 = State(a, b, c, d, F), w2 = State(a, b, c, d, G), F # {} => G # {}
  PROVE  Alike(w1, w2)
BY DEF State, Alike

LEMMA AlikeSees ==
  ASSUME NEW w1, NEW w2, Alike(w1, w2)
  PROVE  /\ w2.scopes = w1.scopes /\ w2.urlInits = w1.urlInits /\ w2.safeHosts = w1.safeHosts /\ w2.asleep = w1.asleep
         /\ \A n : IsTainted(w2, n) <=> IsTainted(w1, n)
         /\ \A r, active, e : ExprTaint(r, w2, active, e) <=> ExprTaint(r, w1, active, e)
         /\ \A e : IsSafeHost(w2, e) <=> IsSafeHost(w1, e)
         /\ \A e : IsHostPinned(w2, e) <=> IsHostPinned(w1, e)
<1>1. w2.scopes = w1.scopes /\ w2.urlInits = w1.urlInits /\ w2.safeHosts = w1.safeHosts /\ w2.asleep = w1.asleep
  BY DEF Alike, State
<1>2. \A n : IsTainted(w2, n) <=> IsTainted(w1, n)
  BY <1>1 DEF IsTainted
<1>3. \A r, active, e : ExprTaint(r, w2, active, e) <=> ExprTaint(r, w1, active, e)
  BY <1>2 DEF ExprTaint
<1>4. \A e : IsSafeHost(w2, e) <=> IsSafeHost(w1, e)
  BY <1>1 DEF IsSafeHost
<1>5. \A e : IsHostPinned(w2, e) <=> IsHostPinned(w1, e)
  BY <1>1 DEF IsHostPinned
<1> QED BY <1>1, <1>2, <1>3, <1>4, <1>5

\* What is put into one field of both, but for the reports.
LEMMA AlikeFields ==
  ASSUME NEW w1, NEW w2, Alike(w1, w2), NEW v, NEW u, NEW h
  PROVE  /\ Alike([w1 EXCEPT !.scopes[v] = u], [w2 EXCEPT !.scopes[v] = u])
         /\ Alike([w1 EXCEPT !.urlInits = v], [w2 EXCEPT !.urlInits = v])
         /\ Alike([w1 EXCEPT !.safeHosts = v], [w2 EXCEPT !.safeHosts = v])
         /\ Alike([w1 EXCEPT !.asleep = v], [w2 EXCEPT !.asleep = v])
         /\ Alike([w1 EXCEPT !.scopes = v], [w2 EXCEPT !.scopes = v])
         /\ Alike([w1 EXCEPT !.scopes = v, !.urlInits = u, !.safeHosts = h], [w2 EXCEPT !.scopes = v, !.urlInits = u, !.safeHosts = h])
<1>1. Alike([w1 EXCEPT !.scopes[v] = u], [w2 EXCEPT !.scopes[v] = u])
  BY DEF Alike, State
<1>2. Alike([w1 EXCEPT !.urlInits = v], [w2 EXCEPT !.urlInits = v])
  BY DEF Alike, State
<1>3. Alike([w1 EXCEPT !.safeHosts = v], [w2 EXCEPT !.safeHosts = v])
  BY DEF Alike, State
<1>4. Alike([w1 EXCEPT !.asleep = v], [w2 EXCEPT !.asleep = v])
  BY DEF Alike, State
<1>5. Alike([w1 EXCEPT !.scopes = v], [w2 EXCEPT !.scopes = v])
  BY DEF Alike, State
<1>6. Alike([w1 EXCEPT !.scopes = v, !.urlInits = u, !.safeHosts = h], [w2 EXCEPT !.scopes = v, !.urlInits = u, !.safeHosts = h])
  <2> DEFINE put(w) == [w EXCEPT !.scopes = v, !.urlInits = u, !.safeHosts = h]
  <2>1. \A a, b, c, d, F : put(State(a, b, c, d, F)) = State(v, u, h, d, F)
    <3> TAKE a, b, c, d, F
    <3> DEFINE x == State(a, b, c, d, F)
               y == State(v, u, h, d, F)
    <3>1. DOMAIN put(x) = DOMAIN y
      BY DEF State
    <3>2. put(x).scopes = v /\ put(x).urlInits = u /\ put(x).safeHosts = h /\ put(x).asleep = d /\ put(x).found = F
      BY DEF State
    <3>3. y.scopes = v /\ y.urlInits = u /\ y.safeHosts = h /\ y.asleep = d /\ y.found = F
          /\ DOMAIN y = {"scopes", "urlInits", "safeHosts", "asleep", "found"}
      BY DEF State
    <3>4. \A i \in DOMAIN y : put(x)[i] = y[i]
      BY <3>2, <3>3
    <3>5. put(x) = [i \in DOMAIN put(x) |-> put(x)[i]] /\ y = [i \in DOMAIN y |-> y[i]]
      BY DEF State
    <3> HIDE DEF put, x, y
    <3>6. put(x) = y
      BY <3>1, <3>4, <3>5
    <3> QED BY <3>6 DEF x, y
  <2>2. w1 = State(w1.scopes, w1.urlInits, w1.safeHosts, w1.asleep, w1.found) /\ (w1.found # {} => w2.found # {})
        /\ w2 = State(w1.scopes, w1.urlInits, w1.safeHosts, w1.asleep, w2.found)
    BY DEF Alike
  <2> HIDE DEF put
  <2>3. put(w1) = State(v, u, h, w1.asleep, w1.found) /\ put(w2) = State(v, u, h, w1.asleep, w2.found)
    BY <2>1, <2>2
  <2>4. Alike(put(w1), put(w2))
    BY <2>2, <2>3, AlikeBy
  <2> QED BY <2>4 DEF put
<1> QED BY <1>1, <1>2, <1>3, <1>4, <1>5, <1>6

LEMMA AlikeTaints ==
  ASSUME NEW w1, NEW w2, Alike(w1, w2), NEW n
  PROVE  Alike(Taint(w1, n), Taint(w2, n)) /\ Alike(Forget(w1, n), Forget(w2, n))
<1> DEFINE at == Len(w1.scopes)
           tainted(w) == [w EXCEPT !.scopes[at] = @ \cup {n}]
           clear(w) == [w EXCEPT !.scopes[at] = @ \ {n}]
<1>1. w2.scopes = w1.scopes
  BY AlikeSees
<1>2. Taint(w1, n) = tainted(w1) /\ Taint(w2, n) = tainted(w2) /\ Forget(w1, n) = clear(w1) /\ Forget(w2, n) = clear(w2)
  BY <1>1 DEF Taint, Forget
<1> HIDE DEF at
<1>3. Alike(tainted(w1), tainted(w2))
  BY <1>1, AlikeFields
<1>4. Alike(clear(w1), clear(w2))
  BY <1>1, AlikeFields
<1> HIDE DEF tainted, clear
<1> QED BY <1>2, <1>3, <1>4

LEMMA AlikeUntaint ==
  ASSUME NEW w1, NEW w2, Alike(w1, w2), NEW n
  PROVE  Alike(Untaint(w1, n), Untaint(w2, n))
<1>1. IsTainted(w2, n) <=> IsTainted(w1, n)
  BY AlikeSees
<1>2. CASE ~ IsTainted(w1, n)
  BY <1>1, <1>2 DEF Untaint
<1>3. CASE IsTainted(w1, n)
  <2> DEFINE at == Max({i \in DOMAIN w1.scopes : n \in w1.scopes[i]})
             clear(w) == [w EXCEPT !.scopes[at] = @ \ {n}]
  <2>1. Untaint(w1, n) = clear(w1)
    BY <1>3 DEF Untaint
  <2>2. Untaint(w2, n) = clear(w2)
    <3>1. w2.scopes = w1.scopes
      BY AlikeSees
    <3> QED BY <1>1, <1>3, <3>1 DEF Untaint
  <2> HIDE DEF at
  <2>3. Alike(clear(w1), clear(w2))
    BY DEF Alike, State
  <2> HIDE DEF clear
  <2> QED BY <2>1, <2>2, <2>3
<1> QED BY <1>2, <1>3

LEMMA AlikeEnters ==
  ASSUME NEW w1, NEW w2, Alike(w1, w2)
  PROVE  Alike(EnterFn(w1), EnterFn(w2)) /\ Alike(ExitFn(w1), ExitFn(w2))
<1>1. w2.scopes = w1.scopes
  BY AlikeSees
<1> DEFINE fresh(w, v, none) == [w EXCEPT !.scopes = v, !.urlInits = none, !.safeHosts = {}]
<1>2. \A v, none : Alike(fresh(w1, v, none), fresh(w2, v, none))
  BY AlikeFields
<1>3. \A w : EnterFn(w) = fresh(w, Append(w.scopes, {}), <<>>)
  BY DEF EnterFn
<1> HIDE DEF fresh
<1>4. Alike(EnterFn(w1), EnterFn(w2))
  BY <1>1, <1>2, <1>3
<1>5. \A v : Alike([w1 EXCEPT !.scopes = v], [w2 EXCEPT !.scopes = v])
  BY AlikeFields
<1>6. Alike(ExitFn(w1), ExitFn(w2))
  BY <1>1, <1>5 DEF ExitFn
<1> QED BY <1>4, <1>6

LEMMA AlikeDeclares ==
  ASSUME NEW w1, NEW w2, Alike(w1, w2), NEW r, NEW n, NEW e
  PROVE  /\ Alike(VarDecl(r, w1, FALSE, n, e), VarDecl(r, w2, FALSE, n, e))
         /\ Alike(Destructure(r, w1, FALSE, n, e), Destructure(r, w2, FALSE, n, e))
         /\ Alike(Assign(r, w1, FALSE, n, e), Assign(r, w2, FALSE, n, e))
<1>1. Alike(Taint(w1, n), Taint(w2, n)) /\ Alike(Forget(w1, n), Forget(w2, n))
  BY AlikeTaints
<1>2. ExprTaint(r, w2, FALSE, e) <=> ExprTaint(r, w1, FALSE, e)
  BY AlikeSees
<1>3. Alike(Destructure(r, w1, FALSE, n, e), Destructure(r, w2, FALSE, n, e))
  BY <1>1, <1>2 DEF Destructure
<1>4. Alike(Assign(r, w1, FALSE, n, e), Assign(r, w2, FALSE, n, e))
  BY <1>1, <1>2 DEF Assign
<1>5. Alike(VarDecl(r, w1, FALSE, n, e), VarDecl(r, w2, FALSE, n, e))
  <2> DEFINE linked(w) == IF r.guards /\ e.form = "newUrl" THEN [w EXCEPT !.urlInits = With(@, n, e.of)] ELSE w
             hosted(w) == IF r.tiers /\ IsSafeHost(w, e) THEN [linked(w) EXCEPT !.safeHosts = @ \cup {n}] ELSE linked(w)
  <2>1. Alike(linked(w1), linked(w2))
    BY DEF Alike, State
  <2>2. Alike(hosted(w1), hosted(w2))
    <3> HIDE DEF linked
    <3> DEFINE held(w) == [w EXCEPT !.safeHosts = @ \cup {n}]
    <3>1. \A v1, v2 : Alike(v1, v2) => Alike(held(v1), held(v2))
      BY DEF Alike, State
    <3> QED BY <2>1, <3>1, AlikeSees
  <2> HIDE DEF hosted
  <2>3. Alike(Taint(hosted(w1), n), Taint(hosted(w2), n))
    BY <2>2, AlikeTaints
  <2>4. \A w : VarDecl(r, w, FALSE, n, e) =
           IF ExprTaint(r, w, FALSE, e) /\ e.form \notin r.waives THEN Taint(hosted(w), n) ELSE hosted(w)
    BY DEF VarDecl, hosted
  <2>5. CASE ExprTaint(r, w1, FALSE, e) /\ e.form \notin r.waives
    <3>1. VarDecl(r, w1, FALSE, n, e) = Taint(hosted(w1), n)
      BY <2>4, <2>5
    <3>2. VarDecl(r, w2, FALSE, n, e) = Taint(hosted(w2), n)
      BY <1>2, <2>4, <2>5
    <3> QED BY <2>3, <3>1, <3>2
  <2>6. CASE ~ (ExprTaint(r, w1, FALSE, e) /\ e.form \notin r.waives)
    <3>1. VarDecl(r, w1, FALSE, n, e) = hosted(w1)
      BY <2>4, <2>6
    <3>2. VarDecl(r, w2, FALSE, n, e) = hosted(w2)
      BY <1>2, <2>4, <2>6
    <3> QED BY <2>2, <3>1, <3>2
  <2> QED BY <2>5, <2>6
<1> QED BY <1>3, <1>4, <1>5

\* What one index says reaches a sink, the other says too.
Below(ix1, ix2) == Reaching(ix1) \subseteq Reaching(ix2)
LEMMA BelowIs ==
  ASSUME NEW ix1, NEW ix2, Below(ix1, ix2), NEW f \in DOMAIN ix1, NEW i \in DOMAIN ix1[f], ix1[f][i].reaches
  PROVE  f \in DOMAIN ix2 /\ i \in DOMAIN ix2[f] /\ ix2[f][i].reaches
<1>1. <<f, i>> \in Reaching(ix1)
  BY DEF Reaching, Parameters
<1>2. <<f, i>> \in Reaching(ix2)
  BY <1>1 DEF Below
<1>3. PICK g \in DOMAIN ix2 : <<f, i>> \in {g} \X DOMAIN ix2[g]
  BY <1>2 DEF Reaching, Parameters
<1>4. g = f /\ i \in DOMAIN ix2[g]
  BY <1>3
<1>5. ix2[<<f, i>>[1]][<<f, i>>[2]].reaches
  BY <1>2 DEF Reaching
<1> QED BY <1>4, <1>5

LEMMA AlikeReports ==
  ASSUME NEW w1, NEW w2, Alike(w1, w2), NEW X1, NEW X2, X1 # {} => X2 # {}
  PROVE  Alike([w1 EXCEPT !.found = @ \cup X1], [w2 EXCEPT !.found = @ \cup X2])
BY DEF Alike, State

LEMMA AlikeSinks ==
  ASSUME NEW w1, NEW w2, Alike(w1, w2), NEW r, NEW at, NEW e
  PROVE  Alike(CheckSink(r, w1, FALSE, at, e), CheckSink(r, w2, FALSE, at, e))
<1>1. ExprTaint(r, w2, FALSE, e) <=> ExprTaint(r, w1, FALSE, e)
  BY AlikeSees
<1>2. \A v : Alike([w1 EXCEPT !.found = @ \cup {v}], [w2 EXCEPT !.found = @ \cup {v}])
  BY AlikeReports
<1>3. SinkSeverity(r, w1, e) = SinkSeverity(r, w2, e)
  BY AlikeSees DEF SinkSeverity
<1>4. Alike(Report(w1, SinkSeverity(r, w1, e)), Report(w2, SinkSeverity(r, w2, e)))
  BY <1>2, <1>3 DEF Report
<1> QED BY <1>1, <1>4 DEF CheckSink

LEMMA AlikeCalls ==
  ASSUME NEW w1, NEW w2, Alike(w1, w2), NEW r, NEW s, NEW ix1, NEW ix2, Below(ix1, ix2)
  PROVE  Alike(CheckCrossFileCall(r, w1, FALSE, ix1, s), CheckCrossFileCall(r, w2, FALSE, ix2, s))
<1> DEFINE X1 == CalleeSeverities(r, w1, FALSE, ix1, s)
           X2 == CalleeSeverities(r, w2, FALSE, ix2, s)
           hit(ix, w) == {j \in DOMAIN s.args \cap DOMAIN ix[s.callee] : ix[s.callee][j].reaches /\ ExprTaint(r, w, FALSE, s.args[j])}
<1>1. ASSUME X1 # {} PROVE X2 # {}
  <2>1. s.callee \in DOMAIN ix1 /\ \E j : j \in hit(ix1, w1)
    BY <1>1 DEF CalleeSeverities
  <2>2. PICK j : j \in hit(ix1, w1)
    BY <2>1
  <2>3. j \in DOMAIN s.args /\ j \in DOMAIN ix1[s.callee] /\ ix1[s.callee][j].reaches /\ ExprTaint(r, w1, FALSE, s.args[j])
    BY <2>2
  <2>4. s.callee \in DOMAIN ix2 /\ j \in DOMAIN ix2[s.callee] /\ ix2[s.callee][j].reaches
    BY <2>1, <2>3, BelowIs
  <2>5. ExprTaint(r, w2, FALSE, s.args[j])
    BY <2>3, AlikeSees
  <2>6. j \in hit(ix2, w2)
    BY <2>3, <2>4, <2>5
  <2>7. X2 = {IF ix2[s.callee][i].pinned THEN "medium" ELSE r.severity : i \in hit(ix2, w2)}
    BY <2>4 DEF CalleeSeverities
  <2> HIDE DEF hit, X2
  <2> QED BY <2>6, <2>7
<1> HIDE DEF X1, X2
<1>2. Alike([w1 EXCEPT !.found = @ \cup X1], [w2 EXCEPT !.found = @ \cup X2])
  BY <1>1, AlikeReports
<1> QED BY <1>2 DEF CheckCrossFileCall, X1, X2

LEMMA AlikeNarrows ==
  ASSUME NEW w1, NEW w2, Alike(w1, w2), NEW r, NEW s
  PROVE  Alike(Narrow(r, w1, s), Narrow(r, w2, s))
<1>1. w2.urlInits = w1.urlInits
  BY AlikeSees
<1>2. Alike(Untaint(Untaint(w1, w1.urlInits[s.on]), s.on), Untaint(Untaint(w2, w1.urlInits[s.on]), s.on))
  BY AlikeUntaint
<1> QED BY <1>1, <1>2 DEF Narrow

\* One statement keeps them so, under indexes one of which knows no less.
LEMMA AlikeVisits ==
  ASSUME NEW w1, NEW w2, Alike(w1, w2), NEW r, NEW s, s.kind \in Kinds, NEW ix1, NEW ix2, Below(ix1, ix2)
  PROVE  Alike(Visit(r, w1, FALSE, ix1, s), Visit(r, w2, FALSE, ix2, s))
<1>1. w2.scopes = w1.scopes /\ w2.asleep = w1.asleep
  BY AlikeSees
<1>2. \A v : Alike([w1 EXCEPT !.asleep = v], [w2 EXCEPT !.asleep = v])
  BY AlikeFields
<1>3. CASE w1.asleep > 0
  <2> DEFINE depth(w) == CASE s.kind = "arrow" -> w.asleep + 1 [] s.kind = "exit" -> w.asleep - 1 [] OTHER -> w.asleep
             slept(w, d) == [w EXCEPT !.asleep = d]
  <2>1. depth(w1) = depth(w2)
    BY <1>1
  <2>2. ASSUME NEW w, NEW ix, w.asleep > 0 PROVE Visit(r, w, FALSE, ix, s) = slept(w, depth(w))
    BY <2>2 DEF Visit
  <2>3. Visit(r, w1, FALSE, ix1, s) = slept(w1, depth(w1)) /\ Visit(r, w2, FALSE, ix2, s) = slept(w2, depth(w2))
    BY <1>1, <1>3, <2>2
  <2>4. \A d : Alike(slept(w1, d), slept(w2, d))
    BY <1>2
  <2> HIDE DEF depth, slept
  <2> QED BY <2>1, <2>3, <2>4
<1>4. CASE ~ (w1.asleep > 0)
  <2>1. ~ (w2.asleep > 0)
    BY <1>1, <1>4
  <2>2. CASE s.kind = "declare"
    BY <1>4, <2>1, <2>2, AlikeDeclares DEF Visit, WalkedThrough
  <2>3. CASE s.kind = "destructure"
    BY <1>4, <2>1, <2>3, AlikeDeclares DEF Visit, WalkedThrough
  <2>4. CASE s.kind \in {"assign", "append", "default"}
    <3>1. CASE s.kind = "assign"
      BY <1>4, <2>1, <3>1, AlikeDeclares DEF Visit, WalkedThrough
    <3>2. CASE s.kind = "append"
      BY <1>4, <2>1, <3>2, AlikeDeclares DEF Visit, WalkedThrough
    <3>3. CASE s.kind = "default"
      BY <1>4, <2>1, <3>3, AlikeDeclares DEF Visit, WalkedThrough
    <3> QED BY <2>4, <3>1, <3>2, <3>3
  <2>5. CASE s.kind = "sink"
    BY <1>4, <2>1, <2>5, AlikeSinks DEF Visit, WalkedThrough
  <2>6. CASE s.kind = "call"
    BY <1>4, <2>1, <2>6, AlikeCalls DEF Visit, WalkedThrough
  <2>7. CASE s.kind = "if"
    BY <1>4, <2>1, <2>7, AlikeNarrows DEF Visit, WalkedThrough
  <2>8. CASE s.kind = "function"
    <3>1. \A w : EnterFunction(r, w, FALSE, s) = EnterFn(w)
      BY DEF EnterFunction
    <3> QED BY <1>4, <2>1, <2>8, <3>1, AlikeEnters DEF Visit, WalkedThrough
  <2>9. CASE s.kind = "arrow"
    <3>1. CASE r.callbacks \/ Len(w1.scopes) = 1
      BY <1>1, <1>4, <2>1, <2>9, <3>1, AlikeEnters DEF Visit, WalkedThrough
    <3>2. CASE ~ (r.callbacks \/ Len(w1.scopes) = 1)
      <4>1. Visit(r, w1, FALSE, ix1, s) = [w1 EXCEPT !.asleep = 1] /\ Visit(r, w2, FALSE, ix2, s) = [w2 EXCEPT !.asleep = 1]
        BY <1>1, <1>4, <2>1, <2>9, <3>2 DEF Visit, WalkedThrough
      <4> QED BY <1>2, <4>1
    <3> QED BY <3>1, <3>2
  <2>10. CASE s.kind = "exit"
    BY <1>4, <2>1, <2>10, AlikeEnters DEF Visit, WalkedThrough
  <2>11. CASE s.kind \in WalkedThrough
    <3> DEFINE through == {"loop", "try", "else", "close", "jump", "each", "field"}
    <3>1. ASSUME NEW kind \in through, s.kind = kind, NEW w, NEW ix, ~ (w.asleep > 0)
          PROVE  Visit(r, w, FALSE, ix, s) = w
      <4>1. s.kind = "loop" => Visit(r, w, FALSE, ix, s) = w
        BY <3>1 DEF Visit, WalkedThrough
      <4>2. s.kind = "try" => Visit(r, w, FALSE, ix, s) = w
        BY <3>1 DEF Visit, WalkedThrough
      <4>3. s.kind = "else" => Visit(r, w, FALSE, ix, s) = w
        BY <3>1 DEF Visit, WalkedThrough
      <4>4. s.kind = "close" => Visit(r, w, FALSE, ix, s) = w
        BY <3>1 DEF Visit, WalkedThrough
      <4>5. s.kind = "jump" => Visit(r, w, FALSE, ix, s) = w
        BY <3>1 DEF Visit, WalkedThrough
      <4>6. s.kind = "each" => Visit(r, w, FALSE, ix, s) = w
        BY <3>1 DEF Visit, WalkedThrough
      <4>7. s.kind = "field" => Visit(r, w, FALSE, ix, s) = w
        BY <3>1 DEF Visit, WalkedThrough
      <4> QED BY <3>1, <4>1, <4>2, <4>3, <4>4, <4>5, <4>6, <4>7
    <3>2. s.kind \in through
      BY <2>11 DEF WalkedThrough
    <3> HIDE DEF through
    <3> QED BY <1>4, <2>1, <3>1, <3>2
  <2> QED BY <2>2, <2>3, <2>4, <2>5, <2>6, <2>7, <2>8, <2>9, <2>10, <2>11 DEF Kinds
<1> QED BY <1>3, <1>4

-----------------------------------------------------------------------------
\* Numbers have a least.
LEMMA LeastNumber ==
  ASSUME NEW T, T \subseteq Nat, T # {}
  PROVE  \E m \in T : \A n \in T : m <= n
<1>1. PICK m \in T : \A n \in T : ~ (<<n, m>> \in OpToRel(<, Nat))
  BY NatLessThanWellFounded, WFMin
<1>2. \A n \in T : ~ (n < m)
  BY <1>1 DEF OpToRel
<1> QED
  BY <1>2

\* The walk of a body, one statement after another: it is there.
Step(r, w, ix, s) == Visit(r, w, FALSE, ix, s)
Walked(g, r, ix, start, body, n) ==
  g = [k \in 0..n |-> IF k = 0 THEN start ELSE Step(r, g[k - 1], ix, body[k])]
LEMMA WalkIsThere ==
  ASSUME NEW r, NEW ix, NEW start, NEW body, NEW n \in Nat
  PROVE  \E g : Walked(g, r, ix, start, body, n)
<1> DEFINE Runs(m, g) == \A k \in 0..m : g[k] = IF k = 0 THEN start ELSE Step(r, g[k - 1], ix, body[k])
           Never(m) == \A g : ~ Runs(m, g)
           Stuck == {m \in 0..n : Never(m)}
<1>1. Stuck = {}
  <2> SUFFICES ASSUME Stuck # {} PROVE FALSE
    OBVIOUS
  <2>1. PICK m \in Stuck : \A k \in Stuck : m <= k
    <3>1. Stuck \subseteq Nat
      <4> HIDE DEF Never
      <4> QED OBVIOUS
    <3> HIDE DEF Stuck
    <3> QED BY <3>1, LeastNumber
  <2>2. m \in 0..n /\ \A g : ~ Runs(m, g)
    BY <2>1
  <2>3. CASE m = 0
    <3>1. Runs(0, [i \in 0..0 |-> start])
      OBVIOUS
    <3> QED BY <2>2, <2>3, <3>1
  <2>4. CASE m # 0
    <3>1. m - 1 \in 0..n /\ ~ (m <= m - 1) /\ m - 1 \in 0..(m - 1)
      BY <2>2, <2>4
    <3>2. m - 1 \notin Stuck
      <4> HIDE DEF Stuck
      <4> QED BY <2>1, <3>1
    <3>3. PICK g : Runs(m - 1, g)
      BY <3>1, <3>2
    <3> DEFINE next == Step(r, g[m - 1], ix, body[m])
               h == [i \in 0..m |-> IF i = m THEN next ELSE g[i]]
    <3>4. \A k \in 0..m : k = m \/ (k \in 0..(m - 1) /\ (k # 0 => k - 1 \in 0..(m - 1)))
      BY <2>2
    <3>5. ASSUME NEW k \in 0..m PROVE h[k] = IF k = 0 THEN start ELSE Step(r, h[k - 1], ix, body[k])
      <4>1. CASE k = m
        <5>1. h[m] = next /\ h[m - 1] = g[m - 1]
          <6> HIDE DEF next
          <6> QED BY <2>2, <3>1
        <5> QED BY <2>4, <4>1, <5>1
      <4>2. CASE k # m
        <5>1. k \in 0..(m - 1) /\ h[k] = g[k] /\ (k # 0 => k - 1 # m /\ k - 1 \in 0..m /\ h[k - 1] = g[k - 1])
          <6> HIDE DEF next
          <6> QED BY <2>2, <3>4, <4>2
        <5> QED BY <3>3, <5>1
      <4> QED BY <4>1, <4>2
    <3>6. Runs(m, h)
      <4> HIDE DEF h
      <4> QED BY <3>5
    <3> QED BY <2>2, <3>6
  <2> QED BY <2>3, <2>4
<1>2. n \in 0..n
  OBVIOUS
<1>3. PICK g : Runs(n, g)
  BY <1>1, <1>2
<1> DEFINE h == [k \in 0..n |-> g[k]]
<1>4. \A k \in 0..n : h[k] = IF k = 0 THEN start ELSE Step(r, h[k - 1], ix, body[k])
  <2> TAKE k \in 0..n
  <2>1. h[k] = g[k] /\ (k # 0 => k - 1 \in 0..n /\ h[k - 1] = g[k - 1])
    OBVIOUS
  <2> QED BY <1>3, <2>1
<1>5. h = [k \in 0..n |-> h[k]]
  OBVIOUS
<1> HIDE DEF h
<1>6. Walked(h, r, ix, start, body, n)
  BY <1>4, <1>5 DEF Walked
<1> QED BY <1>6

LEMMA WalkedIs ==
  ASSUME NEW g, NEW r, NEW ix, NEW start, NEW body, NEW n \in Nat, Walked(g, r, ix, start, body, n)
  PROVE  g[0] = start /\ \A k \in 1..n : g[k] = Step(r, g[k - 1], ix, body[k])
<1>1. \A k \in 0..n : g[k] = IF k = 0 THEN start ELSE Step(r, g[k - 1], ix, body[k])
  BY DEF Walked
<1>2. 0 \in 0..n /\ \A k \in 1..n : k \in 0..n /\ k # 0
  OBVIOUS
<1> QED BY <1>1, <1>2

\* A function that takes its parameter to a sink still does when more is
\* known of the functions it calls.
LEMMA MoreIsFound ==
  ASSUME NEW r, NEW f, NEW i, NEW ix1, NEW ix2, Below(ix1, ix2),
         Len(f.body) \in Nat, \A k \in 1..Len(f.body) : f.body[k].kind \in Kinds
  PROVE  Simulate(r, f, i, ix1).found # {} => Simulate(r, f, i, ix2).found # {}
<1> DEFINE n == Len(f.body)
           start == Taint(NewVisitor, f.params[i])
           g1 == CHOOSE g : Walked(g, r, ix1, start, f.body, n)
           g2 == CHOOSE g : Walked(g, r, ix2, start, f.body, n)
<1>1. n \in Nat
  OBVIOUS
<1>2. Simulate(r, f, i, ix1) = g1[n] /\ Simulate(r, f, i, ix2) = g2[n]
  BY DEF Simulate, Walked, Step
<1>3. Walked(g1, r, ix1, start, f.body, n) /\ Walked(g2, r, ix2, start, f.body, n)
  <2> HIDE DEF n, start
  <2> QED BY <1>1, WalkIsThere
<1>4. Alike(start, start)
  <2>1. NewVisitor = State(<<{}>>, <<>>, {}, 0, {})
    BY DEF NewVisitor, State
  <2>2. Alike(NewVisitor, NewVisitor)
    BY <2>1, AlikeBy
  <2> QED BY <2>2, AlikeTaints
<1>5. \A k \in 1..n : f.body[k].kind \in Kinds
  OBVIOUS
<1> HIDE DEF n, start, g1, g2
<1> DEFINE body == f.body
<1> HIDE DEF body
<1>6. g1[0] = start /\ \A k \in 1..n : g1[k] = Step(r, g1[k - 1], ix1, body[k])
  <2>1. Walked(g1, r, ix1, start, body, n)
    BY <1>3 DEF body
  <2> QED BY <1>1, <2>1, WalkedIs
<1>7. g2[0] = start /\ \A k \in 1..n : g2[k] = Step(r, g2[k - 1], ix2, body[k])
  <2>1. Walked(g2, r, ix2, start, body, n)
    BY <1>3 DEF body
  <2> QED BY <1>1, <2>1, WalkedIs
<1> DEFINE Apart == {k \in 0..n : ~ Alike(g1[k], g2[k])}
<1>8. Apart = {}
  <2> SUFFICES ASSUME Apart # {} PROVE FALSE
    OBVIOUS
  <2>1. PICK m \in Apart : \A k \in Apart : m <= k
    <3>1. Apart \subseteq Nat
      BY <1>1
    <3> HIDE DEF Apart
    <3> QED BY <3>1, LeastNumber
  <2>2. m \in 0..n /\ ~ Alike(g1[m], g2[m])
    BY <2>1
  <2>3. m # 0
    BY <1>4, <1>6, <1>7, <2>2
  <2>4. m \in 1..n /\ m - 1 \in 0..n /\ ~ (m <= m - 1)
    BY <1>1, <2>2, <2>3
  <2>5. Alike(g1[m - 1], g2[m - 1])
    BY <2>1, <2>4
  <2>6. Alike(Step(r, g1[m - 1], ix1, f.body[m]), Step(r, g2[m - 1], ix2, f.body[m]))
    BY <1>5, <2>4, <2>5, AlikeVisits DEF Step
  <2> QED BY <1>6, <1>7, <2>2, <2>4, <2>6 DEF body
<1>9. Alike(g1[n], g2[n])
  <2>1. n \in 0..n
    BY <1>1
  <2> QED BY <1>8, <2>1
<1> QED BY <1>2, <1>9 DEF Alike

\* The rules that look into other files.
Looking == {"sql", "exec", "redirect", "ssrf"}
LEMMA ExtractSums ==
  ASSUME rule \in Looking, NEW ix
  PROVE  Extract(rule, project, ix) = Summaries(Rules[rule], project, ix)
<1>1. CASE rule = "sql"
  BY <1>1 DEF Extract, ExtractSql, Rules
<1>2. CASE rule = "exec"
  BY <1>2 DEF Extract, ExtractExec, Rules
<1>3. CASE rule = "redirect"
  BY <1>3 DEF Extract, ExtractRedirect, Rules
<1>4. CASE rule = "ssrf"
  BY <1>4 DEF Extract, ExtractSsrf, Rules
<1> QED BY <1>1, <1>2, <1>3, <1>4 DEF Looking

\* What reaches a sink once a round is over: the parameters whose walk found one.
LEMMA ReachingIs ==
  ASSUME rule \in Looking, NEW ix, NEW f, NEW i
  PROVE  <<f, i>> \in Reaching(Extract(rule, project, ix)) <=>
           f \in DOMAIN project /\ i \in DOMAIN project[f].params /\ Simulate(Rules[rule], project[f], i, ix).found # {}
<1> DEFINE r == Rules[rule]
           next == Summaries(r, project, ix)
<1>1. Extract(rule, project, ix) = next
  BY ExtractSums
<1>2. DOMAIN next = DOMAIN project
  BY DEF Summaries
<1>3. ASSUME NEW n \in DOMAIN project
      PROVE  /\ DOMAIN next[n] = DOMAIN project[n].params
             /\ \A j \in DOMAIN project[n].params : next[n][j].reaches <=> Simulate(r, project[n], j, ix).found # {}
  <2>1. next[n] = Summary(r, project[n], ix)
    BY <1>3 DEF Summaries
  <2>2. DOMAIN Summary(r, project[n], ix) = DOMAIN project[n].params
    BY DEF Summary
  <2>3. ASSUME NEW j \in DOMAIN project[n].params
        PROVE  Summary(r, project[n], ix)[j].reaches <=> Simulate(r, project[n], j, ix).found # {}
    BY DEF Summary
  <2> QED BY <2>1, <2>2, <2>3
<1> HIDE DEF next, r
<1>4. <<f, i>> \in Parameters(next) <=> f \in DOMAIN next /\ i \in DOMAIN next[f]
  BY DEF Parameters
<1>5. <<f, i>> \in Reaching(next) <=> <<f, i>> \in Parameters(next) /\ next[f][i].reaches
  BY DEF Reaching
<1> QED BY <1>1, <1>2, <1>3, <1>4, <1>5 DEF r

LEMMA ReachingArePairs ==
  ASSUME NEW ix
  PROVE  \A p \in Reaching(ix) : p = <<p[1], p[2]>>
BY DEF Reaching, Parameters

\* Reachability is monotonic: a round that knows of no fewer functions finds
\* no fewer, whatever their bodies and whoever calls whom.
THEOREM RoundsAscend ==
  ASSUME rule \in Looking, project \in Projects, NEW ix1, NEW ix2, Below(ix1, ix2)
  PROVE  Below(Extract(rule, project, ix1), Extract(rule, project, ix2))
<1> SUFFICES ASSUME NEW p \in Reaching(Extract(rule, project, ix1))
             PROVE  p \in Reaching(Extract(rule, project, ix2))
  BY DEF Below
<1>1. PICK f, i : p = <<f, i>>
  BY ReachingArePairs
<1>2. f \in DOMAIN project /\ i \in DOMAIN project[f].params /\ Simulate(Rules[rule], project[f], i, ix1).found # {}
  BY <1>1, ReachingIs
<1>3. Len(project[f].body) \in Nat /\ \A k \in 1..Len(project[f].body) : project[f].body[k].kind \in Kinds
  BY <1>2, ReachAssumption
<1>4. Simulate(Rules[rule], project[f], i, ix2).found # {}
  BY <1>2, <1>3, MoreIsFound
<1> QED BY <1>1, <1>2, <1>4, ReachingIs

LEMMA ExtractFinite ==
  ASSUME rule \in {"ssrf", "redirect"}, rule \in RuleNames, project \in Projects, NEW ix
  PROVE  IsFiniteSet(Reaching(Extract(rule, project, ix))) /\ Cardinality(Reaching(Extract(rule, project, ix))) \in Nat
<1> DEFINE next == Extract(rule, project, ix)
<1>1. DOMAIN next = DOMAIN project /\ \A n \in DOMAIN project : DOMAIN next[n] = DOMAIN project[n].params
  BY ExtractIs
<1>2. IsFiniteSet(DOMAIN project) /\ \A n \in DOMAIN project : project[n].params \in Seq(Names)
  BY ReachAssumption
<1>3. ASSUME NEW n \in DOMAIN project PROVE IsFiniteSet(DOMAIN project[n].params)
  <2>1. DOMAIN project[n].params = 1..Len(project[n].params) /\ Len(project[n].params) \in Int /\ 1 \in Int
    BY <1>2
  <2> QED BY <2>1, FS_Interval
<1> HIDE DEF next
<1>4. IsFiniteSet(Reaching(next)) /\ Cardinality(Reaching(next)) \in Nat
  BY <1>1, <1>2, <1>3, ReachingFinite
<1> QED BY <1>4 DEF next

\* What is known is found again by the next round.
FlagsInv == rule \in Looking => Below(index, Extract(rule, project, index))

LEMMA RoundGrows ==
  ASSUME ReachInv, FlagsInv, ExtractRound
  PROVE  FlagsInv'
<1>1. rule \in RuleNames /\ project \in Projects
  BY DEF ReachInv, TypeInv, LoopType
<1> DEFINE next == Extract(rule, project, index)
<1>2. index' = next /\ rule' = rule /\ project' = project
  BY DEF ExtractRound
<1>3. ASSUME rule \in Looking PROVE Below(next, Extract(rule, project, next))
  <2>1. Below(index, next)
    BY <1>3 DEF FlagsInv
  <2> HIDE DEF next
  <2>2. Below(Extract(rule, project, index), Extract(rule, project, next))
    BY <1>1, <1>3, <2>1, RoundsAscend
  <2> QED BY <2>2 DEF next
<1>4. Extract(rule, project, index)' = Extract(rule, project, next)
  BY <1>2
<1> HIDE DEF next
<1>5. Below(index, Extract(rule, project, index))' <=> Below(next, Extract(rule, project, next))
  BY <1>2, <1>4 DEF Below, Reaching, Parameters
<1> QED BY <1>2, <1>3, <1>5 DEF FlagsInv

\* The counting invariant: the signal is the count of what is known, and until
\* a round finds nothing more, each has found one more at least.
Exact == Reaching(Extract(rule, project, index)) = Reaching(index)
CountInv ==
  rule \in {"ssrf", "redirect"} =>
    /\ IsFiniteSet(Reaching(index))
    /\ signal # NoSignal => signal = Cardinality(Reaching(index))
    /\ Exact \/ Cardinality(Reaching(index)) >= round
    /\ phase = "walk" => Exact \/ round = MaxRounds

LEMMA RoundCounts ==
  ASSUME ReachInv, FlagsInv, CountInv, ExtractRound
  PROVE  CountInv'
<1>1. rule \in RuleNames /\ project \in Projects /\ round \in Nat /\ MaxRounds \in Nat
  BY ReachAssumption DEF ReachInv, TypeInv, LoopType
<1> DEFINE next == Extract(rule, project, index)
           after == Extract(rule, project, next)
           counted == ConvergenceSignal(rule, next)
<1>2. /\ index' = next /\ signal' = counted /\ round' = round + 1 /\ rule' = rule /\ project' = project /\ phase = "extract"
      /\ phase' = IF signal = counted \/ round + 1 = MaxRounds THEN "walk" ELSE "extract"
  BY DEF ExtractRound
<1> SUFFICES ASSUME rule \in {"ssrf", "redirect"} PROVE CountInv'
  BY <1>2 DEF CountInv
<1>0. rule \in Looking
  BY DEF Looking
<1>3. /\ IsFiniteSet(Reaching(index)) /\ Below(index, next)
      /\ signal # NoSignal => signal = Cardinality(Reaching(index))
      /\ Exact \/ Cardinality(Reaching(index)) >= round
  BY <1>0 DEF CountInv, FlagsInv
<1>4. Extract(rule, project, index)' = after
  BY <1>2
<1>5. IsFiniteSet(Reaching(next)) /\ Cardinality(Reaching(next)) \in Nat
  BY <1>1, ExtractFinite
<1>6. counted = Cardinality(Reaching(next))
  BY DEF ConvergenceSignal
<1>7. Below(next, after)
  <2> HIDE DEF next
  <2>1. Below(Extract(rule, project, index), Extract(rule, project, next))
    BY <1>0, <1>1, <1>3, RoundsAscend
  <2> QED BY <2>1 DEF next
<1>8. Exact <=> Reaching(next) = Reaching(index)
  BY DEF Exact
<1> HIDE DEF next, after
\* A round that finds no more is followed by none that does.
<1>9. Reaching(next) = Reaching(index) => Reaching(after) = Reaching(next)
  <2> SUFFICES ASSUME Reaching(next) = Reaching(index) PROVE Below(after, next)
    BY <1>7 DEF Below
  <2>1. Below(next, index)
    BY DEF Below
  <2>2. Below(Extract(rule, project, next), Extract(rule, project, index))
    BY <1>0, <1>1, <2>1, RoundsAscend
  <2> QED BY <2>2 DEF next, after
<1>10. /\ Cardinality(Reaching(index)) \in Nat /\ Cardinality(Reaching(index)) <= Cardinality(Reaching(next))
       /\ Cardinality(Reaching(index)) = Cardinality(Reaching(next)) => Reaching(next) = Reaching(index)
  <2>1. Reaching(index) \subseteq Reaching(next)
    BY <1>3 DEF Below
  <2> QED BY <1>3, <1>5, <2>1, FS_Subset, FS_CardinalityType
<1>11. Exact' <=> Reaching(after) = Reaching(next)
  BY <1>2, <1>4 DEF Exact
<1>12. Exact' \/ Cardinality(Reaching(next)) >= round + 1
  <2> SUFFICES ASSUME ~ Exact' PROVE Cardinality(Reaching(next)) >= round + 1
    OBVIOUS
  <2>1. Reaching(next) # Reaching(index)
    BY <1>9, <1>11
  <2>2. Cardinality(Reaching(index)) >= round
    BY <1>3, <1>8, <2>1
  <2> QED BY <1>1, <1>5, <1>10, <2>1, <2>2
<1>13. phase' = "walk" => Exact' \/ round' = MaxRounds
  <2> SUFFICES ASSUME signal = counted PROVE Exact'
    BY <1>2
  <2>1. signal # NoSignal
    BY <1>5, <1>6, ReachAssumption
  <2>2. Reaching(next) = Reaching(index)
    BY <1>3, <1>6, <1>10, <2>1
  <2> QED BY <1>9, <1>11, <2>2
<1>14. Reaching(index)' = Reaching(next)
  BY <1>2 DEF Reaching, Parameters
<1>15. signal' = Cardinality(Reaching(index)')
  BY <1>2, <1>6, <1>14
<1>16. IsFiniteSet(Reaching(index)') /\ (Exact' \/ Cardinality(Reaching(index)') >= round')
  BY <1>2, <1>5, <1>12, <1>14
<1> QED BY <1>13, <1>15, <1>16 DEF CountInv

LEMMA CountStays ==
  ASSUME FlagsInv, CountInv, UNCHANGED loop
  PROVE  FlagsInv' /\ CountInv' /\ Reaching(index)' = Reaching(index)
<1>1. index' = index /\ rule' = rule /\ project' = project /\ signal' = signal /\ round' = round /\ phase' = phase
  BY DEF loop
<1>2. Extract(rule, project, index)' = Extract(rule, project, index)
  BY <1>1
<1>3. Reaching(index)' = Reaching(index) /\ Reaching(Extract(rule, project, index))' = Reaching(Extract(rule, project, index))
  BY <1>1, <1>2 DEF Reaching, Parameters
<1>4. (Exact' <=> Exact) /\ (Below(index, Extract(rule, project, index))' <=> Below(index, Extract(rule, project, index)))
  BY <1>3 DEF Exact, Below
<1> QED BY <1>1, <1>3, <1>4 DEF CountInv, FlagsInv

LEMMA CountSteps ==
  ASSUME ReachInv, FlagsInv, CountInv, [ReachNext]_vars
  PROVE  FlagsInv' /\ CountInv' /\ Reaching(index) \subseteq Reaching(index')
<1>1. CASE ExtractRound
  <2>1. FlagsInv' /\ CountInv'
    BY <1>1, RoundGrows, RoundCounts
  <2>2. index' = Extract(rule, project, index)
    BY <1>1 DEF ExtractRound
  <2>3. Reaching(index) \subseteq Reaching(index')
    <3>1. CASE rule \in Looking
      BY <2>2, <3>1 DEF FlagsInv, Below
    <3>2. CASE rule \notin Looking
      <4>1. DOMAIN index = {}
        BY <3>2 DEF Looking, ReachInv, TypeInv, LoopType
      <4>2. Reaching(index) = {}
        BY <4>1 DEF Reaching, Parameters
      <4> QED BY <4>2
    <3> QED BY <3>1, <3>2
  <2> QED BY <2>1, <2>3
<1>2. CASE ~ ExtractRound
  <2>1. UNCHANGED loop
    BY <1>2 DEF ReachNext, Declare, DestructureObject, AssignVariable, CallSink, CallFunction, If, LoopOrTry, Each, Jump, Else, Close,
         Function, Callback, Leave, Walk, vars
  <2>2. Reaching(index') = Reaching(index)
    BY <2>1 DEF loop
  <2> QED BY <2>1, <2>2, CountStays
<1> QED BY <1>1, <1>2

LEMMA CountBegins == ReachInit => FlagsInv /\ CountInv
<1> SUFFICES ASSUME ReachInit PROVE FlagsInv /\ CountInv
  OBVIOUS
<1>1. phase = "extract" /\ round = 0 /\ signal = NoSignal /\ DOMAIN index = {}
  BY DEF ReachInit
<1>2. Reaching(index) = {}
  BY <1>1 DEF Reaching, Parameters
<1>3. IsFiniteSet({}) /\ Cardinality({}) = 0
  BY FS_EmptySet
<1> QED BY <1>1, <1>2, <1>3 DEF FlagsInv, CountInv, Below

LEMMA AlwaysCounted == ReachSpec => [](FlagsInv /\ CountInv)
<1>1. ReachInit => FlagsInv /\ CountInv
  BY CountBegins
<1>2. (ReachInv /\ Judged /\ BranchInv) /\ FlagsInv /\ CountInv /\ [ReachNext]_vars => (FlagsInv /\ CountInv)'
  BY CountSteps
<1> QED BY <1>1, <1>2, AlwaysJudged, PTL DEF ReachSpec

\* The loop stops only when one more round would find nothing, or when the
\* rounds ran out on as many parameters: whatever the functions and whoever
\* calls whom, equal counts never hide a flag still on its way.
THEOREM CountedFlagsSettle == ReachSpec => []CountedFlagsExact
<1>1. CountInv => CountedFlagsExact
  BY DEF CountInv, CountedFlagsExact, CutShort, Exact
<1> QED BY <1>1, AlwaysCounted, PTL

\* No round takes back what an earlier one found, for the rules whose flags
\* are counted and for those whose are not.
THEOREM FlagsOnlyGrow == ReachSpec => [][Reaching(index) \subseteq Reaching(index')]_vars
<1>1. (ReachInv /\ Judged /\ BranchInv) /\ (FlagsInv /\ CountInv) /\ [ReachNext]_vars => [Reaching(index) \subseteq Reaching(index')]_vars
  BY CountSteps
<1> QED BY <1>1, AlwaysJudged, AlwaysCounted, PTL DEF ReachSpec
=============================================================================
